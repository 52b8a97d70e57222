--------------------------- MODULE BookingRequests ---------------------------
(***************************************************************************)
(* What a booking request carries that the other modules look at: the      *)
(* field, and the half-open window [start, end) it wants on that field, in *)
(* the wall-clock time MySQL stores, with the UTC offset of the timestamp  *)
(* beside it: a DATETIME column drops the offset, the lock key keeps it.   *)
(***************************************************************************)
EXTENDS Integers

CONSTANTS
  Request,   \* the booking requests, each submitted once
  Slot       \* Slot[r] = [field |-> ..., start |-> ..., end |-> ..., zone |-> ...]

\* end_must_be_after_start compares instants, the table wall-clock times: ends
\* given with another offset than the start pass it and may be stored inverted,
\* so nothing is assumed of their order.
SlotAssumption == \A r \in Request : Slot[r].start \in Int /\ Slot[r].end \in Int

ASSUME SlotAssumption

\* The overlap test of check_availability, p being the booked row.
Overlaps(p, r) ==
  /\ Slot[p].field = Slot[r].field
  /\ Slot[p].start < Slot[r].end
  /\ Slot[p].end > Slot[r].start

\* lock_key: the field and the start of the window as isoformat() writes it,
\* offset included, without its end.
KeyOf(r) == <<Slot[r].field, Slot[r].start, Slot[r].zone>>

Key == {KeyOf(r) : r \in Request}

=============================================================================
