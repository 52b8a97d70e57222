---------------------------- MODULE FieldBookings ----------------------------
(***************************************************************************)
(* The field_bookings table as field_booking_repository.py uses it: one    *)
(* row per request that inserted one, and the row and gap locks MySQL      *)
(* keeps for a transaction that has run SELECT ... FOR UPDATE and has not  *)
(* yet ended.  `reading' is the set of requests with such a transaction.   *)
(***************************************************************************)
EXTENDS BookingRequests

VARIABLES
  fb,        \* fb[r]: status of the row request r inserted, "none" before
  reading    \* requests whose FOR UPDATE transaction is open

BookingStatus == {"pending", "confirmed", "cancelled", "failed"}

\* The statuses check_availability counts as occupying a slot.
Live == {"pending", "confirmed"}

FieldBookingsType ==
  /\ fb \in [Request -> BookingStatus \cup {"none"}]
  /\ reading \in SUBSET Request

FieldBookingsInit ==
  /\ fb = [r \in Request |-> "none"]
  /\ reading = {}

\* Slips in the query: only confirmed rows, or only equal starts, conflict.
ConflictsConfirmedOnly(r) == {p \in Request : fb[p] = "confirmed" /\ Overlaps(p, r)}

ConflictsBySameStart(r) ==
  {p \in Request : fb[p] \in Live /\ KeyOf(p) = KeyOf(r)}

\* The rows the availability query of r returns.
Conflicts(r) == {p \in Request : fb[p] \in Live /\ Overlaps(p, r)}

\* Rows and gaps scanned by another open FOR UPDATE cannot be written.
LockedByOther(r) == \E p \in reading \ {r} : Overlaps(p, r)

\* The query waits for rows that another open transaction has locked.
QueryWaits(r) == \E p \in Conflicts(r) : LockedByOther(p)

OpenTransaction(r) == reading' = reading \cup {r}
EndTransaction(r) == reading' = reading \ {r}

\* The query without FOR UPDATE.
SetStatusUnlocked(r, s) == fb' = [fb EXCEPT ![r] = s]

SetStatus(r, s) ==
  /\ ~ LockedByOther(r)
  /\ fb' = [fb EXCEPT ![r] = s]

\* check_availability, by the number of rows scalar_one_or_none() is given:
\* none means the slot is free, one that it is taken, two raise.
QueryFree(r) ==
  /\ Conflicts(r) = {}
  /\ OpenTransaction(r)
  /\ UNCHANGED fb

QueryTaken(r) ==
  /\ ~ QueryWaits(r)
  /\ \E p \in Conflicts(r) : Conflicts(r) = {p}
  /\ OpenTransaction(r)
  /\ UNCHANGED fb

QueryAmbiguous(r) ==
  /\ ~ QueryWaits(r)
  /\ \E p, q \in Conflicts(r) : p # q
  /\ OpenTransaction(r)
  /\ UNCHANGED fb

\* create_pending: INSERT and COMMIT end the transaction of the query.
InsertPending(r) ==
  /\ SetStatus(r, "pending")
  /\ EndTransaction(r)

\* The insert is the victim of a deadlock: nothing is written.
InsertRolledBack(r) ==
  /\ EndTransaction(r)
  /\ UNCHANGED fb

=============================================================================
