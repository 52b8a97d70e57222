------------------------------- MODULE SlotGrid -------------------------------
(***************************************************************************)
(* The slots into which app.js divides a day, and its reading of the       *)
(* bookings against the field node's: a browser looks at every slot by     *)
(* itself and at minutes, the server at a range as a whole and at seconds. *)
(***************************************************************************)
EXTENDS Integers, Sequences

CONSTANTS
  Opening,    \* SLOT_START_HOUR
  Closing,    \* SLOT_END_HOUR
  Duration,   \* SLOT_DURATION
  DayLength,  \* twenty-four hours
  Minute      \* one minute: API and table keep times to the second

ASSUME GridAssumption ==
  /\ {Opening, Closing, DayLength} \subseteq Nat
  /\ {Duration, Minute} \subseteq Nat \ {0}
  /\ Opening < Closing
  /\ \A t \in {Opening, Closing, Duration, DayLength} : t % Minute = 0

\* generateTimeSlots: the slots are numbered from 1, the i-th starts at StartOf(i).
StartOf(i) == Opening + (i - 1) * Duration

Calendar == 1 .. ((Closing - Opening + Duration - 1) \div Duration)

\* A selection is empty, one slot, or the ends of a range in the order of the day.
Ranges == {r \in Calendar \X Calendar : r[1] <= r[2]}

Selections == {<<>>} \cup {<<s>> : s \in Calendar} \cup Ranges

\* The slots of a selection; both ends of a range belong to it.
Covered(sel) == IF sel = <<>> THEN {} ELSE sel[1] .. sel[IF Len(sel) = 2 THEN 2 ELSE 1]

\* Slip: the end of the last slot is forgotten.
WindowOfStarts(range) == [start |-> StartOf(range[1]), end |-> StartOf(range[2])]

\* The window confirmBooking asks for: the last slot of the range is in it.
WindowOf(range) ==
  [start |-> StartOf(range[1]), end |-> StartOf(range[2]) + Duration]

\* substring(11, 16) of a time: the day and the seconds are cut off.
ClockOf(t) == ((t % DayLength) \div Minute) * Minute

\* Slip: only the start of the slot is looked at.
IsSlotTakenAtStart(i, b) ==
  /\ StartOf(i) < ClockOf(b.end)
  /\ StartOf(i) >= ClockOf(b.start)

\* isSlotTaken on a booking b that starts on the day shown, of whose end only the
\* time of day is read.
IsSlotTaken(i, b) ==
  /\ StartOf(i) < ClockOf(b.end)
  /\ StartOf(i) + Duration > ClockOf(b.start)

\* checkRangeConflict looks at every slot of the range.
RangeIsTaken(i, j, b) == \E k \in i .. j : IsSlotTaken(k, b)

\* check_availability: the windows b and w overlap.
Overlap(b, w) == b.start < w.end /\ b.end > w.start

\* Booking b ends on the day it starts.
SameDay(b) == {b.start, b.end} \subseteq 0 .. DayLength - 1 /\ b.start < b.end

\* Booking b is over within the first minute of slot i: there is some of it in the
\* slot, but not to the minute.
EndsInFirstMinute(i, b) == StartOf(i) < b.end /\ b.end < StartOf(i) + Minute

=============================================================================
