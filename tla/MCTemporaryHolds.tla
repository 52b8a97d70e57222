--------------------------- MODULE MCTemporaryHolds ---------------------------
(* Two browsers; one calendar, or those of two places.  Times are in half    *)
(* minutes, slots are half an hour, the day of slots is 08:00 to 09:00.       *)
EXTENDS TemporaryHolds, TLC

CONSTANTS anna, bruno, pitch, court

NoBookings == {}

\* From 06:00 to 07:00, before the first slot: it can be cancelled.
EarlyBooking == {[place |-> court, start |-> 720, end |-> 840]}

\* From 08:15:00 to 08:30:30, on the other place.
OneBooking == {[place |-> pitch, start |-> 990, end |-> 1021]}

\* Browsers differ in nothing but their users.
Browsers == Permutations(User)

=============================================================================
