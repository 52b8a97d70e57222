--------------------------- MODULE BookingInstances ---------------------------
(***************************************************************************)
(* The requests of the small instances, as hours of one day.  early and    *)
(* same start at the same hour and so use one lock key; late overlaps      *)
(* early under another key; abroad asks for the window of same with an     *)
(* offset in its timestamps, and so under a third key; away asks for a     *)
(* field that is not active.                                               *)
(***************************************************************************)
EXTENDS BookingRequests

CONSTANTS early, same, late, away, abroad, pitch, closed, lights, heating, broken

Window(f, s, e, z) == [field |-> f, start |-> s, end |-> e, zone |-> z]

MCSlot(r) ==
  CASE r = early  -> Window(pitch, 1, 3, "naive")
    [] r = same   -> Window(pitch, 1, 2, "naive")
    [] r = late   -> Window(pitch, 2, 4, "naive")
    [] r = abroad -> Window(pitch, 1, 2, "+00:00")
    [] r = away   -> Window(closed, 1, 3, "naive")

MCSlots == [r \in Request |-> MCSlot(r)]

\* early books two utilities; the others book nothing extra.
TwoUtilities == [r \in Request |-> IF r = early THEN {lights, heating} ELSE {}]

OneUtility == [r \in Request |-> IF r = early THEN {lights} ELSE {}]

\* Two votes each: both of early are YES, one of late is NO.
TwoVotes == [r \in Request |->
  CASE r = early -> {lights, heating}
    [] r = late  -> {lights, broken}
    [] OTHER     -> {}]

\* late also asks for a utility that votes NO.
UtilitiesOneRefused == [r \in Request |->
  CASE r = early -> {lights}
    [] r = late  -> {lights, broken}
    [] OTHER     -> {}]

=============================================================================
