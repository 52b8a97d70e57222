---------------------------- MODULE BookingClaims ----------------------------
(***************************************************************************)
(* Sentences of the repository's documents, comments and tests about the   *)
(* booking protocol that the code does not keep.  Each one is the property *)
(* of a run in which TLC finds a counterexample; README.md tells the story *)
(* of each counterexample.                                                 *)
(***************************************************************************)
EXTENDS BookingRecovery

\* README.md:53-54, "Use of distributed locks: ensures only one reservation
\* succeeds per slot" (and the purpose of check_availability's FOR UPDATE).
OneReservationPerSlot == ExclusiveSlots

\* two_pc_coordinator.py:108-110, "the field booking will be marked FAILED, so
\* no booking will ever turn out to be partially confirmed".
NeverPartlyConfirmed ==
  \A r \in Request :
    fb[r] = "failed" => \A u \in Utility : ub[r][u] # "confirmed"

\* test_fault_tolerance.py:56-57, "the coordinator crashes after PREPARED, the
\* recovery must complete the commit".
PreparedIsConfirmed ==
  \A r \in Request : txn[r].state = "prepared" ~> fb[r] = "confirmed"

=============================================================================
