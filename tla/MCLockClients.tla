---------------------------- MODULE MCLockClients ----------------------------
(* Three requests for one lock key, which is where the lock matters. *)
EXTENDS LockClients

CONSTANTS a, b, c, pitch

MCSlots ==
  [r \in Request |-> [field |-> pitch, start |-> 1, end |-> 2, zone |-> "naive"]]

=============================================================================
