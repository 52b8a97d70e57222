--------------------------- MODULE DistributedLock ---------------------------
(***************************************************************************)
(* The Redis lock of shared/locks.py: what one SET NX PX, one compare-and- *)
(* delete script and the server's own expiry do to the lock table.         *)
(*                                                                         *)
(* Every acquire() draws a fresh uuid4 and every request calls acquire()   *)
(* once, so a token is identified with the request that drew it.           *)
(***************************************************************************)
EXTENDS BookingRequests

CONSTANT
  Nobody     \* stands for "the key does not exist"

ASSUME NobodyAssumption == Nobody \notin Request

VARIABLE
  lock       \* lock[k] is the request whose token is stored under k

LockType == lock \in [Key -> Request \cup {Nobody}]

LockInit == lock = [k \in Key |-> Nobody]

LockIsFree(k) == lock[k] = Nobody

\* Slips a change to locks.py could make (see README.md, "Mutants").
AcquireStoringKey(k, r) ==
  /\ LockIsFree(k)
  /\ lock' = [lock EXCEPT ![k] = k]

AcquireWithoutNX(k, r) == lock' = [lock EXCEPT ![k] = r]

ReleaseAnyToken(k, r) == lock' = [lock EXCEPT ![k] = Nobody]

ExpireWithoutPX(k) == FALSE /\ UNCHANGED lock

\* acquire() when the key is absent: SET NX stores the token.
AcquireLock(k, r) ==
  /\ LockIsFree(k)
  /\ lock' = [lock EXCEPT ![k] = r]

\* release(): the Lua script deletes the key only if it still holds the
\* caller's token; otherwise it changes nothing.
ReleaseLock(k, r) ==
  lock' = IF lock[k] = r THEN [lock EXCEPT ![k] = Nobody] ELSE lock

\* The PX time to live runs out, whatever the owner is doing.
ExpireLock(k) ==
  /\ ~ LockIsFree(k)
  /\ lock' = [lock EXCEPT ![k] = Nobody]

=============================================================================
