----------------------------- MODULE LockClients -----------------------------
(***************************************************************************)
(* The requests of the field node as clients of DistributedLock: each one  *)
(* tries once (no retry in the code), works under the lock for as long as  *)
(* it takes, and releases in a finally block.  Redis may fail around       *)
(* either call and the process may be killed while it holds the lock.      *)
(***************************************************************************)
EXTENDS DistributedLock

CONSTANT
  MaxCrashes \* bound on the number of process crashes

VARIABLES
  stage,     \* stage[r]: "idle", "inside", "out" or "dead"
  lapsed,    \* history: the requests whose token expired before they left
  crashes    \* process crashes so far

vars == <<lock, stage, lapsed, crashes>>

Stage == {"idle", "inside", "out", "dead"}

Inside(r) == stage[r] = "inside"

MoveTo(r, s) == stage' = [stage EXCEPT ![r] = s]

Init ==
  /\ LockInit
  /\ stage = [r \in Request |-> "idle"]
  /\ lapsed = {}
  /\ crashes = 0

\* token is not None: the request enters its try block.
Enter(r) ==
  /\ stage[r] = "idle"
  /\ AcquireLock(KeyOf(r), r)
  /\ MoveTo(r, "inside")
  /\ UNCHANGED <<lapsed, crashes>>

\* token is None: the request answers 409 without touching the lock.
Refuse(r) ==
  /\ stage[r] = "idle"
  /\ ~ LockIsFree(KeyOf(r))
  /\ MoveTo(r, "out")
  /\ UNCHANGED <<lock, lapsed, crashes>>

\* Redis stored the token but its reply was lost: acquire() raises before the
\* try block, so nothing will ever release this lock.
EnterUnheard(r) ==
  /\ stage[r] = "idle"
  /\ AcquireLock(KeyOf(r), r)
  /\ MoveTo(r, "out")
  /\ UNCHANGED <<lapsed, crashes>>

\* finally: release.
Leave(r) ==
  /\ Inside(r)
  /\ ReleaseLock(KeyOf(r), r)
  /\ MoveTo(r, "out")
  /\ UNCHANGED <<lapsed, crashes>>

\* The release script never reaches Redis.
LeaveUnheard(r) ==
  /\ Inside(r)
  /\ MoveTo(r, "out")
  /\ UNCHANGED <<lock, lapsed, crashes>>

Expire(k) ==
  /\ ExpireLock(k)
  /\ lapsed' = lapsed \cup {lock[k]}
  /\ UNCHANGED <<stage, crashes>>

\* The process dies with every request it is serving; Redis keeps the keys.
NodeCrash ==
  /\ crashes < MaxCrashes
  /\ \E r \in Request : Inside(r)
  /\ stage' = [r \in Request |-> IF Inside(r) THEN "dead" ELSE stage[r]]
  /\ crashes' = crashes + 1
  /\ UNCHANGED <<lock, lapsed>>

Step(r) == \/ Enter(r) \/ Refuse(r) \/ EnterUnheard(r)
           \/ Leave(r) \/ LeaveUnheard(r)

Next ==
  \/ \E r \in Request : Step(r)
  \/ \E k \in Key : Expire(k)
  \/ NodeCrash

\* Redis deletes an expired key sooner or later; nothing is asked of requests.
Spec == Init /\ [][Next]_vars /\ \A k \in Key : WF_vars(Expire(k))

-----------------------------------------------------------------------------
TypeOK ==
  /\ LockType
  /\ stage \in [Request -> Stage]
  /\ lapsed \in SUBSET Request
  /\ crashes \in Nat
-----------------------------------------------------------------------------

\* A request between acquire() and release() still owns its key unless the
\* 30 s TTL ran out under it: neither a competing SET NX, nor the release of a
\* request that had lost the key, nor a crash can take the lock from it.
HolderOwnsOrLapsed ==
  \A r \in Request : Inside(r) /\ r \notin lapsed => lock[KeyOf(r)] = r

\* As long as no TTL ran out, two requests for one key are never both inside
\* ("Use of distributed locks: ensures only one reservation succeeds per slot").
MutualExclusion ==
  \A r, q \in Request :
    r # q /\ KeyOf(r) = KeyOf(q) /\ Inside(r) /\ Inside(q)
      => r \in lapsed \/ q \in lapsed

\* px "avoids deadlock in case of crash": a token left behind by a dead process
\* or a failed release does not keep the key for ever.
LockIsFreedEventually ==
  \A k \in Key : \A r \in Request : lock[k] = r ~> lock[k] # r

=============================================================================
