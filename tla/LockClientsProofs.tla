-------------------------- MODULE LockClientsProofs --------------------------
(***************************************************************************)
(* Proofs about LockClients, for any number of requests, keys and crashes. *)
(***************************************************************************)
EXTENDS LockClients, TLAPS

\* Every variable of the lock and of its clients keeps its type.
THEOREM TypeCorrect == Spec => []TypeOK
<1> USE DEF TypeOK, LockType, Stage
<1>1. Init => TypeOK
  BY DEF Init, LockInit
<1>2. TypeOK /\ [Next]_vars => TypeOK'
  <2> SUFFICES ASSUME TypeOK, [Next]_vars PROVE TypeOK'
    OBVIOUS
  <2>1. ASSUME NEW r \in Request, Step(r) PROVE TypeOK'
    BY <2>1 DEF Step, Enter, Refuse, EnterUnheard, Leave, LeaveUnheard,
                AcquireLock, ReleaseLock, MoveTo
  <2>2. ASSUME NEW k \in Key, Expire(k) PROVE TypeOK'
    BY <2>2 DEF Expire, ExpireLock, LockIsFree
  <2>3. CASE NodeCrash
    BY <2>3 DEF NodeCrash
  <2>4. CASE UNCHANGED vars
    BY <2>4 DEF vars
  <2> QED
    BY <2>1, <2>2, <2>3, <2>4 DEF Next
<1> QED
  BY <1>1, <1>2, PTL DEF Spec

\* Every request locks one of the keys of the table.
LEMMA KeyOfRequest == ASSUME NEW r \in Request PROVE KeyOf(r) \in Key
BY DEF Key

\* HolderOwnsOrLapsed is inductive once the types are known: a free key has no
\* rightful holder, so SET NX takes it from nobody, and the compare-and-delete
\* of a request frees only a key that stores that request's own token.
LEMMA HolderOwnsStep ==
  TypeOK /\ HolderOwnsOrLapsed /\ [Next]_vars => HolderOwnsOrLapsed'
<1> SUFFICES ASSUME TypeOK, HolderOwnsOrLapsed, [Next]_vars,
                    NEW q \in Request, Inside(q)', (q \notin lapsed)'
             PROVE  lock'[KeyOf(q)] = q
  BY DEF HolderOwnsOrLapsed
<1> USE NobodyAssumption, KeyOfRequest DEF TypeOK, LockType, Inside, MoveTo
<1>1. ASSUME Inside(q), q \notin lapsed PROVE lock[KeyOf(q)] = q
  BY <1>1 DEF HolderOwnsOrLapsed
<1>2. ASSUME NEW r \in Request, Step(r) PROVE lock'[KeyOf(q)] = q
  <2>1. CASE Enter(r)
    <3>1. CASE q = r
      BY <2>1, <3>1 DEF Enter, AcquireLock
    <3>2. CASE q # r
      BY <1>1, <2>1, <3>2 DEF Enter, AcquireLock, LockIsFree
    <3> QED
      BY <3>1, <3>2
  <2>2. CASE Refuse(r) \/ LeaveUnheard(r)
    BY <1>1, <2>2 DEF Refuse, LeaveUnheard
  <2>3. CASE EnterUnheard(r)
    BY <1>1, <2>3 DEF EnterUnheard, AcquireLock, LockIsFree
  <2>4. CASE Leave(r)
    BY <1>1, <2>4 DEF Leave, ReleaseLock
  <2> QED
    BY <1>2, <2>1, <2>2, <2>3, <2>4 DEF Step
<1>3. ASSUME NEW k \in Key, Expire(k) PROVE lock'[KeyOf(q)] = q
  BY <1>1, <1>3 DEF Expire, ExpireLock
<1>4. CASE NodeCrash
  BY <1>1, <1>4 DEF NodeCrash
<1>5. CASE UNCHANGED vars
  BY <1>1, <1>5 DEF vars
<1> QED
  BY <1>2, <1>3, <1>4, <1>5 DEF Next

\* Until its TTL runs out, a request inside the critical section owns its key.
THEOREM HolderOwns == Spec => []HolderOwnsOrLapsed
<1>1. Init => HolderOwnsOrLapsed
  BY DEF Init, HolderOwnsOrLapsed, Inside
<1> QED
  BY <1>1, TypeCorrect, HolderOwnsStep, PTL DEF Spec

\* Two requests for one key are inside together only if a TTL ran out.
THEOREM Exclusion == Spec => []MutualExclusion
<1>1. HolderOwnsOrLapsed => MutualExclusion
  BY DEF HolderOwnsOrLapsed, MutualExclusion
<1> QED
  BY <1>1, HolderOwns, PTL

=============================================================================
