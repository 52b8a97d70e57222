------------------------ MODULE TwoPhaseBookingProofs ------------------------
(***************************************************************************)
(* Proofs about TwoPhaseBooking, for any set of requests, windows, wanted  *)
(* utilities, faults and number of crashes.                                *)
(***************************************************************************)
EXTENDS TwoPhaseBooking, TLAPS

LEMMA KeyOfRequest == ASSUME NEW r \in Request PROVE KeyOf(r) \in Key
BY DEF Key

-----------------------------------------------------------------------------
(* Types of the utility node: what each of its operators does to calls.    *)

\* Posting a well-formed call keeps the set of calls well-formed.
LEMMA PostType ==
  ASSUME NEW C, calls \in SUBSET Call(C), NEW o \in Operation,
         NEW t \in Request, NEW c \in C, NEW i \in SUBSET Utility, Post(o, t, c, i)
  PROVE  calls' \in SUBSET Call(C)
<1>1. [op |-> o, txn |-> t, by |-> c, items |-> i, todo |-> i, open |-> TRUE]
        \in Call(C)
  BY DEF Call
<1> QED
  BY <1>1 DEF Post

\* So does every way a call can leave the set or lose its caller.
LEMMA CloseType ==
  ASSUME NEW C, calls \in SUBSET Call(C), NEW m \in calls,
         Close(m) \/ Abandon(m) \/ Lose(m)
  PROVE  calls' \in SUBSET Call(C)
<1>1. [m EXCEPT !.open = FALSE] \in Call(C)
  BY DEF Call
<1> QED
  BY <1>1 DEF Close, Abandon, Lose

\* A handler's step keeps both the rows and the calls well-formed.
LEMMA HandleType ==
  ASSUME NEW C, UtilityNodeType(C), NEW m \in calls, Handle(m)
  PROVE  UtilityNodeType(C)'
<1> USE DEF UtilityNodeType
<1>1. /\ m \in Call(C)
      /\ m.txn \in Request /\ m.todo \in SUBSET Utility
  BY DEF Call
<1>2. ASSUME NEW u \in m.todo, Progress(m, u) PROVE calls' \in SUBSET Call(C)
  <2>1. [m EXCEPT !.todo = m.todo \ {u}] \in Call(C)
    BY <1>1 DEF Call
  <2> QED
    BY <1>2, <2>1 DEF Progress
<1>3. ASSUME NEW u \in m.todo, NEW s \in UtilityStatus, Record(m, u, s)
      PROVE  UtilityNodeType(C)'
  BY <1>1, <1>2, <1>3 DEF Record
<1>4. CASE HandlePrepare(m)
  BY <1>2, <1>3, <1>4 DEF HandlePrepare, UtilityStatus
<1>5. CASE HandleCommit(m)
  BY <1>3, <1>5 DEF HandleCommit, UtilityStatus
<1>6. CASE HandleRollback(m)
  BY <1>3, <1>6 DEF HandleRollback, UtilityStatus
<1> QED
  BY <1>4, <1>5, <1>6 DEF Handle

\* Losing the callers of some calls keeps the others well-formed.
LEMMA OrphanType ==
  ASSUME NEW C, calls \in SUBSET Call(C), NEW D, OrphanCalls(D)
  PROVE  calls' \in SUBSET Call(C)
<1>1. PICK lost \in SUBSET {m \in calls : m.by \in D /\ m.open} :
        calls' = {[m EXCEPT !.open = m.open /\ m.by \notin D] :
                    m \in {n \in calls \ lost : n.by \notin D \/ ~ Answered(n)}}
  BY DEF OrphanCalls
<1>2. ASSUME NEW m \in calls
      PROVE  [m EXCEPT !.open = m.open /\ m.by \notin D] \in Call(C)
  <2>1. m \in Call(C) /\ m.open \in BOOLEAN
    BY DEF Call
  <2> QED
    BY <2>1 DEF Call
<1> QED
  BY <1>1, <1>2

-----------------------------------------------------------------------------
(* Type correctness of the booking service.                                *)

\* TypeOK with room for callers of the utility node and events that come from
\* beside the handlers.
TypeOver(Callers, Events) ==
  /\ LockType /\ FieldBookingsType /\ UtilityNodeType(Callers) /\ PoolType
  /\ pc \in [Request -> Place]
  /\ resp \in [Request -> Answer]
  /\ ids \in [Request -> SUBSET Utility]
  /\ sess \in [Request -> {"none", "pending", "confirmed", "failed", "broken"}]
  /\ txn \in [Request -> [state : TxnState \cup {"none"}, ids : SUBSET Utility]]
  /\ news \in [Request -> Events]
  /\ crashes \in Nat

HandlerEvents == {"none", "confirmed", "failed"}

\* An event keeps the type of the channel.
LEMMA PublishType ==
  ASSUME NEW E, HandlerEvents \subseteq E, news \in [Request -> E], NEW r \in Request,
         Publish(r, "confirmed") \/ Publish(r, "failed")
  PROVE  news' \in [Request -> E]
<1>1. "confirmed" \in E /\ "failed" \in E
  BY DEF HandlerEvents
<1> QED
  BY <1>1 DEF Publish

\* The handler-local helpers keep the types of the variables they assign.
LEMMA RaiseType ==
  ASSUME pc \in [Request -> Place], resp \in [Request -> Answer], NEW r \in Request,
         NEW a \in Answer, NEW i \in SUBSET Utility, Raise(r, a, i)
  PROVE  /\ pc' \in [Request -> Place]
         /\ resp' \in [Request -> Answer]
BY DEF Raise, Reply, Goto, AbortFrom, Place, TxnState

\* A commit and its refresh keep the type of the pool.
LEMMA RefreshType ==
  ASSUME PoolType, NEW r \in Request, NEW W, CommitAndRefresh(r, W)
  PROVE  PoolType'
BY DEF PoolType, CommitAndRefresh, CheckIn

LEMMA ServeType ==
  ASSUME NEW C, Request \subseteq C, NEW E, HandlerEvents \subseteq E,
         TypeOver(C, E), NEW r \in Request, Serve(r)
  PROVE  TypeOver(C, E)'
<1> USE RequestAssumption DEF TypeOver, FieldBookingsType, UtilityNodeType, PoolType,
        tables, node, local, redis, process, Goto, Reply
<1>0. "pending" \in BookingStatus /\ "confirmed" \in BookingStatus
      /\ "failed" \in BookingStatus
  BY DEF BookingStatus
<1>1. CASE LookupField(r)
  <2>1. /\ conn' = conn \/ conn' = conn \cup {r}
        /\ pc' = [pc EXCEPT ![r] = "lock"] \/ pc' = [pc EXCEPT ![r] = "done"]
        /\ resp' = resp \/ \E a \in {"404", "409"} : resp' = [resp EXCEPT ![r] = a]
        /\ UNCHANGED <<lock, fb, reading, ub, calls, ids, sess, txn, news, crashes>>
    BY <1>1 DEF LookupField, CheckOut
  <2>2. resp' \in [Request -> Answer]
    BY <2>1 DEF Answer
  <2>3. pc' \in [Request -> Place] /\ conn' \in SUBSET Request
    BY <2>1 DEF Place
  <2> QED
    BY <2>1, <2>2, <2>3 DEF LockType
<1>19. CASE Refresh(r)
  BY <1>19 DEF Refresh, CheckOut, LockType
<1>2. CASE TakeLock(r)
  BY <1>2, KeyOfRequest DEF TakeLock, AcquireLock, Place, Answer, LockType
<1>3. CASE LockBusy(r)
  BY <1>3 DEF LockBusy, CheckIn, Place, Answer, LockType
<1>4. CASE CheckAvailability(r)
  <2>1. reading' \in SUBSET Request /\ fb' = fb
    BY <1>4 DEF CheckAvailability, QueryFree, QueryTaken, QueryAmbiguous,
                OpenTransaction
  <2>2. pc' \in [Request -> Place] /\ resp' \in [Request -> Answer]
    <3>1. CASE Goto(r, "insert") /\ UNCHANGED resp
      BY <3>1 DEF Place
    <3>2. CASE Raise(r, "409", {}) \/ Raise(r, "500", {})
      BY <3>2, RaiseType DEF Answer
    <3> QED
      BY <1>4, <3>1, <3>2 DEF CheckAvailability
  <2> QED
    BY <1>4, <2>1, <2>2 DEF CheckAvailability, LockType
<1>5. CASE CreatePending(r)
  <2>1. FieldBookingsType'
    BY <1>0, <1>5 DEF CreatePending, InsertPending, SetStatus, EndTransaction
  <2> QED
    BY <1>5, <2>1, RefreshType DEF CreatePending, Place, TxnState, LockType
<1>6. CASE InsertDeadlock(r)
  <2>1. pc' \in [Request -> Place] /\ resp' \in [Request -> Answer]
    BY <1>6, RaiseType DEF InsertDeadlock, Answer
  <2> QED
    BY <1>6, <2>1 DEF InsertDeadlock, InsertRolledBack, EndTransaction, LockType
<1>7. CASE SetTxnState(r)
  <2>1. pc' \in [Request -> Place]
    BY <1>7 DEF SetTxnState, AfterVotes, TxnState, Place
  <2>2. txn' \in [Request -> [state : TxnState \cup {"none"}, ids : SUBSET Utility]]
    BY <1>7 DEF SetTxnState, WriteTxn
  <2> QED
    BY <1>7, <2>1, <2>2 DEF SetTxnState, LockType
<1>8. CASE AskForVote(r)
  <2>1. calls' \in SUBSET Call(C)
    <3>1. PICK u \in Wanted[r] : Post("prepare", r, r, {u})
      BY <1>8 DEF AskForVote
    <3>2. {u} \in SUBSET Utility /\ "prepare" \in Operation
      BY DEF Operation
    <3> QED
      BY <3>1, <3>2, PostType
  <2> QED
    BY <1>8, <2>1 DEF AskForVote, Place, LockType
<1>9. CASE VoteYes(r)
  <2>1. PICK m \in Waiting(r) :
          Close(m) /\ ids' = [ids EXCEPT ![r] = @ \cup m.items]
    BY <1>9 DEF VoteYes
  <2>2. m \in calls /\ m.items \in SUBSET Utility
    BY <2>1 DEF Waiting, Call
  <2>3. calls' \in SUBSET Call(C)
    BY <2>1, <2>2, CloseType
  <2> QED
    BY <1>9, <2>1, <2>2, <2>3 DEF VoteYes, AfterVotes, Place, TxnState, LockType
<1>10. CASE VoteNo(r)
  <2>1. calls' \in SUBSET Call(C)
    BY <1>10, CloseType DEF VoteNo, Waiting
  <2> QED
    BY <1>10, <2>1 DEF VoteNo, AbortFrom, Place, TxnState, LockType
<1>11. CASE ConfirmLocally(r)
  BY <1>0, <1>11, RefreshType DEF ConfirmLocally, SetStatus, CommitFrom, Place, TxnState, LockType
<1>12. CASE SendCommit(r)
  <2>1. calls' \in SUBSET Call(C)
    BY <1>12, PostType DEF SendCommit, Operation
  <2> QED
    BY <1>12, <2>1 DEF SendCommit, Place, LockType
<1>13. CASE SendRollback(r)
  <2>1. calls' \in SUBSET Call(C)
    BY <1>13, PostType DEF SendRollback, Operation
  <2> QED
    BY <1>13, <2>1 DEF SendRollback, Place, LockType
<1>14. CASE Acknowledged(r)
  <2>1. calls' \in SUBSET Call(C)
    BY <1>14, CloseType DEF Acknowledged, Waiting
  <2> QED
    BY <1>14, <2>1 DEF Acknowledged, Place, TxnState, LockType
<1>15. CASE Announce(r)
  <2>1. news' \in [Request -> E]
    BY <1>15, PublishType DEF Announce
  <2> QED
    BY <1>15, <2>1 DEF Announce, Place, Answer, LockType
<1>16. CASE MarkFailed(r)
  <2>1. pc' \in [Request -> Place] /\ resp' \in [Request -> Answer]
    BY <1>16, RaiseType DEF MarkFailed, Answer
  <2>2. fb' \in [Request -> BookingStatus \cup {"none"}]
    <3>1. fb' = fb \/ fb' = [fb EXCEPT ![r] = "failed"]
      BY <1>16 DEF MarkFailed, SetStatus
    <3> QED
      BY <1>0, <3>1
  <2>3. news' \in [Request -> E]
    BY <1>16, PublishType DEF MarkFailed
  <2>4. PoolType'
    BY <1>16, RefreshType DEF MarkFailed
  <2>5. /\ sess' \in [Request -> {"none", "pending", "confirmed", "failed", "broken"}]
        /\ UNCHANGED <<lock, reading, ub, calls, ids, txn, crashes>>
    BY <1>16 DEF MarkFailed
  <2> QED
    BY <2>1, <2>2, <2>3, <2>4, <2>5 DEF LockType
<1>17. CASE MarkFailedRaises(r)
  <2>1. pc' \in [Request -> Place] /\ resp' \in [Request -> Answer]
    BY <1>17, RaiseType DEF MarkFailedRaises, Answer
  <2> QED
    BY <1>17, <2>1 DEF MarkFailedRaises, LockType
<1>18. CASE Release(r)
  BY <1>18, KeyOfRequest DEF Release, ReleaseLock, EndTransaction, CheckIn, Place, LockType
<1> QED
  BY <1>1, <1>2, <1>3, <1>4, <1>5, <1>6, <1>7, <1>8, <1>9, <1>10, <1>11, <1>12,
     <1>13, <1>14, <1>15, <1>16, <1>17, <1>18, <1>19 DEF Serve

LEMMA FaultType ==
  ASSUME NEW C, Request \subseteq C, NEW E, HandlerEvents \subseteq E,
         TypeOver(C, E), NEW r \in Request, Fault(r)
  PROVE  TypeOver(C, E)'
<1> USE DEF TypeOver, FieldBookingsType, UtilityNodeType, PoolType, tables, node, local,
        redis, process, Goto, Reply
<1>0. "pending" \in BookingStatus /\ "confirmed" \in BookingStatus
      /\ "failed" \in BookingStatus
  BY DEF BookingStatus
<1>1. CASE CallFails(r)
  <2>1. calls' \in SUBSET Call(C)
    BY <1>1, CloseType DEF CallFails, Waiting
  <2>2. pc' \in [Request -> Place] /\ resp' \in [Request -> Answer]
    <3>1. CASE Raise(r, "500", ids[r])
      BY <3>1, RaiseType DEF Answer
    <3>2. CASE /\ Goto(r, AbortFrom(ids[r])) \/ Goto(r, "aborted")
               /\ UNCHANGED resp
      BY <3>2 DEF AbortFrom, Place, TxnState
    <3> QED
      BY <1>1, <3>1, <3>2 DEF CallFails
  <2> QED
    BY <1>1, <2>1, <2>2 DEF CallFails, LockType
<1>2. CASE LockFails(r)
  BY <1>2, KeyOfRequest DEF LockFails, AcquireLock, CheckIn, Place, Answer, LockType
<1>3. CASE SetTxnStateFails(r)
  <2>1. pc' \in [Request -> Place] /\ resp' \in [Request -> Answer]
    BY <1>3, RaiseType DEF SetTxnStateFails, Answer
  <2>2. txn' \in [Request -> [state : TxnState \cup {"none"}, ids : SUBSET Utility]]
    <3>1. CASE WriteTxn(r, pc[r], ids[r])
      BY <1>3, <3>1 DEF SetTxnStateFails, WriteTxn
    <3> QED
      BY <1>3, <3>1 DEF SetTxnStateFails
  <2>3. ids' \in [Request -> SUBSET Utility]
    BY <1>3 DEF SetTxnStateFails
  <2> QED
    BY <1>3, <2>1, <2>2, <2>3 DEF SetTxnStateFails, LockType
<1>4. CASE ReleaseFails(r)
  BY <1>4, KeyOfRequest DEF ReleaseFails, ReleaseLock, EndTransaction, CheckIn, Place,
                            Answer, LockType
<1>5. CASE InsertFails(r)
  <2>1. pc' \in [Request -> Place] /\ resp' \in [Request -> Answer]
    BY <1>5, RaiseType DEF InsertFails, Answer
  <2>2. FieldBookingsType'
    BY <1>0, <1>5 DEF InsertFails, InsertPending, InsertRolledBack, SetStatus,
                      EndTransaction
  <2> QED
    BY <1>5, <2>1, <2>2 DEF InsertFails, LockType
<1>6. CASE UpdateFails(r)
  <2>1. pc' \in [Request -> Place] /\ resp' \in [Request -> Answer]
    BY <1>6, RaiseType DEF UpdateFails, Answer
  <2>2. fb' \in [Request -> BookingStatus \cup {"none"}]
    BY <1>0, <1>6 DEF UpdateFails, SetStatus
  <2> QED
    BY <1>6, <2>1, <2>2 DEF UpdateFails, LockType
<1>7. CASE ReadBackFails(r)
  <2>1. news' \in [Request -> E]
    BY <1>7, PublishType DEF ReadBackFails
  <2> QED
    BY <1>7, <2>1 DEF ReadBackFails, Place, Answer, LockType
<1>8. CASE LookupFails(r)
  BY <1>8 DEF LookupFails, Place, Answer, LockType
<1> QED
  BY <1>1, <1>2, <1>3, <1>4, <1>5, <1>6, <1>7, <1>8 DEF Fault

\* What happens without a handler's doing keeps the types, too.
LEMMA EnvironmentType ==
  ASSUME NEW C, NEW E, TypeOver(C, E), NEW D,
         (\E m \in calls : UtilityStep(m)) \/ Expire \/ LateCallLost \/ CrashWith(D)
  PROVE  TypeOver(C, E)'
<1> USE DEF TypeOver, LockType, FieldBookingsType, PoolType, tables, local, redis, process
<1>1. ASSUME NEW m \in calls, UtilityStep(m) PROVE TypeOver(C, E)'
  <2>1. UtilityNodeType(C)'
    BY <1>1, HandleType DEF UtilityStep
  <2> QED
    BY <1>1, <2>1 DEF UtilityStep
<1>2. CASE Expire
  BY <1>2 DEF Expire, ExpireLock, UtilityNodeType, node
<1>3. CASE LateCallLost
  <2>1. calls' \in SUBSET Call(C)
    BY <1>3, CloseType DEF LateCallLost, UtilityNodeType
  <2> QED
    BY <1>3, <2>1 DEF LateCallLost, Lose, UtilityNodeType
<1>4. CASE CrashWith(D)
  <2>1. calls' \in SUBSET Call(C)
    BY <1>4, OrphanType DEF CrashWith, UtilityNodeType
  <2>2. pc' \in [Request -> Place] /\ crashes' \in Nat
    BY <1>4 DEF CrashWith, Place
  <2> QED
    BY <1>4, <2>1, <2>2 DEF CrashWith, UtilityNodeType
<1> QED
  BY <1>1, <1>2, <1>3, <1>4

LEMMA InitType == Init => TypeOK
BY DEF Init, TypeOK, LockType, LockInit, FieldBookingsType, FieldBookingsInit,
       UtilityNodeType, UtilityNodeInit, UtilityStatus, PoolType, PoolInit, Place,
       Answer

\* Every variable of the booking service keeps its type.
THEOREM TypeCorrect == Spec => []TypeOK
<1>1. TypeOK /\ [Next]_vars => TypeOK'
  <2> SUFFICES ASSUME TypeOver(Request, HandlerEvents), [Next]_vars
               PROVE  TypeOver(Request, HandlerEvents)'
    BY DEF TypeOK, TypeOver, HandlerEvents
  <2>1. ASSUME NEW r \in Request, Serve(r) \/ Fault(r)
        PROVE  TypeOver(Request, HandlerEvents)'
    BY <2>1, ServeType, FaultType
  <2>2. CASE (\E m \in calls : UtilityStep(m)) \/ Expire \/ LateCallLost \/ NodeCrash
    BY <2>2, EnvironmentType DEF NodeCrash
  <2>3. CASE UNCHANGED vars
    BY <2>3 DEF vars, tables, node, local, redis, process, TypeOver, LockType,
                FieldBookingsType, UtilityNodeType, PoolType
  <2> QED
    BY <2>1, <2>2, <2>3 DEF Next
<1> QED
  BY <1>1, InitType, PTL DEF Spec

-----------------------------------------------------------------------------
(* Slot exclusion.  That no two overlapping bookings are live is not       *)
(* inductive: it also matters how far each handler has come, and that one  *)
(* about to insert holds the gap locks of a query that found nothing.      *)

Early     == {"idle", "lock", "check", "insert"}
Undecided == {"init", "prepare", "voting", "prepared", "confirm"}
Decided   == {"commit", "committing", "committed", "announce",
              "rollback", "rollingback", "aborted", "fail"}

\* Before the insert there is no row and no booking id in the session; until
\* the local confirmation the row is pending; afterwards there is a row.
RowFollowsHandler ==
  \A r \in Request :
    /\ pc[r] \in Early => fb[r] = "none" /\ sess[r] = "none"
    /\ pc[r] \in Undecided => fb[r] = "pending"
    /\ pc[r] \in Decided => fb[r] # "none"

\* A handler about to insert still has its transaction open and its window
\* still free.
InsertIsCovered ==
  \A r \in Request : pc[r] = "insert" => r \in reading /\ Conflicts(r) = {}

SlotInvariant == TypeOK /\ RowFollowsHandler /\ InsertIsCovered

\* What one step of the service may do to the table.
Takes(r) ==
  /\ fb[r] = "none"
  /\ Conflicts(r) = {}
  /\ ~ LockedByOther(r)
  /\ fb' = [fb EXCEPT ![r] = "pending"]

Confirms(r) ==
  /\ fb[r] = "pending"
  /\ fb' = [fb EXCEPT ![r] = "confirmed"]

Fails(r) ==
  /\ fb[r] # "none"
  /\ fb' = [fb EXCEPT ![r] = "failed"]

RowStep == UNCHANGED fb \/ \E r \in Request : Takes(r) \/ Confirms(r) \/ Fails(r)

\* Overlapping is symmetric.
LEMMA OverlapsSymmetric ==
  ASSUME NEW p \in Request, NEW r \in Request, Overlaps(p, r)
  PROVE  Overlaps(r, p)
BY SlotAssumption DEF Overlaps

\* Every step of a handler, faulty or not, touches the table in one of the
\* three ways, and keeps its row in line with the place it moves to.
LEMMA HandlerStep ==
  ASSUME SlotInvariant, NEW r \in Request, Serve(r) \/ Fault(r)
  PROVE  /\ UNCHANGED fb \/ Takes(r) \/ Confirms(r) \/ Fails(r)
         /\ \A p \in Request \ {r} : pc'[p] = pc[p] /\ sess'[p] = sess[p]
         /\ pc'[r] \in Early => fb'[r] = "none" /\ sess'[r] = "none"
         /\ pc'[r] \in Undecided => fb'[r] = "pending"
         /\ pc'[r] \in Decided => fb'[r] # "none"
         /\ reading \ {r} \subseteq reading'
         /\ pc'[r] = "insert" => r \in reading' /\ Conflicts(r) = {} /\ UNCHANGED fb
<1> USE DEF SlotInvariant, TypeOK, FieldBookingsType, RowFollowsHandler,
        InsertIsCovered, Early, Undecided, Decided, Goto, Reply, Raise, tables, local
<1>1. CASE LookupField(r) \/ TakeLock(r) \/ LockBusy(r)
  BY <1>1 DEF LookupField, TakeLock, LockBusy
<1>18. CASE Refresh(r) \/ LookupFails(r)
  BY <1>18 DEF Refresh, LookupFails
<1>2. CASE CheckAvailability(r)
  BY <1>2 DEF CheckAvailability, QueryFree, QueryTaken, QueryAmbiguous,
              OpenTransaction
<1>3. CASE CreatePending(r)
  BY <1>3 DEF CreatePending, InsertPending, SetStatus, EndTransaction, Takes
<1>4. CASE InsertDeadlock(r)
  BY <1>4 DEF InsertDeadlock, InsertRolledBack, EndTransaction
<1>5. CASE SetTxnState(r)
  BY <1>5 DEF SetTxnState, AfterVotes, TxnState
<1>6. CASE AskForVote(r) \/ VoteYes(r) \/ VoteNo(r)
  BY <1>6 DEF AskForVote, VoteYes, VoteNo, AfterVotes, AbortFrom
<1>7. CASE ConfirmLocally(r)
  BY <1>7 DEF ConfirmLocally, SetStatus, CommitFrom, Confirms
<1>8. CASE SendCommit(r) \/ SendRollback(r) \/ Acknowledged(r)
  BY <1>8 DEF SendCommit, SendRollback, Acknowledged
<1>9. CASE Announce(r) \/ MarkFailedRaises(r)
  BY <1>9 DEF Announce, MarkFailedRaises, AbortFrom
<1>10. CASE MarkFailed(r)
  BY <1>10 DEF MarkFailed, SetStatus, AbortFrom, Fails
<1>11. CASE Release(r)
  BY <1>11 DEF Release, EndTransaction
<1>12. CASE CallFails(r)
  BY <1>12 DEF CallFails, AbortFrom
<1>13. CASE LockFails(r) \/ ReleaseFails(r)
  BY <1>13 DEF LockFails, ReleaseFails, EndTransaction
<1>14. CASE SetTxnStateFails(r)
  BY <1>14 DEF SetTxnStateFails, AbortFrom, TxnState
<1>15. CASE InsertFails(r)
  BY <1>15 DEF InsertFails, InsertPending, InsertRolledBack, SetStatus,
               EndTransaction, Takes
<1>16. CASE UpdateFails(r)
  BY <1>16 DEF UpdateFails, SetStatus, AbortFrom, Confirms, Fails
<1>17. CASE ReadBackFails(r)
  BY <1>17 DEF ReadBackFails
<1> QED
  BY <1>1, <1>2, <1>3, <1>4, <1>5, <1>6, <1>7, <1>8, <1>9, <1>10, <1>11, <1>12,
     <1>13, <1>14, <1>15, <1>16, <1>17, <1>18 DEF Serve, Fault

\* A step of one handler leaves the window of another one about to insert
\* free: an insert into it would have to wait for its gap locks.
LEMMA WindowStaysFree ==
  ASSUME SlotInvariant, NEW r \in Request, NEW p \in Request, p # r,
         UNCHANGED fb \/ Takes(r) \/ Confirms(r) \/ Fails(r),
         p \in reading, Conflicts(p) = {}
  PROVE  Conflicts(p)' = {}
<1> USE DEF SlotInvariant, TypeOK, FieldBookingsType, Conflicts, Live
<1>1. CASE UNCHANGED fb
  BY <1>1 DEF Overlaps
<1>2. CASE Takes(r)
  <2>1. ~ Overlaps(r, p)
    BY <1>2, OverlapsSymmetric DEF Takes, LockedByOther
  <2> QED
    BY <1>2, <2>1 DEF Takes, Overlaps
<1>3. CASE Confirms(r) \/ Fails(r)
  BY <1>3 DEF Confirms, Fails, Overlaps
<1> QED
  BY <1>1, <1>2, <1>3

\* It leaves the rows of the others alone.
LEMMA OtherRows ==
  ASSUME TypeOK, NEW r \in Request, NEW p \in Request, p # r,
         UNCHANGED fb \/ Takes(r) \/ Confirms(r) \/ Fails(r)
  PROVE  fb'[p] = fb[p]
<1>1. fb \in [Request -> BookingStatus \cup {"none"}]
  BY DEF TypeOK, FieldBookingsType
<1> QED
  BY <1>1 DEF Takes, Confirms, Fails

LEMMA SlotInvariantStep ==
  SlotInvariant /\ TypeOK' /\ [Next]_vars => SlotInvariant' /\ RowStep
<1> SUFFICES ASSUME SlotInvariant, TypeOK', [Next]_vars
             PROVE  RowFollowsHandler' /\ InsertIsCovered' /\ RowStep
  BY DEF SlotInvariant
<1>1. ASSUME NEW r \in Request, Serve(r) \/ Fault(r)
      PROVE  RowFollowsHandler' /\ InsertIsCovered' /\ RowStep
  <2>1. RowStep
    BY <1>1, HandlerStep DEF RowStep
  <2>2. \A p \in Request \ {r} : fb'[p] = fb[p]
    BY <1>1, HandlerStep, OtherRows DEF SlotInvariant
  <2>3. RowFollowsHandler'
    <3> SUFFICES ASSUME NEW p \in Request
                 PROVE  /\ pc'[p] \in Early => fb'[p] = "none" /\ sess'[p] = "none"
                        /\ pc'[p] \in Undecided => fb'[p] = "pending"
                        /\ pc'[p] \in Decided => fb'[p] # "none"
      BY DEF RowFollowsHandler, Early, Undecided, Decided
    <3>1. CASE p = r
      BY <1>1, <3>1, HandlerStep
    <3>2. CASE p # r
      BY <1>1, <2>2, <3>2, HandlerStep DEF SlotInvariant, RowFollowsHandler
    <3> QED
      BY <3>1, <3>2
  <2>4. InsertIsCovered'
    <3> SUFFICES ASSUME NEW p \in Request, pc'[p] = "insert"
                 PROVE  p \in reading' /\ Conflicts(p)' = {}
      BY DEF InsertIsCovered
    <3>1. CASE p = r
      BY <1>1, <3>1, HandlerStep DEF Conflicts, Overlaps
    <3>2. CASE p # r
      <4>1. p \in reading /\ Conflicts(p) = {} /\ p \in reading'
        BY <1>1, <3>2, HandlerStep DEF SlotInvariant, InsertIsCovered
      <4> QED
        BY <1>1, <3>2, <4>1, HandlerStep, WindowStaysFree
    <3> QED
      BY <3>1, <3>2
  <2> QED
    BY <2>1, <2>3, <2>4
<1>2. ASSUME UNCHANGED <<fb, reading, pc, sess>>
      PROVE  RowFollowsHandler' /\ InsertIsCovered' /\ RowStep
  BY <1>2 DEF SlotInvariant, RowFollowsHandler, InsertIsCovered, RowStep, Conflicts,
              Overlaps, Early, Undecided, Decided
<1>3. ASSUME NEW m \in calls, UtilityStep(m) PROVE UNCHANGED <<fb, reading, pc, sess>>
  BY <1>3 DEF UtilityStep, tables, local
<1>4. CASE Expire \/ LateCallLost \/ UNCHANGED vars
  BY <1>2, <1>4 DEF Expire, LateCallLost, vars, tables, local
<1>5. CASE NodeCrash
  BY <1>5 DEF NodeCrash, CrashWith, Active, local, SlotInvariant, RowFollowsHandler,
              InsertIsCovered, RowStep, Early, Undecided, Decided, TypeOK
<1> QED
  BY <1>1, <1>2, <1>3, <1>4, <1>5 DEF Next

\* The inductive invariant holds in every behaviour.
THEOREM SlotInvariantHolds == Spec => []SlotInvariant
<1>1. Init => SlotInvariant
  <2>1. Init => RowFollowsHandler /\ InsertIsCovered
    BY DEF Init, FieldBookingsInit, RowFollowsHandler, InsertIsCovered, Early,
           Undecided, Decided
  <2> QED
    BY <2>1, InitType DEF SlotInvariant
<1>2. SlotInvariant /\ TypeOK' /\ [Next]_vars => SlotInvariant'
  BY SlotInvariantStep
<1> QED
  BY <1>1, <1>2, TypeCorrect, PTL DEF Spec

\* No two overlapping bookings are ever both pending or confirmed.
THEOREM SlotExclusion == Spec => []ExclusiveSlots
<1>1. Init => ExclusiveSlots
  BY DEF Init, FieldBookingsInit, ExclusiveSlots, Live
<1>2. SlotInvariant /\ SlotInvariant' /\ ExclusiveSlots /\ [Next]_vars
        => ExclusiveSlots'
  <2> SUFFICES ASSUME SlotInvariant, ExclusiveSlots, RowStep,
                      NEW p \in Request, NEW q \in Request, p # q,
                      fb'[p] \in Live, fb'[q] \in Live, Overlaps(p, q)
               PROVE  FALSE
    BY SlotInvariantStep DEF ExclusiveSlots, SlotInvariant, Live, Overlaps
  <2> USE DEF SlotInvariant, TypeOK, FieldBookingsType, Live
  <2>1. CASE UNCHANGED fb
    BY <2>1 DEF ExclusiveSlots
  <2>2. ASSUME NEW r \in Request, Takes(r) PROVE FALSE
    BY <2>2, OverlapsSymmetric DEF Takes, Conflicts, ExclusiveSlots
  <2>3. ASSUME NEW r \in Request, Confirms(r) \/ Fails(r) PROVE FALSE
    BY <2>3 DEF Confirms, Fails, ExclusiveSlots
  <2> QED
    BY <2>1, <2>2, <2>3 DEF RowStep
<1> QED
  BY <1>1, <1>2, SlotInvariantHolds, PTL DEF Spec

-----------------------------------------------------------------------------
(* The booking service implements the abstract calendar.                   *)

\* A row is live exactly when its slot is taken in the calendar.
LEMMA EntryTaken ==
  ASSUME NEW s \in BookingStatus \cup {"none"}
  PROVE  /\ EntryOf(s) \in Ledger!Taken <=> s \in Live
         /\ EntryOf(s) = "new" <=> s = "none"
         /\ EntryOf(s) = "held" <=> s = "pending"
BY DEF EntryOf, Ledger!Taken, Live, BookingStatus

\* Each kind of change to the table is a step of the calendar, or none.
LEMMA RowStepIsLedgerStep ==
  ASSUME SlotInvariant, RowStep
  PROVE  \/ Ledger!Next
         \/ UNCHANGED [r \in Request |-> EntryOf(fb[r])]
<1> DEFINE cal == [r \in Request |-> EntryOf(fb[r])]
<1>0. fb \in [Request -> BookingStatus \cup {"none"}]
  BY DEF SlotInvariant, TypeOK, FieldBookingsType
<1>1. ASSUME NEW r \in Request, NEW s \in BookingStatus, fb' = [fb EXCEPT ![r] = s]
      PROVE  cal' = [cal EXCEPT ![r] = EntryOf(s)]
  BY <1>0, <1>1
<1>2. \A r \in Request : cal[r] = EntryOf(fb[r])
  OBVIOUS
<1>3. ASSUME NEW s \in {"pending", "confirmed", "failed"}
      PROVE  s \in BookingStatus
  BY DEF BookingStatus
<1>4. CASE UNCHANGED fb
  BY <1>4
<1> HIDE DEF cal
<1>5. ASSUME NEW r \in Request, Takes(r) PROVE Ledger!Hold(r)
  <2>1. cal' = [cal EXCEPT ![r] = "held"]
    BY <1>1, <1>3, <1>5 DEF Takes, EntryOf
  <2>2. cal[r] = "new"
    BY <1>2, <1>5 DEF Takes, EntryOf
  <2>3. ASSUME NEW p \in Request, Overlaps(p, r) PROVE cal[p] \notin Ledger!Taken
    BY <1>0, <1>2, <1>5, <2>3, EntryTaken DEF Takes, Conflicts
  <2> QED
    BY <2>1, <2>2, <2>3 DEF Ledger!Hold, Ledger!Overlaps, Overlaps, cal
<1>6. ASSUME NEW r \in Request, Confirms(r) PROVE Ledger!Sell(r)
  <2>1. cal' = [cal EXCEPT ![r] = "sold"]
    BY <1>1, <1>3, <1>6 DEF Confirms, EntryOf
  <2>2. cal[r] = "held"
    BY <1>2, <1>6 DEF Confirms, EntryOf
  <2> QED
    BY <2>1, <2>2 DEF Ledger!Sell, cal
<1>7. ASSUME NEW r \in Request, Fails(r) PROVE Ledger!GiveBack(r) \/ cal' = cal
  <2>1. cal' = [cal EXCEPT ![r] = "void"]
    BY <1>1, <1>3, <1>7 DEF Fails, EntryOf
  <2>2. cal[r] \in Ledger!Taken \/ cal[r] = "void"
    BY <1>0, <1>2, <1>7 DEF Fails, EntryOf, Ledger!Taken, BookingStatus
  <2>3. CASE cal[r] \in Ledger!Taken
    BY <2>1, <2>3 DEF Ledger!GiveBack, cal
  <2>4. CASE cal[r] = "void"
    <3>1. cal = [q \in Request |-> cal[q]]
      BY DEF cal
    <3> QED
      BY <2>1, <2>4, <3>1
  <2> QED
    BY <2>2, <2>3, <2>4
<1>8. CASE \E r \in Request : Takes(r) \/ Confirms(r) \/ Fails(r)
  BY <1>5, <1>6, <1>7, <1>8 DEF Ledger!Next, cal
<1> QED
  BY <1>4, <1>8 DEF RowStep, cal

\* Under every fault and crash the service implements SlotLedger.
THEOREM LedgerRefinement == Spec => ImplementsLedger
<1>1. Init => Ledger!Init
  BY DEF Init, FieldBookingsInit, Ledger!Init, EntryOf
<1>2. SlotInvariant /\ SlotInvariant' /\ [Next]_vars
        => [Ledger!Next]_([r \in Request |-> EntryOf(fb[r])])
  BY SlotInvariantStep, RowStepIsLedgerStep DEF SlotInvariant
<1> QED
  BY <1>1, <1>2, SlotInvariantHolds, PTL DEF Spec, ImplementsLedger, Ledger!Spec

=============================================================================
