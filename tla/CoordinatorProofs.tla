-------------------------- MODULE CoordinatorProofs --------------------------
(***************************************************************************)
(* What the coordinator and the answers of the handlers are worth, for any *)
(* set of requests and wanted utilities and any number of crashes: nothing *)
(* is confirmed without all votes, a 201 is true, an error frees the slot. *)
(***************************************************************************)
EXTENDS TwoPhaseBookingProofs

CallsOf(r) == {m \in calls : m.txn = r}

\* A handler calls the utility node for its own transaction only.
OwnCalls == \A m \in calls : m.by \in Request => m.txn = m.by

AllVoted(r) == \A u \in Wanted[r] : ub[r][u] # "none"

\* The places of a handler that knows every vote.
Unanimous == {"prepared", "confirm", "commit", "committing", "committed", "announce"}

\* Something speaks for the commitment of r.
Committal(r) ==
  \/ pc[r] \in Unanimous
  \/ fb[r] = "confirmed"
  \/ txn[r].state = "prepared"
  \/ \E u \in Utility : ub[r][u] = "confirmed"
  \/ \E m \in CallsOf(r) : m.op = "commit"

\* The collected ids are votes, and nothing speaks for a commitment before the
\* last vote is in.
VotesCounted ==
  \A r \in Request :
    /\ \A u \in ids[r] : ub[r][u] # "none"
    /\ Committal(r) => AllVoted(r)

VoteInvariant == OwnCalls /\ VotesCounted

-----------------------------------------------------------------------------
(* What the steps of one handler leave alone.                              *)

\* What a handler does to the calls: nothing, post one, or stop waiting for one.
CallStep(r) ==
  \/ UNCHANGED calls
  \/ \E o \in Operation, i \in SUBSET Utility : Post(o, r, r, i)
  \/ \E m \in Waiting(r) : Close(m) \/ Abandon(m)

\* The steps in which a handler neither calls nor hears from the utility node.
Silent(r) ==
  \/ LookupField(r) \/ Refresh(r) \/ TakeLock(r) \/ LockBusy(r) \/ CheckAvailability(r)
  \/ CreatePending(r) \/ InsertDeadlock(r) \/ SetTxnState(r) \/ ConfirmLocally(r)
  \/ Announce(r) \/ MarkFailed(r) \/ MarkFailedRaises(r) \/ Release(r) \/ LookupFails(r)
  \/ LockFails(r) \/ SetTxnStateFails(r) \/ ReleaseFails(r) \/ InsertFails(r)
  \/ UpdateFails(r) \/ ReadBackFails(r)

LEMMA SilentSteps == ASSUME NEW r \in Request, Silent(r) PROVE UNCHANGED node
BY DEF Silent, LookupField, Refresh, TakeLock, LockBusy, CheckAvailability, CreatePending,
       InsertDeadlock, SetTxnState, ConfirmLocally, Announce, MarkFailed, MarkFailedRaises,
       Release, LookupFails, LockFails, SetTxnStateFails, ReleaseFails, InsertFails,
       UpdateFails, ReadBackFails

LEMMA HandlerSteps ==
  ASSUME NEW r \in Request, Serve(r) \/ Fault(r)
  PROVE  \/ Silent(r)
         \/ AskForVote(r) \/ SendCommit(r) \/ SendRollback(r)
         \/ VoteYes(r) \/ VoteNo(r) \/ Acknowledged(r) \/ CallFails(r)
BY DEF Serve, Fault, Silent

\* Only the utility node writes its rows.
LEMMA HandlerCalls ==
  ASSUME NEW C, NEW E, TypeOver(C, E), NEW r \in Request, Serve(r) \/ Fault(r)
  PROVE  CallStep(r) /\ UNCHANGED ub
<1> USE DEF CallStep, node
<1>0. {"prepare", "commit", "rollback"} \subseteq Operation
  BY DEF Operation
<1>1. CASE AskForVote(r)
  BY <1>0, <1>1, RequestAssumption DEF AskForVote
<1>2. CASE SendCommit(r) \/ SendRollback(r)
  BY <1>0, <1>2 DEF SendCommit, SendRollback, TypeOver
<1>3. CASE VoteYes(r) \/ VoteNo(r) \/ Acknowledged(r) \/ CallFails(r)
  BY <1>3 DEF VoteYes, VoteNo, Acknowledged, CallFails
<1>4. CASE Silent(r)
  BY <1>4, SilentSteps
<1> QED
  BY <1>1, <1>2, <1>3, <1>4, HandlerSteps

\* Calls of other transactions stay as they are, and nobody posts under a
\* name that is not its own.
LEMMA OtherCalls ==
  ASSUME NEW C, NEW E, TypeOver(C, E), OwnCalls, NEW r \in Request, Serve(r) \/ Fault(r)
  PROVE  OwnCalls' /\ \A p \in Request \ {r} : CallsOf(p)' = CallsOf(p)
<1>1. CallStep(r)
  BY HandlerCalls
<1>2. CASE UNCHANGED calls
  BY <1>2 DEF OwnCalls, CallsOf
<1>3. CASE \E o \in Operation, i \in SUBSET Utility : Post(o, r, r, i)
  BY <1>3 DEF Post, OwnCalls, CallsOf
<1>4. ASSUME NEW m \in Waiting(r), Close(m) \/ Abandon(m)
      PROVE  OwnCalls' /\ \A p \in Request \ {r} : CallsOf(p)' = CallsOf(p)
  <2>1. m \in calls /\ m.by = r /\ m.txn = r /\ m \in Call(C)
    BY <1>4 DEF Waiting, OwnCalls, TypeOver, UtilityNodeType
  <2>2. [m EXCEPT !.open = FALSE].txn = r /\ [m EXCEPT !.open = FALSE].by = r
    BY <2>1 DEF Call
  <2> QED
    BY <1>4, <2>1, <2>2 DEF Close, Abandon, OwnCalls, CallsOf
<1> QED
  BY <1>1, <1>2, <1>3, <1>4 DEF CallStep

\* A handler writes the variables of its own request only.
LEMMA OtherHandlers ==
  ASSUME NEW C, NEW E, TypeOver(C, E), NEW r \in Request, Serve(r) \/ Fault(r),
         NEW p \in Request, p # r
  PROVE  /\ pc'[p] = pc[p] /\ resp'[p] = resp[p] /\ ids'[p] = ids[p] /\ sess'[p] = sess[p]
         /\ fb'[p] = fb[p] /\ txn'[p] = txn[p]
<1> USE DEF TypeOver, FieldBookingsType, tables, local, redis, Goto, Reply
<1>1. ASSUME NEW a, NEW i, Raise(r, a, i) PROVE pc'[p] = pc[p] /\ resp'[p] = resp[p]
  BY <1>1 DEF Raise
<1>2. CASE LookupField(r) \/ Refresh(r) \/ LookupFails(r)
  BY <1>2 DEF LookupField, Refresh, LookupFails
<1>3. CASE TakeLock(r) \/ LockBusy(r) \/ LockFails(r)
  BY <1>3 DEF TakeLock, LockBusy, LockFails
<1>4. CASE CheckAvailability(r)
  BY <1>1, <1>4 DEF CheckAvailability, QueryFree, QueryTaken, QueryAmbiguous
<1>5. CASE CreatePending(r) \/ InsertDeadlock(r)
  BY <1>1, <1>5 DEF CreatePending, InsertDeadlock, InsertPending, InsertRolledBack, SetStatus
<1>6. CASE InsertFails(r)
  BY <1>1, <1>6 DEF InsertFails, InsertPending, InsertRolledBack, SetStatus
<1>7. CASE SetTxnState(r)
  BY <1>7 DEF SetTxnState, WriteTxn
<1>8. CASE SetTxnStateFails(r)
  BY <1>1, <1>8 DEF SetTxnStateFails, WriteTxn
<1>9. CASE AskForVote(r) \/ VoteYes(r) \/ VoteNo(r)
  BY <1>9 DEF AskForVote, VoteYes, VoteNo
<1>10. CASE SendCommit(r) \/ SendRollback(r) \/ Acknowledged(r)
  BY <1>10 DEF SendCommit, SendRollback, Acknowledged
<1>11. CASE CallFails(r)
  BY <1>1, <1>11 DEF CallFails
<1>12. CASE ConfirmLocally(r)
  BY <1>12 DEF ConfirmLocally, SetStatus
<1>13. CASE Announce(r) \/ ReadBackFails(r)
  BY <1>13 DEF Announce, ReadBackFails
<1>14. CASE MarkFailed(r) \/ MarkFailedRaises(r)
  BY <1>1, <1>14 DEF MarkFailed, MarkFailedRaises, SetStatus
<1>15. CASE UpdateFails(r)
  BY <1>1, <1>15 DEF UpdateFails, SetStatus
<1>16. CASE Release(r) \/ ReleaseFails(r)
  BY <1>16 DEF Release, ReleaseFails
<1> QED
  BY <1>2, <1>3, <1>4, <1>5, <1>6, <1>7, <1>8, <1>9, <1>10, <1>11, <1>12, <1>13, <1>14,
     <1>15, <1>16 DEF Serve, Fault

-----------------------------------------------------------------------------
(* What happens without a handler's doing.                                 *)

\* Call m is what has become of call n.
Continues(m, n) ==
  /\ m.op = n.op /\ m.txn = n.txn /\ m.by = n.by /\ m.items = n.items
  /\ m.todo \subseteq n.todo
  /\ m.open => n.open

Environment(D) ==
  (\E m \in calls : UtilityStep(m)) \/ Expire \/ LateCallLost \/ CrashWith(D)

\* Calls only get on, get lost or lose their caller; nothing new is called.
LEMMA EnvironmentCalls ==
  ASSUME NEW C, NEW E, TypeOver(C, E), NEW D, Environment(D)
  PROVE  \A m \in calls' : \E n \in calls : Continues(m, n)
<1>0. calls \in SUBSET Call(C)
  BY DEF TypeOver, UtilityNodeType
<1>1. CASE UNCHANGED calls
  BY <1>1 DEF Continues
<1>2. ASSUME NEW m \in calls, NEW u \in m.todo, Progress(m, u)
      PROVE  \A k \in calls' : \E n \in calls : Continues(k, n)
  <2>1. Continues([m EXCEPT !.todo = m.todo \ {u}], m)
    BY <1>0 DEF Call, Continues
  <2>2. \A n \in calls : Continues(n, n)
    BY DEF Continues
  <2> QED
    BY <1>2, <2>1, <2>2 DEF Progress
<1>3. ASSUME NEW m \in calls, UtilityStep(m)
      PROVE  \A k \in calls' : \E n \in calls : Continues(k, n)
  <2>1. \E u \in m.todo : Progress(m, u)
    BY <1>3 DEF UtilityStep, Handle, HandlePrepare, HandleCommit, HandleRollback, Record
  <2> QED
    BY <1>2, <2>1
<1>4. CASE LateCallLost
  BY <1>4 DEF LateCallLost, Lose, Close, Continues
<1>5. CASE CrashWith(D)
  <2>1. PICK Dead : OrphanCalls(Dead)
    BY <1>5 DEF CrashWith
  <2>2. PICK lost \in SUBSET {m \in calls : m.by \in Dead /\ m.open} :
          calls' = {[m EXCEPT !.open = m.open /\ m.by \notin Dead] :
                      m \in {n \in calls \ lost : n.by \notin Dead \/ ~ Answered(n)}}
    BY <2>1 DEF OrphanCalls
  <2>3. ASSUME NEW m \in calls
        PROVE  Continues([m EXCEPT !.open = m.open /\ m.by \notin Dead], m)
    BY <1>0 DEF Call, Continues
  <2> QED
    BY <2>2, <2>3
<1>6. CASE Expire
  BY <1>1, <1>6 DEF Expire, node
<1> QED
  BY <1>3, <1>4, <1>5, <1>6 DEF Environment

\* The utility node changes rows as the calls under way tell it, and never
\* takes one away.
RowsFollowCalls ==
  \A t \in Request, u \in Utility :
    ub'[t][u] = ub[t][u] \/ \E m \in CallsOf(t) :
      /\ u \in m.todo
      /\ ub'[t][u] = CASE m.op = "prepare"  -> "pending"
                       [] m.op = "commit"   -> "confirmed"
                       [] m.op = "rollback" -> "cancelled"

LEMMA EnvironmentRows ==
  ASSUME NEW C, NEW E, TypeOver(C, E), NEW D, Environment(D)
  PROVE  /\ RowsFollowCalls
         /\ \A t \in Request, u \in Utility : ub[t][u] # "none" => ub'[t][u] # "none"
         /\ UNCHANGED <<fb, resp, ids, sess, txn>>
         /\ \A r \in Request : pc'[r] = pc[r] \/ (Active(r) /\ pc'[r] = "dead")
<1> USE DEF TypeOver, UtilityNodeType, tables, local, redis
<1>1. ASSUME NEW m \in calls, UtilityStep(m)
      PROVE  RowsFollowCalls /\ UNCHANGED <<fb, resp, ids, sess, txn, pc>>
  <2>1. m \in Call(C) /\ m.txn \in Request /\ m.todo \subseteq Utility
    BY DEF Call
  <2>2. PICK u \in m.todo :
          \/ ub' = ub
          \/ m.op = "prepare" /\ ub' = [ub EXCEPT ![m.txn][u] = "pending"]
          \/ m.op = "commit" /\ ub' = [ub EXCEPT ![m.txn][u] = "confirmed"]
          \/ m.op = "rollback" /\ ub' = [ub EXCEPT ![m.txn][u] = "cancelled"]
    BY <1>1 DEF UtilityStep, Handle, HandlePrepare, HandleCommit, HandleRollback, Record
  <2>3. m \in CallsOf(m.txn)
    BY DEF CallsOf
  <2>4. ASSUME NEW s, ub' = [ub EXCEPT ![m.txn][u] = s], NEW t \in Request, NEW v \in Utility
        PROVE  ub'[t][v] = ub[t][v] \/ (t = m.txn /\ v = u /\ ub'[t][v] = s)
    BY <2>1, <2>4
  <2>5. ASSUME NEW t \in Request, NEW v \in Utility, ub'[t][v] # ub[t][v]
        PROVE  /\ t = m.txn /\ v = u
               /\ ub'[t][v] = CASE m.op = "prepare"  -> "pending"
                                [] m.op = "commit"   -> "confirmed"
                                [] m.op = "rollback" -> "cancelled"
    BY <2>2, <2>4, <2>5
  <2>6. RowsFollowCalls
    BY <2>3, <2>5 DEF RowsFollowCalls
  <2> QED
    BY <1>1, <2>6 DEF UtilityStep
<1>2. CASE Expire \/ LateCallLost
  BY <1>2 DEF Expire, LateCallLost, Lose, node, RowsFollowCalls
<1>3. CASE CrashWith(D)
  BY <1>3 DEF CrashWith, RowsFollowCalls
<1>4. RowsFollowCalls => \A t \in Request, u \in Utility : ub[t][u] # "none" => ub'[t][u] # "none"
  <2>1. \A m \in calls : m.op \in {"prepare", "commit", "rollback"}
    BY DEF Call, Operation
  <2> QED
    BY <2>1 DEF RowsFollowCalls, CallsOf
<1> QED
  BY <1>1, <1>2, <1>3, <1>4 DEF Environment

-----------------------------------------------------------------------------
(* Nothing is confirmed without every vote.                                *)

\* A handler posts a commit call only when it is about to commit.
LEMMA CommitCalls ==
  ASSUME NEW C, NEW E, TypeOver(C, E), OwnCalls, NEW r \in Request, Serve(r) \/ Fault(r),
         NEW m \in CallsOf(r)', m.op = "commit"
  PROVE  pc[r] = "commit" \/ \E n \in CallsOf(r) : n.op = "commit"
<1>1. CallStep(r)
  BY HandlerCalls
<1>2. CASE UNCHANGED calls
  BY <1>2 DEF CallsOf
<1>3. ASSUME NEW n \in Waiting(r), Close(n) \/ Abandon(n)
      PROVE  \E k \in CallsOf(r) : k.op = "commit"
  <2>1. n \in calls /\ n \in Call(C)
    BY DEF Waiting, TypeOver, UtilityNodeType
  <2>2. /\ [n EXCEPT !.open = FALSE].op = n.op
        /\ [n EXCEPT !.open = FALSE].txn = n.txn
    BY <2>1 DEF Call
  <2> QED
    BY <1>3, <2>1, <2>2 DEF Close, Abandon, CallsOf
<1>4. CASE AskForVote(r) \/ SendRollback(r)
  <2>1. PICK o \in {"prepare", "rollback"} : \E i : Post(o, r, r, i)
    BY <1>4 DEF AskForVote, SendRollback
  <2>2. \A n \in calls' : n.op = "commit" => n \in calls
    BY <2>1 DEF Post
  <2> QED
    BY <2>2 DEF CallsOf
<1>5. CASE SendCommit(r)
  BY <1>5 DEF SendCommit
<1>6. CASE VoteYes(r) \/ VoteNo(r) \/ Acknowledged(r) \/ CallFails(r)
  BY <1>3, <1>6 DEF VoteYes, VoteNo, Acknowledged, CallFails
<1>7. CASE Silent(r)
  BY <1>2, <1>7, SilentSteps DEF node
<1> QED
  BY <1>2, <1>4, <1>5, <1>6, <1>7, HandlerSteps

\* What a step of the handler of r adds to the signs of a commitment of r.
LEMMA NewSigns ==
  ASSUME NEW C, NEW E, TypeOver(C, E), VoteInvariant, NEW r \in Request, Serve(r) \/ Fault(r)
  PROVE  /\ \A u \in ids'[r] : ub[r][u] # "none"
         /\ pc'[r] \in Unanimous => pc[r] \in Unanimous \/ AllVoted(r)
         /\ fb'[r] = "confirmed" => fb[r] = "confirmed" \/ pc[r] \in Unanimous
         /\ txn'[r].state = "prepared" => txn[r].state = "prepared" \/ pc[r] \in Unanimous
<1> USE DEF TypeOver, FieldBookingsType, tables, local, redis, Goto, Unanimous
<1>0. \A u \in ids[r] : ub[r][u] # "none"
  BY DEF VoteInvariant, VotesCounted
<1>1. ASSUME NEW a, NEW i, Raise(r, a, i) PROVE pc'[r] \notin Unanimous
  BY <1>1 DEF Raise, AbortFrom
<1>2. CASE LookupField(r) \/ Refresh(r) \/ LookupFails(r)
  BY <1>0, <1>2 DEF LookupField, Refresh, LookupFails
<1>3. CASE TakeLock(r) \/ LockBusy(r) \/ LockFails(r)
  BY <1>0, <1>3 DEF TakeLock, LockBusy, LockFails
<1>4. CASE CheckAvailability(r)
  BY <1>0, <1>1, <1>4 DEF CheckAvailability, QueryFree, QueryTaken, QueryAmbiguous
<1>5. CASE CreatePending(r) \/ InsertDeadlock(r)
  BY <1>0, <1>1, <1>5 DEF CreatePending, InsertDeadlock, InsertPending, InsertRolledBack, SetStatus
<1>6. CASE InsertFails(r)
  BY <1>0, <1>1, <1>6 DEF InsertFails, InsertPending, InsertRolledBack, SetStatus
<1>7. CASE SetTxnState(r)
  <2>1. CASE pc[r] = "init"
    BY <1>0, <1>7, <2>1 DEF SetTxnState, WriteTxn, AfterVotes, AllVoted
  <2>2. CASE pc[r] # "init"
    BY <1>0, <1>7, <2>2 DEF SetTxnState, WriteTxn, TxnState
  <2> QED
    BY <2>1, <2>2
<1>8. CASE SetTxnStateFails(r)
  BY <1>0, <1>1, <1>8 DEF SetTxnStateFails, WriteTxn
<1>9. CASE AskForVote(r) \/ VoteNo(r)
  BY <1>0, <1>9 DEF AskForVote, VoteNo, AbortFrom
<1>10. CASE VoteYes(r)
  <2>1. PICK m \in Waiting(r) : VotedYes(m) /\ ids' = [ids EXCEPT ![r] = @ \cup m.items]
    BY <1>10 DEF VoteYes
  <2>2. m.txn = r
    BY DEF Waiting, VoteInvariant, OwnCalls
  <2>3. \A u \in ids'[r] : ub[r][u] # "none"
    BY <1>0, <2>1, <2>2 DEF VotedYes
  <2>4. pc'[r] = "prepared" => ids'[r] = Wanted[r]
    BY <1>10 DEF VoteYes, AfterVotes
  <2>5. pc'[r] \in {"prepared", "prepare"}
    BY <1>10 DEF VoteYes, AfterVotes
  <2> QED
    BY <1>10, <2>3, <2>4, <2>5 DEF VoteYes, AllVoted
<1>11. CASE SendCommit(r) \/ SendRollback(r) \/ Acknowledged(r)
  BY <1>0, <1>11 DEF SendCommit, SendRollback, Acknowledged
<1>12. CASE CallFails(r)
  BY <1>0, <1>1, <1>12 DEF CallFails, AbortFrom
<1>13. CASE ConfirmLocally(r)
  BY <1>0, <1>13 DEF ConfirmLocally, SetStatus
<1>14. CASE Announce(r) \/ ReadBackFails(r)
  BY <1>0, <1>14 DEF Announce, ReadBackFails
<1>15. CASE MarkFailed(r) \/ MarkFailedRaises(r)
  BY <1>0, <1>1, <1>15 DEF MarkFailed, MarkFailedRaises, SetStatus
<1>16. CASE UpdateFails(r)
  BY <1>0, <1>1, <1>16 DEF UpdateFails, SetStatus
<1>17. CASE Release(r) \/ ReleaseFails(r)
  BY <1>0, <1>17 DEF Release, ReleaseFails
<1> QED
  BY <1>2, <1>3, <1>4, <1>5, <1>6, <1>7, <1>8, <1>9, <1>10, <1>11, <1>12, <1>13, <1>14,
     <1>15, <1>16, <1>17 DEF Serve, Fault

\* Steps of handlers count votes as they are.
LEMMA HandlersCountVotes ==
  ASSUME NEW C, NEW E, TypeOver(C, E), VoteInvariant, NEW r \in Request, Serve(r) \/ Fault(r)
  PROVE  VoteInvariant'
<1>1. OwnCalls' /\ UNCHANGED ub
  BY OtherCalls, HandlerCalls DEF VoteInvariant
<1>2. ASSUME NEW p \in Request, p # r
      PROVE  (\A u \in ids'[p] : ub'[p][u] # "none") /\ (Committal(p)' => AllVoted(p)')
  <2>1. /\ pc'[p] = pc[p] /\ ids'[p] = ids[p] /\ fb'[p] = fb[p] /\ txn'[p] = txn[p]
        /\ CallsOf(p)' = CallsOf(p)
    BY <1>2, OtherHandlers, OtherCalls DEF VoteInvariant
  <2> QED
    BY <1>1, <2>1 DEF VoteInvariant, VotesCounted, Committal, AllVoted
<1>3. (\A u \in ids'[r] : ub'[r][u] # "none") /\ (Committal(r)' => AllVoted(r)')
  <2>1. Committal(r)' => Committal(r) \/ AllVoted(r)
    <3>1. (\E m \in CallsOf(r)' : m.op = "commit") => Committal(r)
      BY CommitCalls DEF VoteInvariant, Committal, Unanimous
    <3> QED
      BY <1>1, <3>1, NewSigns DEF Committal
  <2> QED
    BY <1>1, <2>1, NewSigns DEF VoteInvariant, VotesCounted, AllVoted
<1> QED
  BY <1>1, <1>2, <1>3 DEF VoteInvariant, VotesCounted

\* So does everything that happens without them.
LEMMA EnvironmentKeepsVotes ==
  ASSUME NEW C, NEW E, TypeOver(C, E), VoteInvariant, NEW D, Environment(D)
  PROVE  VoteInvariant'
<1>1. OwnCalls'
  BY EnvironmentCalls DEF Continues, VoteInvariant, OwnCalls
<1>2. ASSUME NEW r \in Request
      PROVE  (\A u \in ids'[r] : ub'[r][u] # "none") /\ (Committal(r)' => AllVoted(r)')
  <2>1. \A u \in Utility : ub[r][u] # "none" => ub'[r][u] # "none"
    BY EnvironmentRows
  <2>2. ids'[r] = ids[r] /\ ids[r] \subseteq Utility /\ Wanted[r] \subseteq Utility
    BY EnvironmentRows, RequestAssumption DEF TypeOver
  <2>3. AllVoted(r) => AllVoted(r)'
    BY <2>1, <2>2 DEF AllVoted
  <2>4. (\E u \in Utility : ub'[r][u] = "confirmed") => Committal(r)
    <3>1. RowsFollowCalls
      BY EnvironmentRows
    <3>2. \A m \in CallsOf(r) : m.op \in {"prepare", "commit", "rollback"}
      BY DEF TypeOver, UtilityNodeType, Call, Operation, CallsOf
    <3> QED
      BY <3>1, <3>2 DEF RowsFollowCalls, Committal
  <2>5. (\E m \in CallsOf(r)' : m.op = "commit") => Committal(r)
    BY EnvironmentCalls DEF Continues, CallsOf, Committal
  <2>6. Committal(r)' => Committal(r)
    <3>1. fb' = fb /\ txn' = txn /\ (pc'[r] \in Unanimous => pc[r] \in Unanimous)
      BY EnvironmentRows DEF Unanimous
    <3> QED
      BY <2>4, <2>5, <3>1 DEF Committal
  <2> QED
    BY <2>1, <2>2, <2>3, <2>6 DEF VoteInvariant, VotesCounted
<1> QED
  BY <1>1, <1>2 DEF VoteInvariant, VotesCounted

LEMMA InitVotes == Init => VoteInvariant
BY DEF Init, FieldBookingsInit, UtilityNodeInit, VoteInvariant, OwnCalls, VotesCounted,
       Committal, CallsOf, Unanimous

\* What TypeOver says of the booking service alone.
LEMMA OwnTypes == TypeOK => TypeOver(Request, HandlerEvents)
BY DEF TypeOK, TypeOver, HandlerEvents

\* Whatever shows that a transaction commits - the place of its handler, its record, a
\* confirmed row, a commit call - all votes it asked for are in.
THEOREM VoteInvariantHolds == Spec => []VoteInvariant
<1>1. TypeOK /\ VoteInvariant /\ [Next]_vars => VoteInvariant'
  <2> SUFFICES ASSUME TypeOver(Request, HandlerEvents), VoteInvariant, [Next]_vars
               PROVE  VoteInvariant'
    BY OwnTypes
  <2>1. CASE \E r \in Request : Serve(r) \/ Fault(r)
    BY <2>1, HandlersCountVotes
  <2>2. CASE Environment({})
    BY <2>2, EnvironmentKeepsVotes
  <2>3. CASE UNCHANGED vars
    BY <2>3 DEF vars, tables, node, local, redis, VoteInvariant, OwnCalls, VotesCounted,
                Committal, CallsOf, AllVoted
  <2> QED
    BY <2>1, <2>2, <2>3 DEF Next, NodeCrash, Environment
<1> QED
  BY <1>1, InitVotes, TypeCorrect, PTL DEF Spec

\* Whatever fails, however often the process crashes: nothing of a booking is
\* confirmed before every utility it asked for has voted yes.
THEOREM Unanimity == Spec => []UnanimousCommit
<1>1. VoteInvariant => UnanimousCommit
  BY DEF VoteInvariant, VotesCounted, Committal, AllVoted, UnanimousCommit
<1> QED
  BY <1>1, VoteInvariantHolds, PTL

-----------------------------------------------------------------------------
(* A 201 tells the truth.                                                  *)

\* Places at which a handler has no call to the utility node under way, and has
\* left none behind.
Quiet == Early \cup {"init", "prepare", "prepared", "confirm", "commit", "committed", "announce"}

Confirmed(r) ==
  /\ fb[r] = "confirmed"
  /\ \A u \in Wanted[r] : ub[r][u] = "confirmed"

\* On its way to a commit a handler has at most the call it waits for.
OneCall(r) ==
  /\ pc[r] \in Quiet \/ resp[r] = "201" => CallsOf(r) = {}
  /\ pc[r] \in {"voting", "committing"} =>
       /\ \A m, n \in CallsOf(r) : m = n
       /\ \A m \in CallsOf(r) :
            /\ m.by = r /\ m.open
            /\ pc[r] = "voting" => m.op = "prepare" /\ m.items \subseteq Wanted[r]
            /\ pc[r] = "committing" =>
                 /\ m.op = "commit" /\ m.items = ids[r]
                 /\ \A u \in m.items \ m.todo : ub[r][u] = "confirmed"

\* What a handler on its way to a 201 has achieved.
Earned(r) ==
  /\ ids[r] \subseteq Wanted[r]
  /\ pc[r] \in Early \cup {"init"} => ids[r] = {}
  /\ pc[r] \in Unanimous => ids[r] = Wanted[r]
  /\ pc[r] \in {"commit", "committing"} => fb[r] = "confirmed"
  /\ pc[r] \in {"committed", "announce"} => Confirmed(r)
  /\ pc[r] = "announce" => txn[r].state = "committed"
  /\ resp[r] = "201" =>
       pc[r] \in {"release", "done", "dead"} /\ Confirmed(r) /\ txn[r].state = "committed"

AnswerInvariant == OwnCalls /\ \A r \in Request : OneCall(r) /\ Earned(r)

\* The call a handler posts for its own transaction.
NewCall(o, r, i) == [op |-> o, txn |-> r, by |-> r, items |-> i, todo |-> i, open |-> TRUE]

\* Calls of r after each of the things its handler does to them.
LEMMA CallsUnchanged ==
  ASSUME NEW r \in Request, UNCHANGED calls
  PROVE  CallsOf(r)' = CallsOf(r)
BY DEF CallsOf

LEMMA CallsPosted ==
  ASSUME NEW r \in Request, CallsOf(r) = {}, NEW o, NEW i, Post(o, r, r, i)
  PROVE  CallsOf(r)' = {NewCall(o, r, i)}
<1>1. calls' = calls \cup {NewCall(o, r, i)}
  BY DEF Post, NewCall
<1>2. NewCall(o, r, i).txn = r
  BY DEF NewCall
<1> QED
  BY <1>1, <1>2 DEF CallsOf

LEMMA AskPosts ==
  ASSUME NEW r \in Request, CallsOf(r) = {}, AskForVote(r)
  PROVE  \E u \in Wanted[r] \ ids[r] : CallsOf(r)' = {NewCall("prepare", r, {u})}
<1>1. PICK u \in Wanted[r] \ ids[r] : Post("prepare", r, r, {u})
  BY DEF AskForVote
<1>2. CallsOf(r)' = {NewCall("prepare", r, {u})}
  BY <1>1, CallsPosted
<1> QED
  BY <1>2

LEMMA CallsClosed ==
  ASSUME NEW r \in Request, OwnCalls, \A m, n \in CallsOf(r) : m = n,
         NEW m \in Waiting(r), Close(m)
  PROVE  CallsOf(r)' = {} /\ m \in CallsOf(r)
<1>1. m \in CallsOf(r)
  BY DEF Waiting, OwnCalls, CallsOf
<1> QED
  BY <1>1 DEF CallsOf, Close

\* A step of the handler of r keeps what is said of r.
LEMMA HandlerEarns ==
  ASSUME TypeOver(Request, HandlerEvents), AnswerInvariant, NEW r \in Request,
         Serve(r) \/ Fault(r)
  PROVE  OneCall(r)' /\ Earned(r)'
<1>. DEFINE Sound == OwnCalls /\ OneCall(r) /\ Earned(r)
<1>. SUFFICES ASSUME Sound PROVE OneCall(r)' /\ Earned(r)'
  BY DEF AnswerInvariant
<1> USE DEF TypeOver, FieldBookingsType, OneCall, Earned, Confirmed, Quiet,
        Unanimous, Early, tables, local, redis, Goto, Reply
<1>0. ub' = ub
  BY HandlerCalls
<1>1. ASSUME NEW a, NEW i, Raise(r, a, i)
      PROVE  /\ pc'[r] \in {"release", "rollback", "aborted"}
             /\ resp'[r] = resp[r] \/ resp'[r] = a
  BY <1>1 DEF Raise, AbortFrom
<1>2. CASE LookupField(r) \/ Refresh(r) \/ LookupFails(r)
  BY <1>0, <1>2, CallsUnchanged DEF LookupField, Refresh, LookupFails, node
<1>3. CASE TakeLock(r) \/ LockBusy(r) \/ LockFails(r)
  BY <1>0, <1>3, CallsUnchanged DEF TakeLock, LockBusy, LockFails, node
<1>4. CASE CheckAvailability(r)
  BY <1>0, <1>1, <1>4, CallsUnchanged
     DEF CheckAvailability, QueryFree, QueryTaken, QueryAmbiguous, node
<1>5. CASE CreatePending(r) \/ InsertDeadlock(r)
  BY <1>0, <1>1, <1>5, CallsUnchanged
     DEF CreatePending, InsertDeadlock, InsertPending, InsertRolledBack, SetStatus, node
<1>6. CASE InsertFails(r)
  BY <1>0, <1>1, <1>6, CallsUnchanged
     DEF InsertFails, InsertPending, InsertRolledBack, SetStatus, node
<1>7. CASE SetTxnState(r)
  <2>1. CallsOf(r)' = CallsOf(r)
    BY <1>7, CallsUnchanged DEF SetTxnState, node
  <2>2. txn'[r].state = pc[r] /\ UNCHANGED <<fb, resp, ids>>
    BY <1>7 DEF SetTxnState, WriteTxn
  <2>3. CASE pc[r] = "init"
    <3>1. pc'[r] = IF Wanted[r] = {} THEN "prepared" ELSE "prepare"
      BY <1>7, <2>3 DEF SetTxnState, AfterVotes
    <3>2. CallsOf(r) = {} /\ ids[r] = {} /\ resp[r] # "201"
      BY <2>3
    <3> QED
      BY <2>1, <2>2, <3>1, <3>2
  <2>4. CASE pc[r] = "prepared"
    BY <1>0, <1>7, <2>1, <2>2, <2>4 DEF SetTxnState
  <2>5. CASE pc[r] = "committed"
    BY <1>0, <1>7, <2>1, <2>2, <2>5 DEF SetTxnState
  <2>6. CASE pc[r] = "aborted"
    BY <1>0, <1>7, <2>1, <2>2, <2>6 DEF SetTxnState
  <2> QED
    BY <1>7, <2>3, <2>4, <2>5, <2>6 DEF SetTxnState, TxnState
<1>8. CASE SetTxnStateFails(r)
  BY <1>0, <1>1, <1>8, CallsUnchanged DEF SetTxnStateFails, WriteTxn, TxnState, node
<1>9. CASE AskForVote(r)
  <2>1. CallsOf(r) = {}
    BY <1>9 DEF AskForVote
  <2>2. PICK u \in Wanted[r] : CallsOf(r)' = {NewCall("prepare", r, {u})}
    BY <1>9, <2>1, AskPosts
  <2>3. pc[r] = "prepare" /\ pc'[r] = "voting" /\ UNCHANGED <<fb, resp, ids, txn>>
    BY <1>9 DEF AskForVote
  <2>4. OneCall(r)'
    BY <2>2, <2>3 DEF NewCall
  <2> QED
    BY <1>0, <2>3, <2>4
<1>10. CASE VoteYes(r)
  <2>1. PICK m \in Waiting(r) : Close(m) /\ ids' = [ids EXCEPT ![r] = @ \cup m.items]
    BY <1>10 DEF VoteYes
  <2>2. CallsOf(r)' = {} /\ m.items \subseteq Wanted[r]
    BY <1>10, <2>1, CallsClosed DEF VoteYes
  <2>3. pc'[r] = IF ids'[r] = Wanted[r] THEN "prepared" ELSE "prepare"
    BY <1>10 DEF VoteYes, AfterVotes
  <2> QED
    BY <1>0, <1>10, <2>1, <2>2, <2>3 DEF VoteYes
<1>11. CASE VoteNo(r)
  BY <1>0, <1>11 DEF VoteNo, AbortFrom
<1>12. CASE ConfirmLocally(r)
  BY <1>0, <1>12, CallsUnchanged DEF ConfirmLocally, SetStatus, CommitFrom, node
<1>13. CASE SendCommit(r)
  <2>1. CallsOf(r)' = {NewCall("commit", r, ids[r])}
    BY <1>13, CallsPosted DEF SendCommit
  <2> QED
    BY <1>0, <1>13, <2>1 DEF SendCommit, NewCall
<1>14. CASE Acknowledged(r)
  <2>1. CASE pc[r] = "committing"
    <3>1. PICK m \in Waiting(r) : Answered(m) /\ Close(m)
      BY <1>14 DEF Acknowledged
    <3>2. CallsOf(r)' = {} /\ m \in CallsOf(r)
      BY <2>1, <3>1, CallsClosed
    <3>3. \A u \in Wanted[r] : ub[r][u] = "confirmed"
      <4>1. m.items = Wanted[r] /\ m.todo = {}
        BY <2>1, <3>1, <3>2 DEF Answered
      <4>2. \A u \in m.items \ m.todo : ub[r][u] = "confirmed"
        BY <2>1, <3>2
      <4> QED
        BY <4>1, <4>2
    <3>4. pc'[r] = "committed" /\ UNCHANGED <<fb, resp, ids, txn>>
      BY <1>14, <2>1 DEF Acknowledged
    <3>5. OneCall(r)'
      BY <3>2, <3>4
    <3> QED
      BY <1>0, <2>1, <3>3, <3>4, <3>5
  <2>2. CASE pc[r] = "rollingback"
    BY <1>0, <1>14, <2>2 DEF Acknowledged
  <2> QED
    BY <1>14, <2>1, <2>2 DEF Acknowledged
<1>15. CASE SendRollback(r)
  BY <1>0, <1>15 DEF SendRollback
<1>16. CASE CallFails(r)
  <2>1. /\ pc'[r] \in {"release", "rollback", "aborted"}
        /\ resp'[r] = resp[r] \/ resp'[r] = "500"
        /\ UNCHANGED <<fb, ids, txn>>
        /\ pc[r] \in {"voting", "committing", "rollingback"}
    BY <1>1, <1>16 DEF CallFails, AbortFrom
  <2> QED
    BY <1>0, <2>1
<1>17. CASE Announce(r) \/ ReadBackFails(r)
  BY <1>0, <1>17, CallsUnchanged DEF Announce, ReadBackFails, node
<1>18. CASE MarkFailed(r) \/ MarkFailedRaises(r) \/ UpdateFails(r)
  <2>1. /\ pc[r] \in {"fail", "confirm"}
        /\ pc'[r] \in {"release", "rollback", "aborted"}
        /\ resp'[r] = resp[r] \/ resp'[r] \in {"409", "500"}
        /\ UNCHANGED ids
    BY <1>1, <1>18 DEF MarkFailed, MarkFailedRaises, UpdateFails
  <2> QED
    BY <1>0, <2>1
<1>20. CASE Release(r) \/ ReleaseFails(r)
  BY <1>0, <1>20, CallsUnchanged DEF Release, ReleaseFails, node
<1> QED
  BY <1>2, <1>3, <1>4, <1>5, <1>6, <1>7, <1>8, <1>9, <1>10, <1>11, <1>12, <1>13, <1>14,
     <1>15, <1>16, <1>17, <1>18, <1>20 DEF Serve, Fault

\* One more id of call m is dealt with.
LEMMA UtilityProgress ==
  ASSUME NEW C, NEW E, TypeOver(C, E), NEW m \in calls, UtilityStep(m)
  PROVE  \E u \in m.todo :
           /\ \/ calls' = calls \ {m}
              \/ calls' = (calls \ {m}) \cup {[m EXCEPT !.todo = m.todo \ {u}]}
           /\ m.open => calls' = (calls \ {m}) \cup {[m EXCEPT !.todo = m.todo \ {u}]}
           /\ m.op = "commit" => ub'[m.txn][u] = "confirmed"
           /\ m.op = "rollback" => ub'[m.txn][u] = "cancelled"
           /\ \A t \in Request, v \in Utility :
                t # m.txn \/ v # u => ub'[t][v] = ub[t][v]
<1> USE DEF TypeOver, UtilityNodeType
<1>1. m \in Call(C) /\ m.txn \in Request /\ m.todo \subseteq Utility
  BY DEF Call
<1>2. ASSUME NEW u \in m.todo, Progress(m, u)
      PROVE  /\ \/ calls' = calls \ {m}
                \/ calls' = (calls \ {m}) \cup {[m EXCEPT !.todo = m.todo \ {u}]}
             /\ m.open => calls' = (calls \ {m}) \cup {[m EXCEPT !.todo = m.todo \ {u}]}
  <2>1. [m EXCEPT !.todo = m.todo \ {u}].open = m.open
    BY <1>1 DEF Call
  <2> QED
    BY <1>2, <2>1 DEF Progress
<1>3. ASSUME NEW u \in m.todo, NEW s, ub' = [ub EXCEPT ![m.txn][u] = s]
      PROVE  /\ ub'[m.txn][u] = s
             /\ \A t \in Request, v \in Utility :
                  t # m.txn \/ v # u => ub'[t][v] = ub[t][v]
  BY <1>1, <1>3
<1>4. PICK u \in m.todo :
        /\ Progress(m, u)
        /\ \/ m.op = "prepare" /\ (ub' = ub \/ ub' = [ub EXCEPT ![m.txn][u] = "pending"])
           \/ m.op = "commit" /\ ub' = [ub EXCEPT ![m.txn][u] = "confirmed"]
           \/ m.op = "rollback" /\ ub' = [ub EXCEPT ![m.txn][u] = "cancelled"]
  BY DEF UtilityStep, Handle, HandlePrepare, HandleCommit, HandleRollback, Record
<1>5. /\ \/ calls' = calls \ {m}
         \/ calls' = (calls \ {m}) \cup {[m EXCEPT !.todo = m.todo \ {u}]}
      /\ m.open => calls' = (calls \ {m}) \cup {[m EXCEPT !.todo = m.todo \ {u}]}
  BY <1>2, <1>4
<1>6. /\ m.op = "commit" => ub'[m.txn][u] = "confirmed"
      /\ m.op = "rollback" => ub'[m.txn][u] = "cancelled"
      /\ \A t \in Request, v \in Utility :
           t # m.txn \/ v # u => ub'[t][v] = ub[t][v]
  BY <1>3, <1>4
<1> QED
  BY <1>5, <1>6

\* A call somebody waits for does not vanish.
LEMMA OpenCallStays ==
  ASSUME NEW C, NEW E, TypeOver(C, E), NEW D, Environment(D), ~ CrashWith(D),
         NEW r \in Request, NEW n \in CallsOf(r), n.open
  PROVE  \E m \in CallsOf(r)' : Continues(m, n)
<1>0. n \in calls /\ n.txn = r /\ Continues(n, n)
  BY DEF CallsOf, Continues
<1>1. CASE n \in calls'
  BY <1>0, <1>1 DEF CallsOf
<1>2. CASE LateCallLost \/ Expire
  BY <1>0, <1>1, <1>2 DEF LateCallLost, Expire, Lose, Close, node
<1>3. ASSUME NEW m \in calls, UtilityStep(m)
      PROVE  \E k \in CallsOf(r)' : Continues(k, n)
  <2>1. PICK u \in m.todo :
          /\ \/ calls' = calls \ {m}
             \/ calls' = (calls \ {m}) \cup {[m EXCEPT !.todo = m.todo \ {u}]}
          /\ m.open => calls' = (calls \ {m}) \cup {[m EXCEPT !.todo = m.todo \ {u}]}
    BY <1>3, UtilityProgress
  <2>2. CASE m # n
    BY <1>0, <1>1, <2>1, <2>2
  <2>3. CASE m = n
    <3>1. [n EXCEPT !.todo = n.todo \ {u}] \in calls'
      BY <2>1, <2>3
    <3>2. /\ Continues([n EXCEPT !.todo = n.todo \ {u}], n)
          /\ [n EXCEPT !.todo = n.todo \ {u}].txn = r
      BY <1>0 DEF TypeOver, UtilityNodeType, Call, Continues
    <3> QED
      BY <3>1, <3>2 DEF CallsOf
  <2> QED
    BY <2>2, <2>3
<1> QED
  BY <1>2, <1>3 DEF Environment

\* What call m says was done to the ids it has dealt with was done.
Treated(m) ==
  \A u \in m.items \ m.todo :
    /\ m.op = "commit" => ub[m.txn][u] = "confirmed"
    /\ m.op = "rollback" => ub[m.txn][u] = "cancelled"

\* The one call of a transaction gets on with its ids.
LEMMA OneCallGetsOn ==
  ASSUME NEW C, NEW E, TypeOver(C, E), NEW D, Environment(D), ~ CrashWith(D),
         NEW r \in Request, \A m, n \in CallsOf(r) : m = n, \A m \in CallsOf(r) : Treated(m)
  PROVE  /\ \A m, n \in CallsOf(r)' : m = n
         /\ \A m \in CallsOf(r)' :
              Treated(m)' /\ \E n \in CallsOf(r) : Continues(m, n) /\ m.open = n.open
<1> USE DEF Continues
<1>1. CASE CallsOf(r)' \subseteq CallsOf(r) /\ \A u \in Utility : ub'[r][u] = ub[r][u]
  <2>1. \A m \in CallsOf(r) : m.txn = r /\ m.items \subseteq Utility
    BY DEF CallsOf, TypeOver, UtilityNodeType, Call
  <2> QED
    BY <1>1, <2>1 DEF Treated
<1>2. CASE LateCallLost \/ Expire
  BY <1>1, <1>2 DEF LateCallLost, Expire, Lose, Close, CallsOf, node
<1>3. ASSUME NEW m \in calls, UtilityStep(m)
      PROVE  /\ \A k, n \in CallsOf(r)' : k = n
             /\ \A k \in CallsOf(r)' :
                  Treated(k)' /\ \E n \in CallsOf(r) : Continues(k, n) /\ k.open = n.open
  <2>1. PICK u \in m.todo :
          /\ \/ calls' = calls \ {m}
             \/ calls' = (calls \ {m}) \cup {[m EXCEPT !.todo = m.todo \ {u}]}
          /\ m.op = "commit" => ub'[m.txn][u] = "confirmed"
          /\ m.op = "rollback" => ub'[m.txn][u] = "cancelled"
          /\ \A t \in Request, v \in Utility :
               t # m.txn \/ v # u => ub'[t][v] = ub[t][v]
    BY <1>3, UtilityProgress
  <2>2. m \in Call(C)
    BY DEF TypeOver, UtilityNodeType
  <2>. DEFINE k == [m EXCEPT !.todo = m.todo \ {u}]
  <2>3. /\ k.op = m.op /\ k.txn = m.txn /\ k.by = m.by /\ k.items = m.items
        /\ k.open = m.open /\ k.todo = m.todo \ {u} /\ m.items \subseteq Utility
    BY <2>2 DEF Call
  <2>4. calls' \subseteq (calls \ {m}) \cup {k}
    BY <2>1
  <2>. HIDE DEF k
  <2>5. CASE m.txn # r
    <3>1. CallsOf(r)' \subseteq CallsOf(r)
      BY <2>3, <2>4, <2>5 DEF CallsOf
    <3>2. \A v \in Utility : ub'[r][v] = ub[r][v]
      BY <2>1, <2>5
    <3> QED
      BY <1>1, <3>1, <3>2
  <2>6. CASE m.txn = r
    <3>1. CallsOf(r) = {m} /\ m \in CallsOf(r)
      BY <2>6 DEF CallsOf
    <3>2. CallsOf(r)' \subseteq {k}
      BY <2>3, <2>4, <2>6, <3>1 DEF CallsOf
    <3>3. Continues(k, m)
      BY <2>3
    <3>4. Treated(k)'
      <4> SUFFICES ASSUME NEW v \in k.items \ k.todo
                   PROVE  /\ k.op = "commit" => ub'[r][v] = "confirmed"
                          /\ k.op = "rollback" => ub'[r][v] = "cancelled"
        BY <2>3, <2>6 DEF Treated
      <4>1. CASE v = u
        BY <2>1, <2>3, <2>6, <4>1
      <4>2. CASE v # u
        <5>1. v \in m.items \ m.todo /\ v \in Utility
          BY <2>3, <4>2
        <5>2. ub'[r][v] = ub[r][v]
          BY <2>1, <4>2, <5>1
        <5> QED
          BY <2>3, <2>6, <3>1, <5>1, <5>2 DEF Treated
      <4> QED
        BY <4>1, <4>2
    <3> QED
      BY <2>3, <3>1, <3>2, <3>3, <3>4
  <2> QED
    BY <2>5, <2>6
<1> QED
  BY <1>2, <1>3 DEF Environment

\* Where a transaction has no call under way its rows stay as they are.
LEMMA EnvironmentLeaves ==
  ASSUME NEW C, NEW E, TypeOver(C, E), NEW D, Environment(D), NEW r \in Request,
         CallsOf(r) = {}
  PROVE  CallsOf(r)' = {} /\ \A u \in Utility : ub'[r][u] = ub[r][u]
<1>1. CallsOf(r)' = {}
  BY EnvironmentCalls DEF Continues, CallsOf
<1> QED
  BY <1>1, EnvironmentRows DEF RowsFollowCalls

\* The environment keeps what is said of each request.
LEMMA EnvironmentEarns ==
  ASSUME TypeOver(Request, HandlerEvents), AnswerInvariant, NEW D, Environment(D),
         NEW r \in Request
  PROVE  OneCall(r)' /\ Earned(r)'
<1>1. OneCall(r) /\ Earned(r) /\ ids[r] \subseteq Utility /\ Wanted[r] \subseteq Utility
  BY RequestAssumption DEF AnswerInvariant, TypeOver
<1>2. UNCHANGED <<fb, resp, ids, sess, txn>> /\ (pc'[r] = pc[r] \/ (Active(r) /\ pc'[r] = "dead"))
  BY EnvironmentRows
<1>3. CASE pc[r] \in Quiet \/ resp[r] = "201"
  <2>1. CallsOf(r)' = {} /\ \A u \in Utility : ub'[r][u] = ub[r][u]
    BY <1>1, <1>3, EnvironmentLeaves DEF OneCall
  <2> QED
    BY <1>1, <1>2, <1>3, <2>1 DEF OneCall, Earned, Confirmed, Quiet, Unanimous, Early, Active
<1>4. CASE pc[r] \notin Quiet /\ resp[r] # "201" /\ pc'[r] \notin {"voting", "committing"}
  BY <1>1, <1>2, <1>4 DEF OneCall, Earned, Quiet, Unanimous, Early
<1>5. CASE pc'[r] \in {"voting", "committing"} /\ resp[r] # "201"
  <2>1. pc'[r] = pc[r] /\ ~ CrashWith(D)
    BY <1>2, <1>5 DEF CrashWith, Active
  <2>2. Earned(r)'
    BY <1>1, <1>2, <1>5, <2>1 DEF Earned, Unanimous, Early
  <2>3. \A m, n \in CallsOf(r) : m = n
    BY <1>1, <1>5, <2>1 DEF OneCall
  <2>4. \A m \in CallsOf(r) : Treated(m)
    BY <1>1, <1>5, <2>1 DEF OneCall, Treated, CallsOf
  <2>5. /\ \A m, n \in CallsOf(r)' : m = n
        /\ \A m \in CallsOf(r)' :
             Treated(m)' /\ \E n \in CallsOf(r) : Continues(m, n) /\ m.open = n.open
    BY <2>1, <2>3, <2>4, OneCallGetsOn
  <2>6. \A m \in CallsOf(r)' : m.txn = r
    BY DEF CallsOf
  <2>7. OneCall(r)'
    BY <1>1, <1>2, <1>5, <2>1, <2>5, <2>6 DEF OneCall, Treated, Continues, Quiet, Early
  <2> QED
    BY <2>2, <2>7
<1> QED
  BY <1>2, <1>3, <1>4, <1>5

LEMMA InitAnswers == Init => AnswerInvariant
BY DEF Init, FieldBookingsInit, UtilityNodeInit, AnswerInvariant, OwnCalls, OneCall, Earned,
       CallsOf, Unanimous

\* A handler on its way to a 201 has no call left behind and, once it answers, everything
\* that the answer says.
THEOREM AnswerInvariantHolds == Spec => []AnswerInvariant
<1>1. TypeOK /\ AnswerInvariant /\ [Next]_vars => AnswerInvariant'
  <2> SUFFICES ASSUME TypeOver(Request, HandlerEvents), AnswerInvariant, [Next]_vars
               PROVE  AnswerInvariant'
    BY OwnTypes
  <2>1. ASSUME NEW r \in Request, Serve(r) \/ Fault(r) PROVE AnswerInvariant'
    <3>1. OwnCalls' /\ UNCHANGED ub
      BY <2>1, OtherCalls, HandlerCalls DEF AnswerInvariant
    <3>2. ASSUME NEW p \in Request, p # r PROVE OneCall(p)' /\ Earned(p)'
      <4>1. /\ pc'[p] = pc[p] /\ resp'[p] = resp[p] /\ ids'[p] = ids[p]
            /\ fb'[p] = fb[p] /\ txn'[p] = txn[p] /\ CallsOf(p)' = CallsOf(p)
        BY <2>1, <3>2, OtherHandlers, OtherCalls DEF AnswerInvariant
      <4> QED
        BY <3>1, <4>1 DEF AnswerInvariant, OneCall, Earned, Confirmed
    <3>3. OneCall(r)' /\ Earned(r)'
      BY <2>1, HandlerEarns
    <3> QED
      BY <3>1, <3>2, <3>3 DEF AnswerInvariant
  <2>2. CASE Environment({})
    <3>1. OwnCalls'
      BY <2>2, EnvironmentCalls DEF Continues, AnswerInvariant, OwnCalls
    <3> QED
      BY <2>2, <3>1, EnvironmentEarns DEF AnswerInvariant
  <2>3. CASE UNCHANGED vars
    BY <2>3 DEF vars, tables, node, local, redis, AnswerInvariant, OwnCalls, OneCall, Earned,
                CallsOf, Confirmed
  <2> QED
    BY <2>1, <2>2, <2>3 DEF Next, NodeCrash, Environment
<1> QED
  BY <1>1, InitAnswers, TypeCorrect, PTL DEF Spec

\* Without recovery, cancellation and expiry of the record, a 201 is true and stays
\* true: the field and every utility are confirmed, the record says so, and no
\* handler, late call or crash changes any of it.
THEOREM AnswersAreTrue == Spec => []AnswerMatchesOutcome
<1>1. AnswerInvariant => AnswerMatchesOutcome
  BY DEF AnswerInvariant, Earned, Confirmed, AnswerMatchesOutcome
<1> QED
  BY <1>1, AnswerInvariantHolds, PTL

-----------------------------------------------------------------------------
(* A recorded decision is final.                                           *)

Backward == {"rollback", "rollingback", "aborted", "fail"}

\* COMMITTED is recorded by a handler that has only its answer left, ABORTED by
\* one that can only abort.
DecisionFollowsHandler ==
  \A r \in Request :
    /\ txn[r].state = "committed" => pc[r] \in {"announce", "release", "done", "dead"}
    /\ txn[r].state = "aborted" => pc[r] \in Backward \cup {"release", "done", "dead"}

\* Once Redis cannot fail, the handler of r writes over no decision of its own.
LEMMA HandlerKeepsDecision ==
  ASSUME "redis" \notin Faults, NEW C, NEW E, TypeOver(C, E), DecisionFollowsHandler,
         NEW r \in Request, Serve(r) \/ Fault(r)
  PROVE  /\ txn'[r].state = "committed" => pc'[r] \in {"announce", "release", "done", "dead"}
         /\ txn'[r].state = "aborted" => pc'[r] \in Backward \cup {"release", "done", "dead"}
         /\ txn[r].state \in {"committed", "aborted"} => txn'[r].state = txn[r].state
<1> USE DEF TypeOver, DecisionFollowsHandler, Backward, local, redis, Goto
<1>1. ASSUME NEW a, NEW i, Raise(r, a, i) PROVE pc'[r] \in {"release", "rollback", "aborted"}
  BY <1>1 DEF Raise, AbortFrom
<1>2. CASE LookupField(r) \/ Refresh(r) \/ LookupFails(r)
  BY <1>2 DEF LookupField, Refresh, LookupFails
<1>3. CASE TakeLock(r) \/ LockBusy(r) \/ LockFails(r)
  BY <1>3 DEF TakeLock, LockBusy, LockFails
<1>4. CASE CheckAvailability(r) \/ CreatePending(r) \/ InsertDeadlock(r) \/ InsertFails(r)
  BY <1>1, <1>4 DEF CheckAvailability, CreatePending, InsertDeadlock, InsertFails
<1>5. CASE SetTxnState(r)
  <2>1. /\ pc[r] \in TxnState /\ txn'[r].state = pc[r]
        /\ pc[r] = "init" => pc'[r] \in {"prepare", "prepared"}
        /\ pc[r] = "prepared" => pc'[r] = "confirm"
        /\ pc[r] = "committed" => pc'[r] = "announce"
        /\ pc[r] = "aborted" => pc'[r] = "fail"
    BY <1>5 DEF SetTxnState, WriteTxn, AfterVotes
  <2> QED
    BY <2>1 DEF TxnState
<1>6. CASE SetTxnStateFails(r) \/ ReleaseFails(r)
  BY <1>6 DEF SetTxnStateFails, ReleaseFails
<1>7. CASE AskForVote(r) \/ VoteYes(r) \/ VoteNo(r)
  BY <1>7 DEF AskForVote, VoteYes, VoteNo
<1>8. CASE SendCommit(r) \/ SendRollback(r) \/ Acknowledged(r)
  BY <1>8 DEF SendCommit, SendRollback, Acknowledged
<1>9. CASE CallFails(r)
  BY <1>1, <1>9 DEF CallFails
<1>10. CASE ConfirmLocally(r)
  BY <1>10 DEF ConfirmLocally
<1>11. CASE Announce(r) \/ ReadBackFails(r) \/ Release(r)
  BY <1>11 DEF Announce, ReadBackFails, Release
<1>12. CASE MarkFailed(r) \/ MarkFailedRaises(r) \/ UpdateFails(r)
  BY <1>1, <1>12 DEF MarkFailed, MarkFailedRaises, UpdateFails
<1> QED
  BY <1>2, <1>3, <1>4, <1>5, <1>6, <1>7, <1>8, <1>9, <1>10, <1>11, <1>12 DEF Serve, Fault

LEMMA DecisionStep ==
  ASSUME "redis" \notin Faults, TypeOK, DecisionFollowsHandler, [Next]_vars
  PROVE  /\ DecisionFollowsHandler'
         /\ \A r \in Request :
              txn[r].state \in {"committed", "aborted"} => txn'[r].state = txn[r].state
<1>0. TypeOver(Request, HandlerEvents)
  BY OwnTypes
<1>1. ASSUME NEW r \in Request, Serve(r) \/ Fault(r)
      PROVE  /\ DecisionFollowsHandler'
             /\ \A p \in Request :
                  txn[p].state \in {"committed", "aborted"} => txn'[p].state = txn[p].state
  <2>1. \A p \in Request \ {r} : pc'[p] = pc[p] /\ txn'[p] = txn[p]
    BY <1>0, <1>1, OtherHandlers
  <2> QED
    BY <1>0, <1>1, <2>1, HandlerKeepsDecision DEF DecisionFollowsHandler
<1>2. CASE Environment({})
  BY <1>0, <1>2, EnvironmentRows DEF DecisionFollowsHandler
<1>3. CASE UNCHANGED vars
  BY <1>3 DEF vars, redis, DecisionFollowsHandler
<1> QED
  BY <1>1, <1>2, <1>3 DEF Next, NodeCrash, Environment

\* While Redis answers, neither the second rollback pass nor a late call nor a
\* crash turns a recorded decision into the other one.
THEOREM DecisionsAreFinal ==
  ASSUME "redis" \notin Faults
  PROVE  Spec => DecisionIsFinal
<1>1. Init => DecisionFollowsHandler
  <2>. SUFFICES ASSUME Init, NEW r \in Request
                PROVE  txn[r].state \notin {"committed", "aborted"}
    BY DEF DecisionFollowsHandler
  <2>1. txn[r] = [state |-> "none", ids |-> {}]
    BY DEF Init
  <2> QED
    BY <2>1
<1>2. TypeOK /\ DecisionFollowsHandler /\ [Next]_vars => DecisionFollowsHandler'
  BY DecisionStep
<1>3. TypeOK /\ DecisionFollowsHandler /\ [Next]_vars
        => [\A r \in Request : txn[r].state \in {"committed", "aborted"}
                                 => txn'[r].state = txn[r].state]_vars
  BY DecisionStep
<1> QED
  BY <1>1, <1>2, <1>3, TypeCorrect, PTL DEF Spec, DecisionIsFinal

-----------------------------------------------------------------------------
(* An error answer frees the slot.                                         *)

Forward == Undecided \cup {"commit", "committing", "committed", "announce"}

\* An answer is decided only behind the last step forward, and a session that
\* gets this far knows of its row.
AnswerIsOpen ==
  \A r \in Request :
    /\ pc[r] \in Early \cup Forward => resp[r] = "none"
    /\ pc[r] \in {"release", "done"} => resp[r] # "none"
    /\ pc[r] \in Forward \cup Backward => sess[r] # "none"

\* Without failures of Redis and the database, a refused request has marked its
\* row as failed when it gets to the end.
RefusalIsMarked ==
  \A r \in Request :
    /\ sess[r] # "broken"
    /\ sess[r] = "failed" => fb[r] = "failed"
    /\ pc[r] \in {"release", "done"} /\ resp[r] # "201" => fb[r] \notin Live

\* An exception gives an answer if there is none yet, and turns back only a
\* handler whose session knows of a row.
LEMMA RaiseAnswers ==
  ASSUME SlotInvariant, NEW r \in Request, NEW a, a # "none", NEW i, Raise(r, a, i)
  PROVE  /\ pc'[r] \in {"release"} \cup Backward
         /\ resp'[r] # "none"
         /\ pc'[r] \in Backward => sess[r] # "none" /\ resp[r] = "none"
         /\ pc'[r] = "release" => sess[r] = "none" \/ resp[r] # "none"
BY DEF Raise, AbortFrom, Goto, Reply, Backward, SlotInvariant, TypeOK

LEMMA HandlerKeepsAnswerOpen ==
  ASSUME SlotInvariant, AnswerIsOpen, NEW r \in Request, Serve(r) \/ Fault(r)
  PROVE  /\ pc'[r] \in Early \cup Forward => resp'[r] = "none"
         /\ pc'[r] \in {"release", "done"} => resp'[r] # "none"
         /\ pc'[r] \in Forward \cup Backward => sess'[r] # "none"
<1> USE DEF SlotInvariant, TypeOK, RowFollowsHandler, AnswerIsOpen, Forward, Backward, Early,
        Undecided, local, Goto, Reply
<1>1. ASSUME NEW a, a # "none", NEW i, Raise(r, a, i)
      PROVE  /\ pc'[r] \in {"release"} \cup Backward /\ resp'[r] # "none"
             /\ pc'[r] \in Backward => sess[r] # "none"
  BY <1>1, RaiseAnswers
<1>2. CASE LookupField(r) \/ Refresh(r) \/ LookupFails(r)
  BY <1>2 DEF LookupField, Refresh, LookupFails
<1>3. CASE TakeLock(r) \/ LockBusy(r) \/ LockFails(r)
  BY <1>3 DEF TakeLock, LockBusy, LockFails
<1>4. CASE CheckAvailability(r)
  BY <1>1, <1>4 DEF CheckAvailability
<1>5. CASE CreatePending(r)
  BY <1>5 DEF CreatePending
<1>6. CASE InsertDeadlock(r) \/ InsertFails(r)
  BY <1>1, <1>6 DEF InsertDeadlock, InsertFails
<1>7. CASE SetTxnState(r)
  BY <1>7 DEF SetTxnState, AfterVotes, TxnState
<1>8. CASE SetTxnStateFails(r)
  BY <1>1, <1>8 DEF SetTxnStateFails
<1>9. CASE AskForVote(r) \/ VoteYes(r) \/ VoteNo(r)
  BY <1>9 DEF AskForVote, VoteYes, VoteNo, AfterVotes, AbortFrom
<1>10. CASE SendCommit(r) \/ SendRollback(r) \/ Acknowledged(r)
  BY <1>10 DEF SendCommit, SendRollback, Acknowledged
<1>11. CASE CallFails(r)
  BY <1>1, <1>11 DEF CallFails, AbortFrom
<1>12. CASE ConfirmLocally(r)
  BY <1>12 DEF ConfirmLocally, CommitFrom
<1>13. CASE Announce(r) \/ ReadBackFails(r)
  BY <1>13 DEF Announce, ReadBackFails
<1>14. CASE MarkFailed(r) \/ MarkFailedRaises(r) \/ UpdateFails(r)
  BY <1>1, <1>14 DEF MarkFailed, MarkFailedRaises, UpdateFails
<1>15. CASE Release(r) \/ ReleaseFails(r)
  BY <1>15 DEF Release, ReleaseFails
<1> QED
  BY <1>2, <1>3, <1>4, <1>5, <1>6, <1>7, <1>8, <1>9, <1>10, <1>11, <1>12, <1>13, <1>14,
     <1>15 DEF Serve, Fault

LEMMA AnswerIsOpenStep ==
  ASSUME SlotInvariant, AnswerIsOpen, [Next]_vars
  PROVE  AnswerIsOpen'
<1>0. TypeOver(Request, HandlerEvents)
  BY OwnTypes DEF SlotInvariant
<1>1. ASSUME NEW r \in Request, Serve(r) \/ Fault(r) PROVE AnswerIsOpen'
  <2>1. \A p \in Request \ {r} : pc'[p] = pc[p] /\ resp'[p] = resp[p] /\ sess'[p] = sess[p]
    BY <1>0, <1>1, OtherHandlers
  <2>2. /\ pc'[r] \in Early \cup Forward => resp'[r] = "none"
        /\ pc'[r] \in {"release", "done"} => resp'[r] # "none"
        /\ pc'[r] \in Forward \cup Backward => sess'[r] # "none"
    BY <1>1, HandlerKeepsAnswerOpen
  <2> QED
    BY <2>1, <2>2 DEF AnswerIsOpen, Early, Forward, Undecided, Backward
<1>2. CASE Environment({})
  BY <1>0, <1>2, EnvironmentRows
     DEF AnswerIsOpen, Early, Forward, Undecided, Backward
<1>3. CASE UNCHANGED vars
  BY <1>3 DEF vars, local, AnswerIsOpen, Early, Forward, Undecided, Backward
<1> QED
  BY <1>1, <1>2, <1>3 DEF Next, NodeCrash, Environment

\* No answer is decided before the end of the forward path, and none is left open when
\* the handler is done.
THEOREM AnswerIsOpenHolds == Spec => []AnswerIsOpen
<1>1. Init => AnswerIsOpen
  BY DEF Init, AnswerIsOpen, Forward, Backward, Undecided
<1>2. SlotInvariant /\ AnswerIsOpen /\ [Next]_vars => AnswerIsOpen'
  BY AnswerIsOpenStep
<1> QED
  BY <1>1, <1>2, SlotInvariantHolds, PTL DEF Spec

\* Only failed calls are left to go wrong: a handler that ends with an error has
\* inserted nothing or has written FAILED over it.
LEMMA HandlerMarksRefusal ==
  ASSUME "redis" \notin Faults, "db" \notin Faults, SlotInvariant, AnswerIsOpen,
         RefusalIsMarked, NEW r \in Request, Serve(r) \/ Fault(r)
  PROVE  /\ sess'[r] # "broken"
         /\ sess'[r] = "failed" => fb'[r] = "failed"
         /\ pc'[r] \in {"release", "done"} /\ resp'[r] # "201" => fb'[r] \notin Live
<1> USE DEF SlotInvariant, TypeOK, FieldBookingsType, RowFollowsHandler, AnswerIsOpen,
        RefusalIsMarked, Forward, Backward, Early, Undecided, Live, tables, local, Goto, Reply
<1>1. ASSUME NEW a, a # "none", NEW i, Raise(r, a, i)
      PROVE  /\ pc'[r] \in {"release"} \cup Backward
             /\ pc'[r] = "release" => sess[r] = "none" \/ resp[r] # "none"
  BY <1>1, RaiseAnswers
<1>2. CASE LookupField(r) \/ Refresh(r) \/ LookupFails(r)
  BY <1>2 DEF LookupField, Refresh, LookupFails
<1>3. CASE TakeLock(r) \/ LockBusy(r)
  BY <1>3 DEF TakeLock, LockBusy
<1>4. CASE CheckAvailability(r)
  BY <1>1, <1>4 DEF CheckAvailability, QueryFree, QueryTaken, QueryAmbiguous
<1>5. CASE CreatePending(r)
  BY <1>5 DEF CreatePending
<1>6. CASE InsertDeadlock(r)
  BY <1>1, <1>6 DEF InsertDeadlock, InsertRolledBack
<1>7. CASE SetTxnState(r)
  BY <1>7 DEF SetTxnState, AfterVotes, TxnState
<1>8. CASE AskForVote(r) \/ VoteYes(r) \/ VoteNo(r)
  BY <1>8 DEF AskForVote, VoteYes, VoteNo, AfterVotes, AbortFrom
<1>9. CASE SendCommit(r) \/ SendRollback(r) \/ Acknowledged(r)
  BY <1>9 DEF SendCommit, SendRollback, Acknowledged
<1>10. CASE CallFails(r)
  BY <1>1, <1>10 DEF CallFails, AbortFrom
<1>11. CASE ConfirmLocally(r)
  BY <1>11 DEF ConfirmLocally, CommitFrom
<1>12. CASE Announce(r)
  BY <1>12 DEF Announce
<1>13. CASE MarkFailed(r)
  BY <1>13 DEF MarkFailed, SetStatus
<1>14. CASE MarkFailedRaises(r)
  BY <1>14 DEF MarkFailedRaises
<1>15. CASE Release(r)
  BY <1>15 DEF Release
<1>16. CASE Fault(r)
  BY <1>2, <1>10, <1>16 DEF Fault, LockFails, SetTxnStateFails, ReleaseFails, InsertFails,
                            UpdateFails, ReadBackFails
<1> QED
  BY <1>2, <1>3, <1>4, <1>5, <1>6, <1>7, <1>8, <1>9, <1>10, <1>11, <1>12, <1>13, <1>14,
     <1>15, <1>16 DEF Serve

\* While Redis and the database work, an error answer leaves the slot free,
\* whichever calls to the utility node failed and however often the node crashed.
THEOREM RefusalsFreeSlots ==
  ASSUME "redis" \notin Faults, "db" \notin Faults
  PROVE  Spec => []RefusalFreesSlot
<1>1. Init => RefusalIsMarked
  BY DEF Init, RefusalIsMarked
<1>2. SlotInvariant /\ AnswerIsOpen /\ RefusalIsMarked /\ [Next]_vars => RefusalIsMarked'
  <2> SUFFICES ASSUME SlotInvariant, AnswerIsOpen, RefusalIsMarked, [Next]_vars
               PROVE  RefusalIsMarked'
    OBVIOUS
  <2>0. TypeOver(Request, HandlerEvents)
    BY OwnTypes DEF SlotInvariant
  <2>1. ASSUME NEW r \in Request, Serve(r) \/ Fault(r) PROVE RefusalIsMarked'
    <3>1. \A p \in Request \ {r} :
            pc'[p] = pc[p] /\ resp'[p] = resp[p] /\ sess'[p] = sess[p] /\ fb'[p] = fb[p]
      BY <2>0, <2>1, OtherHandlers
    <3> QED
      BY <2>1, <3>1, HandlerMarksRefusal DEF RefusalIsMarked
  <2>2. CASE Environment({})
    BY <2>0, <2>2, EnvironmentRows DEF RefusalIsMarked
  <2>3. CASE UNCHANGED vars
    BY <2>3 DEF vars, tables, local, RefusalIsMarked
  <2> QED
    BY <2>1, <2>2, <2>3 DEF Next, NodeCrash, Environment
<1>3. RefusalIsMarked => RefusalFreesSlot
  BY DEF RefusalIsMarked, RefusalFreesSlot
<1> QED
  BY <1>1, <1>2, <1>3, SlotInvariantHolds, AnswerIsOpenHolds, PTL DEF Spec

-----------------------------------------------------------------------------
(* A handler leaves its utilities all confirmed or all given back.         *)

\* While calls are answered, a handler that lives has at most the call it waits for.
NoneLeftBehind(r) ==
  pc[r] # "dead" =>
    /\ pc[r] \notin {"voting", "committing", "rollingback"} => CallsOf(r) = {}
    /\ \A m, n \in CallsOf(r) : m = n
    /\ \A m \in CallsOf(r) :
         /\ m.by = r /\ m.open /\ m.todo \subseteq m.items /\ Treated(m)
         /\ pc[r] = "voting" => m.op = "prepare" /\ \E u \in Wanted[r] : m.items = {u}
         /\ pc[r] = "committing" => m.op = "commit" /\ m.items = ids[r]
         /\ pc[r] = "rollingback" => m.op = "rollback" /\ m.items = ids[r]

BeforeCommit == Early \cup {"init", "prepare", "voting", "prepared", "confirm", "commit"}

\* How far the rows of the utilities have got, by the place of the handler.
RowsFollow(r) ==
  pc[r] # "dead" =>
    \A u \in Wanted[r] :
      /\ pc[r] \in BeforeCommit =>
           /\ ub[r][u] \in {"none", "pending"}
           /\ u \notin ids[r] /\ (\A m \in CallsOf(r) : u \notin m.items) => ub[r][u] = "none"
      /\ pc[r] \notin {"prepare", "voting"} /\ ids[r] # {} /\ u \notin ids[r] => ub[r][u] = "none"
      /\ ids[r] = {} => ub[r][u] # "confirmed"
      /\ pc[r] \in {"aborted", "fail"} /\ u \in ids[r] => ub[r][u] = "cancelled"
      /\ pc[r] \in {"release", "done"} /\ ids[r] # {} =>
           \/ \A v \in Wanted[r] : ub[r][v] = "confirmed"
           \/ ub[r][u] \in {"none", "cancelled"}

RowsInvariant == \A r \in Request : NoneLeftBehind(r) /\ RowsFollow(r)

Waits == {"voting", "committing", "rollingback"}

\* A handler that neither calls nor hears from the utility node is not waiting
\* for it, unless all it gets is its connection back.
LEMMA SilentPlaces ==
  ASSUME NEW C, NEW E, TypeOver(C, E), NEW r \in Request, Silent(r)
  PROVE  \/ UNCHANGED <<pc, resp, ids, fb, txn>>
         \/ pc[r] \notin Waits \cup {"dead"} /\ pc'[r] \notin Waits
<1> USE DEF TypeOver, Waits, tables, local, redis, Goto
<1>1. ASSUME NEW a, NEW i, Raise(r, a, i) PROVE pc'[r] \notin Waits
  BY <1>1 DEF Raise, AbortFrom
<1>2. CASE LookupField(r) \/ Refresh(r) \/ LookupFails(r)
  BY <1>2 DEF LookupField, Refresh, LookupFails
<1>3. CASE TakeLock(r) \/ LockBusy(r) \/ LockFails(r)
  BY <1>3 DEF TakeLock, LockBusy, LockFails
<1>4. CASE CheckAvailability(r)
  BY <1>1, <1>4 DEF CheckAvailability
<1>5. CASE CreatePending(r) \/ InsertDeadlock(r) \/ InsertFails(r)
  BY <1>1, <1>5 DEF CreatePending, InsertDeadlock, InsertFails
<1>6. CASE SetTxnState(r)
  BY <1>6 DEF SetTxnState, AfterVotes, TxnState
<1>7. CASE SetTxnStateFails(r)
  BY <1>1, <1>7 DEF SetTxnStateFails, TxnState
<1>8. CASE ConfirmLocally(r) \/ Announce(r) \/ ReadBackFails(r)
  BY <1>8 DEF ConfirmLocally, CommitFrom, Announce, ReadBackFails
<1>9. CASE MarkFailed(r) \/ MarkFailedRaises(r) \/ UpdateFails(r)
  BY <1>1, <1>9 DEF MarkFailed, MarkFailedRaises, UpdateFails
<1>10. CASE Release(r) \/ ReleaseFails(r)
  BY <1>10 DEF Release, ReleaseFails
<1> QED
  BY <1>2, <1>3, <1>4, <1>5, <1>6, <1>7, <1>8, <1>9, <1>10 DEF Silent

LEMMA HandlerLeavesNone ==
  ASSUME "call" \notin Faults, TypeOver(Request, HandlerEvents), OwnCalls,
         NEW r \in Request, NoneLeftBehind(r), Serve(r) \/ Fault(r)
  PROVE  NoneLeftBehind(r)'
<1> USE DEF NoneLeftBehind, Treated, Waits
<1>1. CASE Silent(r)
  <2>1. CallsOf(r)' = CallsOf(r) /\ UNCHANGED ub
    BY <1>1, SilentSteps, CallsUnchanged DEF node
  <2> QED
    BY <1>1, <2>1, SilentPlaces
<1>2. ASSUME NEW o, NEW i, CallsOf(r) = {}, Post(o, r, r, i), pc'[r] \in Waits,
             pc'[r] = "voting" => o = "prepare" /\ \E u \in Wanted[r] : i = {u},
             pc'[r] = "committing" => o = "commit" /\ i = ids'[r],
             pc'[r] = "rollingback" => o = "rollback" /\ i = ids'[r]
      PROVE  NoneLeftBehind(r)'
  <2>1. CallsOf(r)' = {NewCall(o, r, i)}
    BY <1>2, CallsPosted
  <2> QED
    BY <1>2, <2>1 DEF NewCall
<1>3. CASE AskForVote(r) \/ SendCommit(r) \/ SendRollback(r)
  <2>1. pc[r] \in {"prepare", "commit", "rollback"}
    BY <1>3 DEF AskForVote, SendCommit, SendRollback
  <2>2. CallsOf(r) = {}
    BY <2>1
  <2>3. CASE AskForVote(r)
    BY <1>2, <2>2, <2>3 DEF AskForVote, Goto, TypeOver
  <2>4. CASE SendCommit(r)
    BY <1>2, <2>2, <2>4 DEF SendCommit, Goto, TypeOver, local
  <2>5. CASE SendRollback(r)
    BY <1>2, <2>2, <2>5 DEF SendRollback, Goto, TypeOver, local
  <2> QED
    BY <1>3, <2>3, <2>4, <2>5
<1>4. CASE VoteYes(r) \/ VoteNo(r) \/ Acknowledged(r)
  <2>1. pc[r] \in Waits /\ pc'[r] \notin Waits
    BY <1>4 DEF VoteYes, VoteNo, Acknowledged, AfterVotes, AbortFrom, Goto, TypeOver
  <2>2. \E m \in Waiting(r) : Close(m)
    BY <1>4 DEF VoteYes, VoteNo, Acknowledged
  <2>3. CallsOf(r)' = {}
    BY <2>1, <2>2, CallsClosed
  <2> QED
    BY <2>1, <2>3
<1>5. ~ CallFails(r)
  BY DEF CallFails
<1> QED
  BY <1>1, <1>3, <1>4, <1>5, HandlerSteps

\* The environment leaves nothing behind either: it takes calls away, gets on
\* with them, or ends the handler.
LEMMA EnvironmentLeavesNone ==
  ASSUME TypeOver(Request, HandlerEvents), NEW D, Environment(D), NEW r \in Request,
         NoneLeftBehind(r)
  PROVE  NoneLeftBehind(r)'
<1>0. UNCHANGED ids /\ (pc'[r] = pc[r] \/ pc'[r] = "dead")
  BY EnvironmentRows
<1> USE DEF NoneLeftBehind
<1>1. CASE pc'[r] = "dead"
  BY <1>1
<1>2. CASE pc'[r] = pc[r] /\ CallsOf(r) = {}
  BY <1>2, EnvironmentLeaves
<1>3. CASE pc'[r] = pc[r] /\ CallsOf(r) # {} /\ pc[r] # "dead"
  <2>1. ~ CrashWith(D)
    BY <1>3 DEF CrashWith, Active
  <2>2. /\ \A m, n \in CallsOf(r)' : m = n
        /\ \A m \in CallsOf(r)' :
             Treated(m)' /\ \E n \in CallsOf(r) : Continues(m, n) /\ m.open = n.open
    BY <1>3, <2>1, OneCallGetsOn
  <2> QED
    BY <1>0, <1>3, <2>2 DEF Continues
<1> QED
  BY <1>0, <1>1, <1>2, <1>3

\* What the handler of r does keeps its place in step with the rows.
LEMMA HandlerRows ==
  ASSUME "call" \notin Faults, SlotInvariant, AnswerIsOpen, AnswerInvariant,
         NEW r \in Request, NoneLeftBehind(r), RowsFollow(r), Serve(r) \/ Fault(r)
  PROVE  RowsFollow(r)'
<1>0. TypeOver(Request, HandlerEvents) /\ OwnCalls /\ Earned(r) /\ RowFollowsHandler
  BY OwnTypes DEF SlotInvariant, AnswerInvariant
<1>1. ub' = ub
  BY <1>0, HandlerCalls
<1>2. ASSUME NEW a, a # "none", NEW i, Raise(r, a, i)
      PROVE  /\ pc'[r] \in {"release"} \cup Backward
             /\ pc'[r] = "release" => sess[r] = "none" \/ resp[r] # "none"
             /\ pc'[r] \in Backward => resp[r] = "none"
             /\ pc'[r] \in {"aborted", "fail"} => i = {}
  BY <1>0, <1>2, RaiseAnswers DEF Raise, AbortFrom, Goto, TypeOver
<1> USE DEF TypeOver, RowsFollow, BeforeCommit, Early, Goto, local
<1>3. CASE LookupField(r) \/ Refresh(r) \/ LookupFails(r)
  BY <1>0, <1>1, <1>3, CallsUnchanged DEF LookupField, Refresh, LookupFails, node, Earned
<1>4. CASE TakeLock(r) \/ LockBusy(r) \/ LockFails(r)
  BY <1>0, <1>1, <1>4, CallsUnchanged DEF TakeLock, LockBusy, LockFails, node, Earned
<1>5. CASE CheckAvailability(r) \/ InsertDeadlock(r) \/ InsertFails(r)
  <2>1. ids[r] = {} /\ sess[r] = "none" /\ pc[r] \in {"check", "insert"}
    BY <1>0, <1>5 DEF CheckAvailability, InsertDeadlock, InsertFails, Earned, RowFollowsHandler
  <2>2. UNCHANGED ids /\ CallsOf(r)' = CallsOf(r)
    BY <1>5, CallsUnchanged DEF CheckAvailability, InsertDeadlock, InsertFails, node
  <2>3. pc'[r] = "insert" \/ \E a \in {"409", "500"} : Raise(r, a, {})
    BY <1>0, <1>5 DEF CheckAvailability, InsertDeadlock, InsertFails
  <2> QED
    BY <1>1, <1>2, <2>1, <2>2, <2>3 DEF Backward
<1>6. CASE CreatePending(r)
  BY <1>0, <1>1, <1>6, CallsUnchanged DEF CreatePending, node, Earned
<1>7. CASE SetTxnState(r)
  BY <1>0, <1>1, <1>7, CallsUnchanged DEF SetTxnState, AfterVotes, TxnState, node, Earned, Unanimous
<1>8. CASE SetTxnStateFails(r)
  <2>1. CallsOf(r)' = CallsOf(r)
    BY <1>8, CallsUnchanged DEF SetTxnStateFails, node
  <2>2. CASE pc[r] \in {"init", "prepared"}
    <3>1. resp[r] = "none" /\ sess[r] # "none"
      BY <2>2 DEF AnswerIsOpen, Forward, Undecided
    <3>2. ids'[r] = {} /\ pc'[r] \in Backward
      BY <1>0, <1>2, <1>8, <2>2, <3>1 DEF SetTxnStateFails
    <3> QED
      BY <1>1, <2>1, <2>2, <3>1, <3>2 DEF Backward
  <2>3. CASE pc[r] \in {"committed", "aborted"}
    <3>1. UNCHANGED ids /\ Raise(r, "500", ids[r])
      BY <1>8, <2>3 DEF SetTxnStateFails
    <3>2. pc[r] = "committed" => resp[r] = "none" /\ sess[r] # "none"
      BY DEF AnswerIsOpen, Forward
    <3>3. pc[r] = "aborted" => sess[r] # "none"
      BY DEF AnswerIsOpen, Backward
    <3> QED
      BY <1>1, <1>2, <2>1, <2>3, <3>1, <3>2, <3>3 DEF Backward
  <2> QED
    BY <1>8, <2>2, <2>3 DEF SetTxnStateFails, TxnState
<1>9. CASE AskForVote(r)
  <2>1. CallsOf(r) = {}
    BY <1>9 DEF AskForVote, NoneLeftBehind
  <2> QED
    BY <1>1, <1>9, <2>1 DEF AskForVote
<1>10. CASE VoteYes(r)
  <2>1. PICK m \in Waiting(r) : Close(m) /\ ids' = [ids EXCEPT ![r] = @ \cup m.items]
    BY <1>10 DEF VoteYes
  <2>2. pc[r] = "voting" /\ m \in CallsOf(r) /\ CallsOf(r) \subseteq {m}
    BY <1>0, <1>10, <2>1, CallsClosed DEF VoteYes, NoneLeftBehind
  <2>3. pc'[r] = "prepare" \/ (pc'[r] = "prepared" /\ ids'[r] = Wanted[r])
    BY <1>0, <1>10 DEF VoteYes, AfterVotes
  <2>4. ids'[r] = ids[r] \cup m.items
    BY <1>0, <2>1
  <2> QED
    BY <1>1, <2>2, <2>3, <2>4
<1>11. CASE VoteNo(r)
  <2>1. PICK m \in Waiting(r) : ~ VotedYes(m) /\ Close(m)
    BY <1>11 DEF VoteNo
  <2>2. /\ pc[r] = "voting" /\ m \in CallsOf(r) /\ CallsOf(r) \subseteq {m} /\ m.txn = r
        /\ \E u \in Wanted[r] : m.items = {u}
    BY <1>0, <1>11, <2>1, CallsClosed DEF VoteNo, NoneLeftBehind, CallsOf
  <2>3. \A u \in m.items : ub[r][u] = "none"
    BY <2>1, <2>2 DEF VotedYes
  <2>4. UNCHANGED ids /\ pc'[r] = AbortFrom(ids[r])
    BY <1>0, <1>11 DEF VoteNo
  <2>5. \A u \in Wanted[r] : u \notin ids[r] => ub[r][u] = "none"
    BY <2>2, <2>3
  <2> QED
    BY <1>1, <2>2, <2>4, <2>5 DEF AbortFrom
<1>12. CASE ConfirmLocally(r)
  BY <1>0, <1>1, <1>12, CallsUnchanged DEF ConfirmLocally, CommitFrom, node
<1>13. CASE SendCommit(r) \/ SendRollback(r)
  BY <1>0, <1>1, <1>13 DEF SendCommit, SendRollback
<1>14. CASE Acknowledged(r)
  <2>1. PICK m \in Waiting(r) : Answered(m) /\ Close(m)
    BY <1>14 DEF Acknowledged
  <2>2. /\ pc[r] \in {"committing", "rollingback"} /\ m \in CallsOf(r) /\ m.txn = r
        /\ Treated(m) /\ m.todo = {}
    BY <1>0, <1>14, <2>1, CallsClosed DEF Acknowledged, NoneLeftBehind, CallsOf, Answered
  <2>3. pc[r] = "rollingback" => \A u \in ids[r] : ub[r][u] = "cancelled"
    BY <2>2 DEF NoneLeftBehind, Treated
  <2>4. UNCHANGED ids /\ pc'[r] = IF pc[r] = "committing" THEN "committed" ELSE "aborted"
    BY <1>0, <1>14 DEF Acknowledged
  <2> QED
    BY <1>1, <2>2, <2>3, <2>4
<1>15. CASE Announce(r) \/ ReadBackFails(r)
  BY <1>0, <1>1, <1>15, CallsUnchanged DEF Announce, ReadBackFails, node, Earned, Confirmed
<1>16. CASE MarkFailed(r) \/ MarkFailedRaises(r) \/ UpdateFails(r)
  <2>1. /\ pc[r] \in {"confirm", "fail"} /\ UNCHANGED ids /\ CallsOf(r)' = CallsOf(r)
        /\ \E a \in {"409", "500"} : Raise(r, a, ids[r])
    BY <1>16, CallsUnchanged DEF MarkFailed, MarkFailedRaises, UpdateFails, node
  <2>2. sess[r] # "none" /\ (pc[r] = "confirm" => resp[r] = "none")
    BY <2>1 DEF AnswerIsOpen, Forward, Backward, Undecided
  <2> QED
    BY <1>1, <1>2, <2>1, <2>2 DEF Backward
<1>17. CASE Release(r) \/ ReleaseFails(r)
  BY <1>0, <1>1, <1>17, CallsUnchanged DEF Release, ReleaseFails, node
<1>18. ~ CallFails(r)
  BY DEF CallFails
<1> QED
  BY <1>3, <1>4, <1>5, <1>6, <1>7, <1>8, <1>9, <1>10, <1>11, <1>12, <1>13, <1>14, <1>15,
     <1>16, <1>17, <1>18 DEF Serve, Fault

\* So does what happens without it: the utility node does what the one call says.
LEMMA EnvironmentRowsFollow ==
  ASSUME TypeOver(Request, HandlerEvents), NEW D, Environment(D), NEW r \in Request,
         NoneLeftBehind(r), RowsFollow(r)
  PROVE  RowsFollow(r)'
<1>0. UNCHANGED ids /\ (pc'[r] = pc[r] \/ pc'[r] = "dead") /\ RowsFollowCalls
      /\ Wanted[r] \subseteq Utility
  BY EnvironmentRows, RequestAssumption
<1> USE DEF RowsFollow, BeforeCommit
<1>1. CASE pc'[r] = "dead"
  BY <1>1
<1>2. CASE pc'[r] = pc[r] /\ CallsOf(r) = {}
  BY <1>0, <1>2, EnvironmentLeaves
<1>3. CASE pc'[r] = pc[r] /\ CallsOf(r) # {} /\ pc[r] # "dead"
  <2>1. PICK m \in CallsOf(r) : CallsOf(r) = {m}
    BY <1>3 DEF NoneLeftBehind
  <2>2. ~ CrashWith(D)
    BY <1>3 DEF CrashWith, Active, NoneLeftBehind
  <2>3. /\ \A u \in m.todo : u \in m.items
        /\ pc[r] \in {"voting", "committing", "rollingback"}
        /\ pc[r] = "voting" => m.op = "prepare"
        /\ pc[r] = "committing" => m.op = "commit" /\ m.items = ids[r]
        /\ pc[r] = "rollingback" => m.op = "rollback" /\ m.items = ids[r]
    BY <1>3, <2>1 DEF NoneLeftBehind
  <2>4. \A u \in Wanted[r] :
          ub'[r][u] = ub[r][u] \/
            /\ u \in m.items
            /\ ub'[r][u] = CASE m.op = "prepare"  -> "pending"
                             [] m.op = "commit"   -> "confirmed"
                             [] m.op = "rollback" -> "cancelled"
    BY <1>0, <2>1, <2>3 DEF RowsFollowCalls
  <2>5. ASSUME NEW u \in Wanted[r], pc[r] = "voting", u \notin ids[r],
               \A k \in CallsOf(r)' : u \notin k.items
        PROVE  ub'[r][u] = "none"
    <3>1. PICK k \in CallsOf(r)' : Continues(k, m)
      BY <1>3, <2>1, <2>2, OpenCallStays DEF NoneLeftBehind
    <3>2. u \notin m.items
      BY <2>5, <3>1 DEF Continues
    <3> QED
      BY <1>3, <2>1, <2>4, <2>5, <3>2
  <2>6. CASE pc[r] = "voting"
    BY <1>0, <1>3, <2>3, <2>4, <2>5, <2>6
  <2>7. CASE pc[r] \in {"committing", "rollingback"}
    BY <1>0, <1>3, <2>3, <2>4, <2>7 DEF Early
  <2> QED
    BY <2>3, <2>6, <2>7
<1> QED
  BY <1>0, <1>1, <1>2, <1>3

\* While calls are answered, a handler that ends has its utilities all confirmed
\* or all given back, whatever the database and Redis did; one whose exception
\* lost the ids has at least confirmed none.
THEOREM AllOrNothingHolds ==
  ASSUME "call" \notin Faults
  PROVE  Spec => []AllOrNothing
<1>1. Init => RowsInvariant
  <2> SUFFICES ASSUME Init, NEW r \in Request PROVE NoneLeftBehind(r) /\ RowsFollow(r)
    BY DEF RowsInvariant
  <2>1. /\ pc[r] = "idle" /\ ids[r] = {} /\ calls = {}
        /\ \A u \in Wanted[r] : ub[r][u] = "none"
    BY RequestAssumption DEF Init, UtilityNodeInit
  <2> QED
    BY <2>1 DEF NoneLeftBehind, RowsFollow, CallsOf
<1>2. SlotInvariant /\ AnswerIsOpen /\ AnswerInvariant /\ RowsInvariant /\ [Next]_vars
        => RowsInvariant'
  <2> SUFFICES ASSUME SlotInvariant, AnswerIsOpen, AnswerInvariant, RowsInvariant, [Next]_vars
               PROVE  RowsInvariant'
    OBVIOUS
  <2>0. TypeOver(Request, HandlerEvents) /\ OwnCalls
    BY OwnTypes DEF SlotInvariant, AnswerInvariant
  <2>1. ASSUME NEW r \in Request, Serve(r) \/ Fault(r) PROVE RowsInvariant'
    <3>1. UNCHANGED ub
      BY <2>0, <2>1, HandlerCalls
    <3>2. ASSUME NEW p \in Request, p # r PROVE NoneLeftBehind(p)' /\ RowsFollow(p)'
      <4>1. pc'[p] = pc[p] /\ ids'[p] = ids[p] /\ CallsOf(p)' = CallsOf(p)
        BY <2>0, <2>1, <3>2, OtherHandlers, OtherCalls
      <4> QED
        BY <3>1, <4>1 DEF RowsInvariant, NoneLeftBehind, RowsFollow, Treated
    <3>3. NoneLeftBehind(r)' /\ RowsFollow(r)'
      BY <2>0, <2>1, HandlerLeavesNone, HandlerRows DEF RowsInvariant
    <3> QED
      BY <3>2, <3>3 DEF RowsInvariant
  <2>2. CASE Environment({})
    BY <2>0, <2>2, EnvironmentLeavesNone, EnvironmentRowsFollow DEF RowsInvariant
  <2>3. CASE UNCHANGED vars
    BY <2>3 DEF vars, node, local, RowsInvariant, NoneLeftBehind, RowsFollow, Treated, CallsOf
  <2> QED
    BY <2>1, <2>2, <2>3 DEF Next, NodeCrash, Environment
<1>3. RowsInvariant => AllOrNothing
  BY DEF RowsInvariant, RowsFollow, AllOrNothing
<1> QED
  BY <1>1, <1>2, <1>3, SlotInvariantHolds, AnswerIsOpenHolds, AnswerInvariantHolds, PTL DEF Spec

=============================================================================
