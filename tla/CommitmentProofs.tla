--------------------------- MODULE CommitmentProofs ---------------------------
(***************************************************************************)
(* While nothing but the process fails, a booking is an atomic commitment  *)
(* of its field and its utilities: for any set of requests and wanted      *)
(* utilities, any number of crashes, of recoverers that work beside the    *)
(* handlers and beside each other, and of records that expire under them.  *)
(***************************************************************************)
EXTENDS BookingRecoveryProofs

\* Nobody cancels, and of all that may fail only the process does.
NothingFails == Faults = {} /\ Cancellable = {}

\* The places of a handler that does not know yet how its transaction ends.
Starting == Early \cup {"init", "prepare", "voting"}

\* Recovery works on r.
Pursued(r) == \E w \in Recoverer : rec[w].at \in Working /\ rec[w].txn = r

\* What commits r, or shows that it is being committed, ...
Committing(r) == Committal(r) \/ Pursued(r)

\* ... and what gives it back.
Undone(r) ==
  \/ pc[r] \in Backward
  \/ fb[r] \in {"failed", "cancelled"}
  \/ \E u \in Utility : ub[r][u] = "cancelled"
  \/ \E m \in CallsOf(r) : m.op = "rollback"

Open(r) == ~ Committing(r) /\ ~ Undone(r)

\* While the votes come in, nothing is decided, and the only call is the one
\* for a vote.
StartsOpen(r) ==
  pc[r] \in Starting =>
    /\ Open(r)
    /\ pc[r] # "voting" => CallsOf(r) = {}
    /\ \A m, n \in CallsOf(r) : m = n
    /\ \A m \in CallsOf(r) : m.op = "prepare"

\* A prepare call outlives the vote only if its caller died waiting.
AsksWhileOpen(r) ==
  (\E m \in CallsOf(r) : m.op = "prepare") => Open(r) /\ pc[r] \in {"voting", "dead"}

\* There is a row from the insert to the end, and none without one.
RowInTime(r) ==
  /\ pc[r] \in Early => fb[r] = "none" /\ sess[r] = "none"
  /\ fb[r] = "none" => pc[r] \in Early \cup {"release", "done", "dead"} /\ ~ Committing(r)

\* Nobody deals with utilities that were not asked for.
InvitedOnly(r) ==
  /\ ids[r] \subseteq Wanted[r]
  /\ txn[r].ids \subseteq Wanted[r]
  /\ \A m \in CallsOf(r) : m.items \subseteq Wanted[r] /\ m.todo \subseteq Wanted[r]
  /\ \A w \in Recoverer : rec[w].at \in Working /\ rec[w].txn = r => rec[w].ids \subseteq Wanted[r]

OneSided(r) ==
  /\ ~ (Committing(r) /\ Undone(r))
  /\ StartsOpen(r)
  /\ AsksWhileOpen(r)
  /\ RowInTime(r)
  /\ InvitedOnly(r)

CommitInvariant ==
  /\ \A w \in Recoverer : rec[w].at \in RecCommits \cup {"scan"}
  /\ \A r \in Request : OneSided(r)

-----------------------------------------------------------------------------
(* What a handler does while nothing fails.                                *)

\* Of the failures of a handler the full connection pool is left.
LEMMA FewFaults ==
  ASSUME NothingFails, NEW r \in Request, Fault(r)
  PROVE  LookupFails(r)
BY DEF NothingFails, Fault, CallFails, LockFails, SetTxnStateFails, ReleaseFails, InsertFails,
       UpdateFails, ReadBackFails

\* Where a handler goes, and what it makes of its row on the way.
HandlerMove(r) ==
  /\ pc[r] \notin {"done", "dead"} /\ pc'[r] # "dead"
  /\ pc'[r] \in Starting => pc[r] \in Starting
  /\ pc'[r] \in Unanimous => pc[r] \in Unanimous \cup {"init", "voting"}
  /\ pc'[r] \in Backward => pc[r] \in Backward \cup {"voting"}
  /\ pc[r] = "release" => pc'[r] \in {"release", "done"}
  /\ pc'[r] \in Early => pc[r] \in Early /\ sess'[r] = sess[r]
  /\ pc[r] \in Early => pc'[r] \in Early \cup {"release", "done"} \/ fb'[r] = "pending"
  /\ \/ UNCHANGED fb
     \/ pc[r] = "insert" /\ pc'[r] = "init" /\ fb' = [fb EXCEPT ![r] = "pending"]
     \/ pc[r] = "confirm" /\ fb' = [fb EXCEPT ![r] = "confirmed"]
     \/ pc[r] = "fail" /\ fb' = [fb EXCEPT ![r] = "failed"]

LEMMA HandlerMoves ==
  ASSUME NothingFails, NEW C, NEW E, TypeOver(C, E), NEW r \in Request, RowInTime(r),
         Serve(r) \/ Fault(r)
  PROVE  HandlerMove(r)
<1> USE DEF HandlerMove, TypeOver, FieldBookingsType, tables, local, Goto, Starting, Early,
        Unanimous, Backward
<1>1. ASSUME NEW a, NEW i, Raise(r, a, i)
      PROVE  /\ pc'[r] \in {"release"} \cup Backward
             /\ sess[r] = "none" => pc'[r] = "release"
  BY <1>1 DEF Raise, AbortFrom
<1>2. CASE LookupField(r) \/ Refresh(r) \/ LookupFails(r)
  BY <1>2 DEF LookupField, Refresh, LookupFails, Active
<1>3. CASE TakeLock(r) \/ LockBusy(r)
  BY <1>3 DEF TakeLock, LockBusy
<1>4. CASE CheckAvailability(r)
  <2>1. pc[r] = "check" /\ sess[r] = "none" /\ UNCHANGED <<fb, sess>>
    BY <1>4 DEF CheckAvailability, QueryFree, QueryTaken, QueryAmbiguous, RowInTime
  <2>2. pc'[r] \in {"insert", "release"}
    BY <1>1, <1>4, <2>1 DEF CheckAvailability
  <2> QED
    BY <2>1, <2>2
<1>5. CASE CreatePending(r)
  BY <1>5 DEF CreatePending, InsertPending, SetStatus
<1>6. CASE InsertDeadlock(r)
  <2>1. pc[r] = "insert" /\ sess[r] = "none" /\ UNCHANGED <<fb, sess>>
    BY <1>6 DEF InsertDeadlock, InsertRolledBack, RowInTime
  <2>2. pc'[r] = "release"
    BY <1>1, <1>6, <2>1 DEF InsertDeadlock
  <2> QED
    BY <2>1, <2>2
<1>7. CASE SetTxnState(r)
  BY <1>7 DEF SetTxnState, AfterVotes, TxnState
<1>8. CASE AskForVote(r) \/ VoteYes(r) \/ VoteNo(r)
  BY <1>8 DEF AskForVote, VoteYes, VoteNo, AfterVotes, AbortFrom
<1>9. CASE ConfirmLocally(r)
  BY <1>9 DEF ConfirmLocally, SetStatus, CommitFrom
<1>10. CASE SendCommit(r) \/ SendRollback(r) \/ Acknowledged(r)
  BY <1>10 DEF SendCommit, SendRollback, Acknowledged
<1>11. CASE Announce(r)
  BY <1>11 DEF Announce
<1>12. CASE MarkFailed(r) \/ MarkFailedRaises(r)
  <2>1. pc[r] = "fail" /\ pc'[r] \in {"release"} \cup Backward
    BY <1>1, <1>12 DEF MarkFailed, MarkFailedRaises
  <2>2. UNCHANGED fb \/ fb' = [fb EXCEPT ![r] = "failed"]
    BY <1>12 DEF MarkFailed, MarkFailedRaises, SetStatus
  <2> QED
    BY <2>1, <2>2
<1>13. CASE Release(r)
  BY <1>13 DEF Release
<1> QED
  BY <1>2, <1>3, <1>4, <1>5, <1>6, <1>7, <1>8, <1>9, <1>10, <1>11, <1>12, <1>13, FewFaults
     DEF Serve

\* The calls after a handler's step: as before, fewer, or one more of its own.
LEMMA HandlerPosts ==
  ASSUME NEW C, NEW E, TypeOver(C, E), NEW r \in Request, Serve(r) \/ Fault(r), NEW m \in calls'
  PROVE  \/ \E n \in calls : Continues(m, n)
         \/ /\ m.txn = r /\ m.by = r /\ m.todo = m.items
            /\ \/ /\ pc[r] = "prepare" /\ pc'[r] = "voting"
                  /\ m.op = "prepare" /\ m.items \subseteq Wanted[r]
               \/ m.op \in {"commit", "rollback"} /\ pc[r] = m.op /\ m.items = ids[r]
<1>1. CASE Silent(r)
  BY <1>1, SilentSteps DEF node, Continues
<1>2. CASE AskForVote(r) \/ SendCommit(r) \/ SendRollback(r)
  <2>1. PICK o, i : /\ Post(o, r, r, i)
                    /\ \/ /\ o = "prepare" /\ pc[r] = "prepare" /\ pc'[r] = "voting"
                          /\ i \subseteq Wanted[r]
                       \/ o \in {"commit", "rollback"} /\ pc[r] = o /\ i = ids[r]
    <3>1. CASE AskForVote(r)
      <4>1. PICK u \in Wanted[r] : Post("prepare", r, r, {u})
        BY <3>1 DEF AskForVote
      <4>2. pc[r] = "prepare" /\ pc'[r] = "voting" /\ {u} \subseteq Wanted[r]
        BY <3>1 DEF AskForVote, Goto, TypeOver
      <4> QED
        BY <4>1, <4>2
    <3>2. CASE SendCommit(r)
      BY <3>2 DEF SendCommit
    <3>3. CASE SendRollback(r)
      BY <3>3 DEF SendRollback
    <3> QED
      BY <1>2, <3>1, <3>2, <3>3
  <2> QED
    BY <2>1 DEF Post, Continues
<1>3. CASE VoteYes(r) \/ VoteNo(r) \/ Acknowledged(r) \/ CallFails(r)
  <2>1. PICK n \in Waiting(r) : Close(n) \/ Abandon(n)
    BY <1>3 DEF VoteYes, VoteNo, Acknowledged, CallFails
  <2>2. n \in calls /\ Continues([n EXCEPT !.open = FALSE], n) /\ \A k \in calls : Continues(k, k)
    BY DEF Waiting, TypeOver, UtilityNodeType, Call, Continues
  <2> QED
    BY <2>1, <2>2 DEF Close, Abandon
<1> QED
  BY <1>1, <1>2, <1>3, HandlerSteps

\* A handler commits only after the votes, and gives back only after a refusal.
LEMMA HandlerSigns ==
  ASSUME NothingFails, RecTypes, RecVotes, NEW r \in Request, Serve(r) \/ Fault(r), UNCHANGED rec,
         HandlerMove(r)
  PROVE  /\ Committing(r)' => Committing(r) \/ pc'[r] \in Unanimous
         /\ Undone(r)' => Undone(r) \/ pc'[r] \in Backward
<1>0. TypeOver(Caller, Event) /\ VoteInvariant /\ UNCHANGED ub
  BY HandlerCalls DEF RecTypes, RecVotes
<1>1. fb'[r] \in {fb[r], "pending"} \/ (pc[r] = "confirm" /\ fb'[r] = "confirmed")
        \/ (pc[r] = "fail" /\ fb'[r] = "failed")
  BY <1>0 DEF HandlerMove, TypeOver, FieldBookingsType
<1>2. ASSUME NEW m \in CallsOf(r)'
      PROVE  /\ m.op = "commit" => Committing(r)
             /\ m.op = "rollback" => Undone(r)
  <2>1. \/ \E n \in CallsOf(r) : Continues(m, n)
        \/ m.op \in {"prepare", "commit", "rollback"} /\ pc[r] = m.op
    BY <1>0, HandlerPosts DEF CallsOf, Continues
  <2> QED
    BY <2>1 DEF Continues, Committing, Committal, Undone, Unanimous, Backward
<1>3. Committing(r)' => Committing(r) \/ pc'[r] \in Unanimous
  <2>1. Pursued(r)' => Pursued(r)
    BY DEF Pursued
  <2>2. fb'[r] = "confirmed" => Committing(r)
    BY <1>1 DEF Committing, Committal, Unanimous
  <2>3. txn'[r].state = "prepared" => Committing(r)
    BY <1>0, NewSigns DEF Committing, Committal
  <2> QED
    BY <1>0, <1>2, <2>1, <2>2, <2>3 DEF Committing, Committal
<1>4. Undone(r)' => Undone(r) \/ pc'[r] \in Backward
  BY <1>0, <1>1, <1>2 DEF Undone, Backward
<1> QED
  BY <1>3, <1>4

\* The calls of a handler that is still collecting votes, and of one that is not.
LEMMA HandlerAsks ==
  ASSUME NothingFails, NEW C, NEW E, TypeOver(C, E), OwnCalls, NEW r \in Request,
         Serve(r) \/ Fault(r), HandlerMove(r), StartsOpen(r), AsksWhileOpen(r)
  PROVE  /\ pc'[r] \in Starting =>
              /\ pc'[r] # "voting" => CallsOf(r)' = {}
              /\ \A m, n \in CallsOf(r)' : m = n
              /\ \A m \in CallsOf(r)' : m.op = "prepare"
         /\ (\E m \in CallsOf(r)' : m.op = "prepare") => pc'[r] = "voting"
<1>1. CASE pc[r] \notin Starting
  <2>1. pc'[r] \notin Starting
    BY <1>1 DEF HandlerMove
  <2>2. ASSUME NEW m \in CallsOf(r)', m.op = "prepare" PROVE FALSE
    <3>1. \/ \E n \in CallsOf(r) : n.op = "prepare"
          \/ pc[r] = "prepare"
      BY <2>2, HandlerPosts DEF CallsOf, Continues
    <3> QED
      BY <1>1, <3>1 DEF AsksWhileOpen, Starting, HandlerMove
  <2> QED
    BY <2>1, <2>2
<1>2. CASE Silent(r) /\ pc[r] \in Starting
  <2>1. CallsOf(r)' = CallsOf(r)
    BY <1>2, SilentSteps, CallsUnchanged DEF node
  <2>2. pc'[r] = pc[r] \/ (pc[r] # "voting" /\ pc'[r] # "voting")
    BY <1>2, SilentPlaces DEF Waits
  <2> QED
    BY <1>2, <2>1, <2>2 DEF StartsOpen
<1>3. CASE AskForVote(r)
  <2>1. CallsOf(r) = {} /\ pc'[r] = "voting"
    BY <1>3 DEF AskForVote, StartsOpen, Starting, Goto, TypeOver
  <2>2. PICK u : CallsOf(r)' = {NewCall("prepare", r, {u})}
    BY <1>3, <2>1, AskPosts
  <2> QED
    BY <2>1, <2>2 DEF NewCall
<1>4. CASE VoteYes(r) \/ VoteNo(r)
  <2>1. pc[r] = "voting" /\ \E m \in Waiting(r) : Close(m)
    BY <1>4 DEF VoteYes, VoteNo
  <2>2. CallsOf(r)' = {}
    BY <2>1, CallsClosed DEF StartsOpen, Starting
  <2> QED
    BY <2>2
<1>5. CASE SendCommit(r) \/ SendRollback(r) \/ Acknowledged(r)
  BY <1>1, <1>5 DEF SendCommit, SendRollback, Acknowledged, Starting, Early
<1>6. ~ CallFails(r)
  BY DEF CallFails, NothingFails
<1> QED
  BY <1>1, <1>2, <1>3, <1>4, <1>5, <1>6, HandlerSteps

\* The ids a handler collects, and those it writes into its record.
LEMMA HandlerInvites ==
  ASSUME NothingFails, NEW C, NEW E, TypeOver(C, E), OwnCalls, NEW r \in Request,
         Serve(r) \/ Fault(r), InvitedOnly(r)
  PROVE  ids'[r] \subseteq Wanted[r] /\ txn'[r].ids \subseteq Wanted[r]
<1> USE DEF InvitedOnly, TypeOver, local, redis
<1>1. CASE VoteYes(r)
  <2>1. PICK m \in Waiting(r) : ids' = [ids EXCEPT ![r] = @ \cup m.items]
    BY <1>1 DEF VoteYes
  <2>2. m \in CallsOf(r)
    BY DEF Waiting, CallsOf, OwnCalls
  <2>3. ids'[r] = ids[r] \cup m.items /\ txn' = txn
    BY <1>1, <2>1 DEF VoteYes
  <2> QED
    BY <2>2, <2>3
<1>2. CASE SetTxnState(r)
  BY <1>2 DEF SetTxnState, WriteTxn
<1>3. CASE LookupField(r) \/ Refresh(r) \/ LookupFails(r) \/ TakeLock(r) \/ LockBusy(r)
  BY <1>3 DEF LookupField, Refresh, LookupFails, TakeLock, LockBusy
<1>4. CASE CheckAvailability(r) \/ CreatePending(r) \/ InsertDeadlock(r)
  BY <1>4 DEF CheckAvailability, CreatePending, InsertDeadlock
<1>5. CASE AskForVote(r) \/ VoteNo(r) \/ SendCommit(r) \/ SendRollback(r) \/ Acknowledged(r)
  BY <1>5 DEF AskForVote, VoteNo, SendCommit, SendRollback, Acknowledged
<1>6. CASE ConfirmLocally(r) \/ Announce(r) \/ MarkFailed(r) \/ MarkFailedRaises(r) \/ Release(r)
  BY <1>6 DEF ConfirmLocally, Announce, MarkFailed, MarkFailedRaises, Release
<1> QED
  BY <1>1, <1>2, <1>3, <1>4, <1>5, <1>6, FewFaults DEF Serve

-----------------------------------------------------------------------------
(* Every step keeps each booking on one side.                              *)

LEMMA HandlerStaysOneSided ==
  ASSUME NothingFails, RecTypes, RecVotes, NEW r \in Request, OneSided(r),
         Serve(r) \/ Fault(r), UNCHANGED rec
  PROVE  OneSided(r)'
<1>0. TypeOver(Caller, Event) /\ OwnCalls
  BY DEF RecTypes, RecVotes, VoteInvariant
<1>1. HandlerMove(r)
  BY <1>0, HandlerMoves DEF OneSided
<1>2. /\ Committing(r)' => Committing(r) \/ pc'[r] \in Unanimous
      /\ Undone(r)' => Undone(r) \/ pc'[r] \in Backward
  BY <1>1, HandlerSigns
<1>3. /\ pc'[r] \in Starting =>
           /\ pc'[r] # "voting" => CallsOf(r)' = {}
           /\ \A m, n \in CallsOf(r)' : m = n
           /\ \A m \in CallsOf(r)' : m.op = "prepare"
      /\ (\E m \in CallsOf(r)' : m.op = "prepare") => pc'[r] = "voting"
  BY <1>0, <1>1, HandlerAsks DEF OneSided
<1>4. Unanimous \cap Backward = {} /\ Unanimous \cap Starting = {} /\ Backward \cap Starting = {}
      /\ {"init", "voting"} \subseteq Starting
  BY DEF Unanimous, Backward, Starting, Early
<1>5. (pc[r] \in Unanimous => Committing(r)) /\ (pc[r] \in Backward => Undone(r))
  BY DEF Committing, Committal, Undone
<1>6. ~ (Committing(r) /\ Undone(r)) /\ (pc[r] \in Starting => Open(r))
  BY DEF OneSided, StartsOpen
<1>7. ~ (Committing(r)' /\ Undone(r)')
  BY <1>1, <1>2, <1>4, <1>5, <1>6 DEF HandlerMove, Open
<1>8. pc'[r] \in Starting => Open(r)'
  BY <1>1, <1>2, <1>4, <1>6 DEF HandlerMove, Open
<1>9. RowInTime(r)'
  <2>1. RowInTime(r) /\ fb \in [Request -> BookingStatus \cup {"none"}]
    BY <1>0 DEF OneSided, TypeOver, FieldBookingsType
  <2>2. ASSUME fb'[r] = "none"
        PROVE  fb[r] = "none" /\ pc'[r] \in Early \cup {"release", "done", "dead"}
    <3>1. UNCHANGED fb
      BY <1>1, <2>1, <2>2 DEF HandlerMove
    <3> QED
      BY <1>1, <2>1, <2>2, <3>1 DEF HandlerMove, RowInTime
  <2>3. ASSUME pc'[r] \in Early PROVE fb'[r] = "none" /\ sess'[r] = "none"
    <3>1. pc[r] \in Early /\ sess'[r] = sess[r] /\ UNCHANGED fb
      BY <1>1, <2>3 DEF HandlerMove, Early
    <3> QED
      BY <2>1, <3>1 DEF RowInTime
  <2>4. fb'[r] = "none" => ~ Committing(r)'
    BY <1>2, <2>1, <2>2 DEF RowInTime, Unanimous, Early
  <2> QED
    BY <2>2, <2>3, <2>4 DEF RowInTime
<1>10. InvitedOnly(r)'
  <2>1. InvitedOnly(r)
    BY DEF OneSided
  <2>2. ids'[r] \subseteq Wanted[r] /\ txn'[r].ids \subseteq Wanted[r]
    BY <1>0, <2>1, HandlerInvites
  <2>3. \A m \in CallsOf(r)' : m.items \subseteq Wanted[r] /\ m.todo \subseteq Wanted[r]
    BY <1>0, <2>1, HandlerPosts DEF InvitedOnly, CallsOf, Continues
  <2> QED
    BY <2>1, <2>2, <2>3 DEF InvitedOnly
<1> QED
  BY <1>3, <1>7, <1>8, <1>9, <1>10, <1>4 DEF OneSided, StartsOpen, AsksWhileOpen

\* What is said of r depends on nothing but its own variables and calls.
LEMMA OthersStayOneSided ==
  ASSUME NEW r \in Request, OneSided(r), UNCHANGED <<ub, rec>>, CallsOf(r)' = CallsOf(r),
         pc'[r] = pc[r], ids'[r] = ids[r], sess'[r] = sess[r], fb'[r] = fb[r], txn'[r] = txn[r]
  PROVE  OneSided(r)'
<1>1. (Committing(r)' <=> Committing(r)) /\ (Undone(r)' <=> Undone(r))
  BY DEF Committing, Committal, Pursued, Undone
<1> QED
  BY <1>1 DEF OneSided, Open, StartsOpen, AsksWhileOpen, RowInTime, InvitedOnly

\* The environment neither commits nor gives back what was not under way.
LEMMA EnvironmentSigns ==
  ASSUME RecTypes, NEW D, Environment(D), NEW r \in Request, Pursued(r)' => Pursued(r)
  PROVE  /\ Committing(r)' => Committing(r)
         /\ Undone(r)' => Undone(r)
<1>0. TypeOver(Caller, Event)
  BY DEF RecTypes
<1>1. /\ UNCHANGED <<fb, txn>> /\ (pc'[r] = pc[r] \/ pc'[r] = "dead")
      /\ RowsFollowCalls
  BY <1>0, EnvironmentRows
<1>2. \A m \in CallsOf(r)' : \E n \in CallsOf(r) : m.op = n.op
  BY <1>0, EnvironmentCalls DEF CallsOf, Continues
<1>3. \A m \in CallsOf(r) : m.op \in {"prepare", "commit", "rollback"}
  BY <1>0 DEF TypeOver, UtilityNodeType, Call, Operation, CallsOf
<1>4. \A u \in Utility :
        /\ ub'[r][u] = "confirmed" =>
             ub[r][u] = "confirmed" \/ \E m \in CallsOf(r) : m.op = "commit"
        /\ ub'[r][u] = "cancelled" =>
             ub[r][u] = "cancelled" \/ \E m \in CallsOf(r) : m.op = "rollback"
  BY <1>1, <1>3 DEF RowsFollowCalls
<1>5. Committing(r)' => Committing(r)
  BY <1>1, <1>2, <1>4 DEF Committing, Committal, Unanimous
<1>6. Undone(r)' => Undone(r)
  BY <1>1, <1>2, <1>4 DEF Undone, Backward
<1> QED
  BY <1>5, <1>6

LEMMA EnvironmentStaysOneSided ==
  ASSUME RecTypes, NEW D, Environment(D), NEW r \in Request, OneSided(r),
         \A w \in Recoverer : rec'[w] = rec[w] \/ rec'[w].at = "scan"
  PROVE  OneSided(r)'
<1>0. TypeOver(Caller, Event)
  BY DEF RecTypes
<1>1. /\ UNCHANGED <<fb, ids, sess, txn>>
      /\ pc'[r] = pc[r] \/ (Active(r) /\ pc'[r] = "dead")
  BY <1>0, EnvironmentRows
<1>2. \A w \in Recoverer : rec'[w].at \in Working => rec'[w] = rec[w]
  BY DEF Working
<1>3. (Committing(r)' => Committing(r)) /\ (Undone(r)' => Undone(r))
  <2>1. Pursued(r)' => Pursued(r)
    BY <1>2 DEF Pursued
  <2> QED
    BY <2>1, EnvironmentSigns
<1>4. \A m \in CallsOf(r)' : \E n \in CallsOf(r) : Continues(m, n)
  BY <1>0, EnvironmentCalls DEF CallsOf, Continues
<1>5. StartsOpen(r)'
  <2>. SUFFICES ASSUME pc'[r] \in Starting PROVE StartsOpen(r)'
    BY DEF StartsOpen
  <2>1. pc'[r] = pc[r] /\ StartsOpen(r)
    BY <1>1 DEF Starting, Early, OneSided
  <2>2. CASE CallsOf(r) = {}
    BY <1>3, <1>4, <2>1, <2>2 DEF StartsOpen, Open
  <2>3. CASE CallsOf(r) # {}
    <3>1. pc[r] = "voting"
      BY <2>1, <2>3 DEF StartsOpen
    <3>2. ~ CrashWith(D)
      BY <2>1, <3>1 DEF CrashWith, Active
    <3>3. /\ \A m, n \in CallsOf(r) : m = n
          /\ \A m \in CallsOf(r) : Treated(m)
      BY <2>1 DEF StartsOpen, Treated
    <3>4. \A m, n \in CallsOf(r)' : m = n
      BY <1>0, <3>2, <3>3, OneCallGetsOn
    <3> QED
      BY <1>3, <1>4, <2>1, <3>1, <3>4 DEF StartsOpen, Open, Continues
  <2> QED
    BY <2>2, <2>3
<1>6. AsksWhileOpen(r)'
  BY <1>1, <1>3, <1>4 DEF OneSided, AsksWhileOpen, Open, Continues
<1>7. RowInTime(r)'
  BY <1>1, <1>3 DEF OneSided, RowInTime, Early
<1>8. InvitedOnly(r)'
  BY <1>1, <1>2, <1>4 DEF OneSided, InvitedOnly, Continues
<1> QED
  BY <1>3, <1>5, <1>6, <1>7, <1>8 DEF OneSided

\* A recoverer touches the calls of its transaction only.
LEMMA BesideOtherCalls ==
  ASSUME RecTypes, RecWaiting, NEW w \in Recoverer, Beside(w), NEW r \in Request,
         rec[w].at = "scan" \/ rec[w].txn # r
  PROVE  CallsOf(r)' = CallsOf(r)
<1>1. CASE PickUp(w) \/ RecSetTxnState(w) \/ RecUpdateStatus(w) \/ RecRaises(w)
  BY <1>1, PickUpMoves, CallsUnchanged DEF RecSetTxnState, RecUpdateStatus, RecRaises, vars, node
<1>2. CASE RecSend(w)
  <2>1. rec[w].txn # r /\ \E o : Post(o, rec[w].txn, w, rec[w].ids)
    BY <1>2 DEF RecSend, At
  <2> QED
    BY <2>1 DEF Post, CallsOf
<1>3. CASE RecAcknowledged(w) \/ RecCallFails(w)
  <2>1. PICK m \in Waiting(w) : Close(m) \/ Abandon(m)
    BY <1>3 DEF RecAcknowledged, RecCallFails
  <2>2. m.txn # r /\ [m EXCEPT !.open = FALSE].txn # r
    BY DEF RecWaiting, Waiting, RecTypes, TypeOver, UtilityNodeType, Call
  <2> QED
    BY <2>1, <2>2 DEF Close, Abandon, CallsOf
<1> QED
  BY <1>1, <1>2, <1>3 DEF Beside, Recover

\* A recoverer pursues only what is being committed, and has no other signs to add.
LEMMA BesideSigns ==
  ASSUME RecTypes, RecWaiting, NEW w \in Recoverer, Beside(w),
         rec[w].at \in RecCommits \cup {"scan"}, NEW r \in Request
  PROVE  /\ Committing(r)' => Committing(r)
         /\ Undone(r)' => Undone(r)
<1>1. UNCHANGED <<ub, pc>>
  BY BesideCalls, BesideRows
<1>2. \A m \in CallsOf(r)' :
        \/ \E n \in CallsOf(r) : m.op = n.op
        \/ m.op = rec[w].at /\ m.op \in {"commit", "rollback"} /\ rec[w].txn = r
  BY BesideCalls DEF CallsOf, Continues
<1>3. fb'[r] = fb[r] \/ (fb'[r] = "confirmed" /\ rec[w].at = "confirm" /\ rec[w].txn = r)
  BY BesideRows DEF RecCommits
<1>4. txn'[r].state = "prepared" => txn[r].state = "prepared"
  BY BesideRows
<1>5. rec[w].at \in RecCommits /\ rec[w].txn = r => Pursued(r)
  BY DEF Pursued, RecCommits, Working, RecPlace
<1>6. Pursued(r)' => Committing(r)
  <2>. SUFFICES ASSUME NEW v \in Recoverer, rec'[v].at \in Working, rec'[v].txn = r
                PROVE  Committing(r)
    BY DEF Pursued
  <2>1. CASE v # w
    BY <2>1, BesideMoves DEF Committing, Pursued
  <2>2. CASE v = w /\ PickUp(w)
    BY <2>2, PickUpMoves DEF Committing, Committal
  <2>3. CASE v = w /\ rec'[w] = Scanning
    BY <2>3 DEF Scanning, Working
  <2>4. CASE v = w /\ rec'[w].txn = rec[w].txn /\ <<rec[w].at, rec'[w].at>> \in RecMoves
    <3>1. rec[w].at \in Working
      BY <2>4 DEF RecMoves, Working, RecPlace
    <3> QED
      BY <2>4, <3>1 DEF Committing, Pursued
  <2> QED
    BY <2>1, <2>2, <2>3, <2>4, BesideMoves
<1>7. Committing(r)' => Committing(r)
  BY <1>1, <1>2, <1>3, <1>4, <1>5, <1>6 DEF Committing, Committal, RecCommits
<1>8. Undone(r)' => Undone(r)
  BY <1>1, <1>2, <1>3 DEF Undone, RecCommits
<1> QED
  BY <1>7, <1>8

\* While calls are answered a recoverer never turns round.
LEMMA BesideGoesForward ==
  ASSUME NothingFails, RecTypes, RecWaiting, NEW w \in Recoverer, Beside(w),
         rec[w].at \in RecCommits \cup {"scan"}
  PROVE  rec'[w].at \in RecCommits \cup {"scan"}
<1>1. CASE PickUp(w)
  BY <1>1, PickUpMoves DEF CommitFrom, RecCommits
<1>2. CASE rec'[w] = Scanning
  BY <1>2 DEF Scanning
<1>3. CASE <<rec[w].at, rec'[w].at>> \in RecMoves /\ rec'[w].at # "rollback"
  BY <1>3 DEF RecMoves, RecCommits
<1> QED
  BY <1>1, <1>2, <1>3, BesideMoves DEF NothingFails

LEMMA BesideStaysOneSided ==
  ASSUME NothingFails, RecTypes, RecWaiting, NEW w \in Recoverer, Beside(w),
         rec[w].at \in RecCommits \cup {"scan"}, NEW r \in Request, OneSided(r)
  PROVE  OneSided(r)'
<1>1. (Committing(r)' => Committing(r)) /\ (Undone(r)' => Undone(r))
  BY BesideSigns
<1>2. UNCHANGED <<pc, ids, sess>>
  BY BesideRows
<1>3. rec[w].txn = r => rec[w].at = "scan" \/ Committing(r)
  BY DEF Committing, Pursued, RecCommits, Working, RecPlace
<1>4. CallsOf(r)' = CallsOf(r) \/ Committing(r)
  BY <1>3, BesideOtherCalls
<1>5. StartsOpen(r)'
  BY <1>1, <1>2, <1>4 DEF OneSided, StartsOpen, Open
<1>6. AsksWhileOpen(r)'
  <2>1. ASSUME NEW m \in CallsOf(r)', m.op = "prepare"
        PROVE  \E n \in CallsOf(r) : n.op = "prepare"
    BY <2>1, BesideCalls DEF CallsOf, Continues
  <2> QED
    BY <1>1, <1>2, <2>1 DEF OneSided, AsksWhileOpen, Open
<1>7. RowInTime(r)'
  <2>1. fb'[r] = fb[r] \/ (Committing(r) /\ fb'[r] # "none")
    BY <1>3, BesideRows
  <2>2. Committing(r) => fb[r] # "none" /\ pc[r] \notin Early
    BY DEF OneSided, RowInTime
  <2> QED
    BY <1>1, <1>2, <2>1, <2>2 DEF OneSided, RowInTime
<1>8. InvitedOnly(r)'
  <2>0. InvitedOnly(r) /\ (rec[w].at \in Working /\ rec[w].txn = r => rec[w].ids \subseteq Wanted[r])
    BY DEF OneSided, InvitedOnly
  <2>1. \A m \in CallsOf(r)' : m.items \subseteq Wanted[r] /\ m.todo \subseteq Wanted[r]
    BY <2>0, BesideCalls DEF InvitedOnly, CallsOf, Continues, Working, RecPlace
  <2>2. txn'[r].ids \subseteq Wanted[r]
    <3>1. txn'[r] = txn[r] \/ (rec[w].at \in Working /\ rec[w].txn = r /\ txn'[r].ids = rec[w].ids)
      <4>1. CASE RecSetTxnState(w)
        BY <4>1 DEF RecSetTxnState, WriteTxn, RecTypes, TypeOver, Working, RecPlace
      <4>2. ~ RecRaises(w)
        BY DEF RecRaises, NothingFails
      <4> QED
        BY <4>1, <4>2, PickUpMoves
           DEF Beside, Recover, RecSend, RecAcknowledged, RecCallFails, RecUpdateStatus, vars, redis
    <3> QED
      BY <2>0, <3>1 DEF InvitedOnly
  <2>3. ASSUME NEW v \in Recoverer, rec'[v].at \in Working, rec'[v].txn = r
        PROVE  rec'[v].ids \subseteq Wanted[r]
    <3>1. CASE v # w
      BY <2>0, <2>3, <3>1, BesideMoves DEF InvitedOnly
    <3>2. CASE v = w /\ PickUp(w)
      BY <2>0, <2>3, <3>2, PickUpMoves DEF InvitedOnly
    <3>3. CASE v = w /\ rec'[w] = Scanning
      BY <2>3, <3>3 DEF Scanning, Working
    <3>4. CASE /\ v = w /\ rec'[w].txn = rec[w].txn /\ rec'[w].ids = rec[w].ids
               /\ <<rec[w].at, rec'[w].at>> \in RecMoves
      <4>1. rec[w].at \in Working
        BY <3>4 DEF RecMoves, Working, RecPlace
      <4> QED
        BY <2>0, <2>3, <3>4, <4>1
    <3> QED
      BY <3>1, <3>2, <3>3, <3>4, BesideMoves
  <2> QED
    BY <1>2, <2>0, <2>1, <2>2, <2>3 DEF InvitedOnly
<1> QED
  BY <1>1, <1>5, <1>6, <1>7, <1>8 DEF OneSided

\* A record that has expired commits nothing.
LEMMA ExpiryStaysOneSided ==
  ASSUME RecTypes, NEW p \in Request, ExpireTxn(p), NEW r \in Request, OneSided(r)
  PROVE  OneSided(r)'
<1>1. UNCHANGED <<ub, calls, pc, ids, sess, fb, rec>>
  BY DEF ExpireTxn, node, local, tables
<1>2. CallsOf(r)' = CallsOf(r)
  BY <1>1, CallsUnchanged
<1>3. txn'[r] = txn[r] \/ txn'[r] = [state |-> "none", ids |-> {}]
  BY DEF ExpireTxn, WriteTxn, RecTypes, TypeOver
<1>4. (Committing(r)' => Committing(r)) /\ (Undone(r)' <=> Undone(r))
  BY <1>1, <1>2, <1>3 DEF Committing, Committal, Pursued, Undone
<1> QED
  BY <1>1, <1>2, <1>3, <1>4
     DEF OneSided, Open, StartsOpen, AsksWhileOpen, RowInTime, InvitedOnly

LEMMA CommitInvariantStep ==
  ASSUME NothingFails, RecTypes, RecWaiting, RecVotes, CommitInvariant, [RecNext]_recVars
  PROVE  CommitInvariant'
<1>0. TypeOver(Caller, Event) /\ OwnCalls
  BY DEF RecTypes, RecVotes, VoteInvariant
<1> USE DEF CommitInvariant
<1>1. ASSUME NEW r \in Request, Serve(r) \/ Fault(r), UNCHANGED rec PROVE CommitInvariant'
  <2>1. OneSided(r)'
    BY <1>1, HandlerStaysOneSided
  <2>2. ASSUME NEW p \in Request, p # r PROVE OneSided(p)'
    <3>1. UNCHANGED ub
      BY <1>0, <1>1, HandlerCalls
    <3>2. CallsOf(p)' = CallsOf(p)
      BY <1>0, <1>1, <2>2, OtherCalls
    <3>3. /\ pc'[p] = pc[p] /\ ids'[p] = ids[p] /\ sess'[p] = sess[p]
          /\ fb'[p] = fb[p] /\ txn'[p] = txn[p]
      BY <1>0, <1>1, <2>2, OtherHandlers
    <3> QED
      BY <1>1, <3>1, <3>2, <3>3, OthersStayOneSided
  <2> QED
    BY <1>1, <2>1, <2>2
<1>2. CASE Environment({}) /\ UNCHANGED rec
  BY <1>2, EnvironmentStaysOneSided
<1>3. ASSUME NEW w \in Recoverer, Beside(w) PROVE CommitInvariant'
  <2>1. \A v \in Recoverer \ {w} : rec'[v] = rec[v]
    BY <1>3, BesideMoves
  <2>2. \A r \in Request : OneSided(r)'
    BY <1>3, BesideStaysOneSided
  <2>3. rec'[w].at \in RecCommits \cup {"scan"}
    BY <1>3, BesideGoesForward
  <2> QED
    BY <2>1, <2>2, <2>3
<1>4. ASSUME NEW p \in Request, CancelBooking(p) \/ ExpireTxn(p) PROVE CommitInvariant'
  <2>1. ExpireTxn(p)
    BY <1>4 DEF CancelBooking, NothingFails
  <2> QED
    BY <2>1, ExpiryStaysOneSided DEF ExpireTxn
<1>5. CASE RecCrash
  <2>1. Environment(Recoverer) /\ \A w \in Recoverer : rec'[w].at = "scan"
    BY <1>5 DEF RecCrash, Environment, Scanning
  <2> QED
    BY <2>1, EnvironmentStaysOneSided
<1>6. CASE UNCHANGED recVars
  <2>1. UNCHANGED <<ub, calls, pc, ids, sess, fb, txn, rec>>
    BY <1>6 DEF recVars, vars, node, local, tables, redis
  <2>2. \A r \in Request : CallsOf(r)' = CallsOf(r)
    BY <2>1, CallsUnchanged
  <2> QED
    BY <2>1, <2>2, OthersStayOneSided
<1> QED
  BY <1>1, <1>2, <1>3, <1>4, <1>5, <1>6, RecSteps

LEMMA InitOneSided ==
  ASSUME RecInit
  PROVE  CommitInvariant
<1>1. ASSUME NEW r \in Request PROVE OneSided(r)
  <2>1. /\ pc[r] = "idle" /\ fb[r] = "none" /\ sess[r] = "none" /\ ids[r] = {}
        /\ txn[r].state = "none" /\ txn[r].ids = {} /\ CallsOf(r) = {}
        /\ \A u \in Utility : ub[r][u] = "none"
        /\ \A w \in Recoverer : rec[w].at = "scan"
    BY DEF RecInit, Init, FieldBookingsInit, UtilityNodeInit, CallsOf, Scanning
  <2>2. ~ Committing(r) /\ ~ Undone(r)
    BY <2>1 DEF Committing, Committal, Pursued, Undone, Unanimous, Backward, Working
  <2> QED
    BY <2>1, <2>2 DEF OneSided, Open, StartsOpen, AsksWhileOpen, RowInTime, InvitedOnly, Early,
                      Working
<1> QED
  BY <1>1 DEF CommitInvariant, RecInit, Scanning

-----------------------------------------------------------------------------
(* Every step is one of the abstract commitment, or none.                  *)

\* What is being committed may be, and what is not may still abort.
LEMMA SideOfStages ==
  ASSUME RecTypes, RecVotes, CommitInvariant, NEW r \in Request
  PROVE  /\ Committing(r) => Atomic!CanCommit(r)
         /\ ~ Committing(r) => Atomic!CanAbort(r)
<1>0. Wanted[r] \subseteq Utility
  BY RequestAssumption
<1>1. /\ Atomic!Stages(r) = {StageOf(fb[r])} \cup {StageOf(ub[r][u]) : u \in Wanted[r]}
  BY <1>0 DEF Atomic!Stages
<1>2. ASSUME Committing(r) PROVE Atomic!CanCommit(r)
  <2>1. AllVoted(r)
    BY <1>2 DEF CommitInvariant, RecVotes, VoteInvariant, VotesCounted, Committing, Pursued, Working
  <2>2. ~ Undone(r) /\ fb[r] # "none"
    BY <1>2 DEF CommitInvariant, OneSided, RowInTime
  <2>3. fb[r] \in {"pending", "confirmed"}
    BY <2>2 DEF Undone, RecTypes, TypeOver, FieldBookingsType, BookingStatus
  <2>4. \A u \in Wanted[r] : ub[r][u] \in {"pending", "confirmed"}
    BY <1>0, <2>1, <2>2 DEF AllVoted, Undone, RecTypes, TypeOver, UtilityNodeType, UtilityStatus
  <2> QED
    BY <1>1, <2>3, <2>4 DEF Atomic!CanCommit, StageOf
<1>3. ASSUME ~ Committing(r) PROVE Atomic!CanAbort(r)
  <2>1. fb[r] # "confirmed" /\ \A u \in Wanted[r] : ub[r][u] # "confirmed"
    BY <1>0, <1>3 DEF Committing, Committal
  <2> QED
    BY <1>1, <2>1 DEF Atomic!CanAbort, StageOf
<1> QED
  BY <1>2, <1>3

\* The moves of a party that are open to it, or none.
LEMMA PartyMoves ==
  ASSUME RecTypes, RecVotes, CommitInvariant, NEW r \in Request, NEW old, NEW new,
         \/ new = "pending" /\ old \in {"none", "pending"}
         \/ new = "confirmed" /\ old \in {"pending", "confirmed"} /\ Committing(r)
         \/ /\ new \in {"failed", "cancelled"} /\ old \in {"none", "pending", "failed", "cancelled"}
            /\ ~ Committing(r)
  PROVE  StageOf(new) = StageOf(old) \/ Atomic!Move(r, StageOf(old), StageOf(new))
BY SideOfStages DEF StageOf, Atomic!Move

\* A change of the field's row is a move of the initiator.
LEMMA FieldMoves ==
  ASSUME RecTypes, RecVotes, CommitInvariant, NEW r \in Request, UNCHANGED ub,
         \/ fb' = [fb EXCEPT ![r] = "pending"] /\ fb[r] = "none"
         \/ fb' = [fb EXCEPT ![r] = "confirmed"] /\ Committing(r)
         \/ fb' = [fb EXCEPT ![r] = "failed"] /\ Undone(r)
  PROVE  [Atomic!Next]_(Atomic!vars)
<1>0. fb \in [Request -> BookingStatus \cup {"none"}] /\ OneSided(r)
  BY DEF RecTypes, TypeOver, FieldBookingsType, CommitInvariant
<1>1. PICK s \in {"pending", "confirmed", "failed"} :
        /\ fb' = [fb EXCEPT ![r] = s]
        /\ s = "pending" => fb[r] = "none"
        /\ s = "confirmed" => Committing(r)
        /\ s = "failed" => Undone(r)
  OBVIOUS
<1>2. /\ Committing(r) => fb[r] \in {"pending", "confirmed"}
      /\ Undone(r) => fb[r] \in {"none", "pending", "failed", "cancelled"} /\ ~ Committing(r)
  BY <1>0 DEF OneSided, RowInTime, Undone, Committing, Committal, BookingStatus
<1>3. StageOf(s) = StageOf(fb[r]) \/ Atomic!Move(r, StageOf(fb[r]), StageOf(s))
  BY <1>1, <1>2, PartyMoves
<1>. DEFINE own == [q \in Request |-> StageOf(fb[q])]
<1>4. own' = [own EXCEPT ![r] = StageOf(s)] /\ own[r] = StageOf(fb[r])
  BY <1>0, <1>1
<1>5. StageOf(s) \in Atomic!Stage
  BY DEF StageOf, Atomic!Stage
<1>6. CASE StageOf(s) = StageOf(fb[r])
  <2>1. own' = own
    BY <1>4, <1>6
  <2> QED
    BY <2>1 DEF Atomic!vars
<1>7. CASE Atomic!Move(r, StageOf(fb[r]), StageOf(s))
  BY <1>4, <1>5, <1>7 DEF Atomic!Next, Atomic!MoveOwn
<1> QED
  BY <1>3, <1>6, <1>7

\* A change of a utility's row is a move of that member.
LEMMA UtilityMoves ==
  ASSUME RecTypes, RecVotes, CommitInvariant, NEW r \in Request, NEW u \in Wanted[r],
         NEW s, ub' = [ub EXCEPT ![r][u] = s], UNCHANGED fb,
         \/ s = "pending" /\ Open(r)
         \/ s = "confirmed" /\ Committing(r)
         \/ s = "cancelled" /\ Undone(r)
  PROVE  [Atomic!Next]_(Atomic!vars)
<1>0. /\ ub \in [Request -> [Utility -> UtilityStatus]] /\ OneSided(r)
      /\ u \in Utility
  BY RequestAssumption DEF RecTypes, TypeOver, UtilityNodeType, CommitInvariant
<1>1. Committing(r) => ub[r][u] # "none"
  BY DEF CommitInvariant, RecVotes, VoteInvariant, VotesCounted, Committing, Pursued, Working,
         AllVoted
<1>2. /\ Open(r) => ub[r][u] \in {"none", "pending"}
      /\ Committing(r) => ub[r][u] \in {"pending", "confirmed"}
      /\ Undone(r) => ub[r][u] \in {"none", "pending", "cancelled"} /\ ~ Committing(r)
  BY <1>0, <1>1 DEF OneSided, Open, Undone, Committing, Committal, UtilityStatus
<1>3. StageOf(s) = StageOf(ub[r][u]) \/ Atomic!Move(r, StageOf(ub[r][u]), StageOf(s))
  BY <1>2, PartyMoves
<1>. DEFINE part == [q \in Request |-> [v \in Utility |-> StageOf(ub[q][v])]]
<1>4. part' = [part EXCEPT ![r][u] = StageOf(s)] /\ part[r][u] = StageOf(ub[r][u])
  <2>1. ASSUME NEW q \in Request, NEW v \in Utility
        PROVE  ub'[q][v] = IF q = r /\ v = u THEN s ELSE ub[q][v]
    BY <1>0
  <2> QED
    BY <1>0, <2>1
<1>5. StageOf(s) \in Atomic!Stage
  BY DEF StageOf, Atomic!Stage
<1>6. CASE StageOf(s) = StageOf(ub[r][u])
  <2>1. part' = part
    BY <1>0, <1>4, <1>6
  <2> QED
    BY <2>1 DEF Atomic!vars
<1>7. CASE Atomic!Move(r, StageOf(ub[r][u]), StageOf(s))
  BY <1>4, <1>5, <1>7 DEF Atomic!Next, Atomic!MovePart
<1> QED
  BY <1>3, <1>6, <1>7

\* The utility node only does what the calls under way tell it.
LEMMA UtilityStepMoves ==
  ASSUME RecTypes, RecVotes, CommitInvariant, NEW m \in calls, UtilityStep(m)
  PROVE  [Atomic!Next]_(Atomic!vars)
<1>0. m \in Call(Caller) /\ m.txn \in Request /\ m \in CallsOf(m.txn) /\ UNCHANGED fb
  BY DEF RecTypes, TypeOver, UtilityNodeType, Call, CallsOf, UtilityStep, tables
<1>1. PICK u \in m.todo :
        \/ ub' = ub
        \/ m.op = "prepare" /\ ub' = [ub EXCEPT ![m.txn][u] = "pending"]
        \/ m.op = "commit" /\ ub' = [ub EXCEPT ![m.txn][u] = "confirmed"]
        \/ m.op = "rollback" /\ ub' = [ub EXCEPT ![m.txn][u] = "cancelled"]
  BY DEF UtilityStep, Handle, HandlePrepare, HandleCommit, HandleRollback, Record
<1>2. u \in Wanted[m.txn]
  BY <1>0 DEF CommitInvariant, OneSided, InvitedOnly
<1>3. /\ m.op = "prepare" => Open(m.txn)
      /\ m.op = "commit" => Committing(m.txn)
      /\ m.op = "rollback" => Undone(m.txn)
  BY <1>0 DEF CommitInvariant, OneSided, AsksWhileOpen, Committing, Committal, Undone
<1>4. CASE ub' = ub
  BY <1>0, <1>4 DEF Atomic!vars
<1> QED
  BY <1>0, <1>1, <1>2, <1>3, <1>4, UtilityMoves

LEMMA CommitStep ==
  ASSUME NothingFails, RecTypes, RecWaiting, RecVotes, CommitInvariant, [RecNext]_recVars
  PROVE  [Atomic!Next]_(Atomic!vars)
<1>0. TypeOver(Caller, Event)
  BY DEF RecTypes
<1>1. ASSUME UNCHANGED <<fb, ub>> PROVE [Atomic!Next]_(Atomic!vars)
  BY <1>1 DEF Atomic!vars
<1>2. ASSUME NEW r \in Request, Serve(r) \/ Fault(r) PROVE [Atomic!Next]_(Atomic!vars)
  <2>1. RowInTime(r) /\ UNCHANGED ub
    BY <1>0, <1>2, HandlerCalls DEF CommitInvariant, OneSided
  <2>2. HandlerMove(r)
    BY <1>0, <1>2, <2>1, HandlerMoves
  <2>3. /\ pc[r] = "insert" => fb[r] = "none"
        /\ pc[r] = "confirm" => Committing(r)
        /\ pc[r] = "fail" => Undone(r)
    BY <2>1 DEF RowInTime, Early, Committing, Committal, Unanimous, Undone, Backward
  <2> QED
    BY <1>1, <2>1, <2>2, <2>3, FieldMoves DEF HandlerMove
<1>3. CASE \E m \in calls : UtilityStep(m)
  BY <1>3, UtilityStepMoves
<1>4. CASE Expire \/ LateCallLost \/ RecCrash
  BY <1>1, <1>4 DEF Expire, LateCallLost, Lose, RecCrash, CrashWith, node, tables
<1>5. ASSUME NEW w \in Recoverer, Beside(w) PROVE [Atomic!Next]_(Atomic!vars)
  <2>1. UNCHANGED ub
    BY <1>5, BesideCalls
  <2>2. CASE RecUpdateStatus(w)
    <3>1. rec[w].at = "confirm" /\ rec[w].txn \in Request
      BY <2>2 DEF RecUpdateStatus, CommitInvariant, RecCommits, RecTypes, RecRecords, Working,
                  RecPlace
    <3>2. fb' = [fb EXCEPT ![rec[w].txn] = "confirmed"] /\ Committing(rec[w].txn)
      BY <2>2, <3>1 DEF RecUpdateStatus, At, SetStatus, Committing, Pursued, Working, RecPlace
    <3> QED
      BY <2>1, <3>1, <3>2, FieldMoves
  <2>3. CASE PickUp(w) \/ RecSend(w) \/ RecAcknowledged(w) \/ RecCallFails(w) \/ RecSetTxnState(w)
    BY <1>1, <2>1, <2>3
       DEF PickUp, RecSend, RecAcknowledged, RecCallFails, RecSetTxnState, vars, tables
  <2>4. ~ RecRaises(w)
    BY DEF RecRaises, NothingFails
  <2> QED
    BY <1>5, <2>2, <2>3, <2>4 DEF Beside, Recover
<1>6. ASSUME NEW r \in Request, CancelBooking(r) \/ ExpireTxn(r) PROVE [Atomic!Next]_(Atomic!vars)
  BY <1>1, <1>6 DEF CancelBooking, ExpireTxn, NothingFails, node, tables
<1>7. CASE UNCHANGED recVars
  BY <1>1, <1>7 DEF recVars, vars, node, tables
<1> QED
  BY <1>2, <1>3, <1>4, <1>5, <1>6, <1>7 DEF RecNext

\* While calls are answered, and neither Redis nor the database fails nor anybody
\* cancels, the booking service is an atomic commitment of field and utilities,
\* however often its process crashes and whoever recovers beside the handlers.
THEOREM CommitmentRefinement ==
  ASSUME NothingFails PROVE RecSpec => ImplementsAtomicCommit
<1>1. RecInit => Atomic!Init
  BY DEF RecInit, Init, FieldBookingsInit, UtilityNodeInit, Atomic!Init, StageOf
<1>2. RecTypes /\ RecWaiting /\ RecVotes /\ CommitInvariant /\ [RecNext]_recVars
        => CommitInvariant' /\ [Atomic!Next]_(Atomic!vars)
  BY CommitInvariantStep, CommitStep
<1>3. RecInit => RecVotes /\ CommitInvariant
  BY InitVotes, InitOneSided DEF RecInit, RecVotes, Scanning, RecCommits
<1>4. RecTypes /\ RecWaiting /\ RecVotes /\ [RecNext]_recVars => RecVotes'
  BY RecVotesStep
<1> QED
  BY <1>1, <1>2, <1>3, <1>4, RecTypesHold, PTL DEF RecSpec, ImplementsAtomicCommit, Atomic!Spec

-----------------------------------------------------------------------------
(* While nothing but the process fails, recovery keeps slots exclusive.    *)

\* A row that a step confirms was live before: a commitment aborts for good.
LEMMA ConfirmsLiveRows ==
  ASSUME RecTypes, [Atomic!Next]_(Atomic!vars), NEW q \in Request, fb'[q] = "confirmed"
  PROVE  fb[q] \in Live
<1>. DEFINE own == [r \in Request |-> StageOf(fb[r])]
<1>1. own[q] = StageOf(fb[q]) /\ own'[q] = "committed"
  BY DEF StageOf
<1>2. own[q] \in {"prepared", "committed"}
  <2>1. ASSUME NEW r \in Request, Atomic!MoveOwn(r)
        PROVE  own[q] \in {"prepared", "committed"}
    <3>1. PICK st \in Atomic!Stage : Atomic!Move(r, own[r], st) /\ own' = [own EXCEPT ![r] = st]
      BY <2>1 DEF Atomic!MoveOwn
    <3>2. own'[q] = IF q = r THEN st ELSE own[q]
      BY <3>1
    <3>. HIDE DEF own
    <3>3. CASE q = r
      BY <1>1, <3>1, <3>2, <3>3 DEF Atomic!Move
    <3>4. CASE q # r
      BY <1>1, <3>2, <3>4
    <3> QED
      BY <3>3, <3>4
  <2>2. ASSUME (\E r \in Request : Atomic!MovePart(r)) \/ UNCHANGED Atomic!vars
        PROVE  own[q] \in {"prepared", "committed"}
    <3>1. own' = own
      BY <2>2 DEF Atomic!MovePart, Atomic!vars
    <3> QED
      BY <1>1, <3>1
  <2> QED
    BY <2>1, <2>2 DEF Atomic!Next
<1> QED
  BY <1>1, <1>2 DEF StageOf, Live, RecTypes, TypeOver, FieldBookingsType, BookingStatus

\* A write makes a row live only in a free window, or where it was live already.
LEMMA ExclusionStep ==
  ASSUME RecTypes, InsertsCovered, TableStep, ExclusiveSlots,
         \A q \in Request : fb'[q] = "confirmed" => fb[q] \in Live
  PROVE  ExclusiveSlots'
<1>1. CASE UNCHANGED fb
  BY <1>1 DEF ExclusiveSlots, Overlaps
<1>2. ASSUME NEW q \in Request, Writes(q)
      PROVE  ExclusiveSlots'
  <2>1. PICK s \in BookingStatus : /\ fb' = [fb EXCEPT ![q] = s]
                                   /\ s = "pending" => pc[q] = "insert"
    BY <1>2 DEF Writes, SetStatus
  <2>2. \A r \in Request : fb'[r] = IF r = q THEN s ELSE fb[r]
    BY <2>1 DEF RecTypes, TypeOver, FieldBookingsType
  <2>3. ASSUME s \in Live
        PROVE  \A r \in Request \ {q} : fb[r] \in Live => ~ Overlaps(r, q)
    <3>1. CASE s = "pending"
      BY <2>1, <3>1 DEF InsertsCovered, Conflicts
    <3>2. CASE s = "confirmed"
      BY <2>2, <3>2 DEF ExclusiveSlots
    <3> QED
      BY <2>3, <3>1, <3>2 DEF Live
  <2>4. ASSUME NEW p \in Request, NEW r \in Request, p # r, fb'[p] \in Live, fb'[r] \in Live,
               Overlaps(p, r)
        PROVE  FALSE
    <3>1. Overlaps(r, p)
      BY <2>4, OverlapsSymmetric
    <3> QED
      BY <2>2, <2>3, <2>4, <3>1 DEF ExclusiveSlots
  <2> QED
    BY <2>4 DEF ExclusiveSlots, Overlaps
<1> QED
  BY <1>1, <1>2 DEF TableStep

\* While calls are answered, and neither Redis nor the database fails nor anybody
\* cancels, no two overlapping windows are ever both live, though recovery writes
\* statuses without a lock and without asking for the availability.
THEOREM RecoveryKeepsSlots ==
  ASSUME NothingFails PROVE RecSpec => []ExclusiveSlots
<1>. DEFINE Inv == RecVotes /\ CommitInvariant /\ InsertsCovered /\ ExclusiveSlots
<1>1. RecInit => Inv
  <2>1. RecInit => RecVotes /\ CommitInvariant
    BY InitVotes, InitOneSided DEF RecInit, RecVotes, Scanning, RecCommits
  <2>2. RecInit => InsertsCovered /\ ExclusiveSlots
    BY DEF RecInit, Init, FieldBookingsInit, InsertsCovered, ExclusiveSlots, Live
  <2> QED
    BY <2>1, <2>2
<1>2. RecTypes /\ RecWaiting /\ RecTypes' /\ Inv /\ [RecNext]_recVars => Inv'
  <2> SUFFICES ASSUME RecTypes, RecWaiting, Inv, [RecNext]_recVars
               PROVE  Inv'
    OBVIOUS
  <2>1. RecVotes' /\ CommitInvariant'
    BY RecVotesStep, CommitInvariantStep
  <2>2. InsertsCovered' /\ TableStep
    BY CoverStep
  <2>3. \A q \in Request : fb'[q] = "confirmed" => fb[q] \in Live
    BY CommitStep, ConfirmsLiveRows
  <2>4. ExclusiveSlots'
    BY <2>2, <2>3, ExclusionStep
  <2> QED
    BY <2>1, <2>2, <2>4
<1> QED
  BY <1>1, <1>2, RecTypesHold, PTL DEF RecSpec

=============================================================================
