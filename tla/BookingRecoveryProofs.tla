------------------------ MODULE BookingRecoveryProofs ------------------------
(***************************************************************************)
(* What is left of the guarantees of the booking handlers, and of the      *)
(* atomic commitment, when the recovery job, cancellations and expiring    *)
(* records work beside them: for any set of requests, any number of        *)
(* recoverers that overlap, and any number of crashes.                     *)
(***************************************************************************)
EXTENDS BookingRecovery, CoordinatorProofs

Caller == Request \cup Recoverer

Event == {"none", "confirmed", "failed", "cancelled"}

\* The places of a recoverer that has picked up a transaction.
Working == RecPlace \ {"scan"}

\* A recoverer at work has a transaction.
RecRecords ==
  /\ rec \in [Recoverer -> [at : RecPlace, txn : Request \cup {Nobody}, ids : SUBSET Utility]]
  /\ \A w \in Recoverer : rec[w].at \in Working => rec[w].txn \in Request

RecTypes == TypeOver(Caller, Event) /\ RecRecords

\* A recoverer waits for the one call it has posted for its transaction.
RecWaiting ==
  \A w \in Recoverer :
    /\ \A m, n \in Waiting(w) : m = n
    /\ \A m \in Waiting(w) :
         /\ rec[w].at \in {"committing", "rollingback"}
         /\ m.txn = rec[w].txn /\ m.items = rec[w].ids
         /\ rec[w].at = "committing" => m.op = "commit"
         /\ rec[w].at = "rollingback" => m.op = "rollback"

-----------------------------------------------------------------------------
(* Type correctness.                                                       *)

\* A recoverer that moves on keeps the transaction and the ids it has read.
LEMMA RecGotoMoves ==
  ASSUME RecRecords, NEW w \in Recoverer, NEW p \in Working, RecGoto(w, p)
  PROVE  /\ rec'[w] = [at |-> p, txn |-> rec[w].txn, ids |-> rec[w].ids]
         /\ \A v \in Recoverer \ {w} : rec'[v] = rec[v]
         /\ rec[w].txn \in Request => RecRecords'
BY DEF RecRecords, RecGoto, Working

LEMMA RecDoneMoves ==
  ASSUME RecRecords, NEW w \in Recoverer, RecDone(w)
  PROVE  /\ rec'[w] = Scanning
         /\ \A v \in Recoverer \ {w} : rec'[v] = rec[v]
         /\ RecRecords'
BY DEF RecRecords, RecDone, Scanning, RecPlace, Working

\* What a recoverer reads off a record in PREPARED.
LEMMA PickUpMoves ==
  ASSUME RecTypes, NEW w \in Recoverer, PickUp(w)
  PROVE  /\ UNCHANGED vars
         /\ \A v \in Recoverer \ {w} : rec'[v] = rec[v]
         /\ rec'[w].txn \in Request /\ txn[rec'[w].txn].state = "prepared"
         /\ rec'[w].ids = txn[rec'[w].txn].ids
         /\ rec'[w].at = CommitFrom(rec'[w].ids)
         /\ rec[w].at = "scan"
         /\ RecRecords'
<1>1. PICK r \in Request :
        /\ txn[r].state = "prepared"
        /\ rec' = [rec EXCEPT ![w] = [at |-> CommitFrom(txn[r].ids), txn |-> r, ids |-> txn[r].ids]]
  BY DEF PickUp
<1>2. txn[r].ids \in SUBSET Utility /\ CommitFrom(txn[r].ids) \in RecPlace
  BY DEF RecTypes, TypeOver, CommitFrom, RecPlace
<1>3. rec'[w] = [at |-> CommitFrom(txn[r].ids), txn |-> r, ids |-> txn[r].ids]
  BY <1>1 DEF RecTypes, RecRecords
<1> QED
  BY <1>1, <1>2, <1>3 DEF RecTypes, RecRecords, PickUp, At

\* A recoverer's step other than picking up a transaction.
LEMMA BesideType ==
  ASSUME RecTypes, RecWaiting, NEW w \in Recoverer, Beside(w)
  PROVE  RecTypes'
<1> USE DEF TypeOver, LockType, FieldBookingsType, UtilityNodeType, PoolType,
        tables, local, redis, process, node
<1>1. CASE PickUp(w)
  <2>1. TypeOver(Caller, Event)'
    BY <1>1, PickUpMoves DEF RecTypes, vars
  <2> QED
    BY <1>1, <2>1, PickUpMoves DEF RecTypes
<1>2. CASE RecSend(w)
  <2>1. rec[w].at \in {"commit", "rollback"} /\ rec[w].txn \in Request /\ rec[w].ids \in SUBSET Utility
    BY <1>2 DEF RecSend, At, RecTypes, RecRecords, Working, RecPlace
  <2>2. \E o \in Operation : Post(o, rec[w].txn, w, rec[w].ids)
    BY <1>2 DEF RecSend, Operation
  <2>3. calls' \in SUBSET Call(Caller)
    BY <2>1, <2>2, PostType DEF RecTypes, Caller
  <2>4. \E p \in Working : RecGoto(w, p)
    BY <1>2 DEF RecSend, Working, RecPlace
  <2>5. RecRecords'
    BY <2>1, <2>4, RecGotoMoves DEF RecTypes
  <2> QED
    BY <1>2, <2>3, <2>5 DEF RecSend, RecTypes
<1>3. CASE RecAcknowledged(w) \/ RecCallFails(w)
  <2>1. PICK m \in Waiting(w) : Close(m) \/ Abandon(m)
    BY <1>3 DEF RecAcknowledged, RecCallFails
  <2>2. calls' \in SUBSET Call(Caller)
    BY <2>1, CloseType DEF RecTypes, Waiting
  <2>3. rec[w].txn \in Request
    BY <2>1 DEF RecWaiting, RecTypes, RecRecords, Working, RecPlace
  <2>4. \E p \in Working : RecGoto(w, p)
    BY <1>3 DEF RecAcknowledged, RecCallFails, Working, RecPlace
  <2>5. RecRecords'
    BY <2>3, <2>4, RecGotoMoves DEF RecTypes
  <2> QED
    BY <1>3, <2>2, <2>5 DEF RecAcknowledged, RecCallFails, RecTypes
<1>4. ASSUME rec[w].at \in {"committed", "aborted"}, WriteTxn(rec[w].txn, rec[w].at, rec[w].ids)
      PROVE  txn' \in [Request -> [state : TxnState \cup {"none"}, ids : SUBSET Utility]]
  BY <1>4 DEF WriteTxn, RecTypes, RecRecords, TxnState
<1>5. CASE RecSetTxnState(w)
  <2>1. txn' \in [Request -> [state : TxnState \cup {"none"}, ids : SUBSET Utility]]
    BY <1>4, <1>5 DEF RecSetTxnState
  <2>2. rec[w].txn \in Request
    BY <1>5 DEF RecSetTxnState, RecTypes, RecRecords, Working, RecPlace
  <2>3. \E p \in Working : RecGoto(w, p)
    BY <1>5 DEF RecSetTxnState, Working, RecPlace
  <2>4. RecRecords'
    BY <2>2, <2>3, RecGotoMoves DEF RecTypes
  <2> QED
    BY <1>5, <2>1, <2>4 DEF RecSetTxnState, RecTypes
<1>6. ASSUME NEW s \in {"confirmed", "failed"}, SetStatus(rec[w].txn, s)
      PROVE  fb' \in [Request -> BookingStatus \cup {"none"}]
  BY <1>6 DEF SetStatus, RecTypes, BookingStatus
<1>7. CASE RecUpdateStatus(w)
  <2>1. fb' \in [Request -> BookingStatus \cup {"none"}]
    BY <1>6, <1>7 DEF RecUpdateStatus
  <2> QED
    BY <1>7, <2>1, RecDoneMoves DEF RecUpdateStatus, RecTypes
<1>8. CASE RecRaises(w)
  <2>1. txn' \in [Request -> [state : TxnState \cup {"none"}, ids : SUBSET Utility]]
    BY <1>4, <1>8 DEF RecRaises, RecTypes
  <2>2. fb' \in [Request -> BookingStatus \cup {"none"}]
    BY <1>6, <1>8 DEF RecRaises, RecTypes
  <2> QED
    BY <1>8, <2>1, <2>2, RecDoneMoves DEF RecRaises, RecTypes
<1> QED
  BY <1>1, <1>2, <1>3, <1>5, <1>7, <1>8 DEF Beside, Recover

\* Recoverers wait as handlers and their calls go on.
LEMMA WaitingGetsOn ==
  ASSUME RecTypes, NEW D, Environment(D), ~ CrashWith(D), NEW w \in Recoverer,
         \A m, n \in Waiting(w) : m = n
  PROVE  /\ \A m, n \in Waiting(w)' : m = n
         /\ \A m \in Waiting(w)' : \E n \in Waiting(w) : Continues(m, n)
<1>1. \A m \in Waiting(w)' : \E n \in Waiting(w) : Continues(m, n)
  BY EnvironmentCalls DEF RecTypes, Waiting, Continues
<1>2. CASE calls' \subseteq calls
  BY <1>1, <1>2 DEF Waiting
<1>3. CASE LateCallLost \/ Expire
  BY <1>2, <1>3 DEF LateCallLost, Expire, Lose, Close, node
<1>4. ASSUME NEW m \in calls, UtilityStep(m) PROVE \A k, n \in Waiting(w)' : k = n
  <2>1. PICK u \in m.todo : calls' \subseteq (calls \ {m}) \cup {[m EXCEPT !.todo = m.todo \ {u}]}
    BY <1>4, UtilityProgress DEF RecTypes
  <2>. DEFINE k == [m EXCEPT !.todo = m.todo \ {u}]
  <2>2. k.by = m.by /\ k.open = m.open
    BY DEF RecTypes, TypeOver, UtilityNodeType, Call
  <2>. HIDE DEF k
  <2>3. CASE m \in Waiting(w)
    <3>1. calls' \subseteq (calls \ Waiting(w)) \cup {k}
      BY <2>1, <2>3 DEF k
    <3>2. Waiting(w)' \subseteq {k}
      BY <3>1 DEF Waiting
    <3> QED
      BY <3>2
  <2>4. CASE m \notin Waiting(w)
    <3>1. Waiting(w)' \subseteq Waiting(w)
      BY <2>1, <2>2, <2>4 DEF Waiting, k
    <3> QED
      BY <3>1
  <2> QED
    BY <2>3, <2>4
<1> QED
  BY <1>1, <1>3, <1>4 DEF Environment

\* After a crash nobody waits any more.
LEMMA CrashEndsWaits ==
  ASSUME RecTypes, RecCrash, NEW w \in Recoverer
  PROVE  Waiting(w)' = {}
<1>1. PICK Dead : Recoverer \subseteq Dead /\ OrphanCalls(Dead)
  BY DEF RecCrash, CrashWith
<1>2. ASSUME NEW m \in calls
      PROVE  /\ [m EXCEPT !.open = m.open /\ m.by \notin Dead].by = m.by
             /\ [m EXCEPT !.open = m.open /\ m.by \notin Dead].open = (m.open /\ m.by \notin Dead)
  BY DEF RecTypes, TypeOver, UtilityNodeType, Call
<1>3. PICK lost \in SUBSET {m \in calls : m.by \in Dead /\ m.open} :
        calls' = {[m EXCEPT !.open = m.open /\ m.by \notin Dead] :
                    m \in {n \in calls \ lost : n.by \notin Dead \/ ~ Answered(n)}}
  BY <1>1 DEF OrphanCalls
<1>4. ASSUME NEW n \in calls', n.by = w, n.open PROVE FALSE
  <2>1. PICK m \in calls : n = [m EXCEPT !.open = m.open /\ m.by \notin Dead]
    BY <1>3
  <2>2. n.by = m.by /\ n.open = (m.open /\ m.by \notin Dead)
    BY <1>2, <2>1
  <2> QED
    BY <1>1, <1>4, <2>2
<1> QED
  BY <1>4 DEF Waiting

\* Handlers leave the calls of recoverers alone.
LEMMA HandlersLeaveWaits ==
  ASSUME RecTypes, NEW r \in Request, Serve(r) \/ Fault(r), NEW w \in Recoverer
  PROVE  Waiting(w)' = Waiting(w)
<1>0. w # r
  BY RecoveryAssumption
<1>1. CallStep(r)
  BY HandlerCalls DEF RecTypes
<1>2. CASE UNCHANGED calls
  BY <1>2 DEF Waiting
<1>3. CASE \E o \in Operation, i \in SUBSET Utility : Post(o, r, r, i)
  BY <1>0, <1>3 DEF Post, Waiting
<1>4. ASSUME NEW m \in Waiting(r), Close(m) \/ Abandon(m) PROVE Waiting(w)' = Waiting(w)
  <2>1. m \in calls /\ m.by = r /\ [m EXCEPT !.open = FALSE].by = r
    BY DEF Waiting, RecTypes, TypeOver, UtilityNodeType, Call
  <2> QED
    BY <1>0, <1>4, <2>1 DEF Close, Abandon, Waiting
<1> QED
  BY <1>1, <1>2, <1>3, <1>4 DEF CallStep

\* A recoverer waits for what it posts, and moves on when it stops waiting.
LEMMA BesideWaits ==
  ASSUME RecTypes, RecWaiting, NEW w \in Recoverer, Beside(w)
  PROVE  RecWaiting'
<1>0. RecRecords
  BY DEF RecTypes
<1>1. CASE PickUp(w) \/ RecSetTxnState(w) \/ RecUpdateStatus(w) \/ RecRaises(w)
  <2>1. UNCHANGED calls
    BY <1>1, PickUpMoves DEF RecSetTxnState, RecUpdateStatus, RecRaises, vars, node
  <2>2. rec[w].at \notin {"committing", "rollingback"}
    BY <1>1, PickUpMoves DEF RecSetTxnState, RecUpdateStatus, RecRaises
  <2>3. \A v \in Recoverer \ {w} : rec'[v] = rec[v]
    <3>1. CASE RecSetTxnState(w)
      BY <1>0, <3>1, RecGotoMoves DEF RecSetTxnState, Working, RecPlace
    <3> QED
      BY <1>0, <1>1, <3>1, PickUpMoves, RecDoneMoves DEF RecUpdateStatus, RecRaises
  <2> QED
    BY <2>1, <2>2, <2>3 DEF RecWaiting, Waiting
<1>2. CASE RecSend(w)
  <2>1. PICK o \in {"commit", "rollback"} :
          /\ rec[w].at = o /\ Post(o, rec[w].txn, w, rec[w].ids)
          /\ RecGoto(w, IF o = "commit" THEN "committing" ELSE "rollingback")
    BY <1>2 DEF RecSend, At
  <2>2. Waiting(w) = {}
    BY <2>1 DEF RecWaiting
  <2>. DEFINE n == [op |-> o, txn |-> rec[w].txn, by |-> w, items |-> rec[w].ids,
                    todo |-> rec[w].ids, open |-> TRUE]
  <2>3. calls' = calls \cup {n}
    BY <2>1 DEF Post
  <2>4. /\ rec'[w].at = (IF o = "commit" THEN "committing" ELSE "rollingback")
        /\ rec'[w].txn = rec[w].txn /\ rec'[w].ids = rec[w].ids
        /\ \A v \in Recoverer \ {w} : rec'[v] = rec[v]
    <3>1. (IF o = "commit" THEN "committing" ELSE "rollingback") \in Working
      BY DEF Working, RecPlace
    <3>2. /\ rec'[w] = [at  |-> IF o = "commit" THEN "committing" ELSE "rollingback",
                        txn |-> rec[w].txn, ids |-> rec[w].ids]
          /\ \A v \in Recoverer \ {w} : rec'[v] = rec[v]
      BY <1>0, <2>1, <3>1, RecGotoMoves
    <3> QED
      BY <3>2
  <2>5. n.by = w /\ n.op = o /\ n.txn = rec[w].txn /\ n.items = rec[w].ids
    OBVIOUS
  <2>. HIDE DEF n
  <2>6. Waiting(w)' \subseteq {n} /\ \A v \in Recoverer \ {w} : Waiting(v)' = Waiting(v)
    BY <2>2, <2>3, <2>5 DEF Waiting
  <2> QED
    BY <2>1, <2>4, <2>5, <2>6 DEF RecWaiting
<1>3. CASE RecAcknowledged(w) \/ RecCallFails(w)
  <2>1. PICK m \in Waiting(w) : Close(m) \/ Abandon(m)
    BY <1>3 DEF RecAcknowledged, RecCallFails
  <2>2. /\ m \in calls /\ m.by = w
        /\ [m EXCEPT !.open = FALSE].by = w /\ [m EXCEPT !.open = FALSE].open = FALSE
    BY DEF Waiting, RecTypes, TypeOver, UtilityNodeType, Call
  <2>3. Waiting(w)' = {} /\ \A v \in Recoverer \ {w} : Waiting(v)' = Waiting(v)
    <3>. DEFINE k == [m EXCEPT !.open = FALSE]
    <3>1. calls' = calls \ {m} \/ calls' = (calls \ {m}) \cup {k}
      BY <2>1 DEF Close, Abandon
    <3>2. k.by = w /\ ~ k.open
      BY <2>2
    <3>. HIDE DEF k
    <3>3. Waiting(w) = {m}
      BY DEF RecWaiting
    <3>4. \A v : Waiting(v)' \subseteq Waiting(v) \ {m}
      BY <2>2, <3>1, <3>2 DEF Waiting
    <3>5. \A v \in Recoverer \ {w} : Waiting(v) \subseteq Waiting(v)'
      BY <2>2, <3>1 DEF Waiting
    <3>6. \A v \in Recoverer \ {w} : Waiting(v)' \subseteq Waiting(v)
      BY <3>4
    <3> QED
      BY <3>3, <3>4, <3>5, <3>6
  <2>4. \A v \in Recoverer \ {w} : rec'[v] = rec[v]
    BY <1>0, <1>3, RecGotoMoves DEF RecAcknowledged, RecCallFails, Working, RecPlace
  <2> QED
    BY <2>3, <2>4 DEF RecWaiting
<1> QED
  BY <1>1, <1>2, <1>3 DEF Beside, Recover

\* Cancellations and expiring records keep the types, too.
LEMMA UserType ==
  ASSUME RecTypes, NEW r \in Request, CancelBooking(r) \/ ExpireTxn(r)
  PROVE  RecTypes'
<1> USE DEF RecTypes, RecRecords, TypeOver, LockType, FieldBookingsType, UtilityNodeType, PoolType,
        tables, local, redis, process, node
<1>1. CASE CancelBooking(r)
  <2>1. fb' \in [Request -> BookingStatus \cup {"none"}]
    BY <1>1 DEF CancelBooking, SetStatus, BookingStatus
  <2>2. news' \in [Request -> Event]
    BY <1>1 DEF CancelBooking, Publish, Event
  <2> QED
    BY <1>1, <2>1, <2>2 DEF CancelBooking
<1>2. CASE ExpireTxn(r)
  <2>1. txn' \in [Request -> [state : TxnState \cup {"none"}, ids : SUBSET Utility]]
    BY <1>2 DEF ExpireTxn, WriteTxn
  <2> QED
    BY <1>2, <2>1 DEF ExpireTxn
<1> QED
  BY <1>1, <1>2

\* The steps of a handler, of the environment, of a recoverer, and the others.
LEMMA RecSteps ==
  ASSUME RecTypes, RecNext
  PROVE  \/ \E r \in Request : (Serve(r) \/ Fault(r)) /\ UNCHANGED rec
         \/ Environment({}) /\ ~ CrashWith({}) /\ UNCHANGED rec
         \/ \E w \in Recoverer : Beside(w)
         \/ \E r \in Request : CancelBooking(r) \/ ExpireTxn(r)
         \/ RecCrash
<1>1. ASSUME (\E m \in calls : UtilityStep(m)) \/ Expire \/ LateCallLost PROVE ~ CrashWith({})
  <2>1. UNCHANGED process
    BY <1>1 DEF UtilityStep, Expire, LateCallLost
  <2> QED
    BY <2>1 DEF CrashWith, process, RecTypes, TypeOver
<1> QED
  BY <1>1 DEF RecNext, Environment

LEMMA RecTypesStep ==
  ASSUME RecTypes, RecWaiting, [RecNext]_recVars
  PROVE  RecTypes' /\ RecWaiting'
<1>0. Request \subseteq Caller /\ HandlerEvents \subseteq Event
  BY DEF Caller, HandlerEvents, Event
<1>1. ASSUME NEW r \in Request, Serve(r) \/ Fault(r), UNCHANGED rec
      PROVE  RecTypes' /\ RecWaiting'
  <2>1. RecTypes'
    BY <1>0, <1>1, ServeType, FaultType DEF RecTypes, RecRecords
  <2> QED
    BY <1>1, <2>1, HandlersLeaveWaits DEF RecWaiting
<1>2. CASE Environment({}) /\ ~ CrashWith({}) /\ UNCHANGED rec
  <2>1. RecTypes'
    BY <1>2, EnvironmentType DEF Environment, RecTypes, RecRecords
  <2> QED
    BY <1>2, <2>1, WaitingGetsOn DEF RecWaiting, Continues
<1>3. CASE \E w \in Recoverer : Beside(w)
  BY <1>3, BesideType, BesideWaits
<1>4. ASSUME NEW r \in Request, CancelBooking(r) \/ ExpireTxn(r)
      PROVE  RecTypes' /\ RecWaiting'
  <2>1. UNCHANGED <<calls, rec>>
    BY <1>4 DEF CancelBooking, ExpireTxn, node
  <2> QED
    BY <1>4, <2>1, UserType DEF RecWaiting, Waiting
<1>5. CASE RecCrash
  <2>1. RecRecords'
    BY <1>5 DEF RecCrash, RecRecords, Scanning, RecPlace, Working
  <2>2. TypeOver(Caller, Event)'
    BY <1>5, EnvironmentType DEF RecCrash, RecTypes
  <2> QED
    BY <1>5, <2>1, <2>2, CrashEndsWaits DEF RecTypes, RecWaiting
<1>6. CASE UNCHANGED recVars
  BY <1>6 DEF recVars, vars, tables, node, local, redis, process, RecTypes, RecRecords, TypeOver,
              LockType, FieldBookingsType, UtilityNodeType, PoolType, RecWaiting, Waiting
<1> QED
  BY <1>1, <1>2, <1>3, <1>4, <1>5, <1>6, RecSteps

\* With recovery beside the handlers everything keeps its type, and a recoverer that
\* waits for an answer has exactly the calls it sent under way.
THEOREM RecTypesHold == RecSpec => [](RecTypes /\ RecWaiting)
<1>1. RecInit => RecTypes /\ RecWaiting
  <2> SUFFICES ASSUME RecInit PROVE RecTypes /\ RecWaiting
    OBVIOUS
  <2>1. TypeOver(Request, HandlerEvents)
    BY InitType, OwnTypes DEF RecInit
  <2>2. TypeOver(Caller, Event)
    BY <2>1 DEF RecInit, Init, UtilityNodeInit, UtilityNodeType, TypeOver, HandlerEvents, Event
  <2>3. RecRecords
    BY DEF RecInit, RecRecords, Scanning, RecPlace, Working
  <2>4. RecWaiting
    BY DEF RecInit, Init, UtilityNodeInit, RecWaiting, Waiting
  <2> QED
    BY <2>2, <2>3, <2>4 DEF RecTypes
<1>2. RecTypes /\ RecWaiting /\ [RecNext]_recVars => (RecTypes /\ RecWaiting)'
  BY RecTypesStep
<1> QED
  BY <1>1, <1>2, PTL DEF RecSpec

\* With recovery, cancellations, expiring records and every fault, the variables
\* keep their types, and a recoverer never acts without a transaction.
THEOREM RecTypeCorrect == RecSpec => []RecTypeOK
<1>1. RecTypes => RecTypeOK
  BY DEF RecTypes, RecRecords, TypeOver, RecTypeOK, Caller, Event
<1> QED
  BY <1>1, RecTypesHold, PTL

-----------------------------------------------------------------------------
(* Nothing is confirmed without every vote, whoever commits.               *)

RecCommits == {"commit", "committing", "committed", "confirm"}

\* A recoverer on its way to a commit works on a transaction with all votes.
RecVotes ==
  /\ VoteInvariant
  /\ \A w \in Recoverer : rec[w].at \in RecCommits => AllVoted(rec[w].txn)

\* The calls of each transaction after a recoverer's step: as before, fewer, or
\* one more of its own.
LEMMA BesideCalls ==
  ASSUME RecTypes, RecWaiting, NEW w \in Recoverer, Beside(w)
  PROVE  /\ UNCHANGED ub
         /\ \A m \in calls' :
              \/ \E n \in calls : Continues(m, n)
              \/ /\ rec[w].at = m.op /\ m.op \in {"commit", "rollback"}
                 /\ m.txn = rec[w].txn /\ m.by = w /\ m.items = rec[w].ids /\ m.todo = rec[w].ids
<1>1. CASE PickUp(w) \/ RecSetTxnState(w) \/ RecUpdateStatus(w) \/ RecRaises(w)
  <2>1. UNCHANGED node
    BY <1>1, PickUpMoves DEF RecSetTxnState, RecUpdateStatus, RecRaises, vars
  <2> QED
    BY <2>1 DEF node, Continues
<1>2. CASE RecSend(w)
  BY <1>2 DEF RecSend, At, Post, Continues
<1>3. CASE RecAcknowledged(w) \/ RecCallFails(w)
  <2>1. PICK m \in Waiting(w) : Close(m) \/ Abandon(m)
    BY <1>3 DEF RecAcknowledged, RecCallFails
  <2>2. m \in calls /\ Continues([m EXCEPT !.open = FALSE], m) /\ \A n \in calls : Continues(n, n)
    BY DEF Waiting, RecTypes, TypeOver, UtilityNodeType, Call, Continues
  <2> QED
    BY <1>3, <2>1, <2>2 DEF Close, Abandon, RecAcknowledged, RecCallFails
<1> QED
  BY <1>1, <1>2, <1>3 DEF Beside, Recover

\* The rows and records after a recoverer's step.
LEMMA BesideRows ==
  ASSUME RecTypes, NEW w \in Recoverer, Beside(w)
  PROVE  /\ UNCHANGED <<pc, resp, ids, sess, reading>>
         /\ \A r \in Request \ {rec[w].txn} : fb'[r] = fb[r] /\ txn'[r] = txn[r]
         /\ \A r \in Request :
              /\ \/ fb'[r] = fb[r]
                 \/ rec[w].at = "confirm" /\ fb'[r] = "confirmed"
                 \/ rec[w].at = "fail" /\ fb'[r] = "failed"
              /\ \/ txn'[r] = txn[r]
                 \/ rec[w].at \in {"committed", "aborted"} /\ txn'[r].state = rec[w].at
<1> USE DEF RecTypes, TypeOver, FieldBookingsType, tables, local, redis
<1>1. CASE PickUp(w)
  BY <1>1, PickUpMoves DEF vars
<1>2. CASE RecSend(w) \/ RecAcknowledged(w) \/ RecCallFails(w)
  BY <1>2 DEF RecSend, RecAcknowledged, RecCallFails
<1>3. CASE RecSetTxnState(w)
  BY <1>3 DEF RecSetTxnState, WriteTxn
<1>4. CASE RecUpdateStatus(w)
  BY <1>4 DEF RecUpdateStatus, SetStatus, At
<1>5. CASE RecRaises(w)
  BY <1>5 DEF RecRaises, WriteTxn, SetStatus, At
<1> QED
  BY <1>1, <1>2, <1>3, <1>4, <1>5 DEF Beside, Recover

\* Where a recoverer's step takes it.
RecMoves == {<<"commit", "committing">>, <<"committing", "committed">>, <<"committed", "confirm">>,
             <<"committing", "rollback">>, <<"rollback", "rollingback">>,
             <<"rollingback", "aborted">>, <<"aborted", "fail">>}

LEMMA BesideMoves ==
  ASSUME RecTypes, RecWaiting, NEW w \in Recoverer, Beside(w)
  PROVE  /\ \A v \in Recoverer \ {w} : rec'[v] = rec[v]
         /\ \/ PickUp(w)
            \/ rec'[w] = Scanning
            \/ /\ rec'[w].txn = rec[w].txn /\ rec'[w].ids = rec[w].ids
               /\ <<rec[w].at, rec'[w].at>> \in RecMoves
               /\ rec'[w].at = "rollback" => "call" \in Faults
<1>. DEFINE Moves(p) ==
       /\ \A v \in Recoverer \ {w} : rec'[v] = rec[v]
       /\ rec'[w].txn = rec[w].txn /\ rec'[w].ids = rec[w].ids /\ rec'[w].at = p
<1>0. ASSUME NEW p \in Working, RecGoto(w, p) PROVE Moves(p)
  <2>1. /\ rec'[w] = [at |-> p, txn |-> rec[w].txn, ids |-> rec[w].ids]
        /\ \A v \in Recoverer \ {w} : rec'[v] = rec[v]
    BY <1>0, RecGotoMoves DEF RecTypes
  <2> QED
    BY <2>1
<1>. HIDE DEF Moves
<1>. USE DEF Working, RecPlace, At
<1>1. CASE PickUp(w)
  BY <1>1, PickUpMoves
<1>2. CASE RecSend(w)
  <2>1. \/ rec[w].at = "commit" /\ Moves("committing")
        \/ rec[w].at = "rollback" /\ Moves("rollingback")
    BY <1>0, <1>2 DEF RecSend
  <2> QED
    BY <2>1 DEF Moves, RecMoves
<1>3. CASE RecAcknowledged(w) \/ RecCallFails(w)
  <2>1. rec[w].at \in {"committing", "rollingback"}
    BY <1>3 DEF RecAcknowledged, RecCallFails, RecWaiting
  <2>2. \/ rec[w].at = "committing" /\ Moves("committed")
        \/ rec[w].at = "committing" /\ Moves("rollback") /\ "call" \in Faults
        \/ rec[w].at = "rollingback" /\ Moves("aborted")
    BY <1>0, <1>3, <2>1 DEF RecAcknowledged, RecCallFails
  <2> QED
    BY <2>2 DEF Moves, RecMoves
<1>4. CASE RecSetTxnState(w)
  <2>1. \/ rec[w].at = "committed" /\ Moves("confirm")
        \/ rec[w].at = "aborted" /\ Moves("fail")
    BY <1>0, <1>4 DEF RecSetTxnState
  <2> QED
    BY <2>1 DEF Moves, RecMoves
<1>5. CASE RecUpdateStatus(w) \/ RecRaises(w)
  BY <1>5, RecDoneMoves DEF RecUpdateStatus, RecRaises, RecTypes
<1> QED
  BY <1>1, <1>2, <1>3, <1>4, <1>5 DEF Beside, Recover

\* A recoverer commits only what has all votes.
LEMMA BesideKeepsVotes ==
  ASSUME RecTypes, RecWaiting, RecVotes, NEW w \in Recoverer, Beside(w)
  PROVE  RecVotes'
<1>1. UNCHANGED <<ub, pc, ids>>
  BY BesideCalls, BesideRows
<1>2. OwnCalls'
  BY BesideCalls, RecoveryAssumption DEF RecVotes, VoteInvariant, OwnCalls, Continues
<1>3. \A r \in Request : AllVoted(r)' <=> AllVoted(r)
  BY <1>1 DEF AllVoted
<1>4. ASSUME NEW r \in Request, Committal(r)' PROVE AllVoted(r)
  <2>1. CASE Committal(r)
    BY <2>1 DEF RecVotes, VoteInvariant, VotesCounted
  <2>2. fb'[r] = "confirmed" => Committal(r) \/ (rec[w].at = "confirm" /\ r = rec[w].txn)
    BY BesideRows DEF Committal
  <2>3. txn'[r].state = "prepared" => Committal(r)
    BY BesideRows DEF Committal
  <2>4. (\E m \in CallsOf(r)' : m.op = "commit")
          => Committal(r) \/ (rec[w].at = "commit" /\ r = rec[w].txn)
    BY BesideCalls DEF Committal, CallsOf, Continues
  <2>5. Committal(r) \/ (rec[w].at \in RecCommits /\ r = rec[w].txn)
    BY <1>1, <1>4, <2>2, <2>3, <2>4 DEF Committal, RecCommits
  <2> QED
    BY <2>1, <2>5 DEF RecVotes
<1>5. VotesCounted'
  BY <1>1, <1>3, <1>4 DEF RecVotes, VoteInvariant, VotesCounted
<1>6. ASSUME NEW v \in Recoverer, rec'[v].at \in RecCommits PROVE AllVoted(rec'[v].txn)
  <2>1. CASE v # w
    BY <1>6, <2>1, BesideMoves DEF RecVotes
  <2>2. CASE v = w /\ PickUp(w)
    <3>1. rec'[w].txn \in Request /\ txn[rec'[w].txn].state = "prepared"
      BY <2>2, PickUpMoves
    <3> QED
      BY <2>2, <3>1 DEF RecVotes, VoteInvariant, VotesCounted, Committal
  <2>3. CASE v = w /\ rec'[w] = Scanning
    BY <1>6, <2>3 DEF Scanning, RecCommits
  <2>4. CASE v = w /\ rec'[w].txn = rec[w].txn /\ <<rec[w].at, rec'[w].at>> \in RecMoves
    <3>1. rec[w].at \in RecCommits
      BY <1>6, <2>4 DEF RecMoves, RecCommits
    <3> QED
      BY <2>4, <3>1 DEF RecVotes
  <2> QED
    BY <2>1, <2>2, <2>3, <2>4, BesideMoves
<1>7. (\A v \in Recoverer : rec[v].at \in RecCommits => AllVoted(rec[v].txn))'
  BY <1>1, <1>6 DEF AllVoted
<1> QED
  BY <1>2, <1>5, <1>7 DEF RecVotes, VoteInvariant

\* A cancelled booking and an expired record speak for nothing.
LEMMA UserKeepsVotes ==
  ASSUME RecTypes, RecVotes, NEW r \in Request, CancelBooking(r) \/ ExpireTxn(r)
  PROVE  RecVotes'
<1>1. UNCHANGED <<ub, calls, pc, ids, rec>>
  BY DEF CancelBooking, ExpireTxn, node, local
<1>2. \A p \in Request : /\ fb'[p] = "confirmed" => fb[p] = "confirmed"
                         /\ txn'[p].state = "prepared" => txn[p].state = "prepared"
  BY DEF CancelBooking, ExpireTxn, SetStatus, WriteTxn, tables, RecTypes, TypeOver,
         FieldBookingsType
<1>3. \A p \in Request : Committal(p)' => Committal(p)
  BY <1>1, <1>2 DEF Committal, CallsOf
<1> QED
  BY <1>1, <1>3 DEF RecVotes, VoteInvariant, OwnCalls, VotesCounted, AllVoted

LEMMA RecVotesStep ==
  ASSUME RecTypes, RecWaiting, RecVotes, [RecNext]_recVars
  PROVE  RecVotes'
<1>0. TypeOver(Caller, Event) /\ VoteInvariant
  BY DEF RecTypes, RecVotes
<1>1. ASSUME UNCHANGED rec, VoteInvariant',
             \A r \in Request, u \in Utility : ub[r][u] # "none" => ub'[r][u] # "none"
      PROVE  RecVotes'
  <2>1. \A w \in Recoverer : rec[w].at \in RecCommits => rec[w].txn \in Request
    BY DEF RecTypes, RecRecords, RecCommits, Working, RecPlace
  <2> QED
    BY <1>1, <2>1, RequestAssumption DEF RecVotes, AllVoted
<1>2. CASE \E r \in Request : (Serve(r) \/ Fault(r)) /\ UNCHANGED rec
  <2>1. VoteInvariant' /\ UNCHANGED ub
    BY <1>0, <1>2, HandlersCountVotes, HandlerCalls
  <2> QED
    BY <1>1, <1>2, <2>1
<1>3. CASE Environment({}) /\ UNCHANGED rec
  BY <1>0, <1>1, <1>3, EnvironmentKeepsVotes, EnvironmentRows
<1>4. CASE RecCrash
  <2>1. VoteInvariant'
    BY <1>0, <1>4, EnvironmentKeepsVotes DEF RecCrash, Environment
  <2> QED
    BY <1>4, <2>1 DEF RecCrash, RecVotes, Scanning, RecCommits
<1>5. CASE UNCHANGED recVars
  <2>1. VoteInvariant'
    BY <1>0, <1>5 DEF recVars, vars, tables, node, local, redis, VoteInvariant, OwnCalls,
                      VotesCounted, Committal, CallsOf, AllVoted
  <2> QED
    BY <1>1, <1>5, <2>1 DEF recVars, vars, node
<1> QED
  BY <1>2, <1>3, <1>4, <1>5, RecSteps, BesideKeepsVotes, UserKeepsVotes

\* Neither a recovery that runs beside the handlers nor a cancellation, an expired
\* record, a fault or a crash confirms anything of a booking before every utility
\* it asked for has voted yes.
THEOREM RecUnanimity == RecSpec => []UnanimousCommit
<1>1. RecInit => RecVotes
  BY InitVotes DEF RecInit, RecVotes, Scanning, RecCommits
<1>2. RecTypes /\ RecWaiting /\ RecVotes /\ [RecNext]_recVars => RecVotes'
  BY RecVotesStep
<1>3. RecVotes => UnanimousCommit
  BY DEF RecVotes, VoteInvariant, VotesCounted, Committal, AllVoted, UnanimousCommit
<1> QED
  BY <1>1, <1>2, <1>3, RecTypesHold, PTL DEF RecSpec

-----------------------------------------------------------------------------
(* A booking is inserted into a free window, whoever writes beside it.     *)

\* A handler about to insert still has its query's transaction open, and no row
\* but its own is live in its window.
InsertsCovered ==
  \A r \in Request : pc[r] = "insert" => r \in reading /\ Conflicts(r) \subseteq {r}

\* A write to the table waits for the locks of the queries that are still open,
\* and only an insert makes a row pending.
Writes(r) ==
  \E s \in BookingStatus : SetStatus(r, s) /\ (s = "pending" => pc[r] = "insert")

LEMMA HandlerTable ==
  ASSUME NEW C, NEW E, TypeOver(C, E), NEW r \in Request, Serve(r) \/ Fault(r)
  PROVE  /\ UNCHANGED fb \/ Writes(r)
         /\ reading \ {r} \subseteq reading'
         /\ pc'[r] = "insert" =>
              UNCHANGED fb /\ (QueryFree(r) \/ (pc[r] = "insert" /\ UNCHANGED reading))
<1> USE DEF TypeOver, FieldBookingsType, tables, local, Goto, EndTransaction, OpenTransaction
<1>0. {"pending", "confirmed", "failed"} \subseteq BookingStatus
  BY DEF BookingStatus
<1>1. ASSUME NEW a, NEW i, Raise(r, a, i) PROVE pc'[r] # "insert"
  BY <1>1 DEF Raise, AbortFrom
<1>2. CASE LookupField(r) \/ Refresh(r) \/ LookupFails(r)
  BY <1>2 DEF LookupField, Refresh, LookupFails
<1>3. CASE TakeLock(r) \/ LockBusy(r) \/ LockFails(r)
  BY <1>3 DEF TakeLock, LockBusy, LockFails
<1>4. CASE CheckAvailability(r)
  <2>1. UNCHANGED fb /\ reading' = reading \cup {r}
    BY <1>4 DEF CheckAvailability, QueryFree, QueryTaken, QueryAmbiguous
  <2>2. pc'[r] = "insert" => QueryFree(r)
    BY <1>1, <1>4 DEF CheckAvailability
  <2> QED
    BY <2>1, <2>2
<1>5. CASE CreatePending(r)
  BY <1>0, <1>5 DEF CreatePending, InsertPending, Writes
<1>6. CASE InsertDeadlock(r)
  BY <1>1, <1>6 DEF InsertDeadlock, InsertRolledBack
<1>7. CASE InsertFails(r)
  <2>1. UNCHANGED fb \/ (pc[r] = "insert" /\ SetStatus(r, "pending"))
    BY <1>7 DEF InsertFails, InsertPending, InsertRolledBack
  <2>2. reading \ {r} \subseteq reading'
    BY <1>7 DEF InsertFails, InsertPending, InsertRolledBack
  <2>3. pc'[r] # "insert"
    BY <1>1, <1>7 DEF InsertFails
  <2> QED
    BY <1>0, <2>1, <2>2, <2>3 DEF Writes
<1>8. CASE SetTxnState(r)
  BY <1>8 DEF SetTxnState, AfterVotes, TxnState
<1>9. CASE SetTxnStateFails(r)
  BY <1>1, <1>9 DEF SetTxnStateFails
<1>10. CASE AskForVote(r) \/ VoteYes(r) \/ VoteNo(r)
  BY <1>10 DEF AskForVote, VoteYes, VoteNo, AfterVotes, AbortFrom
<1>11. CASE SendCommit(r) \/ SendRollback(r) \/ Acknowledged(r)
  BY <1>11 DEF SendCommit, SendRollback, Acknowledged
<1>12. CASE CallFails(r)
  BY <1>1, <1>12 DEF CallFails, AbortFrom
<1>13. CASE ConfirmLocally(r)
  BY <1>0, <1>13 DEF ConfirmLocally, CommitFrom, Writes
<1>14. CASE Announce(r) \/ ReadBackFails(r)
  BY <1>14 DEF Announce, ReadBackFails
<1>15. CASE MarkFailed(r) \/ MarkFailedRaises(r)
  BY <1>0, <1>1, <1>15 DEF MarkFailed, MarkFailedRaises, Writes
<1>16. CASE UpdateFails(r)
  BY <1>0, <1>1, <1>16 DEF UpdateFails, Writes
<1>17. CASE Release(r) \/ ReleaseFails(r)
  BY <1>17 DEF Release, ReleaseFails
<1> QED
  BY <1>2, <1>3, <1>4, <1>5, <1>6, <1>7, <1>8, <1>9, <1>10, <1>11, <1>12, <1>13, <1>14,
     <1>15, <1>16, <1>17 DEF Serve, Fault

\* The gap locks of an open query keep every write of another row out of its window.
LEMMA WindowStaysCovered ==
  ASSUME RecTypes, NEW p \in Request, p \in reading, Conflicts(p) \subseteq {p},
         NEW q \in Request, UNCHANGED fb \/ Writes(q)
  PROVE  Conflicts(p)' \subseteq {p}
<1> USE DEF RecTypes, TypeOver, FieldBookingsType, Conflicts, Overlaps
<1>1. CASE UNCHANGED fb
  BY <1>1
<1>2. CASE Writes(q)
  <2>1. PICK s : fb' = [fb EXCEPT ![q] = s] /\ ~ LockedByOther(q)
    BY <1>2 DEF Writes, SetStatus
  <2>2. q # p => ~ Overlaps(q, p)
    BY <2>1, OverlapsSymmetric DEF LockedByOther
  <2> QED
    BY <2>1, <2>2
<1> QED
  BY <1>1, <1>2

\* What a step does to the table, whoever takes it.
TableStep ==
  \/ UNCHANGED fb
  \/ \E q \in Request : Writes(q)

LEMMA CoverStep ==
  ASSUME RecTypes, RecWaiting, InsertsCovered, [RecNext]_recVars
  PROVE  InsertsCovered' /\ TableStep
<1>1. ASSUME NEW r \in Request, Serve(r) \/ Fault(r) PROVE InsertsCovered' /\ TableStep
  <2>1. /\ UNCHANGED fb \/ Writes(r)
        /\ reading \ {r} \subseteq reading'
        /\ pc'[r] = "insert" =>
             UNCHANGED fb /\ (QueryFree(r) \/ (pc[r] = "insert" /\ UNCHANGED reading))
    BY <1>1, HandlerTable DEF RecTypes
  <2>2. ASSUME NEW p \in Request, pc'[p] = "insert", p # r
        PROVE  p \in reading' /\ Conflicts(p)' \subseteq {p}
    <3>1. pc[p] = "insert"
      BY <1>1, <2>2, OtherHandlers DEF RecTypes
    <3> QED
      BY <2>1, <2>2, <3>1, WindowStaysCovered DEF InsertsCovered
  <2>3. pc'[r] = "insert" => r \in reading' /\ Conflicts(r)' \subseteq {r}
    BY <2>1 DEF InsertsCovered, QueryFree, OpenTransaction, Conflicts, Overlaps
  <2> QED
    BY <2>1, <2>2, <2>3 DEF InsertsCovered, TableStep
<1>2. ASSUME UNCHANGED <<pc, reading>>, TableStep PROVE InsertsCovered' /\ TableStep
  BY <1>2, WindowStaysCovered DEF InsertsCovered, TableStep, Conflicts, Overlaps
<1>3. CASE Environment({}) /\ ~ CrashWith({})
  <2>1. UNCHANGED <<fb, pc, reading>>
    BY <1>3 DEF Environment, UtilityStep, Expire, LateCallLost, tables
  <2> QED
    BY <1>2, <2>1 DEF TableStep
<1>4. ASSUME NEW w \in Recoverer, Beside(w) PROVE InsertsCovered' /\ TableStep
  <2>1. UNCHANGED <<pc, reading>>
    BY <1>4, BesideRows
  <2>2. CASE PickUp(w) \/ RecSend(w) \/ RecAcknowledged(w) \/ RecCallFails(w) \/ RecSetTxnState(w)
    BY <1>2, <2>1, <2>2, PickUpMoves
       DEF RecSend, RecAcknowledged, RecCallFails, RecSetTxnState, TableStep, tables, vars
  <2>3. CASE RecUpdateStatus(w) \/ RecRaises(w)
    <3>1. UNCHANGED fb \/ \E s \in {"confirmed", "failed"} : SetStatus(rec[w].txn, s)
      BY <2>3 DEF RecUpdateStatus, RecRaises
    <3>2. rec[w].txn \in Request
      BY <2>3 DEF RecUpdateStatus, RecRaises, RecTypes, RecRecords, Working, RecPlace
    <3> QED
      BY <1>2, <2>1, <3>1, <3>2 DEF TableStep, Writes, BookingStatus
  <2> QED
    BY <1>4, <2>2, <2>3 DEF Beside, Recover
<1>5. ASSUME NEW r \in Request, CancelBooking(r) \/ ExpireTxn(r) PROVE InsertsCovered' /\ TableStep
  <2>1. UNCHANGED <<pc, reading>> /\ (UNCHANGED fb \/ SetStatus(r, "cancelled"))
    BY <1>5 DEF CancelBooking, ExpireTxn, tables
  <2> QED
    BY <1>2, <2>1 DEF TableStep, Writes, BookingStatus
<1>6. CASE RecCrash
  <2>1. UNCHANGED fb /\ \A r \in Request : pc'[r] # "insert"
    BY <1>6 DEF RecCrash, CrashWith, Active, RecTypes, TypeOver
  <2> QED
    BY <2>1 DEF InsertsCovered, TableStep
<1>7. CASE UNCHANGED recVars
  <2>1. UNCHANGED <<fb, pc, reading>>
    BY <1>7 DEF recVars, vars, tables
  <2> QED
    BY <1>2, <2>1 DEF TableStep
<1> QED
  BY <1>1, <1>3, <1>4, <1>5, <1>6, <1>7, RecSteps

\* Recovery and cancellations take slots away from their bookings and give them
\* back, but a new booking only ever gets into a window that is free.
THEOREM InsertsIntoFreeSlots == RecSpec => InsertedIntoFreeSlot
<1>1. RecInit => InsertsCovered
  BY DEF RecInit, Init, InsertsCovered
<1>2. RecTypes /\ RecWaiting /\ InsertsCovered /\ [RecNext]_recVars => InsertsCovered'
  BY CoverStep
<1>3. RecTypes /\ RecWaiting /\ InsertsCovered /\ [RecNext]_recVars
        => [\A r \in Request : fb[r] = "none" /\ fb'[r] = "pending"
              => \A p \in Request \ {r} : Overlaps(p, r) => fb[p] \notin Live]_recVars
  <2> SUFFICES ASSUME RecTypes, InsertsCovered, TableStep, NEW r \in Request,
                      fb[r] = "none", fb'[r] = "pending",
                      NEW p \in Request, p # r, Overlaps(p, r), fb[p] \in Live
               PROVE  FALSE
    BY CoverStep
  <2>1. pc[r] = "insert"
    BY DEF TableStep, Writes, SetStatus, RecTypes, TypeOver, FieldBookingsType
  <2> QED
    BY <2>1 DEF InsertsCovered, Conflicts
<1> QED
  BY <1>1, <1>2, <1>3, RecTypesHold, PTL DEF RecSpec, InsertedIntoFreeSlot

=============================================================================
