--------------------------- MODULE TwoPhaseBooking ---------------------------
(***************************************************************************)
(* The field node serving booking requests: POST /bookings/2pc with the    *)
(* coordinator it calls, POST /bookings as its competitor for the lock, and *)
(* the crash of the process.  Composes the Redis lock, the field_bookings  *)
(* table, the connection pool and the utility node, and adds the           *)
(* coordinator's own state.                                                *)
(*                                                                         *)
(* Each action is what happens between two awaits that other requests can  *)
(* tell apart.  pc[r] names the await the handler of r has reached; for a  *)
(* write of the transaction state it is the state to be written.           *)
(***************************************************************************)
EXTENDS DistributedLock, FieldBookings, UtilityNode, ConnectionPool

CONSTANTS
  Simple,      \* the requests sent to /bookings instead of /bookings/2pc
  Wanted,      \* Wanted[r]: the utility_ids of r
  ActiveField, \* the fields that exist and are active
  Faults,      \* what may fail: "call" (HTTP to the utility node), "redis", "db"
  MaxCrashes   \* bound on the number of process crashes

ASSUME RequestAssumption ==
  /\ Simple \subseteq Request
  /\ Wanted \in [Request -> SUBSET Utility]
  /\ Faults \subseteq {"call", "redis", "db"}
  /\ MaxCrashes \in Nat

VARIABLES
  pc,      \* pc[r]: the await the handler of r is at
  resp,    \* resp[r]: the answer decided so far, "none" while undecided
  ids,     \* ids[r]: the utilities whose booking ids the coordinator holds
  sess,    \* sess[r]: booking status cached in the ORM session of r
  txn,     \* txn[r]: the Redis record 2pc:txn:<id>
  news,    \* news[r]: the last event about r on the WebSocket channel
  crashes  \* process crashes so far

tables == <<fb, reading>>
node   == <<ub, calls>>
local  == <<resp, ids, sess>>
redis  == <<txn, news>>
process == <<conn, crashes>>

vars == <<lock, tables, node, pc, local, redis, process>>

TxnState == {"init", "prepared", "committed", "aborted"}

Place == {"idle", "lock", "check", "insert", "prepare", "voting", "confirm",
          "commit", "committing", "announce", "rollback", "rollingback", "fail",
          "release", "done", "dead"} \cup TxnState

Answer == {"none", "201", "404", "409", "500", "503"}

Init ==
  /\ LockInit /\ FieldBookingsInit /\ UtilityNodeInit /\ PoolInit
  /\ pc   = [r \in Request |-> "idle"]
  /\ resp = [r \in Request |-> "none"]
  /\ ids  = [r \in Request |-> {}]
  /\ sess = [r \in Request |-> "none"]
  /\ txn  = [r \in Request |-> [state |-> "none", ids |-> {}]]
  /\ news = [r \in Request |-> "none"]
  /\ crashes = 0

-----------------------------------------------------------------------------
(* Control flow of the handler.                                            *)

Goto(r, p) == pc' = [pc EXCEPT ![r] = p]

Reply(r, a) == resp' = [resp EXCEPT ![r] = a]

\* Slips in the coordinator: participants left alone on an abort, exceptions
\* that undo nothing, an event under the name of another.
AbortWithoutCall(i) == "aborted"

RaiseWithoutRollback(r, a, i) ==
  /\ Goto(r, "release")
  /\ IF resp[r] = "none" THEN Reply(r, a) ELSE UNCHANGED resp

PublishWrongName(r, e) ==
  news' = [news EXCEPT ![r] = IF e = "failed" THEN "cancelled" ELSE e]

\* commit_all and rollback_all skip the HTTP call when there are no ids.
CommitFrom(i) == IF i = {} THEN "committed" ELSE "commit"
AbortFrom(i)  == IF i = {} THEN "aborted" ELSE "rollback"

\* An exception inside the try block.  The first one decides the answer and,
\* once the booking row exists, starts the emergency rollback; one raised by
\* that rollback is logged and dropped.
Raise(r, a, i) ==
  IF resp[r] = "none"
    THEN Reply(r, a) /\ Goto(r, IF sess[r] = "none" THEN "release" ELSE AbortFrom(i))
    ELSE Goto(r, "release") /\ UNCHANGED resp

\* publish_booking_event is best effort.
Publish(r, e) ==
  \/ news' = [news EXCEPT ![r] = e]
  \/ "redis" \in Faults /\ UNCHANGED news

-----------------------------------------------------------------------------
(* Before the transaction.                                                 *)

Active(r) == pc[r] \notin {"idle", "done", "dead"}

\* A request that has just arrived, or one whose refresh found no connection.
Waiters == {r \in Request \ conn : pc[r] = "idle" \/ Active(r)}

\* The first query of the session finds the field active, or not, or not at all.
LookupField(r) ==
  /\ pc[r] = "idle"
  /\ ~ PoolIsFull
  /\ IF Slot[r].field \in ActiveField
       THEN CheckOut(r) /\ Goto(r, "lock") /\ UNCHANGED resp
       ELSE /\ Goto(r, "done")
            /\ \E a \in {"404", "409"} : Reply(r, a)
            /\ UNCHANGED conn
  /\ UNCHANGED <<lock, tables, node, ids, sess, redis, crashes>>

\* The pool's timeout of 30 s, or a database that fails, before the try block.
LookupFails(r) ==
  /\ pc[r] = "idle"
  /\ PoolIsFull \/ "db" \in Faults
  /\ Goto(r, "done")
  /\ Reply(r, "500")
  /\ UNCHANGED <<lock, tables, node, ids, sess, redis, process>>

Refresh(r) ==
  /\ Active(r) /\ r \notin conn
  /\ CheckOut(r)
  /\ UNCHANGED <<lock, tables, node, pc, local, redis, crashes>>

\* A simple booking that gets the lock still fails: the field lookup has
\* begun a transaction on its session, so db.begin() raises, answered 409.
TakeLock(r) ==
  /\ pc[r] = "lock"
  /\ AcquireLock(KeyOf(r), r)
  /\ IF r \in Simple THEN Goto(r, "release") /\ Reply(r, "409")
                     ELSE Goto(r, "check") /\ UNCHANGED resp
  /\ UNCHANGED <<tables, node, ids, sess, redis, process>>

LockBusy(r) ==
  /\ pc[r] = "lock"
  /\ ~ LockIsFree(KeyOf(r))
  /\ Goto(r, "done")
  /\ Reply(r, "409")
  /\ CheckIn(r)
  /\ UNCHANGED <<lock, tables, node, ids, sess, redis, crashes>>

CheckAvailability(r) ==
  /\ pc[r] = "check"
  /\ \/ QueryFree(r) /\ Goto(r, "insert") /\ UNCHANGED resp
     \/ QueryTaken(r) /\ Raise(r, "409", {})
     \/ QueryAmbiguous(r) /\ Raise(r, "500", {})
  /\ UNCHANGED <<lock, node, ids, sess, redis, process>>

CreatePending(r) ==
  /\ pc[r] = "insert"
  /\ InsertPending(r)
  /\ CommitAndRefresh(r, Waiters)
  /\ sess' = [sess EXCEPT ![r] = "pending"]
  /\ Goto(r, "init")
  /\ UNCHANGED <<lock, node, resp, ids, redis, crashes>>

\* Two inserts that wait for each other's gap locks: MySQL fails one.
InsertDeadlock(r) ==
  /\ pc[r] = "insert"
  /\ \E p \in reading \ {r} : pc[p] = "insert"
  /\ InsertRolledBack(r)
  /\ Raise(r, "500", {})
  /\ UNCHANGED <<lock, node, ids, sess, redis, process>>

-----------------------------------------------------------------------------
(* The coordinator.                                                        *)

\* Slip: PREPARED after the first YES.
AfterFirstVote(r, i) == IF i = {} /\ Wanted[r] # {} THEN "prepare" ELSE "prepared"

AfterVotes(r, i) == IF i = Wanted[r] THEN "prepared" ELSE "prepare"

WriteTxn(r, s, i) == txn' = [txn EXCEPT ![r] = [state |-> s, ids |-> i]]

\* Slip: COMMITTED recorded where PREPARED should be.
SetCommittedEarly(r) ==
  /\ pc[r] \in TxnState
  /\ WriteTxn(r, IF pc[r] = "prepared" THEN "committed" ELSE pc[r], ids[r])
  /\ Goto(r, CASE pc[r] = "init"      -> AfterVotes(r, {})
               [] pc[r] = "prepared"  -> "confirm"
               [] pc[r] = "committed" -> "announce"
               [] pc[r] = "aborted"   -> "fail")
  /\ UNCHANGED <<lock, tables, node, local, news, process>>

\* _set_txn_state as the coordinator's four callers use it.
SetTxnState(r) ==
  /\ pc[r] \in TxnState
  /\ WriteTxn(r, pc[r], ids[r])
  /\ Goto(r, CASE pc[r] = "init"      -> AfterVotes(r, {})
               [] pc[r] = "prepared"  -> "confirm"
               [] pc[r] = "committed" -> "announce"
               [] pc[r] = "aborted"   -> "fail")
  /\ UNCHANGED <<lock, tables, node, local, news, process>>

\* prepare_all: one utility at a time, in the order the client listed them.
AskForVote(r) ==
  /\ pc[r] = "prepare"
  /\ \E u \in Wanted[r] \ ids[r] : Post("prepare", r, r, {u})
  /\ Goto(r, "voting")
  /\ UNCHANGED <<lock, tables, ub, local, redis, process>>

VoteYes(r) ==
  /\ pc[r] = "voting"
  /\ \E m \in Waiting(r) :
       /\ Answered(m) /\ VotedYes(m)
       /\ Close(m)
       /\ ids' = [ids EXCEPT ![r] = @ \cup m.items]
  /\ Goto(r, AfterVotes(r, ids'[r]))
  /\ UNCHANGED <<lock, tables, ub, resp, sess, redis, process>>

\* The first NO ends the loop: rollback of the ids collected so far.
VoteNo(r) ==
  /\ pc[r] = "voting"
  /\ \E m \in Waiting(r) : Answered(m) /\ ~ VotedYes(m) /\ Close(m)
  /\ Goto(r, AbortFrom(ids[r]))
  /\ UNCHANGED <<lock, tables, ub, local, redis, process>>

\* S1: the local row first, written over whatever status it has by now.
ConfirmLocally(r) ==
  /\ pc[r] = "confirm"
  /\ SetStatus(r, "confirmed")
  /\ CommitAndRefresh(r, Waiters)
  /\ sess' = [sess EXCEPT ![r] = "confirmed"]
  /\ Goto(r, CommitFrom(ids[r]))
  /\ UNCHANGED <<lock, reading, node, resp, ids, redis, crashes>>

\* S2: then the participants.
SendCommit(r) ==
  /\ pc[r] = "commit"
  /\ Post("commit", r, r, ids[r])
  /\ Goto(r, "committing")
  /\ UNCHANGED <<lock, tables, ub, local, redis, process>>

SendRollback(r) ==
  /\ pc[r] = "rollback"
  /\ Post("rollback", r, r, ids[r])
  /\ Goto(r, "rollingback")
  /\ UNCHANGED <<lock, tables, ub, local, redis, process>>

Acknowledged(r) ==
  /\ pc[r] \in {"committing", "rollingback"}
  /\ \E m \in Waiting(r) : Answered(m) /\ Close(m)
  /\ Goto(r, IF pc[r] = "committing" THEN "committed" ELSE "aborted")
  /\ UNCHANGED <<lock, tables, ub, local, redis, process>>

\* Slip: a failed commit call is ignored as a failed rollback call is.
CallFailsIgnored(r) ==
  /\ "call" \in Faults
  /\ \E m \in Waiting(r) : Abandon(m)
  /\ Goto(r, CASE pc[r] = "voting"      -> AbortFrom(ids[r])
               [] pc[r] = "committing"  -> "committed"
               [] pc[r] = "rollingback" -> "aborted")
  /\ UNCHANGED <<lock, tables, ub, local, redis, process>>

\* Timeout, lost connection or error status: a NO while voting, an exception
\* while committing, ignored while rolling back.
CallFails(r) ==
  /\ "call" \in Faults
  /\ \E m \in Waiting(r) : Abandon(m)
  /\ \/ pc[r] = "voting" /\ Goto(r, AbortFrom(ids[r])) /\ UNCHANGED resp
     \/ pc[r] = "committing" /\ Raise(r, "500", ids[r])
     \/ pc[r] = "rollingback" /\ Goto(r, "aborted") /\ UNCHANGED resp
  /\ UNCHANGED <<lock, tables, ub, ids, sess, redis, process>>

-----------------------------------------------------------------------------
(* The end of a request.                                                   *)

\* committed = True, the event, the read back and the 201.
Announce(r) ==
  /\ pc[r] = "announce"
  /\ Publish(r, "confirmed")
  /\ Reply(r, "201")
  /\ Goto(r, "release")
  /\ UNCHANGED <<lock, tables, node, ids, sess, txn, process>>

\* Slip: the new status is never written.
MarkFailedUnwritten(r) ==
  /\ pc[r] = "fail"
  /\ Raise(r, "409", ids[r])
  /\ UNCHANGED <<lock, tables, node, ids, sess, redis, process>>

\* update_status(FAILED).  The session writes only what differs from its cached
\* status.  After a refused vote the 409 raised next starts a second rollback.
MarkFailed(r) ==
  /\ pc[r] = "fail"
  /\ sess[r] # "broken"
  /\ IF sess[r] = "failed" THEN UNCHANGED fb ELSE SetStatus(r, "failed")
  /\ CommitAndRefresh(r, Waiters)
  /\ sess' = [sess EXCEPT ![r] = "failed"]
  /\ IF resp[r] = "none" THEN Publish(r, "failed") ELSE UNCHANGED news
  /\ Raise(r, "409", ids[r])
  /\ UNCHANGED <<lock, reading, node, ids, txn, crashes>>

\* A session whose transaction was invalidated refuses further work.
MarkFailedRaises(r) ==
  /\ pc[r] = "fail"
  /\ sess[r] = "broken"
  /\ Raise(r, "500", ids[r])
  /\ UNCHANGED <<lock, tables, node, ids, sess, redis, process>>

\* Slip: the session, and with it an open FOR UPDATE, is never closed.
ReleaseWithoutClose(r) ==
  /\ pc[r] = "release"
  /\ ReleaseLock(KeyOf(r), r)
  /\ Goto(r, "done")
  /\ UNCHANGED <<tables, node, local, redis, process>>

\* finally: release; then the session of the request is closed.
Release(r) ==
  /\ pc[r] = "release"
  /\ ReleaseLock(KeyOf(r), r)
  /\ EndTransaction(r) /\ CheckIn(r)
  /\ Goto(r, "done")
  /\ UNCHANGED <<fb, node, local, redis, crashes>>

-----------------------------------------------------------------------------
(* Redis and database failures: the operation raises, and may or may not   *)
(* have taken effect.                                                      *)

LockFails(r) ==
  /\ "redis" \in Faults
  /\ pc[r] = "lock"
  /\ AcquireLock(KeyOf(r), r) \/ UNCHANGED lock
  /\ CheckIn(r)
  /\ Goto(r, "done")
  /\ Reply(r, IF r \in Simple THEN "409" ELSE "500")
  /\ UNCHANGED <<tables, node, ids, sess, redis, crashes>>

\* An exception in prepare_all is answered 503 and loses the ids it collected.
SetTxnStateFails(r) ==
  /\ "redis" \in Faults
  /\ pc[r] \in TxnState
  /\ WriteTxn(r, pc[r], ids[r]) \/ UNCHANGED txn
  /\ IF pc[r] \in {"init", "prepared"}
       THEN ids' = [ids EXCEPT ![r] = {}] /\ Raise(r, "503", {})
       ELSE UNCHANGED ids /\ Raise(r, "500", ids[r])
  /\ UNCHANGED <<lock, tables, node, sess, news, process>>

ReleaseFails(r) ==
  /\ "redis" \in Faults
  /\ pc[r] = "release"
  /\ ReleaseLock(KeyOf(r), r) \/ UNCHANGED lock
  /\ EndTransaction(r) /\ CheckIn(r)
  /\ Goto(r, "done")
  /\ Reply(r, IF r \in Simple THEN "409" ELSE "500")
  /\ UNCHANGED <<fb, node, ids, sess, redis, crashes>>

\* Before the row's id is known: no rollback will follow.
InsertFails(r) ==
  /\ "db" \in Faults
  /\ \/ pc[r] = "check" /\ UNCHANGED tables
     \/ pc[r] = "insert" /\ (InsertPending(r) \/ InsertRolledBack(r))
  /\ Raise(r, "500", {})
  /\ UNCHANGED <<lock, node, ids, sess, redis, process>>

UpdateFails(r) ==
  /\ "db" \in Faults
  /\ pc[r] \in {"confirm", "fail"}
  /\ sess[r] # "broken"
  /\ \/ SetStatus(r, IF pc[r] = "confirm" THEN "confirmed" ELSE "failed")
     \/ UNCHANGED fb
  /\ sess' = [sess EXCEPT ![r] = "broken"]
  /\ Raise(r, "500", ids[r])
  /\ UNCHANGED <<lock, reading, node, ids, redis, process>>

\* The read back after the commit: committed is True, so nothing is undone.
ReadBackFails(r) ==
  /\ "db" \in Faults
  /\ pc[r] = "announce"
  /\ Publish(r, "confirmed")
  /\ Reply(r, "500")
  /\ Goto(r, "release")
  /\ UNCHANGED <<lock, tables, node, ids, sess, txn, process>>

-----------------------------------------------------------------------------
(* Everything else that happens on its own.                                *)

Expire ==
  /\ \E k \in Key : ExpireLock(k)
  /\ UNCHANGED <<tables, node, pc, local, redis, process>>

UtilityStep(m) ==
  /\ Handle(m)
  /\ UNCHANGED <<lock, tables, pc, local, redis, process>>

LateCallLost ==
  /\ \E m \in calls : Lose(m)
  /\ UNCHANGED <<lock, tables, pc, local, redis, process>>

\* The field node's process dies with everyone it serves, Others included.  Its
\* database transactions are rolled back, Redis and both tables keep their data.
CrashWith(Others) ==
  /\ crashes < MaxCrashes
  /\ crashes' = crashes + 1
  /\ pc' = [r \in Request |-> IF Active(r) THEN "dead" ELSE pc[r]]
  /\ reading' = {} /\ conn' = {}
  /\ OrphanCalls({r \in Request : Active(r)} \cup Others)
  /\ UNCHANGED <<lock, fb, ub, local, redis>>

NodeCrash == CrashWith({})

\* A handler whose refresh waits for a connection does nothing else.
Serve(r) ==
  \/ LookupField(r) \/ Refresh(r)
  \/ /\ r \in conn
     /\ \/ TakeLock(r) \/ LockBusy(r)
        \/ CheckAvailability(r) \/ CreatePending(r) \/ InsertDeadlock(r)
        \/ SetTxnState(r) \/ AskForVote(r) \/ VoteYes(r) \/ VoteNo(r)
        \/ ConfirmLocally(r) \/ SendCommit(r) \/ SendRollback(r) \/ Acknowledged(r)
        \/ Announce(r) \/ MarkFailed(r) \/ MarkFailedRaises(r) \/ Release(r)

Fault(r) ==
  \/ LookupFails(r)
  \/ /\ r \in conn
     /\ \/ CallFails(r) \/ LockFails(r) \/ SetTxnStateFails(r) \/ ReleaseFails(r)
        \/ InsertFails(r) \/ UpdateFails(r) \/ ReadBackFails(r)

Next ==
  \/ \E r \in Request : Serve(r) \/ Fault(r)
  \/ \E m \in calls : UtilityStep(m)
  \/ Expire
  \/ LateCallLost
  \/ NodeCrash

Spec == Init /\ [][Next]_vars

\* The event loop runs every handler on, and a call a handler waits for is
\* served (under "call" faults it may be given up on instead).
Fairness ==
  /\ \A r \in Request : WF_vars(Serve(r))
  /\ \A r \in Request : WF_vars(\E m \in Waiting(r) : UtilityStep(m))

FairSpec == Spec /\ Fairness

-----------------------------------------------------------------------------
\* A booking row read as an entry of the abstract calendar.
EntryOf(s) == CASE s = "none"      -> "new"
                [] s = "pending"   -> "held"
                [] s = "confirmed" -> "sold"
                [] OTHER           -> "void"

Ledger == INSTANCE SlotLedger WITH ledger <- [r \in Request |-> EntryOf(fb[r])]

\* A booking row, and the rows of its utilities, read as parties of a commit.
StageOf(s) == CASE s = "none"      -> "working"
                [] s = "pending"   -> "prepared"
                [] s = "confirmed" -> "committed"
                [] OTHER           -> "aborted"

Atomic == INSTANCE AtomicCommit
  WITH Txn <- Request, Party <- Utility, Invited <- Wanted,
       own  <- [r \in Request |-> StageOf(fb[r])],
       part <- [r \in Request |-> [u \in Utility |-> StageOf(ub[r][u])]]

TypeOK ==
  /\ LockType
  /\ FieldBookingsType
  /\ UtilityNodeType(Request)
  /\ PoolType
  /\ pc \in [Request -> Place]
  /\ resp \in [Request -> Answer]
  /\ ids \in [Request -> SUBSET Utility]
  /\ sess \in [Request -> {"none", "pending", "confirmed", "failed", "broken"}]
  /\ txn \in [Request -> [state : TxnState \cup {"none"}, ids : SUBSET Utility]]
  /\ news \in [Request -> {"none", "confirmed", "failed"}]
  /\ crashes \in Nat
-----------------------------------------------------------------------------

\* No two bookings of one field that hold overlapping windows are ever both
\* pending or confirmed: not when the 30 s lock lapses under its owner, not for
\* windows that overlap but lock different keys, and under no fault or crash.
ExclusiveSlots ==
  \A p, r \in Request :
    p # r /\ fb[p] \in Live /\ fb[r] \in Live => ~ Overlaps(p, r)

\* Whatever fails, the handlers implement the abstract calendar: a slot is taken
\* only when free, sold only while held, and a handler that has given it back does
\* not take it again.  (Recovery may, see BookingClaims.)
ImplementsLedger == Ledger!Spec

\* Nothing of a booking is confirmed, neither the field nor a utility, before
\* every utility it asked for has voted yes: no crash, lost vote, second rollback
\* or recovery commits an incomplete list of votes.
UnanimousCommit ==
  \A r \in Request :
    fb[r] = "confirmed" \/ (\E u \in Utility : ub[r][u] = "confirmed")
      => \A u \in Wanted[r] : ub[r][u] # "none"

\* A 201 tells the whole truth: the field and every utility are confirmed, the
\* transaction record says so, and no handler, failing call or late call, no crash
\* and no other request changes that afterwards.  What may change it runs beside
\* the handlers and is not in this specification: a recovery run that has read
\* PREPARED before and whose call fails (recovery.py:32-36), a cancellation, and
\* the end of the record's 300 s.
AnswerMatchesOutcome ==
  \A r \in Request :
    resp[r] = "201" =>
      /\ fb[r] = "confirmed"
      /\ \A u \in Wanted[r] : ub[r][u] = "confirmed"
      /\ txn[r].state = "committed"

\* An error answer leaves the slot free, whichever calls to the utility node
\* failed on the way ("if one operation fails, entire booking is rolled back").
\* Of the handlers alone: a recovery run that has read PREPARED before the
\* failure can still confirm the row.
RefusalFreesSlot ==
  \A r \in Request :
    pc[r] = "done" /\ resp[r] # "201" => fb[r] \notin Live

\* While calls to the utility node are answered, a handler leaves its utilities
\* all confirmed or all given back, whatever the database and Redis do: the one
\* exception is the exception in prepare_all that loses the ids, and then at
\* least no utility is confirmed.
AllOrNothing ==
  \A r \in Request :
    pc[r] = "done" =>
      LET rows == {ub[r][u] : u \in Wanted[r]} IN
      IF ids[r] = {} THEN "confirmed" \notin rows
                     ELSE rows \subseteq {"confirmed"} \/ rows \subseteq {"none", "cancelled"}

\* While every call is answered a booking is an atomic commitment of the field
\* row and the utility rows, also when the process crashes and recovery runs
\* beside the handlers: nobody confirms before all are pending, nobody is taken
\* back once one is confirmed.
ImplementsAtomicCommit == Atomic!Spec

\* COMMITTED and ABORTED are terminal for the handlers: neither the second
\* rollback pass nor a late call nor a crash turns one into the other.  Recovery
\* may, from a record it has read before.
DecisionIsFinal ==
  [][\A r \in Request :
       txn[r].state \in {"committed", "aborted"} => txn'[r].state = txn[r].state]_vars

\* Every request is answered, unless the process dies with it: no competition for
\* the lock, no row or gap lock of another transaction, no failing call and no wait
\* for one of the pooled connections, which a handler gives back and takes again
\* while it holds its lock, blocks a handler for ever.
EveryRequestAnswered ==
  \A r \in Request : pc[r] = "idle" ~> pc[r] \in {"done", "dead"}

\* A pending booking does not stay pending: it is decided either way, unless the
\* process dies with its handler.
PendingIsResolved ==
  \A r \in Request : fb[r] = "pending" ~> fb[r] # "pending" \/ pc[r] = "dead"

=============================================================================
