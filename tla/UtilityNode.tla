----------------------------- MODULE UtilityNode -----------------------------
(***************************************************************************)
(* The participant of the two-phase commit: the utility_bookings table and *)
(* the three /internal handlers of utility_node, together with the HTTP    *)
(* calls that reach them.  A call stays in `calls' from the moment it is   *)
(* posted until its caller has seen the answer; one the caller gave up on  *)
(* (timeout, broken connection, dead caller) is closed, and its handler may *)
(* still run, late, stop half-way or never start.  A transaction is named  *)
(* by the request whose booking id it carries.                             *)
(***************************************************************************)
EXTENDS BookingRequests

CONSTANTS
  Utility,   \* the utilities that can be asked for
  Bookable   \* those that exist and are active

ASSUME BookableAssumption == Bookable \subseteq Utility

VARIABLES
  ub,        \* ub[t][u]: status of the utility booking of u for t
  calls      \* HTTP calls in flight

UtilityStatus == {"none", "pending", "confirmed", "cancelled"}

Operation == {"prepare", "commit", "rollback"}

\* by: the caller; items: the ids in the request; todo: those the handler has
\* not dealt with yet; open: the caller still waits for the answer.
Call(Caller) == [op : Operation, txn : Request, by : Caller,
                 items : SUBSET Utility, todo : SUBSET Utility, open : BOOLEAN]

UtilityNodeType(Caller) ==
  /\ ub \in [Request -> [Utility -> UtilityStatus]]
  /\ calls \in SUBSET Call(Caller)

UtilityNodeInit ==
  /\ ub = [t \in Request |-> [u \in Utility |-> "none"]]
  /\ calls = {}

\* client.post(...)
Post(o, t, c, i) ==
  calls' = calls \cup {[op |-> o, txn |-> t, by |-> c,
                        items |-> i, todo |-> i, open |-> TRUE]}

\* The call its caller c is waiting for, if any.
Waiting(c) == {m \in calls : m.by = c /\ m.open}

Answered(m) == m.todo = {}

\* The vote an answered prepare carries: YES exactly when it made a row.
VotedYes(m) == \A u \in m.items : ub[m.txn][u] # "none"

Close(m) == calls' = calls \ {m}

\* The caller stops waiting: the handler is gone, or runs on unheard.
Abandon(m) ==
  \/ Close(m)
  \/ ~ Answered(m) /\ calls' = (calls \ {m}) \cup {[m EXCEPT !.open = FALSE]}

\* The handler of m has dealt with one more of its ids.
Progress(m, u) ==
  LET n == [m EXCEPT !.todo = @ \ {u}]
  IN  calls' = (calls \ {m}) \cup (IF n.open \/ ~ Answered(n) THEN {n} ELSE {})

Record(m, u, s) ==
  /\ ub' = [ub EXCEPT ![m.txn][u] = s]
  /\ Progress(m, u)

\* internal_prepare: votes YES by creating a pending row, NO by not doing so.
HandlePrepare(m) ==
  /\ m.op = "prepare"
  /\ \E u \in m.todo :
       IF u \in Bookable THEN Record(m, u, "pending")
                         ELSE Progress(m, u) /\ UNCHANGED ub

\* internal_commit and internal_rollback: one row and one database commit at
\* a time, whatever status the row has.
HandleCommit(m) ==
  /\ m.op = "commit"
  /\ \E u \in m.todo : Record(m, u, "confirmed")

HandleRollback(m) ==
  /\ m.op = "rollback"
  /\ \E u \in m.todo : Record(m, u, "cancelled")

Handle(m) == HandlePrepare(m) \/ HandleCommit(m) \/ HandleRollback(m)

\* A call nobody waits for is lost, or its handler stops where it is.
Lose(m) ==
  /\ ~ m.open
  /\ Close(m)
  /\ UNCHANGED ub

\* The caller's process dies: its calls stay without a reader or vanish.
OrphanCalls(Dead) ==
  \E lost \in SUBSET {m \in calls : m.by \in Dead /\ m.open} :
    calls' = {[m EXCEPT !.open = m.open /\ m.by \notin Dead] :
                 m \in {n \in calls \ lost : n.by \notin Dead \/ ~ Answered(n)}}

=============================================================================
