---------------------------- MODULE ConnectionPool ----------------------------
(***************************************************************************)
(* The pool of database connections of shared/db.py.  The session of a     *)
(* request takes a connection with its first query and keeps it until a    *)
(* commit; the refresh that follows each commit takes one again, and       *)
(* closing the session gives it back.  A request that has waited 30 s for  *)
(* a connection fails.                                                     *)
(***************************************************************************)
EXTENDS BookingRequests, FiniteSets

CONSTANT
  PoolSize   \* pool_size + max_overflow

ASSUME PoolAssumption == PoolSize \in Nat \ {0}

VARIABLE
  conn       \* the requests whose session holds a connection

PoolType == conn \in SUBSET Request

PoolInit == conn = {}

PoolIsFull == Cardinality(conn) >= PoolSize

CheckOut(r) ==
  /\ ~ PoolIsFull
  /\ conn' = conn \cup {r}

CheckIn(r) == conn' = conn \ {r}

\* A commit and its refresh: the connection that comes back may go to one of
\* those who wait for it, and the refresh then waits in its turn.
CommitAndRefresh(r, Waiters) ==
  \/ UNCHANGED conn
  \/ PoolIsFull /\ Waiters # {} /\ CheckIn(r)

=============================================================================
