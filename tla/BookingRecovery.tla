--------------------------- MODULE BookingRecovery ---------------------------
(***************************************************************************)
(* The field node with what runs beside the booking handlers: the recovery *)
(* job of recovery.py (the background loop and each POST /admin/recovery   *)
(* are recoverers of their own), DELETE /bookings/{id}, and the expiry of  *)
(* the transaction records.  Recovery takes no lock, asks for no           *)
(* availability and tells the WebSocket clients nothing.                   *)
(***************************************************************************)
EXTENDS TwoPhaseBooking

CONSTANTS
  Recoverer,    \* the runs of run_recovery that may overlap
  Cancellable,  \* the bookings a user may cancel
  RecordsExpire \* whether the 300 s of a transaction record may run out

ASSUME RecoveryAssumption ==
  /\ Recoverer \cap Request = {}
  /\ Cancellable \subseteq Request
  /\ RecordsExpire \in BOOLEAN

VARIABLE
  rec   \* rec[w]: the await w is at, the transaction and the ids it has read

recVars == <<vars, rec>>

RecPlace == {"scan", "commit", "committing", "committed", "confirm",
             "rollback", "rollingback", "aborted", "fail"}

Scanning == [at |-> "scan", txn |-> Nobody, ids |-> {}]

RecInit == Init /\ rec = [w \in Recoverer |-> Scanning]

At(w, p) == rec[w].at = p

RecGoto(w, p) == rec' = [rec EXCEPT ![w].at = p]

RecDone(w) == rec' = [rec EXCEPT ![w] = Scanning]

\* Slip: records still in INIT are re-committed too.
PickUpUndecided(w) ==
  /\ At(w, "scan")
  /\ \E r \in Request :
       /\ txn[r].state \in {"init", "prepared"}
       /\ rec' = [rec EXCEPT ![w] = [at  |-> CommitFrom(txn[r].ids),
                                     txn |-> r,
                                     ids |-> txn[r].ids]]
  /\ UNCHANGED vars

\* run_recovery finds a record in PREPARED and hands its ids to _recover_one,
\* whether or not a handler is still working on that transaction.
PickUp(w) ==
  /\ At(w, "scan")
  /\ \E r \in Request :
       /\ txn[r].state = "prepared"
       /\ rec' = [rec EXCEPT ![w] = [at  |-> CommitFrom(txn[r].ids),
                                     txn |-> r,
                                     ids |-> txn[r].ids]]
  /\ UNCHANGED vars

RecSend(w) ==
  /\ \/ At(w, "commit") /\ Post("commit", rec[w].txn, w, rec[w].ids)
                        /\ RecGoto(w, "committing")
     \/ At(w, "rollback") /\ Post("rollback", rec[w].txn, w, rec[w].ids)
                          /\ RecGoto(w, "rollingback")
  /\ UNCHANGED <<lock, tables, ub, pc, local, redis, process>>

RecAcknowledged(w) ==
  /\ \E m \in Waiting(w) : Answered(m) /\ Close(m)
  /\ RecGoto(w, IF At(w, "committing") THEN "committed" ELSE "aborted")
  /\ UNCHANGED <<lock, tables, ub, pc, local, redis, process>>

\* An unreachable utility node turns the re-commit into an abort.
RecCallFails(w) ==
  /\ "call" \in Faults
  /\ \E m \in Waiting(w) : Abandon(m)
  /\ RecGoto(w, IF At(w, "committing") THEN "rollback" ELSE "aborted")
  /\ UNCHANGED <<lock, tables, ub, pc, local, redis, process>>

\* Slips: the record is not rewritten, or with the name of a booking status.
RecSetNothing(w) ==
  /\ rec[w].at \in {"committed", "aborted"}
  /\ RecGoto(w, IF At(w, "committed") THEN "confirm" ELSE "fail")
  /\ UNCHANGED vars

RecSetBookingStatus(w) ==
  /\ rec[w].at \in {"committed", "aborted"}
  /\ WriteTxn(rec[w].txn, IF At(w, "committed") THEN "confirmed" ELSE "failed", rec[w].ids)
  /\ RecGoto(w, IF At(w, "committed") THEN "confirm" ELSE "fail")
  /\ UNCHANGED <<lock, tables, node, pc, local, news, process>>

\* The end of commit_all or rollback_all.
RecSetTxnState(w) ==
  /\ rec[w].at \in {"committed", "aborted"}
  /\ WriteTxn(rec[w].txn, rec[w].at, rec[w].ids)
  /\ RecGoto(w, IF At(w, "committed") THEN "confirm" ELSE "fail")
  /\ UNCHANGED <<lock, tables, node, pc, local, news, process>>

\* Slip: the two outcomes swapped.
RecUpdateSwapped(w) ==
  /\ rec[w].at \in {"confirm", "fail"}
  /\ SetStatus(rec[w].txn, IF At(w, "confirm") THEN "failed" ELSE "confirmed")
  /\ RecDone(w)
  /\ UNCHANGED <<lock, reading, node, pc, local, redis, process>>

\* The local row last, whatever status it has by now.
RecUpdateStatus(w) ==
  /\ rec[w].at \in {"confirm", "fail"}
  /\ ~ PoolIsFull
  /\ SetStatus(rec[w].txn, IF At(w, "confirm") THEN "confirmed" ELSE "failed")
  /\ RecDone(w)
  /\ UNCHANGED <<lock, reading, node, pc, local, redis, process>>

\* Any other exception is logged and the transaction left as it is.
RecRaises(w) ==
  /\ \/ /\ "redis" \in Faults
        /\ rec[w].at \in {"committed", "aborted"}
        /\ WriteTxn(rec[w].txn, rec[w].at, rec[w].ids) \/ UNCHANGED txn
        /\ UNCHANGED fb
     \/ /\ "db" \in Faults
        /\ rec[w].at \in {"confirm", "fail"}
        /\ \/ SetStatus(rec[w].txn, IF At(w, "confirm") THEN "confirmed" ELSE "failed")
           \/ UNCHANGED fb
        /\ UNCHANGED txn
  /\ RecDone(w)
  /\ UNCHANGED <<lock, reading, node, pc, local, news, process>>

\* cancel_booking: any existing row, in any status, and no word to the utility
\* node or to a handler still working on the booking.
CancelBooking(r) ==
  /\ r \in Cancellable
  /\ fb[r] # "none"
  /\ ~ PoolIsFull
  /\ SetStatus(r, "cancelled")
  /\ Publish(r, "cancelled")
  /\ UNCHANGED <<lock, reading, node, pc, local, txn, process, rec>>

ExpireTxn(r) ==
  /\ RecordsExpire
  /\ txn[r].state # "none"
  /\ WriteTxn(r, "none", {})
  /\ UNCHANGED <<lock, tables, node, pc, local, news, process, rec>>

\* The recovery tasks live in the process that dies; the loop starts over.
RecCrash ==
  /\ CrashWith(Recoverer)
  /\ rec' = [w \in Recoverer |-> Scanning]

Recover(w) == PickUp(w) \/ RecSend(w) \/ RecAcknowledged(w)
              \/ RecSetTxnState(w) \/ RecUpdateStatus(w)

Beside(w) == Recover(w) \/ RecCallFails(w) \/ RecRaises(w)

RecNext ==
  \/ \E r \in Request : (Serve(r) \/ Fault(r)) /\ UNCHANGED rec
  \/ \E m \in calls : UtilityStep(m) /\ UNCHANGED rec
  \/ Expire /\ UNCHANGED rec
  \/ LateCallLost /\ UNCHANGED rec
  \/ \E w \in Recoverer : Beside(w)
  \/ \E r \in Request : CancelBooking(r) \/ ExpireTxn(r)
  \/ RecCrash

RecSpec == RecInit /\ [][RecNext]_recVars

\* The recovery loop never ends and sleeps 60 s between two scans, so it gets
\* to every record that stays in PREPARED.
RecFairness ==
  /\ \A r \in Request : WF_recVars(Serve(r) /\ UNCHANGED rec)
  /\ \A w \in Recoverer : WF_recVars(Recover(w))
  /\ \A c \in Request \cup Recoverer :
       WF_recVars(\E m \in Waiting(c) : UtilityStep(m) /\ UNCHANGED rec)

RecFairSpec == RecSpec /\ RecFairness

-----------------------------------------------------------------------------
RecTypeOK ==
  /\ UtilityNodeType(Request \cup Recoverer)
  /\ txn \in [Request -> [state : TxnState \cup {"none"}, ids : SUBSET Utility]]
  /\ news \in [Request -> {"none", "confirmed", "failed", "cancelled"}]
  /\ rec \in [Recoverer -> [at : RecPlace, txn : Request \cup {Nobody},
                        ids : SUBSET Utility]]
-----------------------------------------------------------------------------

\* With recovery, cancellation, expiring records and every fault at once, what
\* is left of slot exclusion: a new booking is only ever inserted into a window
\* that no live booking overlaps at that moment.
InsertedIntoFreeSlot ==
  [][\A r \in Request : fb[r] = "none" /\ fb'[r] = "pending"
       => \A p \in Request \ {r} : Overlaps(p, r) => fb[p] \notin Live]_recVars

\* A transaction found in PREPARED does not stay there: a handler or a recovery
\* run ends it, although the process crashes and recoverers overlap.
PreparedIsResolved ==
  \A r \in Request : txn[r].state = "prepared" ~> txn[r].state # "prepared"

=============================================================================
