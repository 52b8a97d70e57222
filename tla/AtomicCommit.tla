----------------------------- MODULE AtomicCommit -----------------------------
(***************************************************************************)
(* What a two-phase booking promises its participants, without a message,  *)
(* a coordinator or a crash in sight: of each transaction the initiator    *)
(* (the row of the field) and the members it invites (the utilities) all   *)
(* commit or all abort, and nobody commits before everyone is prepared.    *)
(***************************************************************************)

CONSTANTS
  Txn,       \* the transactions
  Party,     \* all that can take part in one
  Invited    \* Invited[t] \subseteq Party: the members of t, beside its initiator

InvitedType == Invited \in [Txn -> SUBSET Party]

VARIABLES
  own,       \* own[t]: state of the initiator of t
  part       \* part[t][p]: state of member p of t

vars == <<own, part>>

Stage == {"working", "prepared", "committed", "aborted"}

\* The stages the initiator and the members of t are in.
Stages(t) == {own[t]} \cup {part[t][p] : p \in Invited[t]}

CanCommit(t) == Stages(t) \subseteq {"prepared", "committed"}

CanAbort(t) == "committed" \notin Stages(t)

\* The moves open to one party of t.
Move(t, from, to) ==
  \/ from = "working" /\ to = "prepared"
  \/ from = "prepared" /\ to = "committed" /\ CanCommit(t)
  \/ from \in {"working", "prepared"} /\ to = "aborted" /\ CanAbort(t)

Init ==
  /\ own = [t \in Txn |-> "working"]
  /\ part = [t \in Txn |-> [p \in Party |-> "working"]]

MoveOwn(t) ==
  \E s \in Stage :
    /\ Move(t, own[t], s)
    /\ own' = [own EXCEPT ![t] = s]
    /\ UNCHANGED part

MovePart(t) ==
  \E p \in Invited[t], s \in Stage :
    /\ Move(t, part[t][p], s)
    /\ part' = [part EXCEPT ![t][p] = s]
    /\ UNCHANGED own

Next == \E t \in Txn : MoveOwn(t) \/ MovePart(t)

Spec == Init /\ [][Next]_vars

-----------------------------------------------------------------------------
TypeOK ==
  /\ own \in [Txn -> Stage]
  /\ part \in [Txn -> [Party -> Stage]]

\* No party of a transaction aborts while another commits.
Agreement == \A t \in Txn : ~ {"committed", "aborted"} \subseteq Stages(t)

=============================================================================
