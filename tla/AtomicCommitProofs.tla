-------------------------- MODULE AtomicCommitProofs --------------------------
(***************************************************************************)
(* The abstract commitment keeps all parties of a transaction on one side, *)
(* whatever the transactions and their members.                            *)
(***************************************************************************)
EXTENDS AtomicCommit, TLAPS

\* Whoever commits or aborts finds no party of its transaction on the other side,
\* and every other move leaves both sides as they are.
LEMMA MoveKeepsAgreement ==
  ASSUME NEW t \in Txn, NEW old, NEW new,
         old \in Stages(t), Move(t, old, new),
         Stages(t)' \subseteq Stages(t) \cup {new},
         ~ {"committed", "aborted"} \subseteq Stages(t)
  PROVE  ~ {"committed", "aborted"} \subseteq Stages(t)'
<1>1. CASE old = "working" /\ new = "prepared"
  BY <1>1
<1>2. CASE old = "prepared" /\ new = "committed" /\ CanCommit(t)
  BY <1>2 DEF CanCommit
<1>3. CASE old \in {"working", "prepared"} /\ new = "aborted" /\ CanAbort(t)
  BY <1>3 DEF CanAbort
<1>. QED  BY <1>1, <1>2, <1>3 DEF Move

\* Type correctness of the abstract commitment.
THEOREM TypeCorrect == Spec => []TypeOK
<1>1. Init => TypeOK
  BY DEF Init, TypeOK, Stage
<1>2. TypeOK /\ [Next]_vars => TypeOK'
  <2>. SUFFICES ASSUME TypeOK, [Next]_vars PROVE TypeOK'
    OBVIOUS
  <2>1. ASSUME NEW t \in Txn, MoveOwn(t) PROVE TypeOK'
    BY <2>1 DEF MoveOwn, TypeOK
  <2>2. ASSUME NEW t \in Txn, MovePart(t) PROVE TypeOK'
    <3>1. PICK p \in Invited[t], s \in Stage : part' = [part EXCEPT ![t][p] = s] /\ UNCHANGED own
      BY <2>2 DEF MovePart
    <3>. QED  BY <3>1 DEF TypeOK
  <2>3. CASE UNCHANGED vars
    BY <2>3 DEF vars, TypeOK
  <2>. QED  BY <2>1, <2>2, <2>3 DEF Next
<1>. QED  BY <1>1, <1>2, PTL DEF Spec, vars

\* No party of a transaction ever aborts while another commits: what a two-phase
\* booking that implements AtomicCommit keeps of its field and its utilities.
THEOREM AgreementHolds ==
  ASSUME InvitedType PROVE Spec => []Agreement
<1>1. Init => Agreement
  <2>. SUFFICES ASSUME Init, NEW t \in Txn
                PROVE  ~ {"committed", "aborted"} \subseteq Stages(t)
    BY DEF Agreement
  <2>1. \A p \in Invited[t] : part[t][p] = "working"
    BY DEF InvitedType, Init
  <2>2. Stages(t) \subseteq {"working"}
    BY <2>1 DEF Init, Stages
  <2>. QED  BY <2>2
<1>2. TypeOK /\ Agreement /\ [Next]_vars => Agreement'
  <2>. SUFFICES ASSUME TypeOK, Agreement, [Next]_vars, NEW u \in Txn
                PROVE  ~ {"committed", "aborted"} \subseteq Stages(u)'
    BY DEF Agreement
  <2>0. ~ {"committed", "aborted"} \subseteq Stages(u)
    BY DEF Agreement
  <2>1. ASSUME NEW t \in Txn, MoveOwn(t)
        PROVE  ~ {"committed", "aborted"} \subseteq Stages(u)'
    <3>1. PICK s \in Stage : Move(t, own[t], s) /\ own' = [own EXCEPT ![t] = s] /\ UNCHANGED part
      BY <2>1 DEF MoveOwn
    <3>2. CASE u = t
      <4>1. Stages(u)' \subseteq Stages(u) \cup {s}
        BY <3>1, <3>2 DEF Stages, TypeOK
      <4>2. own[t] \in Stages(u)
        BY <3>2 DEF Stages
      <4>. QED  BY <4>1, <4>2, <3>1, <3>2, <2>0, MoveKeepsAgreement
    <3>3. CASE u # t
      <4>1. Stages(u)' = Stages(u)
        BY <3>1, <3>3 DEF Stages, TypeOK
      <4>. QED  BY <4>1, <2>0
    <3>. QED  BY <3>2, <3>3
  <2>2. ASSUME NEW t \in Txn, MovePart(t)
        PROVE  ~ {"committed", "aborted"} \subseteq Stages(u)'
    <3>1. PICK p \in Invited[t], s \in Stage :
            Move(t, part[t][p], s) /\ part' = [part EXCEPT ![t][p] = s] /\ UNCHANGED own
      BY <2>2 DEF MovePart
    <3>2. CASE u = t
      <4>1. \A q \in Invited[u] : part'[u][q] \in {part[u][q], s}
        BY <3>1, <3>2 DEF TypeOK
      <4>2. Stages(u)' \subseteq Stages(u) \cup {s}
        BY <4>1, <3>1 DEF Stages
      <4>3. part[t][p] \in Stages(u)
        BY <3>1, <3>2 DEF Stages
      <4>. QED  BY <4>2, <4>3, <3>1, <3>2, <2>0, MoveKeepsAgreement
    <3>3. CASE u # t
      <4>1. part'[u] = part[u] /\ own' = own
        BY <3>1, <3>3 DEF TypeOK
      <4>2. Stages(u)' = Stages(u)
        BY <4>1 DEF Stages
      <4>. QED  BY <4>2, <2>0
    <3>. QED  BY <3>2, <3>3
  <2>3. CASE UNCHANGED vars
    <3>1. Stages(u)' = Stages(u)
      BY <2>3 DEF vars, Stages
    <3>. QED  BY <3>1, <2>0
  <2>. QED  BY <2>1, <2>2, <2>3 DEF Next
<1>. QED  BY <1>1, <1>2, TypeCorrect, PTL DEF Spec, vars

=============================================================================
