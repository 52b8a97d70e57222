------------------------------ MODULE SlotLedger ------------------------------
(***************************************************************************)
(* What the field node promises about the calendar of its fields, with no  *)
(* lock, query, vote or message in sight: a window is held only while no   *)
(* overlapping one is held or sold, only a held window is sold, and a      *)
(* window given back is never taken again by the same booking.             *)
(***************************************************************************)
EXTENDS BookingRequests

VARIABLE ledger   \* ledger[r]: "new", "held", "sold" or "void"

Entry == {"new", "held", "sold", "void"}

Taken == {"held", "sold"}

Init == ledger = [r \in Request |-> "new"]

Hold(r) ==
  /\ ledger[r] = "new"
  /\ \A p \in Request : Overlaps(p, r) => ledger[p] \notin Taken
  /\ ledger' = [ledger EXCEPT ![r] = "held"]

Sell(r) ==
  /\ ledger[r] = "held"
  /\ ledger' = [ledger EXCEPT ![r] = "sold"]

GiveBack(r) ==
  /\ ledger[r] \in Taken
  /\ ledger' = [ledger EXCEPT ![r] = "void"]

Next == \E r \in Request : Hold(r) \/ Sell(r) \/ GiveBack(r)

Spec == Init /\ [][Next]_ledger

-----------------------------------------------------------------------------
TypeOK == ledger \in [Request -> Entry]

\* Overlapping windows are never both taken.
NoOverlap ==
  \A p, r \in Request :
    p # r /\ Overlaps(p, r) => ledger[p] \notin Taken \/ ledger[r] \notin Taken

=============================================================================
