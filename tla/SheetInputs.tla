---------------------------- MODULE SheetInputs ----------------------------
(***************************************************************************)
(* What a worksheet promises about the things a user enters: a grid of     *)
(* inputs (values and formulas), some cells of which are locked.  Editing  *)
(* an area touches nothing outside it, and nothing at all while formulas   *)
(* are being calculated.  How results spill is not part of the promise.    *)
(***************************************************************************)
CONSTANTS Cell, Areas, Input

VARIABLES input, locked, calculating

Init ==
  /\ input \in [Cell -> Input]
  /\ locked \in SUBSET Cell
  /\ calculating = FALSE

Edit(area) ==
  /\ ~calculating
  /\ input' \in [Cell -> Input]
  /\ \A k \in Cell : input'[k] # input[k] => k \in area \ locked
  /\ UNCHANGED <<locked, calculating>>

BeginCalculation == calculating' = TRUE /\ UNCHANGED <<input, locked>>
EndCalculation == calculating' = FALSE /\ UNCHANGED <<input, locked>>

Next == (\E area \in Areas : Edit(area)) \/ BeginCalculation \/ EndCalculation

Spec == Init /\ [][Next]_<<input, locked, calculating>>
=============================================================================
