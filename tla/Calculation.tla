----------------------------- MODULE Calculation -----------------------------
(***************************************************************************)
(* What a calculation promises: it gives every cell of its scope, at once, *)
(* the result its formula means, which depends on the formulas alone and   *)
(* not on the order they are evaluated in.  A formula that reads a value   *)
(* cycle, however far down, has no settled result; any other is Fresh.     *)
(***************************************************************************)
CONSTANTS
  Cell,
  Unsettled,      \* the result of a cell that reads a value cycle
  NoResult        \* the cell was not calculated yet

VARIABLES formula, value

(* A set of cells each of which reads another of it: none of them can be   *)
(* computed from current content alone.                                    *)
Unfounded(cells) == \A c \in cells : formula[c].reads \cap cells # {}
ReadsCycle(c) == \E cells \in SUBSET Cell : c \in cells /\ Unfounded(cells)

Meaning(c) == IF ReadsCycle(c) THEN Unsettled ELSE "Fresh"

Init == value = [c \in Cell |-> NoResult]

Recalculate(cells) ==
  /\ value' = [c \in Cell |-> IF c \in cells THEN Meaning(c) ELSE value[c]]
  /\ UNCHANGED formula

Next == \E cells \in SUBSET Cell : Recalculate(cells)

Spec == Init /\ [][Next]_<<formula, value>>
=============================================================================
