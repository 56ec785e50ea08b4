---------------------------- MODULE MCEvaluator ----------------------------
(***************************************************************************)
(* Small sheets of formulas for the evaluator.                             *)
(***************************************************************************)
EXTENDS Evaluator, FiniteSets

Scalar(lexical, reads) ==
  [lexical |-> lexical, reads |-> reads, catches |-> FALSE, array |-> FALSE]

(* Formulas that read at most two cells and name all of them, scalar or, for *)
(* one cell, array formulas; and one that reads cell 1 without naming it.   *)
Direct ==
  {Scalar(l, l) : l \in {s \in SUBSET Cell : Cardinality(s) <= 2}}
    \cup {Scalar({}, {1})}
    \cup {[Scalar({c}, {c}) EXCEPT !.array = TRUE] : c \in Cell}

(* Formulas that read all they name or, as ROWS(A1), nothing of it.         *)
Referring == {Scalar(l, l) : l \in SUBSET Cell} \cup {Scalar(l, {}) : l \in SUBSET Cell}

(* Formulas with and without an IFERROR around what they read.              *)
Catching == {[Scalar(l, l) EXCEPT !.catches = caught] : l \in SUBSET Cell, caught \in BOOLEAN}
=============================================================================
