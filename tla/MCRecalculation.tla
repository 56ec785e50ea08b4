--------------------------- MODULE MCRecalculation ---------------------------
(***************************************************************************)
(* Workbooks with a sheet of one cell and a sheet of three.                *)
(***************************************************************************)
EXTENDS Recalculation

OneAndThree == <<{1}, {2, 3, 4}>>

Adding(plus, reads) == [plus |-> plus, reads |-> reads, left |-> FALSE]
Sum(plus, reads) == [NoFormula EXCEPT !.elements = <<Adding(plus, reads)>>]
Left(reads) == [NoFormula EXCEPT !.elements = <<[Adding(0, reads) EXCEPT !.left = TRUE]>>]
Spill(first, second) ==
  [NoFormula EXCEPT !.elements = <<Adding(0, first), Adding(0, second)>>, !.array = TRUE]
Rand == [Sum(0, {}) EXCEPT !.volatile = TRUE]
Foreign(reads) == [Sum(0, reads) EXCEPT !.supported = FALSE]

(* Scalar formulas over both sheets, circular ones, and one not supported.  *)
ScalarBooks ==
  {<<f, g, NoFormula, NoFormula>> :
     f \in {Sum(0, {2}), Sum(1, {2, 3})}, g \in {Sum(0, {1}), Foreign({3})}}
    \cup {<<Sum(0, {3}), NoFormula, Sum(0, {2, 4}), Sum(0, {1})>>}

(* A circular formula that oscillates, and one that reads it.               *)
OscillatingBooks == {<<Left({1}), NoFormula, Sum(0, {1}), NoFormula>>}

(* A spill in cells 2 and 3.  The formula on the sheet before it may read   *)
(* its second element, and its elements the formulas of either sheet.       *)
SpillBooks ==
  {<<f, Spill(a, b), NoFormula, g>> :
     f \in {NoFormula, Sum(1, {2}), Sum(0, {3}), Sum(0, {4})}, a, b \in {{}, {1}, {4}},
     g \in {NoFormula, Sum(0, {3}), Sum(1, {2})}}

(* No formula of the sheet before, and no array formula, depends on the     *)
(* second element, and the array formula is on no cycle.                    *)
Depends(b, c) == LET reads(d) == UNION {b[d].elements[i].reads : i \in DOMAIN b[d].elements}
                     reached[n \in 0..4] == IF n = 0 THEN reads(c)
                       ELSE reached[n - 1] \cup UNION {reads(d) : d \in reached[n - 1]}
                 IN reached[4]
LayeredBooks == {b \in SpillBooks : 3 \notin Depends(b, 1) /\ {2, 3} \cap Depends(b, 2) = {}}

(* RAND(), and formulas of both sheets that refer to it.                    *)
RandBooks ==
  {<<Rand, f, Sum(0, {1}), g>> : f \in {Sum(0, {1}), Sum(0, {3})}, g \in {Sum(0, {2}), Rand}}
    \cup {<<Sum(0, {4}), Sum(1, {1}), Sum(0, {1}), Rand>>}

(* The formula of the first sheet reads an element that has its turn later.  *)
EarlyBooks == {<<Sum(0, {3}), Spill({}, {4}), NoFormula, NoFormula>>}

(* RAND() in cell 3 and an array formula on its sheet.  What refers to it    *)
(* stands on that sheet too; a formula not supported draws it early.        *)
One(reads) == [NoFormula EXCEPT !.elements = <<Adding(0, reads)>>, !.array = TRUE]
RandAndArrayBooks ==
  {<<Foreign({4}), One(a), Rand, Sum(0, {3})>> : a \in {{}, {3}, {4}}}
    \cup {<<Sum(1, {}), One({}), Rand, Sum(0, {3})>>}

(* RAND() on the sheet before the array formula's, referred to after it.     *)
PartedBooks == {<<Rand, Spill({}, {}), NoFormula, Sum(0, {1})>>}

MCBooks == ScalarBooks \cup OscillatingBooks \cup LayeredBooks \cup RandBooks \cup RandAndArrayBooks

=============================================================================
