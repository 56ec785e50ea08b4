---------------------------- MODULE MCWorksheet ----------------------------
(* Small worksheets for TLC.                                               *)
EXTENDS Worksheet

CONSTANTS v, f, x

Empty == [k \in Cell |-> NoCell]
NoSpills == [k \in Cell |-> {}]
Plain(value, formula) == [value |-> value, formula |-> formula, styled |-> FALSE]

MCInputValue == {v}
MCFormula == {f}
MCArrayValue == {x}
MCBlankArrayValue == {x, Blank}

SingleCells == {{k} : k \in Cell}
FirstCellAndPair == {{<<1, 1>>}, {<<1, 2>>, <<1, 3>>}}
WholeSheet == {Cell}

NewSheet == [cells |-> Empty, spills |-> NoSpills, groups |-> {}]

(* A sheet with a legacy array in the way of what its first cell may spill.  *)
LegacySheet ==
  LET pair == {<<1, 2>>, <<1, 3>>}
  IN [cells |-> [k \in Cell |-> IF k = <<1, 2>> THEN Plain(v, f)
                                ELSE IF k \in pair THEN Plain(v, NoFormula)
                                ELSE NoCell],
      spills |-> NoSpills,
      groups |-> {[anchor |-> <<1, 2>>, owns |-> pair, kind |-> "LegacyArray"]}]

(* A sheet with a materialized spill over its first row; one child is styled. *)
SpilledSheet ==
  LET row == {k \in Cell : k[1] = 1}
  IN [cells |-> [k \in Cell |->
                   IF k \in row
                   THEN [value |-> v, formula |-> IF k = <<1, 1>> THEN f ELSE NoFormula,
                         styled |-> k = <<1, 2>>]
                   ELSE NoCell],
      spills |-> [k \in Cell |-> IF k = <<1, 1>> THEN row ELSE {}],
      groups |-> {}]

MCLoadedSheets == {LegacySheet, SpilledSheet}
NewSheetOnly == {NewSheet}
=============================================================================
