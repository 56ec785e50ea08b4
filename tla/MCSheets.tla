------------------------------ MODULE MCSheets ------------------------------
(* A workbook of two sheets for TLC.                                       *)
EXTENDS Sheets

Page(i, kind, shown) == [id |-> i, kind |-> kind, shown |-> shown, data |-> i]

(* A workbook with an empty grid sheet and a chart sheet that is hidden.   *)
ChartFiles == {<<[Page(1, "grid", TRUE) EXCEPT !.data = Blank], Page(2, "chart", FALSE)>>}
=============================================================================
