------------------------- MODULE MCSaveTransaction -------------------------
(* Small sessions for TLC.                                                 *)
EXTENDS SaveTransaction

CONSTANTS p, q

TwoPaths == {p, q}

(* A file p, and no other; its content is a blank workbook.                  *)
BlankAtP == [x \in Path |-> IF x = p THEN BlankWorkbook ELSE NoFile]
=============================================================================
