--------------------------- MODULE MCDefinedNames ---------------------------
(* A workbook of one or two sheets for TLC, with texts that differ in case. *)
EXTENDS DefinedNames

Texts == {"a", "A", "b"}
Lower == [text \in Texts |-> IF text = "A" THEN "a" ELSE text]
TwoTexts == {"a", "b"}
Itself == [text \in TwoTexts |-> text]
TwoTitles == {"S", "T"}

Page(i, title) == [id |-> i, title |-> title]
Named(scope, text, target) == [scope |-> scope, text |-> text, target |-> target, hidden |-> FALSE]
Series(host, title, text) == [host |-> host, title |-> title, text |-> text, at |-> NoSheet]

Pages == [sheets |-> <<Page(1, "S"), Page(2, "T")>>, names |-> {}, sources |-> <<>>]
LocalNames == [Pages EXCEPT !.names = {Named(1, "a", "S"), Named(2, "a", "T")}]
LocalName == [sheets |-> <<Page(1, "S")>>, names |-> {Named(1, "a", "S")}, sources |-> <<>>]
LocalNameAndChart == [LocalName EXCEPT !.sources = <<Series(1, NoTitle, "a")>>]
LocalNamesAndChart == [LocalNames EXCEPT !.sources = <<Series(1, NoTitle, "a")>>]
=============================================================================
