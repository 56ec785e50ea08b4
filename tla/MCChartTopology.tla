--------------------------- MODULE MCChartTopology ---------------------------
(* Charts as files list them, for TLC. *)
EXTENDS ChartTopology

Group(type, ids, raws) == [type |-> type, ids |-> ids, raws |-> raws]

Axis(id, kind, cross) == [id |-> id, kind |-> kind, deleted |-> FALSE, cross |-> cross]

Grid == <<Axis(10, "Category", 20), Axis(20, "Value", 10)>>

SecondGrid == <<Axis(50, "Value", 40), Axis(40, "Category", 50)>>

\* One group of columns; one of points.
Columns == [groups |-> <<Group("Column", <<10, 20>>, {0, 1})>>, axes |-> Grid]

Points ==
  [groups |-> <<Group("Scatter", <<10, 20>>, {0, 1})>>,
   axes |-> <<Axis(10, "Value", 20), Axis(20, "Value", 10)>>]

\* Columns, and lines on axes of their own; columns and a pie.
Combo ==
  [groups |-> <<Group("Column", <<10, 20>>, {0}), Group("Line", <<40, 50>>, {1, 2})>>,
   axes |-> Grid \o SecondGrid]

WithPie ==
  [groups |-> <<Group("Column", <<10, 20>>, {0}), Group("Pie", <<>>, {1})>>, axes |-> Grid]

\* Columns on both sides, lines on the secondary one.
ThreeGroups ==
  [groups |-> <<Group("Column", <<10, 20>>, {0}), Group("Column", <<40, 50>>, {1}),
                Group("Line", <<40, 50>>, {2})>>,
   axes |-> Grid \o SecondGrid]

Charts == {Columns, Points, WithPie, ThreeGroups}
=============================================================================
