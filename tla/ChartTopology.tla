---------------------------- MODULE ChartTopology ----------------------------
(***************************************************************************)
(* A chart read from a file: its series, the groups that draw them, the    *)
(* axes the groups are bound to, and a handle a macro holds to one of      *)
(* them.  A series is in one group, named by its c:idx (raw); a group is   *)
(* on the primary or the secondary side, as its series are; and which side *)
(* that is, the file does not say: the reader decides it from the order of *)
(* the groups and the axes they name.                                      *)
(*                                                                         *)
(* The operations are those of excel-runtime's dispatch that change what   *)
(* belongs to what; sources, formats and titles are left out, and so are   *)
(* dates (an axis is a category or a value axis), series axes, 3D and      *)
(* volume-stock charts, the filtered state and the plot order of a series. *)
(***************************************************************************)
EXTENDS Picking, Integers, SequencesExt, FiniteSetsExt

CONSTANTS
  Types,       \* the families of chart groups
  HasAxes,     \* the families that are drawn on axes
  XYTypes,     \* the families drawn on two value axes
  Files,       \* the charts, as a file lists them, that may be opened
  MaxSeries,   \* bound: series of a chart
  MaxGroups,   \* bound: groups of a chart
  MaxAxes,     \* bound: axes of a chart after HasAxis
  MaxHidden,   \* bound: axes hidden at a time
  MaxOps,      \* bound: operations in a row
  MaxRaw,      \* bound: the c:idx of a series
  NewTypes     \* bound: the families a chart is given

ASSUME FamiliesAreKnown ==
  XYTypes \subseteq HasAxes /\ HasAxes \subseteq Types /\ NewTypes \subseteq Types
ASSUME BoundsAreNumbers == MaxSeries \in Nat

Sides == {"Primary", "Secondary"}
AxisKinds == {"Category", "Value"}

SeriesRecord == [raw : Nat, side : Sides]
GroupRecord == [type : Types, side : Sides, ids : Seq(Nat), raws : SUBSET Nat, loaded : Nat]
AxisRecord == [id : Nat, kind : AxisKinds, side : Sides, deleted : BOOLEAN, cross : Nat]

\* A chart as the file format has it: axes with ids of their own, groups that
\* name axes that are there, and series with a c:idx of their own.
IsFile(file) ==
  /\ file.groups \in Seq([type : Types, ids : Seq(Nat), raws : SUBSET Nat]) \ {<<>>}
  /\ file.axes \in Seq([id : Nat, kind : AxisKinds, deleted : BOOLEAN, cross : Nat])
  /\ \A i, j \in DOMAIN file.axes : file.axes[i].id = file.axes[j].id => i = j
  /\ \A g \in DOMAIN file.groups :
       /\ Range(file.groups[g].ids) \subseteq {file.axes[i].id : i \in DOMAIN file.axes}
       /\ IsFiniteSet(file.groups[g].raws)
       /\ \A h \in DOMAIN file.groups \ {g} : file.groups[g].raws \cap file.groups[h].raws = {}
  /\ \A i \in DOMAIN file.axes :
       file.axes[i].cross \in {0} \cup {file.axes[j].id : j \in DOMAIN file.axes}

ASSUME FilesAreCharts == \A file \in Files : IsFile(file)

VARIABLES
  chart,   \* what the session has: type, series, groups, axes, moved
  part,    \* the families of the groups in the chart's part, in order
  retired, \* the kinds of objects whose handles the last operation retired
  ops      \* the operations so far

vars == <<chart, part, retired, ops>>

-----------------------------------------------------------------------------
(* Axes *)

IdsOf(axes) == {axes[i].id : i \in DOMAIN axes}

Hidden(axes) == Cardinality({i \in DOMAIN axes : axes[i].deleted})

AxesOf(axes, kind, side) == {i \in DOMAIN axes : axes[i].kind = kind /\ axes[i].side = side}

FirstId(axes, places) == axes[Min(places)].id

\* An axis keeps the axis it crosses while that is there, and else takes one
\* of the other kind: of its own side, of the primary, or (a category) any.
CrossTarget(axes, a) ==
  LET other == IF a.kind = "Value" THEN "Category" ELSE "Value"
      own == AxesOf(axes, other, a.side)
      primary == AxesOf(axes, other, "Primary")
      secondary == AxesOf(axes, other, "Secondary")
  IN  IF a.cross \in IdsOf(axes) THEN a.cross
      ELSE IF own # {} THEN FirstId(axes, own)
      ELSE IF primary # {} THEN FirstId(axes, primary)
      ELSE IF other = "Value" /\ secondary # {} THEN FirstId(axes, secondary)
      ELSE 0

Reconcile(axes) ==
  [i \in DOMAIN axes |-> [axes[i] EXCEPT !.cross = CrossTarget(axes, axes[i])]]

NextAxisId(axes, preferred) ==
  Min({preferred + 10 * k : k \in 0 .. Len(axes)} \ IdsOf(axes))

NewAxis(id, kind, side) ==
  [id |-> id, kind |-> kind, side |-> side, deleted |-> FALSE, cross |-> 0]

\* The axis of a kind and a side: shown again when it was hidden, added when
\* there is none.
EnsureAxis(axes, kind, side, preferred) ==
  LET there == AxesOf(axes, kind, side)
  IN  IF there = {}
        THEN Append(axes, NewAxis(NextAxisId(axes, preferred), kind, side))
        ELSE [axes EXCEPT ![Min(there)].deleted = FALSE]

Preferred(kind, side) ==
  IF side = "Primary" THEN (IF kind = "Category" THEN 10 ELSE 20)
  ELSE (IF kind = "Category" THEN 40 ELSE 50)

DefaultAxes ==
  Reconcile(<<NewAxis(10, "Category", "Primary"), NewAxis(20, "Value", "Primary")>>)

\* A slip: axes keep crossing the ones that went.
PruneAlone(axes, groups, candidates) ==
  Picked(axes, {i \in DOMAIN axes :
    \/ axes[i].id \notin candidates
    \/ \E g \in DOMAIN groups : axes[i].id \in Range(groups[g].ids)})

\* Axes that lost their last group go, those that crossed them cross others.
PruneAxes(axes, groups, candidates) ==
  LET bound == UNION {Range(groups[g].ids) : g \in DOMAIN groups}
      kept  == Picked(axes, {i \in DOMAIN axes :
                               axes[i].id \notin candidates \/ axes[i].id \in bound})
  IN  IF kept = axes THEN axes ELSE Reconcile(kept)

\* HasAxis: every axis of the kind and side is shown or hidden, or one added.
WithPresence(axes, kind, side, present) ==
  LET Of(a) == a.kind = kind /\ a.side = side
      shown == \E i \in DOMAIN axes : Of(axes[i]) /\ ~axes[i].deleted
      some  == \E i \in DOMAIN axes : Of(axes[i])
  IN  IF present /\ ~some
        THEN Reconcile(EnsureAxis(axes, kind, side, Preferred(kind, side)))
        ELSE IF present /\ shown
          THEN axes
          ELSE [i \in DOMAIN axes |->
                 IF Of(axes[i]) THEN [axes[i] EXCEPT !.deleted = ~present] ELSE axes[i]]

-----------------------------------------------------------------------------
(* Groups *)

RawsOf(c) == {c.series[s].raw : s \in DOMAIN c.series}

\* Every series is in one group, and on its side.
Stable(c) ==
  /\ c.groups # <<>>
  /\ Cardinality(RawsOf(c)) = Len(c.series)
  /\ UNION {c.groups[g].raws : g \in DOMAIN c.groups} = RawsOf(c)
  /\ \A g \in DOMAIN c.groups : \A s \in DOMAIN c.series :
       c.series[s].raw \in c.groups[g].raws =>
         /\ c.series[s].side = c.groups[g].side
         /\ \A h \in DOMAIN c.groups \ {g} : c.series[s].raw \notin c.groups[h].raws

GroupsWith(c, raw) == {g \in DOMAIN c.groups : raw \in c.groups[g].raws}

\* The sides of the groups a macro sees: the groups, or, when the chart has
\* none of its own, the sides its series are on.
GroupSides(c) ==
  IF Stable(c)
    THEN [g \in DOMAIN c.groups |-> c.groups[g].side]
    ELSE LET On(side) == \E s \in DOMAIN c.series : c.series[s].side = side
         IN  (IF c.series = <<>> \/ On("Primary") THEN <<"Primary">> ELSE <<>>)
             \o (IF On("Secondary") THEN <<"Secondary">> ELSE <<>>)

\* An empty group goes with the axes only it named, unless it is the last
\* one or the last primary one; a chart left with one group is of its family.
MayPrune(c, g) ==
  /\ Len(c.groups) > 1
  /\ c.groups[g].raws = {}
  /\ ~ (/\ c.groups[g].side = "Primary"
        /\ \A h \in DOMAIN c.groups \ {g} : c.groups[h].side = "Secondary")

Pruned(c, g) ==
  IF ~MayPrune(c, g)
    THEN c
    ELSE LET left == RemoveAt(c.groups, g)
         IN  [c EXCEPT !.groups = left,
                       !.axes = PruneAxes(@, left, Range(c.groups[g].ids)),
                       !.type = IF Len(left) = 1 THEN left[1].type ELSE @]

\* The axes a group of the kind of group g is bound to on another side: those
\* that are there, or new ones.  <<>> when the chart is refused.
WithId(axes, id) == axes[CHOOSE j \in DOMAIN axes : axes[j].id = id]
Bound(axes, ids) == [i \in DOMAIN ids |-> WithId(axes, ids[i])]

NoTarget(c) == [ids |-> <<>>, axes |-> c.axes]

TargetPair(c, side) ==
  LET values == AxesOf(c.axes, "Value", side)
      pairs == {h \in DOMAIN c.groups :
                 /\ c.groups[h].side = side
                 /\ Len(c.groups[h].ids) = 2
                 /\ Range(c.groups[h].ids) \subseteq {c.axes[i].id : i \in values}}
      id1 == NextAxisId(c.axes, IF side = "Primary" THEN 10 ELSE 40)
      one == Append(c.axes, NewAxis(id1, "Value", side))
      id2 == NextAxisId(one, IF side = "Primary" THEN 20 ELSE 50)
      two == <<[NewAxis(id1, "Value", side) EXCEPT !.cross = id2],
               [NewAxis(id2, "Value", side) EXCEPT !.cross = id1]>>
  IN  IF pairs # {} THEN [ids |-> c.groups[Min(pairs)].ids, axes |-> c.axes]
      ELSE IF values = {} THEN [ids |-> <<id1, id2>>, axes |-> Reconcile(c.axes \o two)]
      ELSE IF Cardinality(values) = 2
        THEN [ids |-> <<c.axes[Min(values)].id, c.axes[Max(values)].id>>, axes |-> c.axes]
      ELSE NoTarget(c)

TargetOnGrid(c, source, side) ==
  LET axes1  == EnsureAxis(c.axes, "Value", side, Preferred("Value", side))
      axes2  == IF axes1 = c.axes THEN axes1 ELSE Reconcile(axes1)
      cats   == AxesOf(axes2, "Category", side)
      Ours(a) == IF a.kind = "Value" THEN FirstId(axes2, AxesOf(axes2, "Value", side))
                 ELSE IF cats = {} THEN a.id ELSE FirstId(axes2, cats)
  IN  [ids |-> [i \in DOMAIN source |-> Ours(source[i])], axes |-> axes2]

TargetAxes(c, g, side) ==
  LET source == Bound(c.axes, c.groups[g].ids)
      values == {i \in DOMAIN source : source[i].kind = "Value"}
  IN  IF c.groups[g].type \notin HasAxes THEN NoTarget(c)
      ELSE IF c.groups[g].type \in XYTypes /\ Len(source) = 2 /\ values = DOMAIN source
        THEN TargetPair(c, side)
      ELSE IF Cardinality(values) = 1 /\ Len(source) > 1
        THEN TargetOnGrid(c, source, side)
      ELSE NoTarget(c)

-----------------------------------------------------------------------------
(* The chart's part in the package *)

\* Groups the session added are written before the next group of the part
\* that the chart still has, or after all of them.
Later(c, g) == {h \in DOMAIN c.groups : h > g /\ c.groups[h].loaded # 0}

\* A slip: they are all written at the end.
AtTheEnd(c, g) == Len(part) + 1
PlaceOf(c, g) ==
  IF Later(c, g) = {} THEN Len(part) + 1 ELSE c.groups[Min(Later(c, g))].loaded

Place(c, g) == IF c.groups[g].loaded = 0 THEN PlaceOf(c, g) ELSE c.groups[g].loaded

IsBefore(c, h, g) ==
  \/ Place(c, h) < Place(c, g)
  \/ Place(c, h) = Place(c, g) /\ c.groups[h].loaded = 0 /\ (c.groups[g].loaded # 0 \/ h < g)

\* The groups of a chart in the order of its part.
Written(c) ==
  LET Before(h, g) == IsBefore(c, h, g) IN InOrder(DOMAIN c.groups, Before)

\* Groups of the part go only when the series are known to have moved.
GroupsOfPart(c) ==
  /\ c.moved \/ \A p \in DOMAIN part : \E g \in DOMAIN c.groups : c.groups[g].loaded = p
  /\ \A g, h \in DOMAIN c.groups :
       c.groups[g].loaded = c.groups[h].loaded /\ c.groups[g].loaded # 0 => g = h

\* What the writer takes: a partition, a first group of the chart's family,
\* and no lone group on the secondary side.  (What it makes of a chart that
\* has lost its groups or its partition is not modelled.)
Encodable(c) ==
  /\ Stable(c)
  /\ GroupsOfPart(c)
  /\ c.groups[Written(c)[1]].type = c.type
  /\ Len(c.groups) = 1 => c.groups[1].side = "Primary"

\* The file names no side; and it lists the series group by group.
AsFile(c) ==
  LET order == Written(c)
  IN  [groups |-> [i \in DOMAIN order |->
                    [type |-> c.groups[order[i]].type,
                     ids  |-> c.groups[order[i]].ids,
                     raws |-> c.groups[order[i]].raws]],
       axes |-> [i \in DOMAIN c.axes |->
                  [id |-> c.axes[i].id, kind |-> c.axes[i].kind,
                   deleted |-> c.axes[i].deleted, cross |-> c.axes[i].cross]]]

\* The axes of the first group that names any are the primary ones, those that
\* only later groups name are secondary; without such a group, the second axis
\* of a kind is.
SecondaryIds(file) ==
  LET bound == {g \in DOMAIN file.groups : file.groups[g].ids # <<>>}
      first == Min(bound)
      later == UNION {Range(file.groups[g].ids) : g \in {h \in bound : h > first}}
  IN  IF bound # {}
        THEN later \ Range(file.groups[first].ids)
        ELSE {file.axes[i].id : i \in {j \in DOMAIN file.axes :
                \E k \in 1 .. j - 1 : file.axes[k].kind = file.axes[j].kind}}

SideOf(file, g) ==
  IF /\ Range(file.groups[g].ids) \cap SecondaryIds(file) # {}
     /\ Len(file.groups) > 1 \/ file.groups[g].raws = {}
    THEN "Secondary" ELSE "Primary"

\* The series of a file: of each group in their order.
Drawn(file) ==
  LET places == UNION {{<<g, raw>> : raw \in file.groups[g].raws} : g \in DOMAIN file.groups}
      Before(d, e) == d[1] < e[1] \/ (d[1] = e[1] /\ d[2] < e[2])
  IN  InOrder(places, Before)

Read(file) ==
  [type   |-> file.groups[1].type,
   series |-> LET drawn == Drawn(file)
              IN  [i \in DOMAIN drawn |-> [raw |-> drawn[i][2], side |-> SideOf(file, drawn[i][1])]],
   groups |-> [g \in DOMAIN file.groups |->
                [type |-> file.groups[g].type, side |-> SideOf(file, g),
                 ids |-> file.groups[g].ids, raws |-> file.groups[g].raws,
                 loaded |-> g]],
   axes   |-> [i \in DOMAIN file.axes |->
                [id |-> file.axes[i].id, kind |-> file.axes[i].kind,
                 side |-> IF file.axes[i].id \in SecondaryIds(file)
                            THEN "Secondary" ELSE "Primary",
                 deleted |-> file.axes[i].deleted, cross |-> file.axes[i].cross]],
   moved  |-> FALSE]

\* The reader gets the sides right when the first group with axes is a primary
\* one, the groups of a side name the same axes, those of the secondary side
\* one that is not the primary groups', and no axis is without group.
FirstIsPrimary(c) ==
  \E g \in DOMAIN c.groups :
    /\ c.groups[g].ids # <<>> /\ c.groups[g].side = "Primary"
    /\ \A h \in 1 .. g - 1 : c.groups[h].ids = <<>>

SidesShareAxes(c) ==
  \A g, h \in DOMAIN c.groups :
    c.groups[g].ids # <<>> /\ c.groups[h].ids # <<>> /\ c.groups[g].side = c.groups[h].side =>
      c.groups[g].ids = c.groups[h].ids

SidesDiffer(c) ==
  \A g, h \in DOMAIN c.groups :
    c.groups[g].ids # <<>> /\ c.groups[h].ids # <<>> /\ c.groups[g].side # c.groups[h].side =>
      ~ (Range(c.groups[g].ids) \subseteq Range(c.groups[h].ids))

AxesHaveGroups(c) ==
  IdsOf(c.axes) \subseteq UNION {Range(c.groups[g].ids) : g \in DOMAIN c.groups}

SidesAreTold(c) ==
  FirstIsPrimary(c) /\ SidesShareAxes(c) /\ SidesDiffer(c) /\ AxesHaveGroups(c)

TypesOf(file) == [g \in DOMAIN file.groups |-> file.groups[g].type]

-----------------------------------------------------------------------------
(* Handles *)

\* An operation retires the handles of these kinds, and no other.
Retires(kinds) == retired' = kinds /\ ops' = ops + 1

\* A slip: the handles of groups stay when a group is pruned.
RetiresAxes(groupsChanged, axesChanged, others) ==
  Retires((IF axesChanged THEN {"Axis"} ELSE {}) \cup others)

RetiresIf(groupsChanged, axesChanged, others) ==
  Retires((IF groupsChanged THEN {"Group"} ELSE {})
        \cup (IF axesChanged THEN {"Axis"} ELSE {}) \cup others)

-----------------------------------------------------------------------------
(* Operations.  One that is refused changes nothing and is no step. *)

CanRun == ops < MaxOps

NextRaw == IF chart.series = <<>> THEN 0 ELSE Max(RawsOf(chart)) + 1

\* A slip: the group is not told of its series.
InsertUntold(g, side) ==
  chart' = [chart EXCEPT !.series = Append(@, [raw |-> NextRaw, side |-> side]),
                         !.moved = TRUE]

\* An axis that comes, goes or is hidden is first tried on a copy, which must be
\* encoded.
Accepts(axes) ==
  LET tried == [chart EXCEPT !.axes = axes]
  IN  axes # chart.axes /\ Stable(tried) => Encodable(tried)

\* What is put on the secondary side shows the value axis of that side.
WithValueAxis(side) ==
  IF side = "Primary" THEN chart.axes ELSE WithPresence(chart.axes, "Value", side, TRUE)

\* SeriesCollection.NewSeries and Add, of the chart (the primary side) or of a
\* group: one more series, in the first group of its side or in that one.
InsertInto(g, side) ==
  chart' = [chart EXCEPT !.series = Append(@, [raw |-> NextRaw, side |-> side]),
                         !.groups[g].raws = @ \cup {NextRaw},
                         !.moved = TRUE]

NewSeries ==
  /\ CanRun
  /\ Len(chart.series) < MaxSeries /\ NextRaw <= MaxRaw
  /\ Stable(chart)
  /\ \E g \in DOMAIN chart.groups :
       /\ chart.groups[g].side = "Primary"
       /\ \A h \in 1 .. g - 1 : chart.groups[h].side = "Secondary"
       /\ InsertInto(g, "Primary")
  /\ Retires({})
  /\ UNCHANGED part

NewSeriesOfGroup(g) ==
  /\ CanRun
  /\ Len(chart.series) < MaxSeries /\ NextRaw <= MaxRaw
  /\ Stable(chart)
  /\ g \in DOMAIN chart.groups
  /\ InsertInto(g, chart.groups[g].side)
  /\ Retires({})
  /\ UNCHANGED part

\* A chart without groups takes a series on a side, with its value axis.
NewSeriesOfSide(side) ==
  LET axes == WithValueAxis(side)
  IN  /\ CanRun
      /\ Len(chart.series) < MaxSeries /\ NextRaw <= MaxRaw
      /\ chart.groups = <<>>
      /\ side = "Secondary" => chart.type \in HasAxes
      /\ Accepts(axes)
      /\ chart' = [chart EXCEPT !.series = Append(@, [raw |-> NextRaw, side |-> side]),
                                !.axes = axes]
      /\ RetiresIf(FALSE, axes # chart.axes, {})
      /\ UNCHANGED part

DeleteSeries(s) ==
  LET raw == chart.series[s].raw
      g == CHOOSE h \in GroupsWith(chart, raw) : TRUE
      left == [chart EXCEPT !.groups[g].raws = @ \ {raw}, !.moved = TRUE]
      pruned == IF chart.groups = <<>> THEN chart ELSE Pruned(left, g)
  IN  /\ CanRun
      /\ s \in DOMAIN chart.series
      /\ chart.groups # <<>> => Stable(chart)
      /\ chart' = [pruned EXCEPT !.series = RemoveAt(@, s)]
      /\ RetiresIf(Len(pruned.groups) # Len(chart.groups), pruned.axes # chart.axes, {"Series"})
      /\ UNCHANGED part

\* Series.AxisGroup of a series whose group is bound to axes: it moves to the
\* first group of its family on that side, or to a new one after all others.
MoveSeries(s, side) ==
  LET raw == chart.series[s].raw
      g == CHOOSE h \in GroupsWith(chart, raw) : TRUE
      type == chart.groups[g].type
      there == {h \in DOMAIN chart.groups :
                  chart.groups[h].side = side /\ chart.groups[h].type = type}
      target == TargetAxes(chart, g, side)
      made == [type |-> type, side |-> side, ids |-> target.ids, raws |-> {}, loaded |-> 0]
      grown == IF there # {} THEN chart
               ELSE [chart EXCEPT !.groups = Append(@, made), !.axes = target.axes]
      to == IF there # {} THEN Min(there) ELSE Len(grown.groups)
      moved == [grown EXCEPT !.groups[g].raws = @ \ {raw},
                             !.groups[to].raws = @ \cup {raw},
                             !.moved = TRUE]
      pruned == Pruned(moved, g)
  IN  /\ CanRun
      /\ s \in DOMAIN chart.series
      /\ GroupsWith(chart, raw) # {}
      /\ chart.groups[Min(GroupsWith(chart, raw))].ids # <<>>
      /\ chart.series[s].side # side
      /\ Stable(chart)
      /\ there = {} => target.ids # <<>> /\ Len(chart.groups) < MaxGroups
      /\ chart' = [pruned EXCEPT !.series[s].side = side]
      /\ RetiresIf(Len(pruned.groups) # Len(grown.groups), pruned.axes # chart.axes, {})
      /\ UNCHANGED part

\* Series.AxisGroup of any other series: it is marked, and nothing moves.  The
\* value axis of the secondary side is shown even if the series was there.
MarkSeries(s, side) ==
  LET groups == GroupsWith(chart, chart.series[s].raw)
      axes == WithValueAxis(side)
  IN  /\ CanRun
      /\ s \in DOMAIN chart.series
      /\ groups # {} => chart.groups[Min(groups)].ids = <<>>
      /\ side = "Secondary" => chart.type \in HasAxes
      /\ Accepts(axes)
      /\ chart.series[s].side # side \/ axes # chart.axes
      /\ chart' = [chart EXCEPT !.series[s].side = side, !.axes = axes]
      /\ RetiresIf(FALSE, axes # chart.axes, {})
      /\ UNCHANGED part

\* ChartGroup.AxisGroup: the whole group goes to the other side.  The first
\* bound group leaves an empty one of its family in its place; any other takes
\* the place of an empty one it meets there.
MoveGroup(g, side) ==
  LET source == chart.groups[g]
      target == TargetAxes(chart, g, side)
      going == [chart EXCEPT !.axes = target.axes,
                  !.groups[g] = [@ EXCEPT !.side = side, !.ids = target.ids],
                  !.series = [s \in DOMAIN @ |-> IF @[s].raw \in source.raws
                                THEN [@[s] EXCEPT !.side = side] ELSE @[s]]]
      bound == {h \in DOMAIN chart.groups : chart.groups[h].ids # <<>>}
      held1 == side = "Secondary" /\ g = Min(bound)
      placed == [going EXCEPT !.groups =
                   InsertAt(@, g, [source EXCEPT !.loaded = 0, !.raws = {}])]
      empty == {h \in DOMAIN chart.groups \ {g} :
                  /\ going.groups[h].side = side
                  /\ going.groups[h].type = source.type
                  /\ going.groups[h].ids = target.ids
                  /\ going.groups[h].raws = {}}
      met == empty # {} /\ MayPrune(going, Min(empty))
      merged == IF met THEN [Pruned(going, Min(empty)) EXCEPT !.moved = TRUE] ELSE going
      left == [merged EXCEPT !.axes = PruneAxes(@, merged.groups, Range(source.ids))]
  IN  /\ CanRun
      /\ Stable(chart)
      /\ g \in DOMAIN chart.groups
      /\ source.ids # <<>>
      /\ source.side # side
      /\ target.ids # <<>>
      /\ held1 => Len(chart.groups) < MaxGroups
      /\ chart' = IF held1 THEN placed ELSE left
      /\ RetiresIf(held1 \/ met, chart'.axes # chart.axes, {})
      /\ UNCHANGED part

\* ChartGroup.AxisGroup of a chart none of whose groups came from the part: the
\* series of a side are marked, and the group at that place if there is one.
MarkGroup(g, side) ==
  LET from == GroupSides(chart)[g]
      axes == WithValueAxis(side)
      marked == [chart EXCEPT !.axes = axes,
                   !.series = [s \in DOMAIN @ |-> IF @[s].side = from
                                 THEN [@[s] EXCEPT !.side = side] ELSE @[s]]]
  IN  /\ CanRun
      /\ \A h \in DOMAIN chart.groups : chart.groups[h].loaded = 0
      /\ g \in DOMAIN GroupSides(chart)
      /\ Stable(chart) => chart.groups[g].ids = <<>> /\ chart.groups[g].type \in HasAxes
      /\ from # side
      /\ chart.type \in HasAxes
      /\ Accepts(axes)
      /\ chart' = IF g \in DOMAIN chart.groups
                    THEN [marked EXCEPT !.groups[g].side = side] ELSE marked
      /\ RetiresIf(FALSE, axes # chart.axes, {})
      /\ UNCHANGED part

\* SetSourceData and ChartWizard: new series on the primary side, numbered from
\* 0.  The groups are not told.
ReplaceSeries(n) ==
  /\ CanRun
  /\ chart' = [chart EXCEPT !.series =
                 [s \in 1 .. n |-> [raw |-> s - 1, side |-> "Primary"]]]
  /\ Retires({"Series"})
  /\ UNCHANGED part

Emptied == [chart EXCEPT !.series = <<>>,
                         !.groups = [g \in DOMAIN chart.groups |->
                                      [chart.groups[g] EXCEPT !.raws = {}]],
                         !.moved = chart.groups # <<>>]

\* ChartArea.Clear, ClearContents and their PlotArea counterparts.
ClearSeries ==
  /\ CanRun
  /\ chart' = Emptied
  /\ Retires({"Series"})
  /\ UNCHANGED part

\* Chart.Paste of cells: one series, in the first primary group if any.
PasteValues ==
  LET primary == {g \in DOMAIN chart.groups : chart.groups[g].side = "Primary"}
      new == [Emptied EXCEPT !.series = <<[raw |-> 0, side |-> "Primary"]>>]
  IN  /\ CanRun
      /\ chart' = IF primary = {} THEN new
                  ELSE [new EXCEPT !.groups[Min(primary)].raws = {0}]
      /\ Retires({"Series"})
      /\ UNCHANGED part

\* Chart.ChartType: the groups are forgotten, the axes come or go as the family
\* has any; handles to the groups stay.
SetChartType(type) ==
  LET axes == IF type \notin HasAxes THEN <<>>
              ELSE IF chart.axes = <<>> THEN DefaultAxes ELSE chart.axes
  IN  /\ CanRun
      /\ chart.type # type
      /\ chart' = [chart EXCEPT !.type = type, !.groups = <<>>, !.axes = axes, !.moved = FALSE]
      /\ RetiresIf(FALSE, axes # chart.axes, {})
      /\ UNCHANGED part

\* Chart.HasAxis.
SetHasAxis(kind, side, present) ==
  LET axes == WithPresence(chart.axes, kind, side, present)
  IN  /\ CanRun
      /\ present => chart.type \in HasAxes
      /\ axes # chart.axes
      /\ Len(axes) <= MaxAxes /\ Hidden(axes) <= MaxHidden
      /\ Accepts(axes)
      /\ chart' = [chart EXCEPT !.axes = axes]
      /\ Retires({"Axis"})
      /\ UNCHANGED part

\* Axis.Delete hides the axis: its element, its id and its crossing stay.
DeleteAxis(i) ==
  LET axes == [chart.axes EXCEPT ![i].deleted = TRUE]
  IN  /\ CanRun
      /\ i \in DOMAIN chart.axes
      /\ ~chart.axes[i].deleted
      /\ Hidden(axes) <= MaxHidden
      /\ Accepts(axes)
      /\ chart' = [chart EXCEPT !.axes = axes]
      /\ Retires({"Axis"})
      /\ UNCHANGED part

\* A slip: the groups keep the numbers they had in the part before.
NotRenumbered(c) == [c EXCEPT !.moved = FALSE]
Renumbered(c) ==
  [c EXCEPT !.moved = FALSE, !.groups = [g \in DOMAIN @ |-> [@[g] EXCEPT !.loaded = g]]]

\* A save numbers the groups anew, by the part it wrote.
SaveChart ==
  /\ CanRun
  /\ Encodable(chart)
  /\ part' = TypesOf(AsFile(chart))
  /\ chart' = Renumbered(chart)
  /\ Retires({})

\* The workbook is saved, closed and opened again.  (Bound: a chart that would
\* not come back as it was is not followed any further.)
Reopen ==
  /\ CanRun
  /\ Encodable(chart)
  /\ SidesAreTold(chart)
  /\ part' = TypesOf(AsFile(chart))
  /\ chart' = Read(AsFile(chart))
  /\ Retires({"Series", "Group", "Axis"})

Init ==
  \E file \in Files :
    /\ chart = Read(file)
    /\ part = TypesOf(file)
    /\ retired = {}
    /\ ops = 0

Next ==
  \/ NewSeries
  \/ \E g \in DOMAIN chart.groups : NewSeriesOfGroup(g)
  \/ \E side \in Sides : NewSeriesOfSide(side)
  \/ \E s \in DOMAIN chart.series : DeleteSeries(s)
  \/ \E s \in DOMAIN chart.series : \E side \in Sides : MoveSeries(s, side)
  \/ \E s \in DOMAIN chart.series : \E side \in Sides : MarkSeries(s, side)
  \/ \E g \in DOMAIN chart.groups : \E side \in Sides : MoveGroup(g, side)
  \/ \E g \in 1 .. 2 : \E side \in Sides : MarkGroup(g, side)
  \/ \E n \in 1 .. MaxSeries : ReplaceSeries(n)
  \/ ClearSeries
  \/ PasteValues
  \/ \E type \in NewTypes : SetChartType(type)
  \/ \E kind \in AxisKinds : \E side \in Sides :
       \E present \in BOOLEAN : SetHasAxis(kind, side, present)
  \/ \E i \in DOMAIN chart.axes : DeleteAxis(i)
  \/ SaveChart
  \/ Reopen

Spec == Init /\ [][Next]_vars

-----------------------------------------------------------------------------
(* Properties *)

\* The state has its type; a group that came from the part names a place in it.
TypeOK ==
  /\ chart \in [type : Types, series : Seq(SeriesRecord), groups : Seq(GroupRecord),
               axes : Seq(AxisRecord), moved : BOOLEAN]
  /\ part \in Seq(Types)
  /\ \A g \in DOMAIN chart.groups : chart.groups[g].loaded \in 0 .. Len(part)
  /\ retired \subseteq {"Series", "Group", "Axis"}

\* Whatever is moved, deleted, pruned, hidden and shown again: no two axes
\* share an id, the axes a group names are there, and so is the axis another
\* one crosses (prune_unreferenced_chart_axes,
\* ensure_loaded_chart_group_target_axes, reconcile_chart_axis_crossings).
AxesAreBound ==
  /\ Cardinality(IdsOf(chart.axes)) = Len(chart.axes)
  /\ \A g \in DOMAIN chart.groups : Range(chart.groups[g].ids) \subseteq IdsOf(chart.axes)
  /\ \A i \in DOMAIN chart.axes : chart.axes[i].cross \in IdsOf(chart.axes) \cup {0}

\* The file names no side, and the part is patched, not written: in a chart
\* the writer takes, and of which the reader can tell the sides, the groups come
\* back from a save with their places, families, axes, series and sides
\* (loaded_chart_group_sequence and the reader's rule).  The reader can tell
\* them (SidesAreTold) when four things hold: the first group with axes is a
\* primary one, groups of one side name the same axes, groups of different
\* sides do not, and no axis is without a group.  Nothing in the code sees to
\* these four; SidesSurviveSaves says the same of the sides without them.
SavesKeepTheGroups ==
  Encodable(chart) /\ SidesAreTold(chart) =>
    LET back == Read(AsFile(chart))
    IN  /\ Len(back.groups) = Len(chart.groups)
        /\ \A g \in DOMAIN chart.groups :
             back.groups[g] = [chart.groups[g] EXCEPT !.loaded = g]

\* PLAN.md:5878 says of a group with axes that is the first one and moves to the
\* secondary side that an empty primary one is left in its place, so that the
\* loader's "first-group primary invariant" is kept.  What that is for: whatever
\* chart the writer takes comes back with every group on its side.  A first
\* group that is pruned leaves no such group (ChartTopology_sides.cfg).
SidesSurviveSaves ==
  Encodable(chart) =>
    \A g \in DOMAIN chart.groups : Read(AsFile(chart)).groups[g].side = chart.groups[g].side

\* Every series stays in one group, of its side, through every operation but
\* the three that do not tell the groups: new source data, the side of a series
\* in a group without axes, and cells pasted into a chart without primary group.
PartitionIsKept ==
  [][ Stable(chart) /\ chart'.groups # <<>> =>
        \/ Stable(chart')
        \/ \E n \in 1 .. MaxSeries : ReplaceSeries(n)
        \/ \E s \in DOMAIN chart.series : \E side \in Sides : MarkSeries(s, side)
        \/ PasteValues /\ \A g \in DOMAIN chart.groups : chart.groups[g].side = "Secondary" ]_vars

\* A handle that an operation does not retire denotes the series, the axis or
\* (in a chart that keeps its partition) the group it denoted before: a handle
\* is a place, and what is deleted, pruned, merged and added moves the others.
HandlesDenote ==
  [][ /\ "Series" \notin retired' => \A s \in DOMAIN chart.series :
           s \in DOMAIN chart'.series /\ chart'.series[s].raw = chart.series[s].raw
      /\ "Axis" \notin retired' => \A i \in DOMAIN chart.axes :
           i \in DOMAIN chart'.axes /\ chart'.axes[i].id = chart.axes[i].id
      /\ "Group" \notin retired' /\ Stable(chart) /\ Stable(chart') =>
           \A g \in DOMAIN chart.groups :
             /\ g \in DOMAIN chart'.groups
             /\ chart'.groups[g].type = chart.groups[g].type
             /\ \/ chart'.groups[g].loaded = chart.groups[g].loaded
                \/ SaveChart ]_vars
=============================================================================
