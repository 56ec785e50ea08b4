------------------------ MODULE ChartTopologyProofs ------------------------
(* Proofs about ChartTopology.tla: whatever is moved, deleted, pruned,      *)
(* hidden, saved and read again, the axes that groups and axes refer to are *)
(* there, the groups keep their order in the part, every series stays in    *)
(* one group, and a handle denotes what it did.                             *)
(*                                                                         *)
(* First the axes, then groups with their series, then the part and what is *)
(* read from it, then the operations one by one.                            *)
EXTENDS ChartTopology, ListFacts

ChartRecord ==
  [type : Types, series : Seq(SeriesRecord), groups : Seq(GroupRecord),
   axes : Seq(AxisRecord), moved : BOOLEAN]

-----------------------------------------------------------------------------
(* Axes. A list is proper when its ids are distinct and what an axis        *)
(* crosses is there.                                                       *)
Distinct(axes) == \A i, j \in DOMAIN axes : axes[i].id = axes[j].id => i = j
Crossed(axes) == \A i \in DOMAIN axes : axes[i].cross \in IdsOf(axes) \cup {0}
Proper(axes) == axes \in Seq(AxisRecord) /\ Distinct(axes) /\ Crossed(axes)

(* Another list of the same axes, hidden and crossing as it may be.        *)
SameAxes(axes, other) ==
  /\ DOMAIN other = DOMAIN axes
  /\ \A i \in DOMAIN axes : /\ other[i].id = axes[i].id
                            /\ other[i].kind = axes[i].kind
                            /\ other[i].side = axes[i].side

LEMMA LeastPlace ==
  ASSUME NEW S, S \subseteq Nat, S # {}
  PROVE  Min(S) \in S /\ \A x \in S : Min(S) <= x
<1>1. \E x \in S : \A y \in S : x <= y
  BY Smallest
<1> QED BY <1>1 DEF Min

LEMMA GreatestPlace ==
  ASSUME NEW S, S \subseteq Nat, IsFiniteSet(S), S # {}
  PROVE  Max(S) \in S /\ \A x \in S : x <= Max(S)
<1>0. \A x \in S : x \in Nat
  OBVIOUS
<1>1. \E x \in S : \A y \in S : x >= y
  BY Largest
<1>2. Max(S) \in S /\ \A y \in S : Max(S) >= y
  BY <1>1 DEF Max
<1> QED BY <1>0, <1>2

LEMMA AxisFacts ==
  ASSUME NEW axes \in Seq(AxisRecord)
  PROVE  /\ Len(axes) \in Nat /\ DOMAIN axes = 1 .. Len(axes) /\ DOMAIN axes \subseteq Nat
         /\ \A i \in DOMAIN axes : /\ axes[i] \in AxisRecord
                                   /\ axes[i].id \in Nat /\ axes[i].cross \in Nat
                                   /\ axes[i].id \in IdsOf(axes)
                                   /\ axes[i].kind \in AxisKinds /\ axes[i].side \in Sides
         /\ IdsOf(axes) \subseteq Nat
<1>1. Len(axes) \in Nat /\ DOMAIN axes = 1 .. Len(axes)
  OBVIOUS
<1>2. \A i \in DOMAIN axes : axes[i] \in AxisRecord
  OBVIOUS
<1>3. \A i \in DOMAIN axes : axes[i].id \in Nat /\ axes[i].cross \in Nat
                             /\ axes[i].kind \in AxisKinds /\ axes[i].side \in Sides
  BY <1>2 DEF AxisRecord
<1> QED BY <1>1, <1>2, <1>3 DEF IdsOf

LEMMA SameIds ==
  ASSUME NEW axes, NEW other, SameAxes(axes, other)
  PROVE  /\ IdsOf(other) = IdsOf(axes)
         /\ Distinct(axes) => Distinct(other)
         /\ \A kind, side : AxesOf(other, kind, side) = AxesOf(axes, kind, side)
BY DEF SameAxes, IdsOf, Distinct, AxesOf

LEMMA FirstIdFacts ==
  ASSUME NEW axes \in Seq(AxisRecord), NEW places \in SUBSET DOMAIN axes, places # {}
  PROVE  FirstId(axes, places) \in IdsOf(axes)
<1>1. DOMAIN axes \subseteq Nat
  BY AxisFacts
<1>2. Min(places) \in places
  BY <1>1, LeastPlace
<1> QED BY <1>2 DEF FirstId, IdsOf

LEMMA CrossTargetFacts ==
  ASSUME NEW axes \in Seq(AxisRecord), NEW a
  PROVE  CrossTarget(axes, a) \in IdsOf(axes) \cup {0}
<1> DEFINE other == IF a.kind = "Value" THEN "Category" ELSE "Value"
           own == AxesOf(axes, other, a.side)
           primary == AxesOf(axes, other, "Primary")
           secondary == AxesOf(axes, other, "Secondary")
<1>1. own \subseteq DOMAIN axes /\ primary \subseteq DOMAIN axes /\ secondary \subseteq DOMAIN axes
  BY DEF AxesOf
<1>2. CrossTarget(axes, a) =
        IF a.cross \in IdsOf(axes) THEN a.cross
        ELSE IF own # {} THEN FirstId(axes, own)
        ELSE IF primary # {} THEN FirstId(axes, primary)
        ELSE IF other = "Value" /\ secondary # {} THEN FirstId(axes, secondary)
        ELSE 0
  BY DEF CrossTarget
<1> HIDE DEF own, primary, secondary, other
<1>3. /\ own # {} => FirstId(axes, own) \in IdsOf(axes)
      /\ primary # {} => FirstId(axes, primary) \in IdsOf(axes)
      /\ secondary # {} => FirstId(axes, secondary) \in IdsOf(axes)
  BY <1>1, FirstIdFacts
<1> QED BY <1>2, <1>3

LEMMA ReconcileFacts ==
  ASSUME NEW axes \in Seq(AxisRecord), Distinct(axes)
  PROVE  Proper(Reconcile(axes)) /\ SameAxes(axes, Reconcile(axes))
<1> DEFINE other == Reconcile(axes)
<1>1. \A i \in DOMAIN axes : axes[i] \in AxisRecord /\ CrossTarget(axes, axes[i]) \in Nat
                             /\ CrossTarget(axes, axes[i]) \in IdsOf(axes) \cup {0}
  BY AxisFacts, CrossTargetFacts
<1>2. DOMAIN other = DOMAIN axes /\ \A i \in DOMAIN axes :
        /\ other[i] \in AxisRecord
        /\ other[i].id = axes[i].id /\ other[i].kind = axes[i].kind /\ other[i].side = axes[i].side
        /\ other[i].cross = CrossTarget(axes, axes[i])
  BY <1>1 DEF Reconcile, AxisRecord
<1>3. Len(axes) \in Nat /\ DOMAIN axes = 1 .. Len(axes)
  BY AxisFacts
<1>4. other = [i \in 1 .. Len(axes) |-> other[i]]
  BY <1>3 DEF Reconcile
<1> HIDE DEF other
<1>5. other \in Seq(AxisRecord)
  BY <1>2, <1>3, <1>4
<1>6. SameAxes(axes, other)
  BY <1>2 DEF SameAxes
<1>7. Distinct(other) /\ IdsOf(other) = IdsOf(axes)
  BY <1>6, SameIds
<1>8. Crossed(other)
  BY <1>1, <1>2, <1>7 DEF Crossed
<1> QED BY <1>5, <1>6, <1>7, <1>8 DEF Proper, other

(* Among one number more than there are axes, one is free.                 *)
LEMMA NextAxisIdFacts ==
  ASSUME NEW axes \in Seq(AxisRecord), NEW preferred \in Nat
  PROVE  NextAxisId(axes, preferred) \in Nat /\ NextAxisId(axes, preferred) \notin IdsOf(axes)
<1> DEFINE n == Len(axes)
           f == [k \in 0 .. n |-> preferred + 10 * k]
           T == {preferred + 10 * k : k \in 0 .. n}
           ids == [i \in 1 .. n |-> axes[i].id]
<1>0. n \in Nat /\ DOMAIN axes = 1 .. n
  BY AxisFacts
<1>1. IsFiniteSet(IdsOf(axes)) /\ Cardinality(IdsOf(axes)) <= n /\ Cardinality(IdsOf(axes)) \in Nat
  <2>1. IdsOf(axes) = {ids[i] : i \in 1 .. n}
    BY <1>0 DEF IdsOf
  <2>2. DOMAIN ids = 1 .. n /\ ids = [i \in 1 .. n |-> ids[i]]
    OBVIOUS
  <2> HIDE DEF n, ids
  <2> QED BY <1>0, <2>1, <2>2, ImageFacts
<1>2. IsFiniteSet(0 .. n) /\ Cardinality(0 .. n) = n + 1
  <2>1. IsFiniteSet(0 .. n) /\ Cardinality(0 .. n) = IF 0 > n THEN 0 ELSE n - 0 + 1
    BY <1>0, FS_Interval
  <2> QED BY <1>0, <2>1
<1>3. f \in Injection(0 .. n, T)
  <2>1. f \in [0 .. n -> T]
    OBVIOUS
  <2>2. \A a, b \in 0 .. n : f[a] = f[b] => a = b
    BY <1>0
  <2> HIDE DEF f, T
  <2> QED BY <2>1, <2>2 DEF Injection, IsInjective
<1>4. T \ IdsOf(axes) # {}
  <2> SUFFICES ASSUME T \subseteq IdsOf(axes) PROVE FALSE
    OBVIOUS
  <2> HIDE DEF T, f, n
  <2>1. IsFiniteSet(T) /\ Cardinality(T) <= Cardinality(IdsOf(axes)) /\ Cardinality(T) \in Nat
    BY <1>1, FS_Subset, FS_CardinalityType
  <2>2. Cardinality(0 .. n) <= Cardinality(T)
    BY <1>3, <2>1, FS_Injection
  <2> QED BY <1>0, <1>1, <1>2, <2>1, <2>2
<1>5. T \subseteq Nat
  BY <1>0
<1>6. NextAxisId(axes, preferred) = Min(T \ IdsOf(axes))
  BY DEF NextAxisId
<1> HIDE DEF T
<1>7. Min(T \ IdsOf(axes)) \in T \ IdsOf(axes)
  BY <1>4, <1>5, LeastPlace
<1> QED BY <1>5, <1>6, <1>7

(* An axis more, with an id of its own.                                    *)
LEMMA OneMoreAxis ==
  ASSUME NEW axes \in Seq(AxisRecord), Distinct(axes),
         NEW a \in AxisRecord, a.id \notin IdsOf(axes)
  PROVE  /\ Append(axes, a) \in Seq(AxisRecord) /\ Distinct(Append(axes, a))
         /\ IdsOf(Append(axes, a)) = IdsOf(axes) \cup {a.id}
         /\ Crossed(axes) /\ a.cross \in IdsOf(axes) \cup {a.id, 0} => Proper(Append(axes, a))
         /\ Len(axes) + 1 \in DOMAIN Append(axes, a) /\ Append(axes, a)[Len(axes) + 1] = a
<1> DEFINE more == Append(axes, a)
<1>1. Len(axes) \in Nat /\ DOMAIN axes = 1 .. Len(axes)
  BY AxisFacts
<1>2. /\ more \in Seq(AxisRecord) /\ DOMAIN more = 1 .. Len(axes) + 1
      /\ \A i \in DOMAIN axes : more[i] = axes[i]
      /\ more[Len(axes) + 1] = a
  BY <1>1
<1> HIDE DEF more
<1>3. DOMAIN more = DOMAIN axes \cup {Len(axes) + 1}
  BY <1>1, <1>2
<1>4. Distinct(more)
  <2> SUFFICES ASSUME NEW i \in DOMAIN more, NEW j \in DOMAIN more, more[i].id = more[j].id
               PROVE  i = j
    BY DEF Distinct
  <2>1. \A k \in DOMAIN axes : more[k].id \in IdsOf(axes)
    BY <1>2 DEF IdsOf
  <2>2. CASE i \in DOMAIN axes /\ j \in DOMAIN axes
    BY <1>2, <2>2 DEF Distinct
  <2>3. CASE ~(i \in DOMAIN axes /\ j \in DOMAIN axes)
    BY <1>2, <1>3, <2>1, <2>3
  <2> QED BY <2>2, <2>3
<1>5. IdsOf(more) = IdsOf(axes) \cup {a.id}
  <2>1. \A k \in DOMAIN axes : more[k].id = axes[k].id
    BY <1>2
  <2>2. ASSUME NEW x \in IdsOf(more) PROVE x \in IdsOf(axes) \cup {a.id}
    <3>1. PICK i \in DOMAIN more : x = more[i].id
      BY DEF IdsOf
    <3> QED BY <1>2, <1>3, <2>1, <3>1 DEF IdsOf
  <2>3. ASSUME NEW x \in IdsOf(axes) PROVE x \in IdsOf(more)
    <3>1. PICK i \in DOMAIN axes : x = axes[i].id
      BY DEF IdsOf
    <3> QED BY <1>3, <2>1, <3>1 DEF IdsOf
  <2>4. a.id \in IdsOf(more)
    BY <1>2, <1>3 DEF IdsOf
  <2> QED BY <2>2, <2>3, <2>4
<1>6. Crossed(axes) /\ a.cross \in IdsOf(axes) \cup {a.id, 0} => Crossed(more)
  <2> SUFFICES ASSUME Crossed(axes), a.cross \in IdsOf(axes) \cup {a.id, 0}, NEW i \in DOMAIN more
               PROVE  more[i].cross \in IdsOf(more) \cup {0}
    BY DEF Crossed
  <2>1. CASE i \in DOMAIN axes
    BY <1>2, <1>5, <2>1 DEF Crossed
  <2>2. CASE i = Len(axes) + 1
    BY <1>2, <1>5, <2>2
  <2> QED BY <1>3, <2>1, <2>2
<1> QED BY <1>2, <1>3, <1>4, <1>5, <1>6 DEF Proper, more

LEMMA NewAxisFacts ==
  ASSUME NEW id \in Nat, NEW kind \in AxisKinds, NEW side \in Sides
  PROVE  /\ NewAxis(id, kind, side) \in AxisRecord
         /\ NewAxis(id, kind, side).id = id /\ NewAxis(id, kind, side).cross = 0
         /\ NewAxis(id, kind, side).kind = kind /\ NewAxis(id, kind, side).side = side
BY DEF NewAxis, AxisRecord

(* An axis that is hidden or shown.                                        *)
LEMMA HiddenFacts ==
  ASSUME NEW axes, Proper(axes), NEW other,
         DOMAIN other = DOMAIN axes, other = [i \in DOMAIN axes |-> other[i]],
         \A i \in DOMAIN axes : \/ other[i] = axes[i]
                                \/ \E b \in BOOLEAN : other[i] = [axes[i] EXCEPT !.deleted = b]
  PROVE  Proper(other) /\ SameAxes(axes, other)
<1>0. axes \in Seq(AxisRecord) /\ Distinct(axes) /\ Crossed(axes)
  BY DEF Proper
<1>1. Len(axes) \in Nat /\ DOMAIN axes = 1 .. Len(axes) /\ \A i \in DOMAIN axes : axes[i] \in AxisRecord
  BY <1>0, AxisFacts
<1>2. \A i \in DOMAIN axes : /\ other[i] \in AxisRecord /\ other[i].id = axes[i].id
                             /\ other[i].kind = axes[i].kind /\ other[i].side = axes[i].side
                             /\ other[i].cross = axes[i].cross
  BY <1>1 DEF AxisRecord
<1>3. other \in Seq(AxisRecord)
  BY <1>1, <1>2
<1>4. SameAxes(axes, other)
  BY <1>2 DEF SameAxes
<1>5. Distinct(other) /\ IdsOf(other) = IdsOf(axes)
  BY <1>0, <1>4, SameIds
<1>6. Crossed(other)
  BY <1>0, <1>2, <1>5 DEF Crossed
<1> QED BY <1>3, <1>4, <1>5, <1>6 DEF Proper

LEMMA EnsureAxisFacts ==
  ASSUME NEW axes, Proper(axes), NEW kind \in AxisKinds, NEW side \in Sides, NEW preferred \in Nat,
         NEW more, more = EnsureAxis(axes, kind, side, preferred)
  PROVE  Proper(more) /\ IdsOf(axes) \subseteq IdsOf(more) /\ AxesOf(more, kind, side) # {}
<1> DEFINE there == AxesOf(axes, kind, side)
           id == NextAxisId(axes, preferred)
           a == NewAxis(id, kind, side)
<1>0. axes \in Seq(AxisRecord) /\ Distinct(axes) /\ Crossed(axes)
  BY DEF Proper
<1>1. CASE there = {}
  <2>1. more = Append(axes, a)
    BY <1>1 DEF EnsureAxis
  <2>2. id \in Nat /\ id \notin IdsOf(axes)
    BY <1>0, NextAxisIdFacts
  <2> HIDE DEF id
  <2>3. /\ a \in AxisRecord /\ a.id = id /\ a.cross = 0 /\ a.kind = kind /\ a.side = side
    BY <2>2, NewAxisFacts
  <2> HIDE DEF a
  <2>4. /\ IdsOf(Append(axes, a)) = IdsOf(axes) \cup {a.id}
        /\ Proper(Append(axes, a))
        /\ Len(axes) + 1 \in DOMAIN Append(axes, a) /\ Append(axes, a)[Len(axes) + 1] = a
    BY <1>0, <2>2, <2>3, OneMoreAxis
  <2>5. Len(axes) + 1 \in AxesOf(more, kind, side)
    BY <2>1, <2>3, <2>4 DEF AxesOf
  <2> QED BY <2>1, <2>4, <2>5
<1>2. CASE there # {}
  <2>1. more = [axes EXCEPT ![Min(there)].deleted = FALSE]
    BY <1>2 DEF EnsureAxis
  <2>2. /\ DOMAIN more = DOMAIN axes /\ more = [i \in DOMAIN axes |-> more[i]]
        /\ \A i \in DOMAIN axes : \/ more[i] = axes[i]
                                  \/ \E b \in BOOLEAN : more[i] = [axes[i] EXCEPT !.deleted = b]
    BY <1>0, <2>1
  <2>3. Proper(more) /\ SameAxes(axes, more)
    BY <2>2, HiddenFacts
  <2>4. IdsOf(more) = IdsOf(axes) /\ AxesOf(more, kind, side) = there
    BY <2>3, SameIds
  <2> QED BY <1>2, <2>3, <2>4
<1> QED BY <1>1, <1>2

(* Some of the axes, in their order.                                       *)
LEMMA SomeAxes ==
  ASSUME NEW axes, Proper(axes), NEW I \in SUBSET DOMAIN axes
  PROVE  /\ Picked(axes, I) \in Seq(AxisRecord) /\ Distinct(Picked(axes, I))
         /\ \A i \in I : axes[i].id \in IdsOf(Picked(axes, I))
<1> DEFINE kept == Picked(axes, I)
<1>0. axes \in Seq(AxisRecord) /\ Distinct(axes)
  BY DEF Proper
<1>1. /\ Cardinality(I) \in Nat /\ kept \in Seq(AxisRecord) /\ Len(kept) = Cardinality(I)
      /\ \A k \in 1 .. Cardinality(I) : Nth(I, k) \in I /\ kept[k] = axes[Nth(I, k)]
      /\ \A i \in I : Rank(I, i) \in 1 .. Cardinality(I) /\ kept[Rank(I, i)] = axes[i]
      /\ \A j, k \in 1 .. Cardinality(I) : Nth(I, j) = Nth(I, k) => j = k
  BY <1>0, PickedFacts
<1> HIDE DEF kept
<1>2. DOMAIN kept = 1 .. Cardinality(I)
  BY <1>1
<1>3. Distinct(kept)
  BY SMTT(30), <1>0, <1>1, <1>2 DEF Distinct
<1>4. \A i \in I : axes[i].id \in IdsOf(kept)
  BY <1>1, <1>2 DEF IdsOf
<1> QED BY <1>1, <1>3, <1>4 DEF kept

(* What some group names stays; so do axes that were not asked to go.      *)
LEMMA PruneAxesFacts ==
  ASSUME NEW axes, Proper(axes), NEW groups, NEW candidates
  PROVE  /\ Proper(PruneAxes(axes, groups, candidates))
         /\ \A g \in DOMAIN groups : Range(groups[g].ids) \subseteq IdsOf(axes) =>
              Range(groups[g].ids) \subseteq IdsOf(PruneAxes(axes, groups, candidates))
<1> DEFINE bound == UNION {Range(groups[g].ids) : g \in DOMAIN groups}
           I == {i \in DOMAIN axes : axes[i].id \notin candidates \/ axes[i].id \in bound}
           kept == Picked(axes, I)
           after == PruneAxes(axes, groups, candidates)
<1>1. after = IF kept = axes THEN axes ELSE Reconcile(kept)
  BY DEF PruneAxes
<1>2. \A g \in DOMAIN groups : Range(groups[g].ids) \subseteq bound
  OBVIOUS
<1>3. I \in SUBSET DOMAIN axes
  OBVIOUS
<1>4. \A i \in DOMAIN axes : axes[i].id \in bound => i \in I
  OBVIOUS
<1> HIDE DEF bound, I
<1>5. /\ kept \in Seq(AxisRecord) /\ Distinct(kept)
      /\ \A i \in I : axes[i].id \in IdsOf(kept)
  BY <1>3, SomeAxes
<1> HIDE DEF kept
<1>6. \A id \in IdsOf(axes) : id \in bound => id \in IdsOf(kept)
  BY <1>4, <1>5 DEF IdsOf
<1>7. Proper(Reconcile(kept)) /\ IdsOf(Reconcile(kept)) = IdsOf(kept)
  BY <1>5, ReconcileFacts, SameIds
<1> HIDE DEF after
<1>8. Proper(after) /\ IdsOf(kept) \subseteq IdsOf(after)
  BY <1>1, <1>7
<1>9. \A g \in DOMAIN groups :
        Range(groups[g].ids) \subseteq IdsOf(axes) => Range(groups[g].ids) \subseteq IdsOf(after)
  BY <1>2, <1>6, <1>8
<1> QED BY <1>8, <1>9 DEF after

LEMMA PresenceFacts ==
  ASSUME NEW axes, Proper(axes), NEW kind \in AxisKinds, NEW side \in Sides, NEW present \in BOOLEAN,
         NEW after, after = WithPresence(axes, kind, side, present)
  PROVE  Proper(after) /\ IdsOf(axes) \subseteq IdsOf(after)
<1> DEFINE Of(a) == a.kind = kind /\ a.side = side
           shown == \E i \in DOMAIN axes : Of(axes[i]) /\ ~axes[i].deleted
           some == \E i \in DOMAIN axes : Of(axes[i])
           more == EnsureAxis(axes, kind, side, Preferred(kind, side))
           other == [i \in DOMAIN axes |->
                      IF Of(axes[i]) THEN [axes[i] EXCEPT !.deleted = ~present] ELSE axes[i]]
<1>1. after = IF present /\ ~some THEN Reconcile(more)
              ELSE IF present /\ shown THEN axes ELSE other
  BY DEF WithPresence
<1>2. Preferred(kind, side) \in Nat
  BY DEF Preferred
<1>3. Proper(more) /\ IdsOf(axes) \subseteq IdsOf(more)
  BY <1>2, EnsureAxisFacts
<1>4. Proper(Reconcile(more)) /\ IdsOf(Reconcile(more)) = IdsOf(more)
  BY <1>3, ReconcileFacts, SameIds DEF Proper
<1>5. /\ DOMAIN other = DOMAIN axes /\ other = [i \in DOMAIN axes |-> other[i]]
      /\ \A i \in DOMAIN axes : \/ other[i] = axes[i]
                                \/ \E b \in BOOLEAN : other[i] = [axes[i] EXCEPT !.deleted = b]
  OBVIOUS
<1> HIDE DEF other, more
<1>6. Proper(other) /\ SameAxes(axes, other)
  BY <1>5, HiddenFacts
<1>7. IdsOf(other) = IdsOf(axes)
  BY <1>6, SameIds
<1> HIDE DEF some, shown
<1> QED BY <1>1, <1>3, <1>4, <1>6, <1>7

LEMMA DefaultAxesFacts == Proper(DefaultAxes)
<1> DEFINE a == NewAxis(10, "Category", "Primary")
           b == NewAxis(20, "Value", "Primary")
<1>1. a \in AxisRecord /\ b \in AxisRecord /\ a.id = 10 /\ b.id = 20
  BY NewAxisFacts DEF AxisKinds, Sides
<1> HIDE DEF a, b
<1>2. <<a, b>> \in Seq(AxisRecord) /\ Distinct(<<a, b>>)
  BY <1>1 DEF Distinct
<1>3. Proper(Reconcile(<<a, b>>))
  BY <1>2, ReconcileFacts
<1> QED BY <1>3 DEF DefaultAxes, a, b

-----------------------------------------------------------------------------
(* The groups and the axes of a chart, whatever its series: groups name     *)
(* axes that are there, those of the part (it has last of them) are in its  *)
(* order, and a group without axes is a primary one of the part.            *)
BoundTo(groups, axes) ==
  \A g \in DOMAIN groups : Range(groups[g].ids) \subseteq IdsOf(axes)
LoadedInOrder(groups) ==
  \A g, h \in DOMAIN groups :
    g < h /\ groups[g].loaded # 0 /\ groups[h].loaded # 0 => groups[g].loaded < groups[h].loaded
UnboundFromPart(groups) ==
  \A g \in DOMAIN groups :
    groups[g].ids = <<>> => groups[g].loaded # 0 /\ groups[g].side = "Primary"
FromPart(groups, last) == \A g \in DOMAIN groups : groups[g].loaded <= last
GoodGroups(groups, last) ==
  /\ groups \in Seq(GroupRecord)
  /\ LoadedInOrder(groups) /\ UnboundFromPart(groups) /\ FromPart(groups, last)
Good(c, last) ==
  c \in ChartRecord /\ Proper(c.axes) /\ GoodGroups(c.groups, last) /\ BoundTo(c.groups, c.axes)

LEMMA GoodFacts ==
  ASSUME NEW c, NEW last, Good(c, last)
  PROVE  /\ c.type \in Types /\ c.moved \in BOOLEAN
         /\ c.series \in Seq(SeriesRecord) /\ Len(c.series) \in Nat
         /\ DOMAIN c.series = 1 .. Len(c.series)
         /\ \A s \in DOMAIN c.series : /\ c.series[s] \in SeriesRecord
                                       /\ c.series[s].raw \in Nat /\ c.series[s].side \in Sides
         /\ c.axes \in Seq(AxisRecord) /\ Proper(c.axes)
         /\ c.groups \in Seq(GroupRecord) /\ Len(c.groups) \in Nat
         /\ DOMAIN c.groups = 1 .. Len(c.groups)
         /\ \A g \in DOMAIN c.groups :
              /\ c.groups[g] \in GroupRecord
              /\ c.groups[g].type \in Types /\ c.groups[g].side \in Sides
              /\ c.groups[g].ids \in Seq(Nat) /\ c.groups[g].raws \in SUBSET Nat
              /\ c.groups[g].loaded \in Nat
              /\ Range(c.groups[g].ids) \subseteq IdsOf(c.axes)
<1>1. /\ c.type \in Types /\ c.moved \in BOOLEAN
      /\ c.series \in Seq(SeriesRecord) /\ c.groups \in Seq(GroupRecord)
      /\ c.axes \in Seq(AxisRecord) /\ Proper(c.axes)
  BY DEF Good, ChartRecord, Proper
<1>2. /\ Len(c.series) \in Nat /\ DOMAIN c.series = 1 .. Len(c.series)
      /\ \A s \in DOMAIN c.series : c.series[s] \in SeriesRecord
      /\ Len(c.groups) \in Nat /\ DOMAIN c.groups = 1 .. Len(c.groups)
      /\ \A g \in DOMAIN c.groups : c.groups[g] \in GroupRecord
  BY <1>1
<1>3. \A s \in DOMAIN c.series : c.series[s].raw \in Nat /\ c.series[s].side \in Sides
  BY <1>2 DEF SeriesRecord
<1>4. \A g \in DOMAIN c.groups :
        /\ c.groups[g].type \in Types /\ c.groups[g].side \in Sides
        /\ c.groups[g].ids \in Seq(Nat) /\ c.groups[g].raws \in SUBSET Nat
        /\ c.groups[g].loaded \in Nat
  BY <1>2 DEF GroupRecord
<1>5. \A g \in DOMAIN c.groups : Range(c.groups[g].ids) \subseteq IdsOf(c.axes)
  BY DEF Good, BoundTo
<1> QED BY <1>1, <1>2, <1>3, <1>4, <1>5

(* A binding that can be made: its axes are there, and all that were.       *)
IsTarget(target, axes) ==
  /\ Proper(target.axes) /\ IdsOf(axes) \subseteq IdsOf(target.axes)
  /\ target.ids \in Seq(Nat) /\ Range(target.ids) \subseteq IdsOf(target.axes)

LEMMA NoTargetFacts ==
  ASSUME NEW c, NEW last, Good(c, last)
  PROVE  IsTarget(NoTarget(c), c.axes)
<1>1. Proper(c.axes)
  BY DEF Good
<1>2. Range(<<>>) = {}
  BY DEF Range
<1> QED BY <1>1, <1>2 DEF NoTarget, IsTarget

LEMMA PairRange ==
  ASSUME NEW a, NEW b
  PROVE  Range(<<a, b>>) = {a, b}
<1>1. DOMAIN <<a, b>> = {1, 2}
  OBVIOUS
<1> QED BY <1>1 DEF Range

LEMMA TargetPairFacts ==
  ASSUME NEW c, NEW last, Good(c, last), NEW side \in Sides
  PROVE  IsTarget(TargetPair(c, side), c.axes)
<1> DEFINE axes == c.axes
           values == AxesOf(axes, "Value", side)
           pairs == {h \in DOMAIN c.groups :
                      /\ c.groups[h].side = side
                      /\ Len(c.groups[h].ids) = 2
                      /\ Range(c.groups[h].ids) \subseteq {axes[i].id : i \in values}}
           p1 == IF side = "Primary" THEN 10 ELSE 40
           p2 == IF side = "Primary" THEN 20 ELSE 50
           id1 == NextAxisId(axes, p1)
           one == Append(axes, NewAxis(id1, "Value", side))
           id2 == NextAxisId(one, p2)
           a1 == [NewAxis(id1, "Value", side) EXCEPT !.cross = id2]
           a2 == [NewAxis(id2, "Value", side) EXCEPT !.cross = id1]
           two == <<a1, a2>>
           target == TargetPair(c, side)
<1>0. /\ Proper(axes) /\ axes \in Seq(AxisRecord) /\ Distinct(axes)
      /\ Len(axes) \in Nat /\ DOMAIN axes = 1 .. Len(axes) /\ IdsOf(axes) \subseteq Nat
      /\ DOMAIN c.groups \subseteq Nat
  <2>1. Proper(axes) /\ DOMAIN c.groups \subseteq Nat
    BY GoodFacts
  <2>2. axes \in Seq(AxisRecord) /\ Distinct(axes)
    BY <2>1 DEF Proper
  <2> HIDE DEF axes
  <2> QED BY <2>1, <2>2, AxisFacts
<1>1. target = IF pairs # {} THEN [ids |-> c.groups[Min(pairs)].ids, axes |-> axes]
               ELSE IF values = {} THEN [ids |-> <<id1, id2>>, axes |-> Reconcile(axes \o two)]
               ELSE IF Cardinality(values) = 2
                 THEN [ids |-> <<axes[Min(values)].id, axes[Max(values)].id>>, axes |-> axes]
               ELSE NoTarget(c)
  BY DEF TargetPair
<1>2. CASE pairs # {}
  <2>1. pairs \subseteq DOMAIN c.groups
    OBVIOUS
  <2>2. target = [ids |-> c.groups[Min(pairs)].ids, axes |-> axes]
    BY <1>1, <1>2
  <2> HIDE DEF pairs
  <2>3. Min(pairs) \in DOMAIN c.groups
    BY <1>0, <1>2, <2>1, LeastPlace
  <2>4. c.groups[Min(pairs)].ids \in Seq(Nat) /\ Range(c.groups[Min(pairs)].ids) \subseteq IdsOf(axes)
    BY <2>3, GoodFacts
  <2> HIDE DEF axes, target
  <2> QED BY <1>0, <2>2, <2>4 DEF IsTarget, target, axes
<1>3. CASE pairs = {} /\ values = {}
  <2>1. target = [ids |-> <<id1, id2>>, axes |-> Reconcile(axes \o two)]
    BY <1>1, <1>3
  <2>2. p1 \in Nat /\ p2 \in Nat
    OBVIOUS
  <2> HIDE DEF axes, p1, p2
  <2>3. id1 \in Nat /\ id1 \notin IdsOf(axes)
    BY <1>0, <2>2, NextAxisIdFacts
  <2> HIDE DEF id1
  <2>4. NewAxis(id1, "Value", side) \in AxisRecord /\ NewAxis(id1, "Value", side).id = id1
    BY <2>3, NewAxisFacts DEF AxisKinds
  <2>5. /\ one \in Seq(AxisRecord) /\ Distinct(one) /\ IdsOf(one) = IdsOf(axes) \cup {id1}
    BY <1>0, <2>3, <2>4, OneMoreAxis
  <2> HIDE DEF one
  <2>6. id2 \in Nat /\ id2 \notin IdsOf(axes) /\ id2 # id1
    BY <2>2, <2>5, NextAxisIdFacts
  <2> HIDE DEF id2
  <2>7. NewAxis(id2, "Value", side) \in AxisRecord /\ NewAxis(id2, "Value", side).id = id2
    BY <2>6, NewAxisFacts DEF AxisKinds
  <2>8. a1 \in AxisRecord /\ a1.id = id1 /\ a2 \in AxisRecord /\ a2.id = id2
    BY <2>3, <2>4, <2>6, <2>7 DEF AxisRecord
  <2> HIDE DEF a1, a2
  <2>9. /\ Append(axes, a1) \in Seq(AxisRecord) /\ Distinct(Append(axes, a1))
        /\ IdsOf(Append(axes, a1)) = IdsOf(axes) \cup {id1}
    BY <1>0, <2>3, <2>8, OneMoreAxis
  <2> DEFINE first == Append(axes, a1)
  <2>10. axes \o two = Append(first, a2)
    BY <1>0, <2>8
  <2> HIDE DEF first, two
  <2>11. /\ axes \o two \in Seq(AxisRecord) /\ Distinct(axes \o two)
         /\ IdsOf(axes \o two) = IdsOf(axes) \cup {id1} \cup {id2}
    <3>1. first \in Seq(AxisRecord) /\ Distinct(first) /\ a2.id \notin IdsOf(first)
      BY <2>6, <2>8, <2>9 DEF first
    <3>2. /\ Append(first, a2) \in Seq(AxisRecord) /\ Distinct(Append(first, a2))
          /\ IdsOf(Append(first, a2)) = IdsOf(first) \cup {a2.id}
      BY <2>8, <3>1, OneMoreAxis
    <3> QED BY <2>8, <2>9, <2>10, <3>2 DEF first
  <2>12. Proper(Reconcile(axes \o two)) /\ IdsOf(Reconcile(axes \o two)) = IdsOf(axes \o two)
    BY <2>11, ReconcileFacts, SameIds
  <2>13. <<id1, id2>> \in Seq(Nat) /\ Range(<<id1, id2>>) \subseteq IdsOf(Reconcile(axes \o two))
    BY <2>3, <2>6, <2>11, <2>12, PairRange
  <2> HIDE DEF target
  <2> QED BY <2>1, <2>11, <2>12, <2>13 DEF IsTarget, target, axes
<1>4. CASE pairs = {} /\ values # {} /\ Cardinality(values) = 2
  <2>1. target = [ids |-> <<axes[Min(values)].id, axes[Max(values)].id>>, axes |-> axes]
    BY <1>1, <1>4
  <2>2. values \subseteq DOMAIN axes
    BY DEF AxesOf
  <2>3. IsFiniteSet(values)
    <3>1. IsFiniteSet(1 .. Len(axes))
      BY <1>0, FS_Interval
    <3> HIDE DEF values, axes
    <3> QED BY <1>0, <2>2, <3>1, FS_Subset
  <2> HIDE DEF values, axes
  <2>4. Min(values) \in DOMAIN axes /\ Max(values) \in DOMAIN axes
    BY <1>0, <1>4, <2>2, <2>3, LeastPlace, GreatestPlace
  <2>5. axes[Min(values)].id \in IdsOf(axes) /\ axes[Max(values)].id \in IdsOf(axes)
    BY <2>4 DEF IdsOf
  <2> HIDE DEF target
  <2> DEFINE x == axes[Min(values)].id
             y == axes[Max(values)].id
  <2>6. x \in IdsOf(axes) /\ y \in IdsOf(axes) /\ target = [ids |-> <<x, y>>, axes |-> axes]
    BY <2>1, <2>5
  <2> HIDE DEF x, y
  <2>7. <<x, y>> \in Seq(Nat) /\ Range(<<x, y>>) \subseteq IdsOf(axes)
    BY <1>0, <2>6, PairRange
  <2> QED BY <1>0, <2>6, <2>7 DEF IsTarget, target, axes
<1>5. CASE pairs = {} /\ values # {} /\ Cardinality(values) # 2
  <2>1. target = NoTarget(c)
    BY <1>1, <1>5
  <2> QED BY <2>1, NoTargetFacts
<1> HIDE DEF pairs, values
<1> QED BY <1>2, <1>3, <1>4, <1>5

LEMMA BoundFacts ==
  ASSUME NEW axes \in Seq(AxisRecord), NEW ids \in Seq(Nat), Range(ids) \subseteq IdsOf(axes)
  PROVE  /\ DOMAIN Bound(axes, ids) = DOMAIN ids /\ Len(ids) \in Nat /\ DOMAIN ids = 1 .. Len(ids)
         /\ \A i \in DOMAIN ids : Bound(axes, ids)[i].id \in IdsOf(axes)
         /\ Len(Bound(axes, ids)) = Len(ids)
<1>1. Len(ids) \in Nat /\ DOMAIN ids = 1 .. Len(ids)
  OBVIOUS
<1>2. DOMAIN Bound(axes, ids) = DOMAIN ids
      /\ \A i \in DOMAIN ids : Bound(axes, ids)[i] = WithId(axes, ids[i])
  BY DEF Bound
<1>3. ASSUME NEW id \in IdsOf(axes) PROVE WithId(axes, id).id \in IdsOf(axes)
  <2>1. \E j \in DOMAIN axes : axes[j].id = id
    BY DEF IdsOf
  <2>2. PICK j \in DOMAIN axes : WithId(axes, id) = axes[j]
    BY <2>1 DEF WithId
  <2> QED BY <2>2 DEF IdsOf
<1>4. \A i \in DOMAIN ids : ids[i] \in IdsOf(axes)
  BY DEF Range
<1>5. Len(Bound(axes, ids)) = Len(ids)
  BY <1>1 DEF Bound
<1> QED BY <1>1, <1>2, <1>3, <1>4, <1>5

LEMMA TargetOnGridFacts ==
  ASSUME NEW c, NEW last, Good(c, last), NEW source, NEW n \in Nat, DOMAIN source = 1 .. n,
         \A i \in DOMAIN source : source[i].id \in IdsOf(c.axes), NEW side \in Sides
  PROVE  IsTarget(TargetOnGrid(c, source, side), c.axes)
<1> DEFINE axes1 == EnsureAxis(c.axes, "Value", side, Preferred("Value", side))
           axes2 == IF axes1 = c.axes THEN axes1 ELSE Reconcile(axes1)
           cats == AxesOf(axes2, "Category", side)
           vals == AxesOf(axes2, "Value", side)
           Ours(a) == IF a.kind = "Value" THEN FirstId(axes2, vals)
                      ELSE IF cats = {} THEN a.id ELSE FirstId(axes2, cats)
           ids == [i \in DOMAIN source |-> Ours(source[i])]
<1>1. Proper(c.axes)
  BY GoodFacts
<1>2. Preferred("Value", side) \in Nat
  BY DEF Preferred
<1>3. Proper(axes1) /\ IdsOf(c.axes) \subseteq IdsOf(axes1) /\ AxesOf(axes1, "Value", side) # {}
  BY <1>1, <1>2, EnsureAxisFacts DEF AxisKinds
<1> HIDE DEF axes1
<1>4. Proper(Reconcile(axes1)) /\ IdsOf(Reconcile(axes1)) = IdsOf(axes1)
      /\ AxesOf(Reconcile(axes1), "Value", side) = AxesOf(axes1, "Value", side)
  BY <1>3, ReconcileFacts, SameIds DEF Proper
<1>5. /\ Proper(axes2) /\ IdsOf(c.axes) \subseteq IdsOf(axes2)
      /\ AxesOf(axes2, "Value", side) # {}
  BY <1>3, <1>4
<1>6. TargetOnGrid(c, source, side) = [ids |-> ids, axes |-> axes2]
  BY DEF TargetOnGrid, axes1
<1> HIDE DEF axes2
<1>7. axes2 \in Seq(AxisRecord) /\ vals # {} /\ vals \subseteq DOMAIN axes2 /\ cats \subseteq DOMAIN axes2
      /\ IdsOf(axes2) \subseteq Nat
  <2>1. axes2 \in Seq(AxisRecord) /\ vals # {} /\ vals \subseteq DOMAIN axes2 /\ cats \subseteq DOMAIN axes2
    BY <1>5 DEF Proper, AxesOf
  <2> QED BY <2>1, AxisFacts
<1> HIDE DEF vals, cats
<1>8. FirstId(axes2, vals) \in IdsOf(axes2) /\ (cats # {} => FirstId(axes2, cats) \in IdsOf(axes2))
  BY <1>7, FirstIdFacts
<1>9. \A i \in DOMAIN source : ids[i] \in IdsOf(axes2)
  BY <1>5, <1>8
<1>10. ids = [i \in 1 .. n |-> ids[i]] /\ DOMAIN ids = 1 .. n
  OBVIOUS
<1> HIDE DEF ids
<1>11. ids \in Seq(Nat)
  <2>1. \A i \in 1 .. n : ids[i] \in Nat
    BY <1>7, <1>9
  <2> QED BY <1>10, <2>1
<1>12. Range(ids) \subseteq IdsOf(axes2)
  BY <1>9, <1>10 DEF Range
<1> QED BY <1>5, <1>6, <1>11, <1>12 DEF IsTarget

LEMMA TargetAxesFacts ==
  ASSUME NEW c, NEW last, Good(c, last), NEW g \in DOMAIN c.groups, NEW side \in Sides
  PROVE  IsTarget(TargetAxes(c, g, side), c.axes)
<1> DEFINE source == Bound(c.axes, c.groups[g].ids)
           n == Len(c.groups[g].ids)
<1>1. /\ c.axes \in Seq(AxisRecord) /\ c.groups[g].ids \in Seq(Nat)
      /\ Range(c.groups[g].ids) \subseteq IdsOf(c.axes)
  BY GoodFacts
<1>2. n \in Nat /\ DOMAIN source = 1 .. n /\ \A i \in DOMAIN source : source[i].id \in IdsOf(c.axes)
  BY <1>1, BoundFacts
<1>3. \/ TargetAxes(c, g, side) = NoTarget(c)
      \/ TargetAxes(c, g, side) = TargetPair(c, side)
      \/ TargetAxes(c, g, side) = TargetOnGrid(c, source, side)
  BY DEF TargetAxes
<1> HIDE DEF source, n
<1>4. IsTarget(TargetOnGrid(c, source, side), c.axes)
  BY <1>2, TargetOnGridFacts
<1> QED BY <1>3, <1>4, NoTargetFacts, TargetPairFacts

-----------------------------------------------------------------------------
(* Lists of groups.                                                        *)
LEMMA GroupFacts ==
  ASSUME NEW groups \in Seq(GroupRecord)
  PROVE  /\ Len(groups) \in Nat /\ DOMAIN groups = 1 .. Len(groups)
         /\ \A g \in DOMAIN groups :
              /\ groups[g] \in GroupRecord
              /\ groups[g].type \in Types /\ groups[g].side \in Sides
              /\ groups[g].ids \in Seq(Nat) /\ groups[g].raws \in SUBSET Nat
              /\ groups[g].loaded \in Nat
<1>1. /\ Len(groups) \in Nat /\ DOMAIN groups = 1 .. Len(groups)
      /\ \A g \in DOMAIN groups : groups[g] \in GroupRecord
  OBVIOUS
<1> QED BY <1>1 DEF GroupRecord

LEMMA GroupsAlike ==
  ASSUME NEW groups, NEW last, GoodGroups(groups, last),
         NEW other \in Seq(GroupRecord), DOMAIN other = DOMAIN groups,
         \A g \in DOMAIN groups :
           /\ other[g].loaded = groups[g].loaded
           /\ other[g].ids = <<>> => groups[g].ids = <<>> /\ other[g].side = groups[g].side
  PROVE  GoodGroups(other, last)
BY DEF GoodGroups, LoadedInOrder, UnboundFromPart, FromPart

LEMMA GroupRemoved ==
  ASSUME NEW groups, NEW last, GoodGroups(groups, last), NEW g \in DOMAIN groups
  PROVE  /\ GoodGroups(RemoveAt(groups, g), last)
         /\ Len(RemoveAt(groups, g)) = Len(groups) - 1
         /\ \A k \in DOMAIN RemoveAt(groups, g) :
              RemoveAt(groups, g)[k] = groups[IF k < g THEN k ELSE k + 1]
<1> DEFINE left == RemoveAt(groups, g)
<1>1. groups \in Seq(GroupRecord) /\ Len(groups) \in Nat /\ DOMAIN groups = 1 .. Len(groups)
  BY GroupFacts DEF GoodGroups
<1>2. left = Less(groups, g)
  BY DEF RemoveAt, Less
<1> HIDE DEF left
<1>3. /\ left \in Seq(GroupRecord) /\ Len(left) = Len(groups) - 1
      /\ \A k \in 1 .. g - 1 : left[k] = groups[k]
      /\ \A k \in g + 1 .. Len(groups) : left[k - 1] = groups[k]
  <2>1. groups \in Seq(GroupRecord) /\ g \in 1 .. Len(groups)
    BY <1>1
  <2> QED BY <1>2, <2>1, RemoveFacts
<1>4. DOMAIN left = 1 .. Len(groups) - 1
  BY <1>1, <1>3
<1>5. \A k \in DOMAIN left : left[k] = groups[IF k < g THEN k ELSE k + 1]
  <2> SUFFICES ASSUME NEW k \in DOMAIN left
               PROVE  left[k] = groups[IF k < g THEN k ELSE k + 1]
    OBVIOUS
  <2>1. CASE k < g
    BY <1>1, <1>3, <1>4, <2>1
  <2>2. CASE ~(k < g)
    <3>1. k + 1 \in g + 1 .. Len(groups) /\ (k + 1) - 1 = k
      BY <1>1, <1>4, <2>2
    <3>2. left[(k + 1) - 1] = groups[k + 1]
      BY <1>3, <3>1
    <3> QED BY <2>2, <3>1, <3>2
  <2> QED BY <2>1, <2>2
<1> DEFINE Was(k) == IF k < g THEN k ELSE k + 1
<1>6. \A k \in DOMAIN left : Was(k) \in DOMAIN groups /\ left[k] = groups[Was(k)]
  BY <1>1, <1>4, <1>5
<1>7. \A k, h \in DOMAIN left : k < h => Was(k) < Was(h)
  BY <1>1, <1>4
<1> HIDE DEF Was
<1>8. GoodGroups(left, last)
  BY <1>3, <1>6, <1>7 DEF GoodGroups, LoadedInOrder, UnboundFromPart, FromPart
<1> QED BY <1>3, <1>5, <1>8 DEF left

LEMMA GroupInserted ==
  ASSUME NEW groups, NEW last \in Nat, GoodGroups(groups, last), NEW g \in 1 .. Len(groups) + 1,
         NEW e \in GroupRecord, e.loaded = 0, e.ids # <<>>
  PROVE  /\ GoodGroups(InsertAt(groups, g, e), last)
         /\ Len(InsertAt(groups, g, e)) = Len(groups) + 1
         /\ InsertAt(groups, g, e)[g] = e
         /\ \A k \in DOMAIN groups :
              InsertAt(groups, g, e)[IF k < g THEN k ELSE k + 1] = groups[k]
         /\ \A k \in DOMAIN InsertAt(groups, g, e) :
              k # g => /\ (IF k < g THEN k ELSE k - 1) \in DOMAIN groups
                       /\ InsertAt(groups, g, e)[k] = groups[IF k < g THEN k ELSE k - 1]
<1> DEFINE more == InsertAt(groups, g, e)
           Was(k) == IF k < g THEN k ELSE k - 1
           Goes(k) == IF k < g THEN k ELSE k + 1
<1>1. groups \in Seq(GroupRecord) /\ Len(groups) \in Nat /\ DOMAIN groups = 1 .. Len(groups)
  BY GroupFacts DEF GoodGroups
<1>2. more = With(groups, g, e)
  BY DEF InsertAt, With
<1> HIDE DEF more
<1>3. /\ more \in Seq(GroupRecord) /\ Len(more) = Len(groups) + 1
      /\ \A k \in 1 .. g - 1 : more[k] = groups[k]
      /\ more[g] = e
      /\ \A k \in g .. Len(groups) : more[k + 1] = groups[k]
  BY <1>1, <1>2, InsertFacts
<1>4. DOMAIN more = 1 .. Len(groups) + 1
  BY <1>1, <1>3
<1>5. \A k \in DOMAIN groups : more[Goes(k)] = groups[k]
  <2> SUFFICES ASSUME NEW k \in DOMAIN groups PROVE more[Goes(k)] = groups[k]
    OBVIOUS
  <2>1. CASE k < g
    BY <1>1, <1>3, <2>1
  <2>2. CASE ~(k < g)
    BY <1>1, <1>3, <2>2
  <2> QED BY <2>1, <2>2
<1>6. \A k \in DOMAIN more : k # g => Was(k) \in DOMAIN groups /\ Goes(Was(k)) = k
  BY <1>1, <1>4
<1>7. \A k, h \in DOMAIN more : k < h /\ k # g /\ h # g => Was(k) < Was(h)
  BY <1>1, <1>4
<1>8. \A k \in DOMAIN more : k # g => Was(k) \in DOMAIN groups /\ more[k] = groups[Was(k)]
  <2> HIDE DEF Was, Goes
  <2> QED BY <1>5, <1>6
<1>9. GoodGroups(more, last)
  <2> HIDE DEF Was, Goes
  <2>1. LoadedInOrder(more)
    BY SMTT(30), <1>3, <1>7, <1>8 DEF GoodGroups, LoadedInOrder
  <2>2. UnboundFromPart(more)
    BY <1>3, <1>8 DEF GoodGroups, UnboundFromPart
  <2>3. FromPart(more, last)
    BY <1>3, <1>8 DEF GoodGroups, FromPart
  <2> QED BY <1>3, <2>1, <2>2, <2>3 DEF GoodGroups
<1> QED BY <1>3, <1>5, <1>8, <1>9 DEF more

LEMMA GroupAdded ==
  ASSUME NEW groups, NEW last \in Nat, GoodGroups(groups, last),
         NEW e \in GroupRecord, e.loaded = 0, e.ids # <<>>
  PROVE  /\ GoodGroups(Append(groups, e), last)
         /\ Len(Append(groups, e)) = Len(groups) + 1
         /\ Append(groups, e)[Len(groups) + 1] = e
         /\ \A k \in DOMAIN groups : Append(groups, e)[k] = groups[k]
<1> DEFINE more == Append(groups, e)
<1>1. groups \in Seq(GroupRecord) /\ Len(groups) \in Nat /\ DOMAIN groups = 1 .. Len(groups)
  BY GroupFacts DEF GoodGroups
<1>2. /\ more \in Seq(GroupRecord) /\ Len(more) = Len(groups) + 1
      /\ DOMAIN more = 1 .. Len(groups) + 1
      /\ \A k \in DOMAIN groups : more[k] = groups[k]
      /\ more[Len(groups) + 1] = e
  BY <1>1
<1> HIDE DEF more
<1>3. \A k \in DOMAIN more : k \in DOMAIN groups \/ k = Len(groups) + 1
  BY <1>1, <1>2
<1>4. \A k \in DOMAIN groups : k < Len(groups) + 1
  BY <1>1
<1>5. LoadedInOrder(more)
  <2> SUFFICES ASSUME NEW k \in DOMAIN more, NEW h \in DOMAIN more, k < h,
                      more[k].loaded # 0, more[h].loaded # 0
               PROVE  more[k].loaded < more[h].loaded
    BY DEF LoadedInOrder
  <2>1. k \in DOMAIN groups /\ h \in DOMAIN groups
    BY <1>2, <1>3
  <2> QED BY <1>2, <2>1 DEF GoodGroups, LoadedInOrder
<1>6. UnboundFromPart(more)
  BY <1>2, <1>3 DEF GoodGroups, UnboundFromPart
<1>7. FromPart(more, last)
  BY <1>2, <1>3 DEF GoodGroups, FromPart
<1> QED BY <1>2, <1>5, <1>6, <1>7 DEF GoodGroups, more

-----------------------------------------------------------------------------
(* Series and groups. That every series is in one group, without counting. *)
Tidy(groups, series) ==
  /\ groups # <<>>
  /\ \A s, t \in DOMAIN series : series[s].raw = series[t].raw => s = t
  /\ \A s \in DOMAIN series : \E g \in DOMAIN groups : series[s].raw \in groups[g].raws
  /\ \A g \in DOMAIN groups : \A raw \in groups[g].raws :
       \E s \in DOMAIN series : series[s].raw = raw
  /\ \A g \in DOMAIN groups : \A s \in DOMAIN series :
       series[s].raw \in groups[g].raws => series[s].side = groups[g].side
  /\ \A g, h \in DOMAIN groups : g # h => groups[g].raws \cap groups[h].raws = {}

LEMMA StableIsTidy ==
  ASSUME NEW c, c.series \in Seq(SeriesRecord)
  PROVE  Stable(c) <=> Tidy(c.groups, c.series)
<1> DEFINE n == Len(c.series)
           f == [s \in 1 .. n |-> c.series[s].raw]
<1>1. n \in Nat /\ DOMAIN c.series = 1 .. n
  OBVIOUS
<1>2. DOMAIN f = 1 .. n /\ f = [s \in 1 .. n |-> f[s]]
  OBVIOUS
<1>3. RawsOf(c) = {f[s] : s \in 1 .. n}
  BY <1>1 DEF RawsOf
<1>4. \A s \in DOMAIN c.series : f[s] = c.series[s].raw
  BY <1>1
<1> HIDE DEF n, f
<1>5. Cardinality(RawsOf(c)) = n <=> \A s, t \in 1 .. n : f[s] = f[t] => s = t
  BY <1>1, <1>2, <1>3, ImageFacts
<1>6. Cardinality(RawsOf(c)) = Len(c.series)
        <=> \A s, t \in DOMAIN c.series : c.series[s].raw = c.series[t].raw => s = t
  BY <1>1, <1>4, <1>5 DEF n
<1>7. ASSUME Stable(c) PROVE Tidy(c.groups, c.series)
  <2>1. /\ c.groups # <<>>
        /\ \A s, t \in DOMAIN c.series : c.series[s].raw = c.series[t].raw => s = t
        /\ UNION {c.groups[g].raws : g \in DOMAIN c.groups} = RawsOf(c)
        /\ \A g \in DOMAIN c.groups : \A s \in DOMAIN c.series :
             c.series[s].raw \in c.groups[g].raws =>
               /\ c.series[s].side = c.groups[g].side
               /\ \A h \in DOMAIN c.groups \ {g} : c.series[s].raw \notin c.groups[h].raws
    BY <1>6, <1>7 DEF Stable
  <2>2. \A g \in DOMAIN c.groups : \A raw \in c.groups[g].raws : raw \in RawsOf(c)
    BY <2>1
  <2>3. \A raw \in RawsOf(c) : \E s \in DOMAIN c.series : c.series[s].raw = raw
    BY DEF RawsOf
  <2>4. \A s \in DOMAIN c.series : \E g \in DOMAIN c.groups : c.series[s].raw \in c.groups[g].raws
    <3> TAKE s \in DOMAIN c.series
    <3>1. c.series[s].raw \in UNION {c.groups[g].raws : g \in DOMAIN c.groups}
      BY <2>1 DEF RawsOf
    <3> QED BY <3>1
  <2>5. \A g, h \in DOMAIN c.groups : g # h => c.groups[g].raws \cap c.groups[h].raws = {}
    BY <2>1, <2>2, <2>3
  <2> QED BY <2>1, <2>2, <2>3, <2>4, <2>5 DEF Tidy
<1>8. ASSUME Tidy(c.groups, c.series) PROVE Stable(c)
  <2>1. UNION {c.groups[g].raws : g \in DOMAIN c.groups} \subseteq RawsOf(c)
    BY <1>8 DEF Tidy, RawsOf
  <2>2. RawsOf(c) \subseteq UNION {c.groups[g].raws : g \in DOMAIN c.groups}
    BY <1>8 DEF Tidy, RawsOf
  <2>3. \A g \in DOMAIN c.groups : \A s \in DOMAIN c.series :
          c.series[s].raw \in c.groups[g].raws =>
            /\ c.series[s].side = c.groups[g].side
            /\ \A h \in DOMAIN c.groups \ {g} : c.series[s].raw \notin c.groups[h].raws
    BY <1>8 DEF Tidy
  <2>4. c.groups # <<>> /\ Cardinality(RawsOf(c)) = Len(c.series)
    BY <1>6, <1>8 DEF Tidy
  <2> QED BY <2>1, <2>2, <2>3, <2>4 DEF Stable
<1> QED BY <1>7, <1>8

LEMMA TidyAlike ==
  ASSUME NEW groups, NEW series, Tidy(groups, series),
         NEW other, other # <<>>, DOMAIN other = DOMAIN groups,
         \A g \in DOMAIN groups : other[g].side = groups[g].side /\ other[g].raws = groups[g].raws
  PROVE  Tidy(other, series)
<1>1. \A s \in DOMAIN series : \E g \in DOMAIN other : series[s].raw \in other[g].raws
  BY DEF Tidy
<1>2. \A g \in DOMAIN other : \A raw \in other[g].raws : \E s \in DOMAIN series : series[s].raw = raw
  BY DEF Tidy
<1>3. \A g \in DOMAIN other : \A s \in DOMAIN series :
        series[s].raw \in other[g].raws => series[s].side = other[g].side
  BY DEF Tidy
<1>4. \A g, h \in DOMAIN other : g # h => other[g].raws \cap other[h].raws = {}
  BY DEF Tidy
<1> QED BY <1>1, <1>2, <1>3, <1>4 DEF Tidy

(* A group that goes was empty and not the last one.                       *)
LEMMA PrunedFacts ==
  ASSUME NEW c, NEW last, Good(c, last), NEW g \in DOMAIN c.groups,
         NEW after, after = Pruned(c, g), NEW series
  PROVE  /\ Good(after, last)
         /\ after.series = c.series /\ after.moved = c.moved
         /\ Tidy(c.groups, series) => Tidy(after.groups, series)
         /\ Len(after.groups) = Len(c.groups) => after.groups = c.groups
<1> DEFINE left == RemoveAt(c.groups, g)
           axes == PruneAxes(c.axes, left, Range(c.groups[g].ids))
           type == IF Len(left) = 1 THEN left[1].type ELSE c.type
<1>0. /\ c \in ChartRecord /\ Proper(c.axes) /\ GoodGroups(c.groups, last)
      /\ BoundTo(c.groups, c.axes)
      /\ Len(c.groups) \in Nat /\ DOMAIN c.groups = 1 .. Len(c.groups)
  BY GoodFacts DEF Good
<1>1. CASE ~MayPrune(c, g)
  BY <1>1 DEF Pruned
<1>2. CASE MayPrune(c, g)
  <2>1. after = [c EXCEPT !.groups = left, !.axes = axes, !.type = type]
    BY <1>2 DEF Pruned
  <2>2. Len(c.groups) > 1 /\ c.groups[g].raws = {}
    BY <1>2 DEF MayPrune
  <2>3. /\ GoodGroups(left, last) /\ Len(left) = Len(c.groups) - 1
        /\ \A k \in DOMAIN left : left[k] = c.groups[IF k < g THEN k ELSE k + 1]
    BY <1>0, GroupRemoved
  <2> DEFINE Was(k) == IF k < g THEN k ELSE k + 1
  <2> HIDE DEF left
  <2>4. left \in Seq(GroupRecord) /\ Len(left) \in Nat /\ DOMAIN left = 1 .. Len(left)
        /\ \A k \in DOMAIN left : left[k].type \in Types
    BY <2>3, GroupFacts DEF GoodGroups
  <2>5. /\ \A k \in DOMAIN left : Was(k) \in DOMAIN c.groups /\ left[k] = c.groups[Was(k)]
        /\ \A k, h \in DOMAIN left : k # h => Was(k) # Was(h)
        /\ \A h \in DOMAIN c.groups : h = g \/ \E k \in DOMAIN left : Was(k) = h
    <3>1. \A k \in DOMAIN left : Was(k) \in DOMAIN c.groups /\ left[k] = c.groups[Was(k)]
      BY <1>0, <2>3, <2>4
    <3>2. \A k, h \in DOMAIN left : k # h => Was(k) # Was(h)
      BY <1>0, <2>3, <2>4
    <3>3. ASSUME NEW h \in DOMAIN c.groups, h # g PROVE \E k \in DOMAIN left : Was(k) = h
      <4>1. CASE h < g
        <5>1. h \in DOMAIN left /\ Was(h) = h
          BY <1>0, <2>3, <2>4, <4>1
        <5> QED BY <5>1
      <4>2. CASE h > g
        <5>1. h - 1 \in DOMAIN left /\ Was(h - 1) = h
          BY <1>0, <2>3, <2>4, <4>2
        <5> QED BY <5>1
      <4> QED BY <1>0, <3>3, <4>1, <4>2
    <3> QED BY <3>1, <3>2, <3>3
  <2> HIDE DEF Was
  <2>6. BoundTo(left, c.axes)
    BY <1>0, <2>5 DEF BoundTo
  <2>7. Proper(axes) /\ BoundTo(left, axes)
    <3>1. /\ Proper(axes)
          /\ \A k \in DOMAIN left : Range(left[k].ids) \subseteq IdsOf(c.axes) =>
               Range(left[k].ids) \subseteq IdsOf(axes)
      BY <1>0, PruneAxesFacts
    <3> QED BY <2>6, <3>1 DEF BoundTo
  <2>8. type \in Types
    <3>1. Len(left) = 1 => 1 \in DOMAIN left
      BY <2>4
    <3> QED BY <1>0, <2>4, <3>1 DEF ChartRecord
  <2> HIDE DEF axes, type
  <2>9. after \in ChartRecord
    <3>1. axes \in Seq(AxisRecord)
      BY <2>7 DEF Proper
    <3> QED BY <1>0, <2>1, <2>4, <2>8, <3>1 DEF ChartRecord
  <2>10. after.groups = left /\ after.axes = axes /\ after.series = c.series /\ after.moved = c.moved
    BY <1>0, <2>1 DEF ChartRecord
  <2>11. Good(after, last)
    BY <2>3, <2>7, <2>9, <2>10 DEF Good
  <2>12. ASSUME Tidy(c.groups, series) PROVE Tidy(left, series)
    <3>1. left # <<>>
      BY <1>0, <2>2, <2>3, <2>4
    <3>2. \A s \in DOMAIN series : \E k \in DOMAIN left : series[s].raw \in left[k].raws
      BY <2>2, <2>5, <2>12 DEF Tidy
    <3>3. \A k, h \in DOMAIN left : k # h => left[k].raws \cap left[h].raws = {}
      BY <2>5, <2>12 DEF Tidy
    <3>4. \A k \in DOMAIN left : \A raw \in left[k].raws :
            \E s \in DOMAIN series : series[s].raw = raw
      BY <2>5, <2>12 DEF Tidy
    <3>5. \A k \in DOMAIN left : \A s \in DOMAIN series :
            series[s].raw \in left[k].raws => series[s].side = left[k].side
      BY <2>5, <2>12 DEF Tidy
    <3> QED BY <2>12, <3>1, <3>2, <3>3, <3>4, <3>5 DEF Tidy
  <2>13. Len(after.groups) # Len(c.groups)
    BY <1>0, <2>3, <2>10
  <2> QED BY <2>10, <2>11, <2>12, <2>13
<1> QED BY <1>1, <1>2

-----------------------------------------------------------------------------
(* The part: what a good chart writes is in the order it has.              *)
LEMMA PlaceFacts ==
  ASSUME NEW c, Good(c, Len(part)), part \in Seq(Types), NEW g \in DOMAIN c.groups
  PROVE  /\ c.groups[g].loaded # 0 => Place(c, g) = c.groups[g].loaded
         /\ c.groups[g].loaded = 0 /\ Later(c, g) = {} => Place(c, g) = Len(part) + 1
         /\ c.groups[g].loaded = 0 /\ Later(c, g) # {} =>
              /\ Min(Later(c, g)) \in Later(c, g)
              /\ \A h \in Later(c, g) : Min(Later(c, g)) <= h
              /\ Place(c, g) = c.groups[Min(Later(c, g))].loaded
<1>1. Later(c, g) \subseteq Nat
  BY GoodFacts DEF Later
<1>2. Later(c, g) # {} => /\ Min(Later(c, g)) \in Later(c, g)
                          /\ \A h \in Later(c, g) : Min(Later(c, g)) <= h
  BY <1>1, LeastPlace
<1> QED BY <1>2 DEF Place, PlaceOf

LEMMA BeforeIsEarlier ==
  ASSUME NEW c, Good(c, Len(part)), part \in Seq(Types),
         NEW h \in DOMAIN c.groups, NEW g \in DOMAIN c.groups, h < g
  PROVE  IsBefore(c, h, g)
<1> DEFINE groups == c.groups
           n == Len(part)
<1>1. /\ n \in Nat /\ h \in Nat /\ g \in Nat /\ h < g
      /\ h \in DOMAIN groups /\ g \in DOMAIN groups /\ DOMAIN groups \subseteq Nat
      /\ \A k \in DOMAIN groups : groups[k].loaded \in Nat /\ groups[k].loaded <= n
      /\ \A j, k \in DOMAIN groups :
           j < k /\ groups[j].loaded # 0 /\ groups[k].loaded # 0 => groups[j].loaded < groups[k].loaded
  <2>1. \A k \in DOMAIN groups : groups[k].loaded <= n
    BY DEF Good, GoodGroups, FromPart
  <2>2. \A j, k \in DOMAIN groups :
          j < k /\ groups[j].loaded # 0 /\ groups[k].loaded # 0 => groups[j].loaded < groups[k].loaded
    BY DEF Good, GoodGroups, LoadedInOrder
  <2>3. DOMAIN groups \subseteq Nat /\ \A k \in DOMAIN groups : groups[k].loaded \in Nat
    BY GoodFacts
  <2> QED BY <2>1, <2>2, <2>3
<1>2. /\ \A k : k \in Later(c, g) <=> k \in DOMAIN groups /\ k > g /\ groups[k].loaded # 0
      /\ \A k : k \in Later(c, h) <=> k \in DOMAIN groups /\ k > h /\ groups[k].loaded # 0
  BY DEF Later
<1> HIDE DEF n
<1> DEFINE m == Min(Later(c, h))
           k == Min(Later(c, g))
<1>3. /\ groups[g].loaded # 0 => Place(c, g) = groups[g].loaded
      /\ groups[g].loaded = 0 /\ Later(c, g) = {} => Place(c, g) = n + 1
      /\ groups[g].loaded = 0 /\ Later(c, g) # {} =>
           k \in Later(c, g) /\ Place(c, g) = groups[k].loaded
  BY PlaceFacts DEF n
<1>4. /\ groups[h].loaded # 0 => Place(c, h) = groups[h].loaded
      /\ groups[h].loaded = 0 /\ Later(c, h) = {} => Place(c, h) = n + 1
      /\ groups[h].loaded = 0 /\ Later(c, h) # {} =>
           /\ m \in Later(c, h) /\ Place(c, h) = groups[m].loaded
           /\ \A j \in Later(c, h) : m <= j
  BY PlaceFacts DEF n
<1>5. IsBefore(c, h, g) <=>
        \/ Place(c, h) < Place(c, g)
        \/ Place(c, h) = Place(c, g) /\ groups[h].loaded = 0 /\ (groups[g].loaded # 0 \/ h < g)
  BY DEF IsBefore
<1> HIDE DEF groups, m, k
<1>6. CASE groups[h].loaded # 0 /\ groups[g].loaded # 0
  BY <1>1, <1>3, <1>4, <1>5, <1>6
<1>7. CASE groups[h].loaded # 0 /\ groups[g].loaded = 0
  <2>1. CASE Later(c, g) = {}
    BY <1>1, <1>3, <1>4, <1>5, <1>7, <2>1
  <2>2. CASE Later(c, g) # {}
    <3>1. k \in DOMAIN groups /\ h < k /\ groups[k].loaded # 0 /\ Place(c, g) = groups[k].loaded
      BY <1>1, <1>2, <1>3, <1>7, <2>2
    <3> QED BY <1>1, <1>4, <1>5, <1>7, <3>1
  <2> QED BY <2>1, <2>2
<1>8. CASE groups[h].loaded = 0 /\ groups[g].loaded # 0
  <2>1. g \in Later(c, h)
    BY <1>1, <1>2, <1>8
  <2>2. m \in DOMAIN groups /\ m \in Nat /\ m <= g /\ groups[m].loaded # 0 /\ Place(c, h) = groups[m].loaded
    BY <1>1, <1>2, <1>4, <1>8, <2>1
  <2>3. groups[m].loaded <= groups[g].loaded
    BY <1>1, <1>8, <2>2
  <2> QED BY <1>1, <1>3, <1>5, <1>8, <2>2, <2>3
<1>9. CASE groups[h].loaded = 0 /\ groups[g].loaded = 0
  <2>1. CASE Later(c, g) = {} /\ Later(c, h) = {}
    BY <1>1, <1>3, <1>4, <1>5, <1>9, <2>1
  <2>2. CASE Later(c, g) = {} /\ Later(c, h) # {}
    <3>1. m \in DOMAIN groups /\ Place(c, h) = groups[m].loaded /\ Place(c, g) = n + 1
      BY <1>2, <1>3, <1>4, <1>9, <2>2
    <3> QED BY <1>1, <1>5, <3>1
  <2>3. CASE Later(c, g) # {}
    <3>1. k \in DOMAIN groups /\ k > g /\ groups[k].loaded # 0 /\ Place(c, g) = groups[k].loaded
      BY <1>1, <1>2, <1>3, <1>9, <2>3
    <3>2. k \in Later(c, h)
      BY <1>1, <1>2, <3>1
    <3>3. /\ m \in DOMAIN groups /\ m <= k /\ groups[m].loaded # 0
          /\ Place(c, h) = groups[m].loaded /\ m \in Nat /\ k \in Nat
      BY <1>1, <1>2, <1>4, <1>9, <3>1, <3>2
    <3>4. groups[m].loaded <= groups[k].loaded
      BY <1>1, <3>1, <3>3
    <3> QED BY <1>1, <1>5, <1>9, <3>1, <3>3, <3>4
  <2> QED BY <2>1, <2>2, <2>3
<1> QED BY <1>6, <1>7, <1>8, <1>9

LEMMA BeforeIffEarlier ==
  ASSUME NEW c, Good(c, Len(part)), part \in Seq(Types),
         NEW h \in DOMAIN c.groups, NEW g \in DOMAIN c.groups
  PROVE  IsBefore(c, h, g) <=> h < g
<1>1. h \in Nat /\ g \in Nat /\ Len(part) \in Nat
  BY GoodFacts
<1>2. Place(c, h) \in Nat /\ Place(c, g) \in Nat
  <2>1. \A k \in DOMAIN c.groups : c.groups[k].loaded \in Nat
    BY GoodFacts
  <2>2. ASSUME NEW k \in DOMAIN c.groups PROVE Place(c, k) \in Nat
    <3>1. Later(c, k) \subseteq DOMAIN c.groups
      BY DEF Later
    <3> QED BY <1>1, <2>1, <3>1, PlaceFacts
  <2> QED BY <2>2
<1>3. h < g => IsBefore(c, h, g)
  BY BeforeIsEarlier
<1>4. g < h => IsBefore(c, g, h)
  BY BeforeIsEarlier
<1>5. ~(IsBefore(c, g, h) /\ IsBefore(c, h, g))
  BY <1>1, <1>2 DEF IsBefore
<1> QED BY <1>1, <1>3, <1>4, <1>5

LEMMA WrittenInPlace ==
  ASSUME NEW c, Good(c, Len(part)), part \in Seq(Types)
  PROVE  /\ DOMAIN Written(c) = DOMAIN c.groups
         /\ \A i \in DOMAIN c.groups : Written(c)[i] = i
<1> DEFINE n == Len(c.groups)
           S == DOMAIN c.groups
           In(list) == \A i, j \in DOMAIN list : i < j => IsBefore(c, list[i], list[j])
<1>1. n \in Nat /\ S = 1 .. n
  BY GoodFacts
<1>2. Cardinality(S) = n
  <2> HIDE DEF n, S
  <2>1. IsFiniteSet(1 .. n) /\ Cardinality(1 .. n) = IF 1 > n THEN 0 ELSE n - 1 + 1
    BY <1>1, FS_Interval
  <2> QED BY <1>1, <2>1
<1>3. Written(c) = CHOOSE list \in [1 .. Cardinality(S) -> S] : In(list)
  BY DEF Written, InOrder
<1>4. ASSUME NEW i \in 1 .. n, NEW j \in 1 .. n
      PROVE  IsBefore(c, i, j) <=> i < j
  BY <1>1, BeforeIffEarlier
<1> DEFINE id == [i \in 1 .. n |-> i]
<1>5. id \in [1 .. n -> 1 .. n] /\ In(id)
  BY <1>4
<1> HIDE DEF n, S, In, id
<1>6. Written(c) \in [1 .. n -> 1 .. n] /\ In(Written(c))
  BY <1>1, <1>2, <1>3, <1>5
<1> DEFINE f == Written(c)
<1>7. \A i, j \in 1 .. n : i < j => f[i] < f[j]
  <2> SUFFICES ASSUME NEW i \in 1 .. n, NEW j \in 1 .. n, i < j PROVE f[i] < f[j]
    OBVIOUS
  <2>1. DOMAIN f = 1 .. n /\ f[i] \in 1 .. n /\ f[j] \in 1 .. n
    BY <1>6
  <2>2. IsBefore(c, f[i], f[j])
    BY <1>6, <2>1 DEF In
  <2> HIDE DEF f
  <2> QED BY <1>4, <2>1, <2>2
<1>8. f \in [1 .. n -> 1 .. n] /\ n \in Nat
  BY <1>1, <1>6
<1> HIDE DEF f
<1>9. \A i \in 1 .. n : f[i] = i
  BY <1>7, <1>8, IncreasingIsIdentity
<1> QED BY <1>1, <1>8, <1>9 DEF f, S

LEMMA AsFileFacts ==
  ASSUME NEW c, Good(c, Len(part)), part \in Seq(Types)
  PROVE  /\ Len(AsFile(c).groups) = Len(c.groups) /\ DOMAIN AsFile(c).groups = DOMAIN c.groups
         /\ AsFile(c).groups \in Seq([type : Types, ids : Seq(Nat), raws : SUBSET Nat])
         /\ \A g \in DOMAIN c.groups : /\ AsFile(c).groups[g].type = c.groups[g].type
                                       /\ AsFile(c).groups[g].ids = c.groups[g].ids
                                       /\ AsFile(c).groups[g].raws = c.groups[g].raws
         /\ DOMAIN AsFile(c).axes = DOMAIN c.axes
         /\ AsFile(c).axes \in Seq([id : Nat, kind : AxisKinds, deleted : BOOLEAN, cross : Nat])
         /\ \A i \in DOMAIN c.axes : /\ AsFile(c).axes[i].id = c.axes[i].id
                                     /\ AsFile(c).axes[i].cross = c.axes[i].cross
<1> DEFINE file == AsFile(c)
           order == Written(c)
           n == Len(c.groups)
           m == Len(c.axes)
           R == [type : Types, ids : Seq(Nat), raws : SUBSET Nat]
           A == [id : Nat, kind : AxisKinds, deleted : BOOLEAN, cross : Nat]
<1>1. file = [groups |-> [i \in DOMAIN order |->
                           [type |-> c.groups[order[i]].type,
                            ids  |-> c.groups[order[i]].ids,
                            raws |-> c.groups[order[i]].raws]],
              axes |-> [i \in DOMAIN c.axes |->
                         [id |-> c.axes[i].id, kind |-> c.axes[i].kind,
                          deleted |-> c.axes[i].deleted, cross |-> c.axes[i].cross]]]
  BY DEF AsFile
<1> HIDE DEF file
<1>2. DOMAIN order = DOMAIN c.groups /\ \A i \in DOMAIN c.groups : order[i] = i
  BY WrittenInPlace
<1> HIDE DEF order
<1>3. /\ n \in Nat /\ DOMAIN c.groups = 1 .. n
      /\ \A g \in DOMAIN c.groups :
           /\ c.groups[g].type \in Types /\ c.groups[g].ids \in Seq(Nat)
           /\ c.groups[g].raws \in SUBSET Nat
      /\ c.axes \in Seq(AxisRecord)
  BY GoodFacts
<1>4. /\ DOMAIN file.groups = 1 .. n
      /\ \A g \in 1 .. n : file.groups[g] = [type |-> c.groups[g].type, ids |-> c.groups[g].ids,
                                             raws |-> c.groups[g].raws]
      /\ file.groups = [g \in 1 .. n |-> file.groups[g]]
  BY <1>1, <1>2, <1>3
<1>5. /\ m \in Nat /\ DOMAIN c.axes = 1 .. m
      /\ \A i \in DOMAIN c.axes : c.axes[i] \in AxisRecord
  BY <1>3, AxisFacts
<1>6. /\ DOMAIN file.axes = 1 .. m
      /\ \A i \in 1 .. m : file.axes[i] = [id |-> c.axes[i].id, kind |-> c.axes[i].kind,
                                           deleted |-> c.axes[i].deleted, cross |-> c.axes[i].cross]
      /\ file.axes = [i \in 1 .. m |-> file.axes[i]]
  BY <1>1, <1>5
<1> DEFINE gs == file.groups
           as == file.axes
<1> HIDE DEF gs, as
<1>7. ASSUME NEW g \in 1 .. n
      PROVE  /\ gs[g] \in R
             /\ gs[g].type = c.groups[g].type /\ gs[g].ids = c.groups[g].ids
             /\ gs[g].raws = c.groups[g].raws
  <2>1. gs[g] = [type |-> c.groups[g].type, ids |-> c.groups[g].ids, raws |-> c.groups[g].raws]
    BY <1>4 DEF gs
  <2> QED BY <1>3, <2>1
<1>8. ASSUME NEW i \in 1 .. m
      PROVE  as[i] \in A /\ as[i].id = c.axes[i].id /\ as[i].cross = c.axes[i].cross
  <2>1. as[i] = [id |-> c.axes[i].id, kind |-> c.axes[i].kind,
                 deleted |-> c.axes[i].deleted, cross |-> c.axes[i].cross]
    BY <1>6 DEF as
  <2>2. c.axes[i] \in AxisRecord
    BY <1>5
  <2> QED BY <2>1, <2>2 DEF AxisRecord
<1> HIDE DEF R, A, n, m
<1>9. gs \in [1 .. n -> R] /\ as \in [1 .. m -> A]
  BY <1>4, <1>6, <1>7, <1>8 DEF gs, as
<1>10. gs \in Seq(R) /\ Len(gs) = n /\ as \in Seq(A) /\ DOMAIN gs = 1 .. n /\ DOMAIN as = 1 .. m
  BY <1>3, <1>5, <1>9, FunctionIsList
<1> QED BY <1>3, <1>5, <1>7, <1>8, <1>10 DEF gs, as, R, A, n, m, file

(* The reader's rule finds the side of every group.                        *)
LEMMA SidesComeBack ==
  ASSUME NEW c, Good(c, Len(part)), SidesAreTold(c),
         NEW file, DOMAIN file.groups = DOMAIN c.groups, Len(file.groups) = Len(c.groups),
         \A g \in DOMAIN c.groups : file.groups[g].ids = c.groups[g].ids,
         NEW g \in DOMAIN c.groups
  PROVE  SideOf(file, g) = c.groups[g].side
<1> DEFINE groups == c.groups
           Named(h) == Range(groups[h].ids)
           bound == {h \in DOMAIN groups : groups[h].ids # <<>>}
           first == Min(bound)
           after == {h \in bound : h > first}
           later == UNION {Named(h) : h \in after}
<1>1. /\ Len(groups) \in Nat /\ DOMAIN groups = 1 .. Len(groups)
      /\ \A h \in DOMAIN groups : groups[h].side \in Sides
  BY GoodFacts
<1>2. PICK f \in DOMAIN groups : /\ groups[f].ids # <<>> /\ groups[f].side = "Primary"
                                 /\ \A h \in 1 .. f - 1 : groups[h].ids = <<>>
  BY DEF SidesAreTold, FirstIsPrimary
<1>3. bound # {} /\ bound \subseteq Nat /\ f \in bound
  BY <1>1, <1>2
<1>4. first \in bound /\ \A h \in bound : first <= h
  BY <1>3, LeastPlace
<1>5. first = f
  <2>1. first \in DOMAIN groups /\ groups[first].ids # <<>> /\ first <= f
    BY <1>3, <1>4
  <2> HIDE DEF first
  <2>2. first \notin 1 .. f - 1
    BY <1>2, <2>1
  <2> QED BY <1>1, <2>1, <2>2
<1>6. SecondaryIds(file) = later \ Named(first)
  <2>1. {h \in DOMAIN file.groups : file.groups[h].ids # <<>>} = bound
    OBVIOUS
  <2>2. \A h \in bound : Range(file.groups[h].ids) = Named(h)
    OBVIOUS
  <2> DEFINE there == {h \in DOMAIN file.groups : file.groups[h].ids # <<>>}
  <2>3. SecondaryIds(file) =
          IF there # {}
            THEN (UNION {Range(file.groups[h].ids) : h \in {k \in there : k > Min(there)}})
                 \ Range(file.groups[Min(there)].ids)
            ELSE {file.axes[i].id : i \in {j \in DOMAIN file.axes :
                    \E k \in 1 .. j - 1 : file.axes[k].kind = file.axes[j].kind}}
    BY DEF SecondaryIds
  <2> HIDE DEF there
  <2>4. SecondaryIds(file) =
          (UNION {Range(file.groups[h].ids) : h \in after}) \ Range(file.groups[first].ids)
    BY <1>3, <2>1, <2>3 DEF there
  <2>5. after \subseteq bound
    OBVIOUS
  <2> HIDE DEF bound, first, Named, after
  <2>6. {Range(file.groups[h].ids) : h \in after} = {Named(h) : h \in after}
    BY <2>2, <2>5
  <2> QED BY <1>4, <2>2, <2>4, <2>6
<1>7. SideOf(file, g) = IF /\ Range(file.groups[g].ids) \cap SecondaryIds(file) # {}
                           /\ Len(file.groups) > 1 \/ file.groups[g].raws = {}
                          THEN "Secondary" ELSE "Primary"
  BY DEF SideOf
<1>8. Range(file.groups[g].ids) = Named(g)
  OBVIOUS
<1>9. CASE groups[g].ids = <<>>
  <2>1. Named(g) = {}
    BY <1>9 DEF Range
  <2>2. groups[g].side = "Primary"
    BY <1>9 DEF Good, GoodGroups, UnboundFromPart
  <2> HIDE DEF Named, later, first
  <2> QED BY <1>7, <1>8, <2>1, <2>2
<1>10. CASE groups[g].ids # <<>> /\ groups[g].side = "Primary"
  <2>1. groups[g].ids = groups[f].ids
    BY <1>2, <1>10 DEF SidesAreTold, SidesShareAxes
  <2>2. Named(g) = Named(first)
    BY <1>5, <2>1
  <2> HIDE DEF Named, later, first
  <2> QED BY <1>6, <1>7, <1>8, <1>10, <2>2
<1>11. CASE groups[g].ids # <<>> /\ groups[g].side = "Secondary"
  <2>1. ~(Named(g) \subseteq Named(f))
    BY <1>2, <1>11 DEF SidesAreTold, SidesDiffer
  <2>2. g \in bound /\ g # first
    BY <1>2, <1>5, <1>11
  <2>3. g > first /\ Len(groups) > 1
    <3>1. first \in Nat /\ g \in Nat /\ first <= g
      BY <1>3, <1>4, <2>2
    <3> HIDE DEF first, bound
    <3> QED BY <1>1, <1>2, <1>5, <2>2, <3>1
  <2>4. Named(g) \subseteq later
    BY <2>2, <2>3
  <2> HIDE DEF Named, later, first
  <2>5. Named(g) \cap SecondaryIds(file) # {}
    BY <1>5, <1>6, <2>1, <2>4
  <2> QED BY <1>7, <1>8, <1>11, <2>3, <2>5
<1>12. groups[g].side \in {"Primary", "Secondary"}
  BY <1>1 DEF Sides
<1> HIDE DEF groups
<1> QED BY <1>9, <1>10, <1>11, <1>12 DEF groups

LEMMA GroupsComeBack ==
  ASSUME NEW c, Good(c, Len(part)), part \in Seq(Types), SidesAreTold(c),
         NEW back, back = Read(AsFile(c))
  PROVE  /\ Len(back.groups) = Len(c.groups)
         /\ \A g \in DOMAIN c.groups : back.groups[g] = [c.groups[g] EXCEPT !.loaded = g]
<1> DEFINE file == AsFile(c)
<1>1. /\ Len(file.groups) = Len(c.groups) /\ DOMAIN file.groups = DOMAIN c.groups
      /\ \A g \in DOMAIN c.groups : /\ file.groups[g].type = c.groups[g].type
                                    /\ file.groups[g].ids = c.groups[g].ids
                                    /\ file.groups[g].raws = c.groups[g].raws
  BY AsFileFacts
<1>2. back.groups = [g \in DOMAIN file.groups |->
                      [type |-> file.groups[g].type, side |-> SideOf(file, g),
                       ids |-> file.groups[g].ids, raws |-> file.groups[g].raws,
                       loaded |-> g]]
  BY DEF Read
<1> HIDE DEF file
<1>3. \A g \in DOMAIN c.groups : SideOf(file, g) = c.groups[g].side
  BY <1>1, SidesComeBack
<1>4. Len(c.groups) \in Nat /\ DOMAIN c.groups = 1 .. Len(c.groups)
      /\ \A g \in DOMAIN c.groups : c.groups[g] \in GroupRecord
  BY GoodFacts
<1>5. Len(back.groups) = Len(c.groups)
  BY <1>1, <1>2, <1>4
<1>6. ASSUME NEW g \in DOMAIN c.groups
      PROVE  back.groups[g] = [c.groups[g] EXCEPT !.loaded = g]
  <2> DEFINE r == c.groups[g]
             b == back.groups[g]
  <2>1. r \in GroupRecord
    BY <1>4
  <2>2. b = [type |-> r.type, side |-> r.side, ids |-> r.ids, raws |-> r.raws, loaded |-> g]
    BY <1>1, <1>2, <1>3
  <2> HIDE DEF r, b
  <2>3. b = [r EXCEPT !.loaded = g]
    BY <2>1, <2>2 DEF GroupRecord
  <2> QED BY <2>3 DEF r, b
<1> QED BY <1>5, <1>6

-----------------------------------------------------------------------------
(* What is read: the series of a file, group by group.                     *)
PlacesOf(groups) == UNION {{<<g, raw>> : raw \in groups[g].raws} : g \in DOMAIN groups}

LEMMA FinitePlaces ==
  ASSUME NEW n \in Nat, NEW groups, DOMAIN groups = 1 .. n,
         \A g \in DOMAIN groups : IsFiniteSet(groups[g].raws)
  PROVE  IsFiniteSet(PlacesOf(groups))
<1> DEFINE D(g) == {<<g, raw>> : raw \in groups[g].raws}
           T == {D(g) : g \in 1 .. n}
           f == [g \in 1 .. n |-> D(g)]
<1>1. ASSUME NEW g \in 1 .. n PROVE IsFiniteSet(D(g))
  <2> DEFINE R == groups[g].raws
             p == [raw \in R |-> <<g, raw>>]
  <2>1. p \in Surjection(R, D(g))
    <3>1. p \in [R -> D(g)]
      OBVIOUS
    <3>2. \A d \in D(g) : \E raw \in R : p[raw] = d
      OBVIOUS
    <3> HIDE DEF p, D, R
    <3> QED BY <3>1, <3>2 DEF Surjection
  <2>2. IsFiniteSet(R)
    OBVIOUS
  <2> HIDE DEF p, D, R
  <2> QED BY <2>1, <2>2, FS_Surjection
<1>2. IsFiniteSet(T)
  <2>1. T = {f[g] : g \in 1 .. n}
    OBVIOUS
  <2>2. DOMAIN f = 1 .. n /\ f = [g \in 1 .. n |-> f[g]]
    OBVIOUS
  <2> HIDE DEF T, f, D
  <2> QED BY <2>1, <2>2, ImageFacts
<1>3. \A d \in T : IsFiniteSet(d)
  <2> HIDE DEF D
  <2> QED BY <1>1
<1> HIDE DEF T, D
<1>4. IsFiniteSet(UNION T)
  BY <1>2, <1>3, FS_UNION
<1> QED BY <1>4 DEF T, D, PlacesOf

LEMMA DrawnFacts ==
  ASSUME NEW file, IsFile(file), NEW drawn, drawn = Drawn(file)
  PROVE  /\ Len(drawn) \in Nat /\ DOMAIN drawn = 1 .. Len(drawn)
         /\ \A i \in DOMAIN drawn : /\ drawn[i][1] \in DOMAIN file.groups
                                    /\ drawn[i][2] \in file.groups[drawn[i][1]].raws
                                    /\ drawn[i][2] \in Nat
         /\ \A i, j \in DOMAIN drawn : drawn[i][2] = drawn[j][2] => i = j
         /\ \A g \in DOMAIN file.groups : \A raw \in file.groups[g].raws :
              \E i \in DOMAIN drawn : drawn[i][1] = g /\ drawn[i][2] = raw
<1> DEFINE groups == file.groups
           n == Len(groups)
           P == [type : Types, ids : Seq(Nat), raws : SUBSET Nat]
           S == PlacesOf(groups)
           Before(d, e) == d[1] < e[1] \/ (d[1] = e[1] /\ d[2] < e[2])
           R == {p \in S \X S : Before(p[1], p[2])}
<1>1. /\ groups \in Seq(P)
      /\ \A g \in DOMAIN groups : IsFiniteSet(groups[g].raws)
      /\ \A g, h \in DOMAIN groups : g # h => groups[g].raws \cap groups[h].raws = {}
  BY DEF IsFile
<1>2. /\ n \in Nat /\ DOMAIN groups = 1 .. n
      /\ \A g \in DOMAIN groups : groups[g].raws \subseteq Nat
  <2>1. n \in Nat /\ DOMAIN groups = 1 .. n
        /\ \A g \in DOMAIN groups : groups[g] \in P
    <3> HIDE DEF P, groups
    <3> QED BY <1>1
  <2> HIDE DEF groups, n
  <2> QED BY <2>1
<1>3. IsFiniteSet(S)
  <2> HIDE DEF groups, n
  <2> QED BY <1>1, <1>2, FinitePlaces
<1>4. \A d \in S : /\ d = <<d[1], d[2]>> /\ d[1] \in DOMAIN groups /\ d[2] \in groups[d[1]].raws
                   /\ d[1] \in Nat /\ d[2] \in Nat
  <2> SUFFICES ASSUME NEW d \in S
               PROVE  /\ d = <<d[1], d[2]>> /\ d[1] \in DOMAIN groups /\ d[2] \in groups[d[1]].raws
                      /\ d[1] \in Nat /\ d[2] \in Nat
    OBVIOUS
  <2>1. PICK g \in DOMAIN groups : \E raw \in groups[g].raws : d = <<g, raw>>
    BY DEF PlacesOf
  <2> QED BY <1>2, <2>1
<1>5. \A g \in DOMAIN groups : \A raw \in groups[g].raws : <<g, raw>> \in S
  BY DEF PlacesOf
<1>6. \A d, e \in S : <<d, e>> \in R <=> Before(d, e)
  OBVIOUS
<1> HIDE DEF S, R
<1>7. Orders(S, R)
  <2>1. \A x, y, z \in S : Before(x, y) /\ Before(y, z) => Before(x, z)
    BY <1>4
  <2>2. \A x, y \in S : x # y => Before(x, y) \/ Before(y, x)
    <3> SUFFICES ASSUME NEW x \in S, NEW y \in S, ~Before(x, y), ~Before(y, x) PROVE x = y
      OBVIOUS
    <3>1. x[1] = y[1] /\ x[2] = y[2]
      BY <1>4
    <3> QED BY <1>4, <3>1
  <2>3. \A x \in S : ~Before(x, x)
    BY <1>4
  <2> HIDE DEF Before
  <2> QED BY <1>6, <2>1, <2>2, <2>3 DEF Orders
<1> DEFINE In(list) == \A i, j \in DOMAIN list : i < j => Before(list[i], list[j])
<1>8. drawn = CHOOSE list \in [1 .. Cardinality(S) -> S] : In(list)
  BY DEF Drawn, InOrder, PlacesOf, S
<1>9. \A list \in [1 .. Cardinality(S) -> S] : In(list) <=> list \in Lists(S, R)
  <2> HIDE DEF Before
  <2> QED BY <1>6 DEF Lists
<1>10. \E list : list \in Lists(S, R)
  BY <1>3, <1>7, CanBeListed
<1>11. \E list \in [1 .. Cardinality(S) -> S] : In(list)
  <2> HIDE DEF In
  <2> QED BY <1>9, <1>10 DEF Lists
<1>12. drawn \in [1 .. Cardinality(S) -> S] /\ In(drawn)
  <2> HIDE DEF In
  <2> QED BY <1>8, <1>11
<1>13. /\ \A i, j \in 1 .. Cardinality(S) : drawn[i] = drawn[j] => i = j
       /\ \A x \in S : \E i \in 1 .. Cardinality(S) : drawn[i] = x
  <2>1. drawn \in Lists(S, R)
    BY <1>9, <1>12
  <2> QED BY <1>3, <1>7, <2>1, ListedOnce
<1>14. Cardinality(S) \in Nat
  BY <1>3, FS_CardinalityType
<1> DEFINE m == Cardinality(S)
<1>15. drawn \in [1 .. m -> S] /\ DOMAIN drawn = 1 .. m
  BY <1>12
<1>16. Len(drawn) = m
  <2> HIDE DEF m
  <2> QED BY <1>14, <1>15, FunctionIsList DEF m
<1>17. \A i \in DOMAIN drawn : drawn[i] \in S
  BY <1>15
<1>18. \A i, j \in DOMAIN drawn : drawn[i][2] = drawn[j][2] => i = j
  <2> SUFFICES ASSUME NEW i \in DOMAIN drawn, NEW j \in DOMAIN drawn, drawn[i][2] = drawn[j][2]
               PROVE  i = j
    OBVIOUS
  <2> DEFINE d == drawn[i]
             e == drawn[j]
  <2>1. d \in S /\ e \in S /\ d[2] = e[2]
    BY <1>17
  <2> HIDE DEF d, e, groups
  <2>2. d[1] = e[1]
    BY <1>1, <1>4, <2>1
  <2>3. d = e
    BY <1>4, <2>1, <2>2
  <2> QED BY <1>13, <1>15, <2>3 DEF d, e
<1>19. \A g \in DOMAIN groups : \A raw \in groups[g].raws :
         \E i \in DOMAIN drawn : drawn[i][1] = g /\ drawn[i][2] = raw
  <2> TAKE g \in DOMAIN groups
  <2> TAKE raw \in groups[g].raws
  <2>1. PICK i \in 1 .. m : drawn[i] = <<g, raw>>
    BY <1>5, <1>13
  <2> QED BY <1>15, <2>1
<1> QED BY <1>4, <1>14, <1>15, <1>16, <1>17, <1>18, <1>19

LEMMA FileFacts ==
  ASSUME NEW file, IsFile(file)
  PROVE  /\ Len(file.groups) \in Nat \ {0} /\ DOMAIN file.groups = 1 .. Len(file.groups)
         /\ file.groups # <<>>
         /\ \A g \in DOMAIN file.groups :
              /\ file.groups[g].type \in Types /\ file.groups[g].ids \in Seq(Nat)
              /\ file.groups[g].raws \in SUBSET Nat
         /\ Len(file.axes) \in Nat /\ DOMAIN file.axes = 1 .. Len(file.axes)
         /\ \A i \in DOMAIN file.axes :
              /\ file.axes[i].id \in Nat /\ file.axes[i].kind \in AxisKinds
              /\ file.axes[i].deleted \in BOOLEAN /\ file.axes[i].cross \in Nat
<1> DEFINE R == [type : Types, ids : Seq(Nat), raws : SUBSET Nat]
           A == [id : Nat, kind : AxisKinds, deleted : BOOLEAN, cross : Nat]
           groups == file.groups
           axes == file.axes
<1>1. groups \in Seq(R) /\ groups # <<>> /\ axes \in Seq(A)
  BY DEF IsFile
<1>2. \A r \in R : r.type \in Types /\ r.ids \in Seq(Nat) /\ r.raws \in SUBSET Nat
  OBVIOUS
<1>3. \A a \in A : a.id \in Nat /\ a.kind \in AxisKinds /\ a.deleted \in BOOLEAN /\ a.cross \in Nat
  OBVIOUS
<1> HIDE DEF R, A, groups, axes
<1>4. /\ Len(groups) \in Nat \ {0} /\ DOMAIN groups = 1 .. Len(groups)
      /\ \A g \in DOMAIN groups : groups[g] \in R
      /\ Len(axes) \in Nat /\ DOMAIN axes = 1 .. Len(axes)
      /\ \A i \in DOMAIN axes : axes[i] \in A
  BY <1>1
<1> QED BY <1>1, <1>2, <1>3, <1>4 DEF groups, axes

LEMMA TypesOfFacts ==
  ASSUME NEW file, IsFile(file)
  PROVE  TypesOf(file) \in Seq(Types) /\ Len(TypesOf(file)) = Len(file.groups)
<1> DEFINE n == Len(file.groups)
<1>1. n \in Nat /\ TypesOf(file) \in [1 .. n -> Types]
  BY FileFacts DEF TypesOf
<1> HIDE DEF n
<1> QED BY <1>1, FunctionIsList DEF n

LEMMA ReadAxes ==
  ASSUME NEW file, IsFile(file), NEW axes, axes = Read(file).axes
  PROVE  Proper(axes) /\ IdsOf(axes) = {file.axes[i].id : i \in DOMAIN file.axes}
<1> DEFINE n == Len(file.axes)
<1>1. /\ n \in Nat /\ DOMAIN file.axes = 1 .. n
      /\ \A i \in DOMAIN file.axes :
           /\ file.axes[i].id \in Nat /\ file.axes[i].kind \in AxisKinds
           /\ file.axes[i].deleted \in BOOLEAN /\ file.axes[i].cross \in Nat
  BY FileFacts
<1>2. axes = [i \in DOMAIN file.axes |->
                [id |-> file.axes[i].id, kind |-> file.axes[i].kind,
                 side |-> IF file.axes[i].id \in SecondaryIds(file)
                            THEN "Secondary" ELSE "Primary",
                 deleted |-> file.axes[i].deleted, cross |-> file.axes[i].cross]]
  BY DEF Read
<1>3. ASSUME NEW i \in 1 .. n
      PROVE  /\ axes[i] \in AxisRecord
             /\ axes[i].id = file.axes[i].id /\ axes[i].cross = file.axes[i].cross
  <2>1. axes[i] = [id |-> file.axes[i].id, kind |-> file.axes[i].kind,
                   side |-> IF file.axes[i].id \in SecondaryIds(file)
                              THEN "Secondary" ELSE "Primary",
                   deleted |-> file.axes[i].deleted, cross |-> file.axes[i].cross]
    BY <1>1, <1>2
  <2> DEFINE side == IF file.axes[i].id \in SecondaryIds(file) THEN "Secondary" ELSE "Primary"
  <2>2. side \in Sides
    BY DEF Sides
  <2>3. axes[i] = [id |-> file.axes[i].id, kind |-> file.axes[i].kind, side |-> side,
                   deleted |-> file.axes[i].deleted, cross |-> file.axes[i].cross]
    BY <2>1
  <2> HIDE DEF side
  <2> QED BY <1>1, <2>2, <2>3 DEF AxisRecord
<1>4. axes \in [1 .. n -> AxisRecord] /\ DOMAIN axes = 1 .. n
  <2>1. axes = [i \in 1 .. n |-> axes[i]]
    BY <1>1, <1>2
  <2> HIDE DEF n
  <2> QED BY <1>3, <2>1
<1>5. axes \in Seq(AxisRecord)
  <2> HIDE DEF n
  <2> QED BY <1>1, <1>4, FunctionIsList
<1>6. IdsOf(axes) = {file.axes[i].id : i \in DOMAIN file.axes}
  BY <1>1, <1>3, <1>4 DEF IdsOf
<1>7. Distinct(axes)
  BY <1>1, <1>3, <1>4 DEF Distinct, IsFile
<1>8. Crossed(axes)
  BY <1>1, <1>3, <1>4, <1>6 DEF Crossed, IsFile
<1> QED BY <1>5, <1>6, <1>7, <1>8 DEF Proper

LEMMA ReadGroups ==
  ASSUME NEW file, IsFile(file), NEW groups, groups = Read(file).groups
  PROVE  /\ GoodGroups(groups, Len(file.groups))
         /\ DOMAIN groups = DOMAIN file.groups /\ groups # <<>>
         /\ \A g \in DOMAIN groups :
              /\ groups[g].type = file.groups[g].type /\ groups[g].side = SideOf(file, g)
              /\ groups[g].ids = file.groups[g].ids /\ groups[g].raws = file.groups[g].raws
              /\ groups[g].loaded = g
<1> DEFINE n == Len(file.groups)
<1>1. /\ n \in Nat \ {0} /\ DOMAIN file.groups = 1 .. n
      /\ \A g \in DOMAIN file.groups :
           /\ file.groups[g].type \in Types /\ file.groups[g].ids \in Seq(Nat)
           /\ file.groups[g].raws \in SUBSET Nat
  BY FileFacts
<1>2. groups = [g \in DOMAIN file.groups |->
                 [type |-> file.groups[g].type, side |-> SideOf(file, g),
                  ids |-> file.groups[g].ids, raws |-> file.groups[g].raws,
                  loaded |-> g]]
  BY DEF Read
<1>3. ASSUME NEW g \in 1 .. n
      PROVE  /\ groups[g] \in GroupRecord
             /\ groups[g].type = file.groups[g].type /\ groups[g].side = SideOf(file, g)
             /\ groups[g].ids = file.groups[g].ids /\ groups[g].raws = file.groups[g].raws
             /\ groups[g].loaded = g
  <2>1. groups[g] = [type |-> file.groups[g].type, side |-> SideOf(file, g),
                     ids |-> file.groups[g].ids, raws |-> file.groups[g].raws, loaded |-> g]
    BY <1>1, <1>2
  <2>2. SideOf(file, g) \in Sides
    BY DEF SideOf, Sides
  <2>3. g \in Nat
    BY <1>1
  <2> QED BY <1>1, <2>1, <2>2, <2>3 DEF GroupRecord
<1>4. groups \in [1 .. n -> GroupRecord] /\ DOMAIN groups = 1 .. n
  <2>1. groups = [g \in 1 .. n |-> groups[g]]
    BY <1>1, <1>2
  <2> HIDE DEF n
  <2> QED BY <1>3, <2>1
<1>5. groups \in Seq(GroupRecord) /\ Len(groups) = n
  <2> HIDE DEF n
  <2> QED BY <1>1, <1>4, FunctionIsList
<1>6. \A g \in 1 .. n : groups[g].ids = <<>> => groups[g].side = "Primary"
  <2> SUFFICES ASSUME NEW g \in 1 .. n, groups[g].ids = <<>> PROVE groups[g].side = "Primary"
    OBVIOUS
  <2>1. file.groups[g].ids = <<>> /\ groups[g].side = SideOf(file, g)
    BY <1>3
  <2>2. Range(file.groups[g].ids) = {}
    BY <2>1 DEF Range
  <2> QED BY <2>1, <2>2 DEF SideOf
<1>7. LoadedInOrder(groups) /\ UnboundFromPart(groups) /\ FromPart(groups, n)
  BY <1>1, <1>3, <1>4, <1>6 DEF LoadedInOrder, UnboundFromPart, FromPart
<1>8. groups # <<>>
  BY <1>1, <1>5
<1> QED BY <1>1, <1>3, <1>4, <1>5, <1>7, <1>8 DEF GoodGroups

LEMMA ReadFacts ==
  ASSUME NEW file, IsFile(file), NEW c, c = Read(file)
  PROVE  Good(c, Len(file.groups)) /\ Tidy(c.groups, c.series)
<1> DEFINE n == Len(file.groups)
           drawn == Drawn(file)
           m == Len(drawn)
           series == [i \in DOMAIN drawn |->
                       [raw |-> drawn[i][2], side |-> SideOf(file, drawn[i][1])]]
           groups == c.groups
<1>1. /\ c = [type |-> file.groups[1].type, series |-> series, groups |-> groups,
              axes |-> c.axes, moved |-> FALSE]
      /\ groups = Read(file).groups /\ c.axes = Read(file).axes
  BY DEF Read
<1>2. /\ GoodGroups(groups, n) /\ DOMAIN groups = DOMAIN file.groups /\ groups # <<>>
      /\ \A g \in DOMAIN groups :
           /\ groups[g].side = SideOf(file, g)
           /\ groups[g].ids = file.groups[g].ids /\ groups[g].raws = file.groups[g].raws
  BY <1>1, ReadGroups
<1>3. Proper(c.axes) /\ IdsOf(c.axes) = {file.axes[i].id : i \in DOMAIN file.axes}
  BY <1>1, ReadAxes
<1>4. BoundTo(groups, c.axes)
  BY <1>2, <1>3 DEF BoundTo, IsFile
<1> HIDE DEF groups
<1>5. /\ m \in Nat /\ DOMAIN drawn = 1 .. m
      /\ \A i \in DOMAIN drawn : /\ drawn[i][1] \in DOMAIN file.groups
                                 /\ drawn[i][2] \in file.groups[drawn[i][1]].raws
                                 /\ drawn[i][2] \in Nat
      /\ \A i, j \in DOMAIN drawn : drawn[i][2] = drawn[j][2] => i = j
      /\ \A g \in DOMAIN file.groups : \A raw \in file.groups[g].raws :
           \E i \in DOMAIN drawn : drawn[i][1] = g /\ drawn[i][2] = raw
  BY DrawnFacts
<1> HIDE DEF drawn, m
<1>6. ASSUME NEW i \in 1 .. m
      PROVE  /\ series[i] \in SeriesRecord
             /\ series[i].raw = drawn[i][2] /\ series[i].side = SideOf(file, drawn[i][1])
  <2>1. SideOf(file, drawn[i][1]) \in Sides
    BY DEF SideOf, Sides
  <2>2. series[i] = [raw |-> drawn[i][2], side |-> SideOf(file, drawn[i][1])]
    BY <1>5
  <2> QED BY <1>5, <2>1, <2>2 DEF SeriesRecord
<1>7. series \in [1 .. m -> SeriesRecord] /\ DOMAIN series = 1 .. m
  <2>1. series = [i \in 1 .. m |-> series[i]] /\ DOMAIN series = 1 .. m
    BY <1>5
  <2> HIDE DEF series
  <2> QED BY <1>6, <2>1
<1> HIDE DEF series
<1>8. series \in Seq(SeriesRecord)
  BY <1>5, <1>7, FunctionIsList
<1>9. groups \in Seq(GroupRecord) /\ c.axes \in Seq(AxisRecord) /\ file.groups[1].type \in Types
  <2>1. 1 \in DOMAIN file.groups
    BY FileFacts
  <2> QED BY <1>2, <1>3, <2>1, FileFacts DEF GoodGroups, Proper
<1>10. c \in ChartRecord
  <2> DEFINE axes == c.axes
             type == file.groups[1].type
  <2>1. c = [type |-> type, series |-> series, groups |-> groups, axes |-> axes, moved |-> FALSE]
    BY <1>1
  <2>2. groups \in Seq(GroupRecord) /\ axes \in Seq(AxisRecord) /\ type \in Types
    BY <1>9
  <2> HIDE DEF axes, type
  <2> QED BY <1>8, <2>1, <2>2 DEF ChartRecord
<1>11. Good(c, n)
  BY <1>2, <1>3, <1>4, <1>10 DEF Good, groups
<1>12. Tidy(groups, series)
  <2>1. \A s, t \in DOMAIN series : series[s].raw = series[t].raw => s = t
    BY <1>5, <1>6, <1>7
  <2>2. \A s \in DOMAIN series : \E g \in DOMAIN groups : series[s].raw \in groups[g].raws
    <3> SUFFICES ASSUME NEW s \in 1 .. m
                 PROVE  \E g \in DOMAIN groups : series[s].raw \in groups[g].raws
      BY <1>7
    <3>1. drawn[s][1] \in DOMAIN groups /\ series[s].raw = drawn[s][2]
      BY <1>2, <1>5, <1>6
    <3>2. drawn[s][2] \in groups[drawn[s][1]].raws
      BY <1>2, <1>5, <3>1
    <3> QED BY <3>1, <3>2
  <2>3. \A g \in DOMAIN groups : \A raw \in groups[g].raws : \E s \in DOMAIN series : series[s].raw = raw
    BY SMTT(30), <1>2, <1>5, <1>6, <1>7
  <2>4. \A g, h \in DOMAIN groups : g # h => groups[g].raws \cap groups[h].raws = {}
    BY <1>2 DEF IsFile
  <2>5. \A g \in DOMAIN groups : \A s \in DOMAIN series :
          series[s].raw \in groups[g].raws => series[s].side = groups[g].side
    <3> SUFFICES ASSUME NEW g \in DOMAIN groups, NEW s \in DOMAIN series,
                        series[s].raw \in groups[g].raws
                 PROVE  series[s].side = groups[g].side
      OBVIOUS
    <3> DEFINE h == drawn[s][1]
    <3>1. /\ h \in DOMAIN groups /\ series[s].raw \in groups[h].raws
          /\ series[s].side = groups[h].side
      BY <1>2, <1>5, <1>6, <1>7
    <3> HIDE DEF h
    <3>2. h = g
      BY <2>4, <3>1
    <3> QED BY <3>1, <3>2
  <2> QED BY <1>2, <2>1, <2>2, <2>3, <2>4, <2>5 DEF Tidy
<1>13. c.series = series /\ c.groups = groups
  BY <1>1 DEF groups
<1> QED BY <1>11, <1>12, <1>13

LEMMA WrittenIsFile ==
  ASSUME NEW c, Good(c, Len(part)), part \in Seq(Types), Stable(c)
  PROVE  IsFile(AsFile(c))
<1> DEFINE file == AsFile(c)
<1>1. /\ Len(file.groups) = Len(c.groups) /\ DOMAIN file.groups = DOMAIN c.groups
      /\ file.groups \in Seq([type : Types, ids : Seq(Nat), raws : SUBSET Nat])
      /\ \A g \in DOMAIN c.groups : /\ file.groups[g].ids = c.groups[g].ids
                                    /\ file.groups[g].raws = c.groups[g].raws
      /\ DOMAIN file.axes = DOMAIN c.axes
      /\ file.axes \in Seq([id : Nat, kind : AxisKinds, deleted : BOOLEAN, cross : Nat])
      /\ \A i \in DOMAIN c.axes : /\ file.axes[i].id = c.axes[i].id
                                  /\ file.axes[i].cross = c.axes[i].cross
  BY AsFileFacts
<1> HIDE DEF file
<1>2. Tidy(c.groups, c.series)
  BY GoodFacts, StableIsTidy
<1>3. file.groups # <<>>
  <2>1. c.groups \in Seq(GroupRecord) /\ c.groups # <<>>
    BY <1>2, GoodFacts DEF Tidy
  <2>2. Len(c.groups) # 0
    BY <2>1
  <2> QED BY <1>1, <2>2
<1>4. {file.axes[i].id : i \in DOMAIN file.axes} = IdsOf(c.axes)
  BY <1>1 DEF IdsOf
<1>5. \A i, j \in DOMAIN file.axes : file.axes[i].id = file.axes[j].id => i = j
  BY <1>1 DEF Good, Proper, Distinct
<1>6. \A i \in DOMAIN file.axes : file.axes[i].cross \in {0} \cup IdsOf(c.axes)
  BY <1>1 DEF Good, Proper, Crossed
<1>7. \A g \in DOMAIN file.groups : Range(file.groups[g].ids) \subseteq IdsOf(c.axes)
  BY <1>1 DEF Good, BoundTo
<1>8. \A g \in DOMAIN file.groups : IsFiniteSet(file.groups[g].raws)
  <2> DEFINE n == Len(c.series)
             f == [s \in 1 .. n |-> c.series[s].raw]
             T == {f[s] : s \in 1 .. n}
  <2>1. n \in Nat /\ DOMAIN c.series = 1 .. n
    BY GoodFacts
  <2>2. \A g \in DOMAIN c.groups : c.groups[g].raws \subseteq T
    BY <1>2, <2>1 DEF Tidy
  <2>3. IsFiniteSet(T)
    <3>1. DOMAIN f = 1 .. n /\ f = [s \in 1 .. n |-> f[s]]
      OBVIOUS
    <3> HIDE DEF f, n
    <3> QED BY <2>1, <3>1, ImageFacts
  <2> HIDE DEF T
  <2> QED BY <1>1, <2>2, <2>3, FS_Subset
<1>9. \A g \in DOMAIN file.groups : \A h \in DOMAIN file.groups \ {g} :
        file.groups[g].raws \cap file.groups[h].raws = {}
  BY ZenonT(60), <1>1, <1>2 DEF Tidy
<1> HIDE DEF file
<1>10. IsFile(file)
  BY <1>1, <1>3, <1>4, <1>5, <1>6, <1>7, <1>8, <1>9 DEF IsFile
<1> QED BY <1>10 DEF file

(* A save numbers the groups by their places.                              *)
LEMMA RenumberedFacts ==
  ASSUME NEW c, NEW last, Good(c, last), NEW d, d = Renumbered(c)
  PROVE  /\ Good(d, Len(c.groups))
         /\ d.series = c.series /\ d.axes = c.axes /\ DOMAIN d.groups = DOMAIN c.groups
         /\ \A g \in DOMAIN c.groups :
              d.groups[g].type = c.groups[g].type /\ d.groups[g].raws = c.groups[g].raws
         /\ \A series : Tidy(c.groups, series) => Tidy(d.groups, series)
<1> DEFINE n == Len(c.groups)
           groups == [g \in DOMAIN c.groups |-> [c.groups[g] EXCEPT !.loaded = g]]
<1>1. /\ n \in Nat /\ DOMAIN c.groups = 1 .. n /\ c.groups \in Seq(GroupRecord)
      /\ \A g \in DOMAIN c.groups : c.groups[g] \in GroupRecord
      /\ c \in ChartRecord
  BY GoodFacts DEF Good
<1>2. d = [c EXCEPT !.moved = FALSE, !.groups = groups]
  BY <1>1 DEF Renumbered, ChartRecord
<1>3. ASSUME NEW g \in 1 .. n
      PROVE  /\ groups[g] \in GroupRecord /\ groups[g].loaded = g
             /\ groups[g].type = c.groups[g].type /\ groups[g].side = c.groups[g].side
             /\ groups[g].ids = c.groups[g].ids /\ groups[g].raws = c.groups[g].raws
  <2>1. groups[g] = [c.groups[g] EXCEPT !.loaded = g] /\ c.groups[g] \in GroupRecord /\ g \in Nat
    BY <1>1
  <2> HIDE DEF groups
  <2> QED BY <2>1 DEF GroupRecord
<1>4. groups \in [1 .. n -> GroupRecord] /\ DOMAIN groups = 1 .. n
  BY <1>1, <1>3
<1> HIDE DEF groups
<1>5. groups \in Seq(GroupRecord) /\ Len(groups) = n
  <2> HIDE DEF n
  <2> QED BY <1>1, <1>4, FunctionIsList
<1>6. /\ d.groups = groups /\ d.series = c.series /\ d.axes = c.axes /\ d \in ChartRecord
  BY <1>1, <1>2, <1>5 DEF ChartRecord
<1>7. GoodGroups(groups, n)
  <2>1. LoadedInOrder(groups) /\ FromPart(groups, n)
    BY <1>1, <1>3, <1>4 DEF LoadedInOrder, FromPart
  <2>2. UnboundFromPart(groups)
    BY <1>1, <1>3, <1>4 DEF UnboundFromPart, Good, GoodGroups
  <2> QED BY <1>5, <2>1, <2>2 DEF GoodGroups
<1>8. BoundTo(groups, c.axes)
  BY <1>1, <1>3, <1>4 DEF BoundTo, Good
<1>9. Good(d, n)
  BY <1>6, <1>7, <1>8 DEF Good
<1>10. ASSUME NEW series, Tidy(c.groups, series) PROVE Tidy(groups, series)
  <2>1. groups # <<>>
    BY <1>1, <1>5, <1>10 DEF Tidy
  <2>2. DOMAIN groups = DOMAIN c.groups
        /\ \A g \in DOMAIN c.groups : groups[g].side = c.groups[g].side /\ groups[g].raws = c.groups[g].raws
    BY <1>1, <1>3, <1>4
  <2> QED BY <1>10, <2>1, <2>2, TidyAlike
<1> QED BY <1>1, <1>3, <1>4, <1>6, <1>9, <1>10

-----------------------------------------------------------------------------
(* The operations. Those that change only series and axes.                 *)
LEMMA SeriesAndAxes ==
  ASSUME NEW c, NEW last, Good(c, last), NEW d \in ChartRecord, d.groups = c.groups,
         Proper(d.axes), IdsOf(c.axes) \subseteq IdsOf(d.axes)
  PROVE  Good(d, last)
<1>1. BoundTo(d.groups, d.axes)
  BY DEF BoundTo, Good
<1> QED BY <1>1 DEF Good

(* The series of one group change, and its places do not.                  *)
WithRaws(groups, g, raws) == [groups EXCEPT ![g].raws = raws]

LEMMA RawsReplaced ==
  ASSUME NEW groups, NEW last, GoodGroups(groups, last), NEW g \in DOMAIN groups,
         NEW axes, BoundTo(groups, axes),
         NEW raws \in SUBSET Nat, NEW other, other = WithRaws(groups, g, raws)
  PROVE  /\ GoodGroups(other, last) /\ DOMAIN other = DOMAIN groups
         /\ BoundTo(other, axes)
         /\ other[g].raws = raws
         /\ \A h \in DOMAIN groups : h # g => other[h] = groups[h]
         /\ \A h \in DOMAIN groups :
              /\ other[h].type = groups[h].type /\ other[h].side = groups[h].side
              /\ other[h].ids = groups[h].ids /\ other[h].loaded = groups[h].loaded
<1>1. groups \in Seq(GroupRecord)
  BY DEF GoodGroups
<1>2. \A h \in DOMAIN groups : groups[h] \in GroupRecord
  BY <1>1
<1>3. /\ DOMAIN other = DOMAIN groups
      /\ other[g] = [groups[g] EXCEPT !.raws = raws]
      /\ \A h \in DOMAIN groups : h # g => other[h] = groups[h]
  BY <1>1 DEF WithRaws
<1>4. /\ other[g] \in GroupRecord /\ other[g].raws = raws
      /\ other[g].type = groups[g].type /\ other[g].side = groups[g].side
      /\ other[g].ids = groups[g].ids /\ other[g].loaded = groups[g].loaded
  BY <1>2, <1>3 DEF GroupRecord
<1>5. other \in Seq(GroupRecord)
  BY <1>1, <1>4 DEF WithRaws
<1>6. \A h \in DOMAIN groups :
        /\ other[h].type = groups[h].type /\ other[h].side = groups[h].side
        /\ other[h].ids = groups[h].ids /\ other[h].loaded = groups[h].loaded
  BY <1>3, <1>4
<1>7. GoodGroups(other, last)
  BY <1>3, <1>5, <1>6, GroupsAlike
<1>8. BoundTo(other, axes)
  BY <1>3, <1>6 DEF BoundTo
<1> QED BY <1>3, <1>4, <1>6, <1>7, <1>8

LEMMA NextRawFacts ==
  ASSUME chart.series \in Seq(SeriesRecord)
  PROVE  NextRaw \in Nat /\ \A s \in DOMAIN chart.series : chart.series[s].raw # NextRaw
<1> DEFINE n == Len(chart.series)
           f == [s \in 1 .. n |-> chart.series[s].raw]
<1>1. n \in Nat /\ DOMAIN chart.series = 1 .. n
      /\ \A s \in DOMAIN chart.series : chart.series[s] \in SeriesRecord
  OBVIOUS
<1>2. \A s \in DOMAIN chart.series : chart.series[s].raw \in Nat
  BY <1>1 DEF SeriesRecord
<1>3. CASE chart.series = <<>>
  BY <1>3 DEF NextRaw
<1>4. CASE chart.series # <<>>
  <2>1. RawsOf(chart) = {f[s] : s \in 1 .. n} /\ DOMAIN f = 1 .. n /\ f = [s \in 1 .. n |-> f[s]]
    BY <1>1 DEF RawsOf
  <2>2. n # 0
    BY <1>4
  <2> HIDE DEF f, n
  <2>3. IsFiniteSet(RawsOf(chart))
    BY <1>1, <2>1, ImageFacts
  <2>4. RawsOf(chart) # {} /\ RawsOf(chart) \subseteq Nat
    BY <1>1, <1>2, <2>2 DEF RawsOf
  <2>5. Max(RawsOf(chart)) \in Nat /\ \A x \in RawsOf(chart) : x <= Max(RawsOf(chart))
    BY <2>3, <2>4, GreatestPlace
  <2>6. NextRaw = Max(RawsOf(chart)) + 1
    BY <1>4 DEF NextRaw
  <2>7. \A s \in DOMAIN chart.series : chart.series[s].raw \in RawsOf(chart)
    BY DEF RawsOf
  <2> QED BY <1>2, <2>5, <2>6, <2>7
<1> QED BY <1>3, <1>4

-----------------------------------------------------------------------------
(* A series comes, a series goes, a series changes its group.              *)
SameSeries(c, d) ==
  \A s \in DOMAIN c.series : s \in DOMAIN d.series /\ d.series[s].raw = c.series[s].raw
SameGroups(c, d) ==
  \A g \in DOMAIN c.groups : /\ g \in DOMAIN d.groups
                             /\ d.groups[g].type = c.groups[g].type
                             /\ d.groups[g].loaded = c.groups[g].loaded

LEMMA SeriesAdded ==
  ASSUME NEW series \in Seq(SeriesRecord), NEW e \in SeriesRecord
  PROVE  /\ Append(series, e) \in Seq(SeriesRecord)
         /\ Len(series) \in Nat /\ DOMAIN series = 1 .. Len(series)
         /\ DOMAIN Append(series, e) = DOMAIN series \cup {Len(series) + 1}
         /\ Len(series) + 1 \notin DOMAIN series
         /\ \A s \in DOMAIN series : Append(series, e)[s] = series[s]
         /\ Append(series, e)[Len(series) + 1] = e
OBVIOUS

LEMMA TidyWithOneMore ==
  ASSUME NEW groups, NEW series \in Seq(SeriesRecord), Tidy(groups, series),
         NEW e \in SeriesRecord, \A s \in DOMAIN series : series[s].raw # e.raw,
         NEW g \in DOMAIN groups, e.side = groups[g].side,
         NEW other, other # <<>>, DOMAIN other = DOMAIN groups,
         other[g].raws = groups[g].raws \cup {e.raw}, other[g].side = groups[g].side,
         \A h \in DOMAIN groups : h # g => other[h] = groups[h]
  PROVE  Tidy(other, Append(series, e))
<1> DEFINE more == Append(series, e)
           n == Len(series) + 1
<1>1. /\ DOMAIN more = DOMAIN series \cup {n} /\ n \notin DOMAIN series
      /\ \A s \in DOMAIN series : more[s] = series[s]
      /\ more[n] = e
  BY SeriesAdded
<1> HIDE DEF more, n
<1>2. \A h \in DOMAIN groups : e.raw \notin groups[h].raws
  BY DEF Tidy
<1>3. \A h \in DOMAIN groups : other[h].side = groups[h].side
  OBVIOUS
<1>4. \A s, t \in DOMAIN more : more[s].raw = more[t].raw => s = t
  BY <1>1 DEF Tidy
<1>5. \A s \in DOMAIN more : \E h \in DOMAIN other : more[s].raw \in other[h].raws
  <2> TAKE s \in DOMAIN more
  <2>1. CASE s = n
    BY <1>1, <2>1
  <2>2. CASE s \in DOMAIN series
    <3>1. PICK h \in DOMAIN groups : series[s].raw \in groups[h].raws
      BY <2>2 DEF Tidy
    <3>2. series[s].raw \in other[h].raws
      BY <3>1
    <3> QED BY <1>1, <2>2, <3>2
  <2> QED BY <1>1, <2>1, <2>2
<1>6. \A h \in DOMAIN other : \A raw \in other[h].raws : \E s \in DOMAIN more : more[s].raw = raw
  <2> SUFFICES ASSUME NEW h \in DOMAIN other, NEW raw \in other[h].raws
               PROVE  \E s \in DOMAIN more : more[s].raw = raw
    OBVIOUS
  <2>1. CASE raw = e.raw
    BY <1>1, <2>1
  <2>2. CASE raw # e.raw
    <3>1. raw \in groups[h].raws
      BY <2>2
    <3>2. PICK s \in DOMAIN series : series[s].raw = raw
      BY <3>1 DEF Tidy
    <3> QED BY <1>1, <3>2
  <2> QED BY <2>1, <2>2
<1>7. \A h \in DOMAIN other : \A s \in DOMAIN more :
        more[s].raw \in other[h].raws => more[s].side = other[h].side
  <2> SUFFICES ASSUME NEW h \in DOMAIN other, NEW s \in DOMAIN more, more[s].raw \in other[h].raws
               PROVE  more[s].side = other[h].side
    OBVIOUS
  <2>1. CASE s = n
    <3>1. h = g
      BY <1>1, <1>2, <2>1
    <3> QED BY <1>1, <2>1, <3>1
  <2>2. CASE s \in DOMAIN series
    <3>1. series[s].raw \in groups[h].raws
      BY <1>1, <2>2
    <3> QED BY <1>1, <1>3, <2>2, <3>1 DEF Tidy
  <2> QED BY <1>1, <2>1, <2>2
<1>8. \A h, k \in DOMAIN other : h # k => other[h].raws \cap other[k].raws = {}
  BY <1>2 DEF Tidy
<1> QED BY <1>4, <1>5, <1>6, <1>7, <1>8 DEF Tidy, more

LEMMA NotEmpty ==
  ASSUME NEW groups \in Seq(GroupRecord)
  PROVE  groups # <<>> <=> DOMAIN groups # {}
<1>1. Len(groups) \in Nat /\ DOMAIN groups = 1 .. Len(groups)
  OBVIOUS
<1>2. CASE Len(groups) = 0
  BY <1>1, <1>2
<1>3. CASE Len(groups) # 0
  <2>1. 1 \in DOMAIN groups
    BY <1>1, <1>3
  <2> QED BY <2>1
<1> QED BY <1>2, <1>3

LEMMA InsertKeeps ==
  ASSUME NEW last, Good(chart, last), Stable(chart), NEW g \in DOMAIN chart.groups,
         NEW side, side = chart.groups[g].side, InsertInto(g, side)
  PROVE  /\ Good(chart', last) /\ Tidy(chart'.groups, chart'.series)
         /\ SameSeries(chart, chart') /\ SameGroups(chart, chart') /\ chart'.axes = chart.axes
<1> DEFINE e == [raw |-> NextRaw, side |-> side]
           more == Append(chart.series, e)
           raws == chart.groups[g].raws \cup {NextRaw}
           other == WithRaws(chart.groups, g, raws)
<1>1. /\ chart.series \in Seq(SeriesRecord) /\ chart.groups[g].raws \in SUBSET Nat
      /\ chart.groups[g].side \in Sides /\ chart.groups \in Seq(GroupRecord)
  BY GoodFacts
<1>2. /\ chart \in ChartRecord /\ GoodGroups(chart.groups, last) /\ BoundTo(chart.groups, chart.axes)
  BY DEF Good
<1>3. Tidy(chart.groups, chart.series)
  BY <1>1, StableIsTidy
<1>4. NextRaw \in Nat /\ \A s \in DOMAIN chart.series : chart.series[s].raw # NextRaw
  BY <1>1, NextRawFacts
<1>5. chart' = [chart EXCEPT !.series = more, !.groups = other, !.moved = TRUE]
  BY <1>1, <1>2 DEF InsertInto, ChartRecord, WithRaws
<1>6. e \in SeriesRecord /\ e.raw = NextRaw /\ e.side = side /\ raws \in SUBSET Nat
  BY <1>1, <1>4 DEF SeriesRecord
<1> HIDE DEF e
<1>7. /\ more \in Seq(SeriesRecord)
      /\ \A s \in DOMAIN chart.series : s \in DOMAIN more /\ more[s] = chart.series[s]
  BY <1>1, <1>6, SeriesAdded
<1>8. /\ GoodGroups(other, last) /\ DOMAIN other = DOMAIN chart.groups
      /\ BoundTo(other, chart.axes)
      /\ other[g].raws = raws
      /\ \A h \in DOMAIN chart.groups : h # g => other[h] = chart.groups[h]
      /\ \A h \in DOMAIN chart.groups :
           /\ other[h].type = chart.groups[h].type /\ other[h].side = chart.groups[h].side
           /\ other[h].ids = chart.groups[h].ids /\ other[h].loaded = chart.groups[h].loaded
  <2>1. raws \in SUBSET Nat /\ other = WithRaws(chart.groups, g, raws)
    BY <1>6
  <2> HIDE DEF raws, other
  <2> QED BY <1>2, <2>1, RawsReplaced
<1> HIDE DEF other
<1>9. other # <<>>
  BY <1>8, NotEmpty DEF GoodGroups
<1>10. Tidy(other, more)
  <2>1. /\ \A s \in DOMAIN chart.series : chart.series[s].raw # e.raw
        /\ e.side = chart.groups[g].side
        /\ other[g].raws = chart.groups[g].raws \cup {e.raw}
        /\ other[g].side = chart.groups[g].side
    BY <1>4, <1>6, <1>8
  <2> HIDE DEF raws
  <2> QED BY SMTT(30), <1>1, <1>3, <1>6, <1>8, <1>9, <2>1, TidyWithOneMore
<1> HIDE DEF more
<1>11. /\ chart' \in ChartRecord /\ chart'.groups = other /\ chart'.series = more
       /\ chart'.axes = chart.axes
  <2>1. other \in Seq(GroupRecord)
    BY <1>8 DEF GoodGroups
  <2> QED BY <1>2, <1>5, <1>7, <2>1 DEF ChartRecord
<1>12. Good(chart', last)
  BY <1>8, <1>11 DEF Good
<1> QED BY <1>7, <1>8, <1>10, <1>11, <1>12 DEF SameSeries, SameGroups

-----------------------------------------------------------------------------
(* What a step leaves behind: a good chart, handles that denote what they   *)
(* did, and, where it may not lose it, the partition.                      *)
HandlesHold ==
  /\ "Series" \notin retired' => SameSeries(chart, chart')
  /\ "Axis" \notin retired' => chart'.axes = chart.axes
  /\ "Group" \notin retired' /\ Stable(chart) /\ Stable(chart') => SameGroups(chart, chart')

LEMMA ValueAxisFacts ==
  ASSUME NEW last, Good(chart, last), NEW side \in Sides, NEW axes, axes = WithValueAxis(side)
  PROVE  Proper(axes) /\ IdsOf(chart.axes) \subseteq IdsOf(axes)
<1>1. Proper(chart.axes)
  BY DEF Good
<1>2. CASE side = "Primary"
  BY <1>1, <1>2 DEF WithValueAxis
<1>3. CASE side # "Primary"
  <2>1. axes = WithPresence(chart.axes, "Value", side, TRUE)
    BY <1>3 DEF WithValueAxis
  <2>2. "Value" \in AxisKinds /\ TRUE \in BOOLEAN
    BY DEF AxisKinds
  <2> QED BY <1>1, <2>1, <2>2, PresenceFacts
<1> QED BY <1>2, <1>3

LEMMA RetiredFacts ==
  ASSUME NEW groupsChanged \in BOOLEAN, NEW axesChanged \in BOOLEAN, NEW others,
         RetiresIf(groupsChanged, axesChanged, others)
  PROVE  /\ groupsChanged => "Group" \in retired'
         /\ axesChanged => "Axis" \in retired'
         /\ \A kind \in others : kind \in retired'
BY DEF RetiresIf, Retires

LEMMA NewSeriesOfSideKeeps ==
  ASSUME NEW last, Good(chart, last), NEW side \in Sides, NewSeriesOfSide(side)
  PROVE  Good(chart', last) /\ HandlesHold /\ chart'.groups = <<>>
<1> DEFINE axes == WithValueAxis(side)
           e == [raw |-> NextRaw, side |-> side]
           more == Append(chart.series, e)
<1>1. /\ chart.groups = <<>> /\ chart' = [chart EXCEPT !.series = more, !.axes = axes]
      /\ RetiresIf(FALSE, axes # chart.axes, {})
  BY DEF NewSeriesOfSide, Good, ChartRecord
<1>2. Proper(axes) /\ IdsOf(chart.axes) \subseteq IdsOf(axes)
  BY ValueAxisFacts
<1>3. chart.series \in Seq(SeriesRecord)
  BY GoodFacts
<1>4. e \in SeriesRecord
  BY <1>3, NextRawFacts DEF SeriesRecord
<1> HIDE DEF e, axes
<1>5. more \in Seq(SeriesRecord)
      /\ \A s \in DOMAIN chart.series : s \in DOMAIN more /\ more[s] = chart.series[s]
  BY <1>3, <1>4, SeriesAdded
<1> HIDE DEF more
<1>6. /\ Good(chart', last) /\ chart'.groups = chart.groups /\ chart'.series = more
      /\ chart'.axes = axes
  <2>1. chart \in ChartRecord /\ axes \in Seq(AxisRecord)
    BY <1>2 DEF Good, Proper
  <2>2. /\ chart' \in ChartRecord /\ chart'.groups = chart.groups /\ chart'.series = more
        /\ chart'.axes = axes
    BY <1>1, <1>5, <2>1 DEF ChartRecord
  <2> QED BY <1>2, <2>2, SeriesAndAxes
<1>7. "Axis" \notin retired' => axes = chart.axes
  BY <1>1 DEF RetiresIf, Retires
<1>8. ~Stable(chart)
  BY <1>1 DEF Stable
<1> QED BY <1>1, <1>5, <1>6, <1>7, <1>8 DEF HandlesHold, SameSeries

(* A list of series of which some are on other sides.                      *)
Resided(series, other) ==
  /\ DOMAIN other = DOMAIN series /\ other = [s \in DOMAIN series |-> other[s]]
  /\ \A s \in DOMAIN series :
       other[s] = series[s] \/ \E side \in Sides : other[s] = [series[s] EXCEPT !.side = side]

LEMMA OtherSides ==
  ASSUME NEW series \in Seq(SeriesRecord), NEW other, Resided(series, other)
  PROVE  /\ other \in Seq(SeriesRecord)
         /\ \A s \in DOMAIN series : other[s].raw = series[s].raw
<1>1. Len(series) \in Nat /\ DOMAIN series = 1 .. Len(series)
      /\ \A s \in DOMAIN series : series[s] \in SeriesRecord
  OBVIOUS
<1>2. \A s \in DOMAIN series : other[s] \in SeriesRecord /\ other[s].raw = series[s].raw
  BY <1>1 DEF SeriesRecord, Resided
<1>3. other \in [1 .. Len(series) -> SeriesRecord]
  BY <1>1, <1>2 DEF Resided
<1> QED BY <1>1, <1>2, <1>3, FunctionIsList

LEMMA MarkSeriesKeeps ==
  ASSUME NEW last, Good(chart, last), NEW s \in DOMAIN chart.series, NEW side \in Sides,
         MarkSeries(s, side)
  PROVE  Good(chart', last) /\ HandlesHold
<1> DEFINE axes == WithValueAxis(side)
           other == [chart.series EXCEPT ![s].side = side]
<1>1. chart' = [chart EXCEPT !.series = other, !.axes = axes]
      /\ RetiresIf(FALSE, axes # chart.axes, {})
  BY DEF MarkSeries, Good, ChartRecord
<1>2. Proper(axes) /\ IdsOf(chart.axes) \subseteq IdsOf(axes)
  BY ValueAxisFacts
<1>3. chart.series \in Seq(SeriesRecord)
  BY GoodFacts
<1>4. Resided(chart.series, other) /\ DOMAIN other = DOMAIN chart.series
  BY <1>3 DEF Resided
<1> HIDE DEF other, axes
<1>5. other \in Seq(SeriesRecord)
      /\ \A t \in DOMAIN chart.series : other[t].raw = chart.series[t].raw
  BY <1>3, <1>4, OtherSides
<1>6. /\ Good(chart', last) /\ chart'.groups = chart.groups /\ chart'.series = other
      /\ chart'.axes = axes
  <2>1. chart \in ChartRecord /\ axes \in Seq(AxisRecord)
    BY <1>2 DEF Good, Proper
  <2>2. /\ chart' \in ChartRecord /\ chart'.groups = chart.groups /\ chart'.series = other
        /\ chart'.axes = axes
    BY <1>1, <1>5, <2>1 DEF ChartRecord
  <2> QED BY <1>2, <2>2, SeriesAndAxes
<1>7. "Axis" \notin retired' => axes = chart.axes
  BY <1>1 DEF RetiresIf, Retires
<1> QED BY <1>4, <1>5, <1>6, <1>7 DEF HandlesHold, SameSeries, SameGroups

LEMMA ReplaceSeriesKeeps ==
  ASSUME NEW last, Good(chart, last), NEW n \in Nat, ReplaceSeries(n)
  PROVE  Good(chart', last) /\ HandlesHold
<1> DEFINE series == [s \in 1 .. n |-> [raw |-> s - 1, side |-> "Primary"]]
<1>1. \A s \in 1 .. n : series[s] \in SeriesRecord
  BY DEF SeriesRecord, Sides
<1>2. series \in [1 .. n -> SeriesRecord]
  BY <1>1
<1>3. chart' = [chart EXCEPT !.series = series] /\ retired' = {"Series"}
  BY DEF ReplaceSeries, Retires
<1> HIDE DEF series
<1>4. series \in Seq(SeriesRecord)
  BY <1>2, FunctionIsList
<1>5. chart \in ChartRecord
  BY DEF Good
<1>6. /\ chart' \in ChartRecord /\ chart'.groups = chart.groups /\ chart'.axes = chart.axes
  BY <1>3, <1>4, <1>5 DEF ChartRecord
<1>7. Good(chart', last)
  BY <1>6 DEF Good
<1> QED BY <1>3, <1>6, <1>7 DEF HandlesHold, SameGroups

(* Axes that come, go or are hidden on their own.                          *)
LEMMA AxesKeep ==
  ASSUME NEW last, Good(chart, last), NEW axes, Proper(axes), IdsOf(chart.axes) \subseteq IdsOf(axes),
         chart' = [chart EXCEPT !.axes = axes], "Axis" \in retired'
  PROVE  Good(chart', last) /\ HandlesHold /\ (Stable(chart) => Stable(chart'))
<1>1. chart \in ChartRecord /\ axes \in Seq(AxisRecord)
      /\ GoodGroups(chart.groups, last) /\ BoundTo(chart.groups, chart.axes)
  BY DEF Good, Proper
<1>2. /\ chart' \in ChartRecord /\ chart'.groups = chart.groups /\ chart'.series = chart.series
      /\ chart'.axes = axes
  BY <1>1 DEF ChartRecord
<1>3. BoundTo(chart.groups, axes)
  BY <1>1 DEF BoundTo
<1>4. Good(chart', last)
  BY <1>1, <1>2, <1>3 DEF Good
<1>5. chart.series \in Seq(SeriesRecord) /\ chart'.series \in Seq(SeriesRecord)
  BY <1>2, GoodFacts
<1>6. Stable(chart) => Stable(chart')
  BY <1>2, <1>5, StableIsTidy
<1> QED BY <1>2, <1>4, <1>6 DEF HandlesHold, SameSeries, SameGroups

LEMMA SetHasAxisKeeps ==
  ASSUME NEW last, Good(chart, last), NEW kind \in AxisKinds, NEW side \in Sides,
         NEW present \in BOOLEAN, SetHasAxis(kind, side, present)
  PROVE  Good(chart', last) /\ HandlesHold /\ (Stable(chart) => Stable(chart'))
<1> DEFINE axes == WithPresence(chart.axes, kind, side, present)
<1>1. chart' = [chart EXCEPT !.axes = axes] /\ "Axis" \in retired'
  BY DEF SetHasAxis, Retires
<1>2. Proper(chart.axes)
  BY DEF Good
<1>3. Proper(axes) /\ IdsOf(chart.axes) \subseteq IdsOf(axes)
  BY <1>2, PresenceFacts
<1> HIDE DEF axes
<1> QED BY <1>1, <1>3, AxesKeep

LEMMA DeleteAxisKeeps ==
  ASSUME NEW last, Good(chart, last), NEW i \in DOMAIN chart.axes, DeleteAxis(i)
  PROVE  Good(chart', last) /\ HandlesHold /\ (Stable(chart) => Stable(chart'))
<1> DEFINE axes == [chart.axes EXCEPT ![i].deleted = TRUE]
           old == chart.axes
<1>1. chart' = [chart EXCEPT !.axes = axes] /\ "Axis" \in retired'
  BY DEF DeleteAxis, Retires
<1>2. Proper(old) /\ old \in Seq(AxisRecord)
  BY DEF Good, Proper
<1>3. /\ DOMAIN axes = DOMAIN old /\ axes = [j \in DOMAIN old |-> axes[j]]
      /\ \A j \in DOMAIN old : \/ axes[j] = old[j]
                               \/ \E b \in BOOLEAN : axes[j] = [old[j] EXCEPT !.deleted = b]
  BY <1>2
<1> HIDE DEF axes, old
<1>4. Proper(axes) /\ SameAxes(old, axes)
  BY <1>2, <1>3, HiddenFacts
<1>5. IdsOf(chart.axes) \subseteq IdsOf(axes)
  BY <1>4, SameIds DEF old
<1> QED BY <1>1, <1>4, <1>5, AxesKeep

LEMMA SetChartTypeKeeps ==
  ASSUME NEW last, Good(chart, last), NEW type \in Types, SetChartType(type)
  PROVE  Good(chart', last) /\ HandlesHold /\ chart'.groups = <<>>
<1> DEFINE axes == IF type \notin HasAxes THEN <<>>
                   ELSE IF chart.axes = <<>> THEN DefaultAxes ELSE chart.axes
<1>1. chart' = [chart EXCEPT !.type = type, !.groups = <<>>, !.axes = axes, !.moved = FALSE]
      /\ RetiresIf(FALSE, axes # chart.axes, {})
  BY DEF SetChartType
<1>2. Proper(<<>>)
  BY DEF Proper, Distinct, Crossed
<1>3. Proper(axes)
  BY <1>2, DefaultAxesFacts DEF Good
<1> HIDE DEF axes
<1>4. chart \in ChartRecord /\ axes \in Seq(AxisRecord)
  BY <1>3 DEF Good, Proper
<1>5. /\ chart' \in ChartRecord /\ chart'.groups = <<>> /\ chart'.series = chart.series
      /\ chart'.axes = axes
  <2> DEFINE none == <<>>
  <2>1. none \in Seq(GroupRecord)
    OBVIOUS
  <2>2. chart' = [chart EXCEPT !.type = type, !.groups = none, !.axes = axes, !.moved = FALSE]
    BY <1>1
  <2> HIDE DEF none
  <2>3. /\ chart' \in ChartRecord /\ chart'.groups = none /\ chart'.series = chart.series
        /\ chart'.axes = axes
    BY <1>4, <2>1, <2>2 DEF ChartRecord
  <2> QED BY <2>3 DEF none
<1>6. GoodGroups(<<>>, last) /\ BoundTo(<<>>, axes)
  BY DEF GoodGroups, BoundTo, LoadedInOrder, UnboundFromPart, FromPart
<1>7. Good(chart', last)
  BY <1>3, <1>5, <1>6 DEF Good
<1>8. ~Stable(chart')
  BY <1>5 DEF Stable
<1>9. "Axis" \notin retired' => axes = chart.axes
  BY <1>1 DEF RetiresIf, Retires
<1> QED BY <1>5, <1>7, <1>8, <1>9 DEF HandlesHold, SameSeries

(* Series that all go, and one that comes in their place.                  *)
LEMMA EmptiedFacts ==
  ASSUME NEW last, Good(chart, last), NEW e, e = Emptied
  PROVE  /\ Good(e, last) /\ e.series = <<>> /\ e.axes = chart.axes
         /\ DOMAIN e.groups = DOMAIN chart.groups
         /\ \A g \in DOMAIN chart.groups :
              /\ e.groups[g].raws = {} /\ e.groups[g].type = chart.groups[g].type
              /\ e.groups[g].side = chart.groups[g].side
              /\ e.groups[g].loaded = chart.groups[g].loaded
         /\ chart.groups # <<>> => Tidy(e.groups, <<>>)
<1> DEFINE n == Len(chart.groups)
           groups == [g \in DOMAIN chart.groups |-> [chart.groups[g] EXCEPT !.raws = {}]]
           moved == chart.groups # <<>>
           none == <<>>
<1>1. /\ n \in Nat /\ DOMAIN chart.groups = 1 .. n
      /\ chart.groups \in Seq(GroupRecord)
      /\ \A g \in DOMAIN chart.groups : chart.groups[g] \in GroupRecord
  BY GoodFacts
<1>2. chart \in ChartRecord /\ Proper(chart.axes) /\ GoodGroups(chart.groups, last)
      /\ BoundTo(chart.groups, chart.axes)
  BY DEF Good
<1>4. ASSUME NEW g \in 1 .. n
      PROVE  /\ groups[g] \in GroupRecord /\ groups[g].raws = {}
             /\ groups[g].type = chart.groups[g].type /\ groups[g].side = chart.groups[g].side
             /\ groups[g].ids = chart.groups[g].ids /\ groups[g].loaded = chart.groups[g].loaded
  <2>1. groups[g] = [chart.groups[g] EXCEPT !.raws = {}] /\ chart.groups[g] \in GroupRecord
    BY <1>1
  <2> HIDE DEF groups
  <2> QED BY <2>1 DEF GroupRecord
<1>5. groups \in [1 .. n -> GroupRecord] /\ DOMAIN groups = 1 .. n
  BY <1>1, <1>4
<1> HIDE DEF groups
<1>6. groups \in Seq(GroupRecord) /\ Len(groups) = n
  <2> HIDE DEF n
  <2> QED BY <1>1, <1>5, FunctionIsList
<1>7. GoodGroups(groups, last) /\ BoundTo(groups, chart.axes)
  <2>1. GoodGroups(groups, last)
    BY <1>1, <1>2, <1>4, <1>5, <1>6, GroupsAlike
  <2>2. BoundTo(groups, chart.axes)
    BY <1>1, <1>2, <1>4, <1>5 DEF BoundTo
  <2> QED BY <2>1, <2>2
<1>8. none \in Seq(SeriesRecord) /\ moved \in BOOLEAN
  OBVIOUS
<1> HIDE DEF none, moved
<1>9. /\ e \in ChartRecord /\ e.groups = groups /\ e.series = none /\ e.axes = chart.axes
  <2> DEFINE a == [chart EXCEPT !.series = none]
             b == [a EXCEPT !.groups = groups]
  <2>1. e = [b EXCEPT !.moved = moved]
    BY Zenon DEF Emptied, none, moved, groups
  <2>2. a = [chart EXCEPT !.series = none]
    OBVIOUS
  <2>3. b = [a EXCEPT !.groups = groups]
    OBVIOUS
  <2> HIDE DEF a, b
  <2>4. /\ a \in ChartRecord /\ a.series = none /\ a.axes = chart.axes
    BY <1>2, <1>8, <2>2 DEF ChartRecord
  <2>5. /\ b \in ChartRecord /\ b.series = none /\ b.axes = chart.axes /\ b.groups = groups
    BY <1>6, <2>3, <2>4 DEF ChartRecord
  <2> QED BY <1>8, <2>1, <2>5 DEF ChartRecord
<1>10. Good(e, last)
  BY <1>2, <1>7, <1>9 DEF Good
<1>11. chart.groups # <<>> => Tidy(groups, <<>>)
  <2>1. chart.groups # <<>> => groups # <<>>
    BY <1>1, <1>5, <1>6, NotEmpty
  <2> QED BY <1>4, <1>5, <2>1 DEF Tidy
<1> QED BY <1>1, <1>4, <1>5, <1>9, <1>10, <1>11 DEF none

LEMMA ClearSeriesKeeps ==
  ASSUME NEW last, Good(chart, last), ClearSeries
  PROVE  Good(chart', last) /\ HandlesHold /\ (Stable(chart) => Stable(chart'))
<1>1. chart' = Emptied /\ retired' = {"Series"}
  BY DEF ClearSeries, Retires
<1>2. /\ Good(chart', last) /\ chart'.series = <<>> /\ chart'.axes = chart.axes
      /\ DOMAIN chart'.groups = DOMAIN chart.groups
      /\ \A g \in DOMAIN chart.groups : /\ chart'.groups[g].type = chart.groups[g].type
                                        /\ chart'.groups[g].loaded = chart.groups[g].loaded
      /\ chart.groups # <<>> => Tidy(chart'.groups, <<>>)
  BY <1>1, EmptiedFacts
<1>3. Stable(chart) => Stable(chart')
  <2>1. chart'.series \in Seq(SeriesRecord)
    BY <1>2, GoodFacts
  <2>2. Stable(chart) => chart.groups # <<>>
    BY DEF Stable
  <2> QED BY <1>2, <2>1, <2>2, StableIsTidy
<1> QED BY <1>1, <1>2, <1>3 DEF HandlesHold, SameGroups

LEMMA PasteValuesKeeps ==
  ASSUME NEW last, Good(chart, last), PasteValues
  PROVE  /\ Good(chart', last) /\ HandlesHold
         /\ Stable(chart) => Stable(chart') \/ \A g \in DOMAIN chart.groups : chart.groups[g].side = "Secondary"
<1> DEFINE primary == {g \in DOMAIN chart.groups : chart.groups[g].side = "Primary"}
           e == [raw |-> 0, side |-> "Primary"]
           one == <<e>>
           m == Emptied
           new == [m EXCEPT !.series = one]
<1>1. /\ chart' = IF primary = {} THEN new ELSE [new EXCEPT !.groups[Min(primary)].raws = {0}]
      /\ retired' = {"Series"}
  BY DEF PasteValues, Retires
<1>2. /\ Good(m, last) /\ m.series = <<>> /\ m.axes = chart.axes
      /\ DOMAIN m.groups = DOMAIN chart.groups
      /\ \A g \in DOMAIN chart.groups :
           /\ m.groups[g].raws = {} /\ m.groups[g].type = chart.groups[g].type
           /\ m.groups[g].side = chart.groups[g].side
           /\ m.groups[g].loaded = chart.groups[g].loaded
      /\ chart.groups # <<>> => Tidy(m.groups, <<>>)
  BY EmptiedFacts
<1>3. e \in SeriesRecord /\ e.raw = 0 /\ e.side = "Primary"
  BY DEF SeriesRecord, Sides
<1> HIDE DEF e, m
<1>4. one \in Seq(SeriesRecord)
  BY <1>3
<1> HIDE DEF one
<1>5. m \in ChartRecord /\ Proper(m.axes) /\ GoodGroups(m.groups, last) /\ BoundTo(m.groups, m.axes)
  BY <1>2 DEF Good
<1>6. CASE primary = {}
  <2>1. chart' = [m EXCEPT !.series = one]
    BY <1>1, <1>6
  <2>2. chart' \in ChartRecord /\ chart'.groups = m.groups /\ chart'.axes = m.axes
    BY <1>4, <1>5, <2>1 DEF ChartRecord
  <2>3. Good(chart', last)
    BY <1>5, <2>2 DEF Good
  <2>4. \A g \in DOMAIN chart.groups : chart.groups[g].side = "Secondary"
    BY <1>6, GoodFacts DEF Sides
  <2> QED BY <1>1, <1>2, <2>2, <2>3, <2>4 DEF HandlesHold, SameGroups
<1>7. CASE primary # {}
  <2> DEFINE g == Min(primary)
             raws == {0}
             other == WithRaws(m.groups, g, raws)
  <2>1. g \in DOMAIN chart.groups /\ chart.groups[g].side = "Primary"
    <3>1. DOMAIN chart.groups \subseteq Nat
      BY GoodFacts
    <3>2. g \in primary
      BY <1>7, <3>1, LeastPlace
    <3> QED BY <3>2
  <2>2. chart' = [m EXCEPT !.series = one, !.groups = other]
    BY <1>1, <1>5, <1>7 DEF WithRaws, ChartRecord
  <2>3. raws \in SUBSET Nat /\ g \in DOMAIN m.groups
    BY <1>2, <2>1
  <2> HIDE DEF g, raws, other
  <2>4. /\ GoodGroups(other, last) /\ DOMAIN other = DOMAIN m.groups
        /\ BoundTo(other, m.axes) /\ other[g].raws = raws
        /\ \A h \in DOMAIN m.groups : h # g => other[h] = m.groups[h]
        /\ \A h \in DOMAIN m.groups :
             /\ other[h].type = m.groups[h].type /\ other[h].side = m.groups[h].side
             /\ other[h].ids = m.groups[h].ids /\ other[h].loaded = m.groups[h].loaded
    BY <1>5, <2>3, RawsReplaced DEF other
  <2>5. /\ chart' \in ChartRecord /\ chart'.groups = other /\ chart'.series = one
        /\ chart'.axes = m.axes
    <3>1. other \in Seq(GroupRecord)
      BY <2>4 DEF GoodGroups
    <3> QED BY <1>4, <1>5, <2>2, <3>1 DEF ChartRecord
  <2>6. Good(chart', last)
    BY <1>5, <2>4, <2>5 DEF Good
  <2>7. Tidy(other, one)
    <3> DEFINE none == <<>>
    <3>1. chart.groups # <<>>
      BY <2>1
    <3>2. /\ none \in Seq(SeriesRecord) /\ Tidy(m.groups, none)
          /\ \A s \in DOMAIN none : none[s].raw # e.raw
          /\ one = Append(none, e)
      BY <1>2, <1>3, <3>1 DEF one
    <3>3. other # <<>>
      BY <2>3, <2>4, NotEmpty DEF GoodGroups
    <3>4. /\ other[g].raws = m.groups[g].raws \cup {e.raw} /\ other[g].side = m.groups[g].side
          /\ e.side = m.groups[g].side
      BY <1>2, <1>3, <2>1, <2>3, <2>4 DEF raws
    <3> HIDE DEF none
    <3> QED BY <1>3, <2>3, <2>4, <3>2, <3>3, <3>4, TidyWithOneMore
  <2>8. Stable(chart')
    BY <1>4, <2>5, <2>7, StableIsTidy
  <2> QED BY ZenonT(60), <1>1, <1>2, <2>4, <2>5, <2>6, <2>8 DEF HandlesHold, SameGroups
<1> QED BY <1>6, <1>7

(* A group of the session is marked only in a chart that is no partition.  *)
LEMMA MarkGroupKeeps ==
  ASSUME NEW last, Good(chart, last), NEW g \in Nat, NEW side \in Sides, MarkGroup(g, side)
  PROVE  Good(chart', last) /\ HandlesHold /\ ~Stable(chart)
<1> DEFINE from == GroupSides(chart)[g]
           axes == WithValueAxis(side)
           series == [s \in DOMAIN chart.series |->
                       IF chart.series[s].side = from THEN [chart.series[s] EXCEPT !.side = side]
                       ELSE chart.series[s]]
           groups == IF g \in DOMAIN chart.groups THEN [chart.groups EXCEPT ![g].side = side]
                     ELSE chart.groups
<1>1. /\ chart \in ChartRecord /\ GoodGroups(chart.groups, last) /\ BoundTo(chart.groups, chart.axes)
      /\ chart.series \in Seq(SeriesRecord) /\ chart.groups \in Seq(GroupRecord)
      /\ \A h \in DOMAIN chart.groups : chart.groups[h] \in GroupRecord
  BY GoodFacts DEF Good
<1>2. chart' = [chart EXCEPT !.series = series, !.axes = axes, !.groups = groups]
      /\ RetiresIf(FALSE, axes # chart.axes, {})
      /\ (\A h \in DOMAIN chart.groups : chart.groups[h].loaded = 0)
      /\ g \in DOMAIN GroupSides(chart)
      /\ (Stable(chart) => chart.groups[g].ids = <<>>)
  BY <1>1 DEF MarkGroup, ChartRecord
<1>3. \A h \in DOMAIN chart.groups : chart.groups[h].ids # <<>>
  BY <1>1, <1>2 DEF GoodGroups, UnboundFromPart
<1>4. ~Stable(chart)
  <2> SUFFICES ASSUME Stable(chart) PROVE FALSE
    OBVIOUS
  <2>1. DOMAIN GroupSides(chart) = DOMAIN chart.groups
    BY DEF GroupSides
  <2> QED BY <1>2, <1>3, <2>1
<1>5. Proper(axes) /\ IdsOf(chart.axes) \subseteq IdsOf(axes)
  BY ValueAxisFacts
<1>6. Resided(chart.series, series) /\ DOMAIN series = DOMAIN chart.series
  <2> HIDE DEF from
  <2> QED BY DEF Resided
<1>7. /\ DOMAIN groups = DOMAIN chart.groups /\ groups \in Seq(GroupRecord)
      /\ \A h \in DOMAIN chart.groups :
           /\ groups[h].type = chart.groups[h].type /\ groups[h].ids = chart.groups[h].ids
           /\ groups[h].loaded = chart.groups[h].loaded
  <2>1. CASE g \notin DOMAIN chart.groups
    BY <1>1, <2>1
  <2>2. CASE g \in DOMAIN chart.groups
    <3>1. /\ DOMAIN groups = DOMAIN chart.groups
          /\ groups[g] = [chart.groups[g] EXCEPT !.side = side]
          /\ \A h \in DOMAIN chart.groups : h # g => groups[h] = chart.groups[h]
      BY <2>2
    <3>2. /\ groups[g] \in GroupRecord
          /\ groups[g].type = chart.groups[g].type /\ groups[g].ids = chart.groups[g].ids
          /\ groups[g].loaded = chart.groups[g].loaded
      BY <1>1, <2>2, <3>1 DEF GroupRecord
    <3>3. groups \in Seq(GroupRecord)
      BY <1>1, <2>2, <3>2
    <3> QED BY <3>1, <3>2, <3>3
  <2> QED BY <2>1, <2>2
<1> HIDE DEF axes, series, groups
<1>8. series \in Seq(SeriesRecord)
      /\ \A s \in DOMAIN chart.series : series[s].raw = chart.series[s].raw
  BY <1>1, <1>6, OtherSides
<1>9. GoodGroups(groups, last)
  BY <1>1, <1>3, <1>7, GroupsAlike
<1>10. BoundTo(groups, axes)
  BY <1>1, <1>5, <1>7 DEF BoundTo
<1>11. /\ chart' \in ChartRecord /\ chart'.groups = groups /\ chart'.series = series
       /\ chart'.axes = axes
  <2>1. axes \in Seq(AxisRecord)
    BY <1>5 DEF Proper
  <2> QED BY <1>1, <1>2, <1>7, <1>8, <2>1 DEF ChartRecord
<1>12. Good(chart', last)
  BY <1>5, <1>9, <1>10, <1>11 DEF Good
<1>13. "Axis" \notin retired' => axes = chart.axes
  BY <1>2 DEF RetiresIf, Retires
<1> QED BY <1>4, <1>6, <1>7, <1>8, <1>11, <1>12, <1>13 DEF HandlesHold, SameSeries, SameGroups

LEMMA NewSeriesKeeps ==
  ASSUME NEW last, Good(chart, last), NewSeries
  PROVE  Good(chart', last) /\ HandlesHold /\ Stable(chart')
<1>1. PICK g \in DOMAIN chart.groups :
        chart.groups[g].side = "Primary" /\ InsertInto(g, "Primary")
  BY DEF NewSeries
<1>2. Stable(chart)
  BY DEF NewSeries
<1>3. /\ Good(chart', last) /\ Tidy(chart'.groups, chart'.series)
      /\ SameSeries(chart, chart') /\ SameGroups(chart, chart') /\ chart'.axes = chart.axes
  BY <1>1, <1>2, InsertKeeps
<1>4. chart'.series \in Seq(SeriesRecord)
  BY <1>3, GoodFacts
<1> QED BY <1>3, <1>4, StableIsTidy DEF HandlesHold

LEMMA NewSeriesOfGroupKeeps ==
  ASSUME NEW last, Good(chart, last), NEW g \in DOMAIN chart.groups, NewSeriesOfGroup(g)
  PROVE  Good(chart', last) /\ HandlesHold /\ Stable(chart')
<1>1. Stable(chart) /\ InsertInto(g, chart.groups[g].side)
  BY DEF NewSeriesOfGroup
<1>2. /\ Good(chart', last) /\ Tidy(chart'.groups, chart'.series)
      /\ SameSeries(chart, chart') /\ SameGroups(chart, chart') /\ chart'.axes = chart.axes
  BY <1>1, InsertKeeps
<1>3. chart'.series \in Seq(SeriesRecord)
  BY <1>2, GoodFacts
<1> QED BY <1>2, <1>3, StableIsTidy DEF HandlesHold

LEMMA SameLength ==
  ASSUME NEW n \in Nat, NEW k \in Nat, 1 .. n = 1 .. k
  PROVE  n = k
<1>1. n > 0 => n \in 1 .. k
  OBVIOUS
<1>2. k > 0 => k \in 1 .. n
  OBVIOUS
<1> QED BY <1>1, <1>2

LEMMA SeriesRemoved ==
  ASSUME NEW series \in Seq(SeriesRecord), NEW s \in DOMAIN series,
         NEW left, left = RemoveAt(series, s)
  PROVE  /\ left \in Seq(SeriesRecord)
         /\ \A t \in DOMAIN left : (IF t < s THEN t ELSE t + 1) \in DOMAIN series \ {s}
                                   /\ left[t] = series[IF t < s THEN t ELSE t + 1]
         /\ \A t \in DOMAIN series : t # s =>
              (IF t < s THEN t ELSE t - 1) \in DOMAIN left
              /\ left[IF t < s THEN t ELSE t - 1] = series[t]
<1> DEFINE n == Len(series)
<1>1. n \in Nat /\ DOMAIN series = 1 .. n /\ s \in 1 .. n /\ s \in Nat
  OBVIOUS
<1>2. left = Less(series, s)
  BY DEF RemoveAt, Less
<1>3. /\ left \in Seq(SeriesRecord) /\ Len(left) = n - 1
      /\ \A k \in 1 .. s - 1 : left[k] = series[k]
      /\ \A k \in s + 1 .. n : left[k - 1] = series[k]
  BY <1>1, <1>2, RemoveFacts
<1>4. DOMAIN left = 1 .. n - 1
  BY <1>3
<1> HIDE DEF n
<1>5. ASSUME NEW t \in 1 .. n - 1
      PROVE  /\ (IF t < s THEN t ELSE t + 1) \in (1 .. n) \ {s}
             /\ left[t] = series[IF t < s THEN t ELSE t + 1]
  <2>1. CASE t < s
    BY <1>1, <1>3, <2>1
  <2>2. CASE ~(t < s)
    <3>1. t + 1 \in s + 1 .. n /\ t + 1 - 1 = t
      BY <1>1, <2>2
    <3>2. left[t + 1 - 1] = series[t + 1]
      BY <1>3, <3>1
    <3> QED BY <1>1, <2>2, <3>1, <3>2
  <2> QED BY <2>1, <2>2
<1>6. ASSUME NEW t \in 1 .. n, t # s
      PROVE  /\ (IF t < s THEN t ELSE t - 1) \in 1 .. n - 1
             /\ left[IF t < s THEN t ELSE t - 1] = series[t]
  <2>1. CASE t < s
    BY <1>1, <1>3, <2>1
  <2>2. CASE ~(t < s)
    <3>1. t \in s + 1 .. n /\ t - 1 \in 1 .. n - 1
      BY <1>1, <1>6, <2>2
    <3>2. left[t - 1] = series[t]
      BY <1>3, <3>1
    <3> QED BY <2>2, <3>1, <3>2
  <2> QED BY <2>1, <2>2
<1> QED BY <1>1, <1>3, <1>4, <1>5, <1>6

LEMMA TidyWithOneLess ==
  ASSUME NEW groups, NEW series \in Seq(SeriesRecord), Tidy(groups, series),
         NEW s \in DOMAIN series, NEW g \in DOMAIN groups, series[s].raw \in groups[g].raws,
         NEW other, other # <<>>, DOMAIN other = DOMAIN groups,
         other[g].raws = groups[g].raws \ {series[s].raw}, other[g].side = groups[g].side,
         \A h \in DOMAIN groups : h # g => other[h] = groups[h],
         NEW left, left = RemoveAt(series, s)
  PROVE  Tidy(other, left)
<1> DEFINE From(t) == IF t < s THEN t ELSE t + 1
           To(t) == IF t < s THEN t ELSE t - 1
<1>1. /\ \A t \in DOMAIN left : From(t) \in DOMAIN series \ {s} /\ left[t] = series[From(t)]
      /\ \A t \in DOMAIN series : t # s => To(t) \in DOMAIN left /\ left[To(t)] = series[t]
  BY SeriesRemoved
<1>2. \A t, u \in DOMAIN left : From(t) = From(u) => t = u
  <2>1. left \in Seq(SeriesRecord)
    BY SeriesRemoved
  <2>2. DOMAIN left \subseteq Nat /\ s \in Nat
    BY <2>1
  <2> QED BY <2>2
<1> HIDE DEF From, To
<1>3. \A t, u \in DOMAIN left : left[t].raw = left[u].raw => t = u
  BY <1>1, <1>2 DEF Tidy
<1>4. \A t \in DOMAIN left : left[t].raw # series[s].raw
  BY <1>1 DEF Tidy
<1>5. \A h \in DOMAIN groups : other[h].raws = groups[h].raws \ {series[s].raw}
                               /\ other[h].side = groups[h].side
  BY DEF Tidy
<1>6. \A t \in DOMAIN left : \E h \in DOMAIN other : left[t].raw \in other[h].raws
  BY <1>1, <1>4, <1>5 DEF Tidy
<1>7. \A h \in DOMAIN other : \A raw \in other[h].raws : \E t \in DOMAIN left : left[t].raw = raw
  BY <1>1, <1>5 DEF Tidy
<1>8. \A h \in DOMAIN other : \A t \in DOMAIN left :
        left[t].raw \in other[h].raws => left[t].side = other[h].side
  BY <1>1, <1>5 DEF Tidy
<1>9. \A h, k \in DOMAIN other : h # k => other[h].raws \cap other[k].raws = {}
  BY <1>5 DEF Tidy
<1> QED BY <1>3, <1>6, <1>7, <1>8, <1>9 DEF Tidy

LEMMA DeleteSeriesKeeps ==
  ASSUME NEW last, Good(chart, last), NEW s \in DOMAIN chart.series, DeleteSeries(s)
  PROVE  Good(chart', last) /\ HandlesHold /\ (chart.groups # <<>> => Stable(chart'))
<1> DEFINE raw == chart.series[s].raw
           g == CHOOSE h \in GroupsWith(chart, raw) : TRUE
           raws == chart.groups[g].raws \ {raw}
           other == WithRaws(chart.groups, g, raws)
           left == [chart EXCEPT !.groups[g].raws = @ \ {raw}, !.moved = TRUE]
           pruned == IF chart.groups = <<>> THEN chart ELSE Pruned(left, g)
           series == RemoveAt(chart.series, s)
<1>1. /\ chart.groups # <<>> => Stable(chart)
      /\ chart' = [pruned EXCEPT !.series = RemoveAt(@, s)]
      /\ RetiresIf(Len(pruned.groups) # Len(chart.groups), pruned.axes # chart.axes, {"Series"})
  BY DEF DeleteSeries
<1>2. /\ chart.series \in Seq(SeriesRecord) /\ chart.groups \in Seq(GroupRecord)
      /\ chart \in ChartRecord /\ GoodGroups(chart.groups, last) /\ BoundTo(chart.groups, chart.axes)
      /\ Proper(chart.axes)
  BY GoodFacts DEF Good
<1>3. series \in Seq(SeriesRecord)
  BY <1>2, SeriesRemoved
<1>4. /\ Good(pruned, last) /\ pruned.series = chart.series
      /\ chart.groups # <<>> => Tidy(pruned.groups, series)
      /\ Len(pruned.groups) = Len(chart.groups) => SameGroups(chart, pruned)
  <2>1. CASE chart.groups = <<>>
    <3>1. pruned = chart
      BY <2>1
    <3> QED BY <2>1, <3>1 DEF SameGroups
  <2>2. CASE chart.groups # <<>>
    <3>1. Tidy(chart.groups, chart.series)
      BY <1>1, <1>2, <2>2, StableIsTidy
    <3>2. g \in DOMAIN chart.groups /\ raw \in chart.groups[g].raws
      <4>1. \E h \in DOMAIN chart.groups : raw \in chart.groups[h].raws
        BY <3>1 DEF Tidy
      <4>2. g \in GroupsWith(chart, raw)
        BY <4>1 DEF GroupsWith
      <4> QED BY <4>2 DEF GroupsWith
    <3>3. raws \in SUBSET Nat
      BY <3>2, GoodFacts
    <3>4. left = [chart EXCEPT !.groups = other, !.moved = TRUE]
      BY <1>2, <3>2 DEF WithRaws, ChartRecord
    <3>5. pruned = Pruned(left, g)
      BY <2>2
    <3>6. other = WithRaws(chart.groups, g, raws)
      OBVIOUS
    <3>7. raws = chart.groups[g].raws \ {raw} /\ raw = chart.series[s].raw
          /\ series = RemoveAt(chart.series, s)
      OBVIOUS
    <3> HIDE DEF g, raws, other, left, pruned, series, raw
    <3>8. /\ GoodGroups(other, last) /\ DOMAIN other = DOMAIN chart.groups
          /\ BoundTo(other, chart.axes)
          /\ other[g].raws = raws
          /\ \A h \in DOMAIN chart.groups : h # g => other[h] = chart.groups[h]
          /\ \A h \in DOMAIN chart.groups :
               /\ other[h].type = chart.groups[h].type /\ other[h].side = chart.groups[h].side
               /\ other[h].ids = chart.groups[h].ids /\ other[h].loaded = chart.groups[h].loaded
      BY <1>2, <3>2, <3>3, <3>6, RawsReplaced
    <3>9. other # <<>>
      BY <3>2, <3>8, NotEmpty DEF GoodGroups
    <3>10. Tidy(other, series)
      BY SMTT(30), <1>2, <3>1, <3>2, <3>7, <3>8, <3>9, TidyWithOneLess
    <3>11. /\ left \in ChartRecord /\ left.groups = other /\ left.axes = chart.axes
           /\ left.series = chart.series
      <4>1. other \in Seq(GroupRecord)
        BY <3>8 DEF GoodGroups
      <4> QED BY <1>2, <3>4, <4>1 DEF ChartRecord
    <3>12. Good(left, last) /\ g \in DOMAIN left.groups
      BY <1>2, <3>2, <3>8, <3>11 DEF Good
    <3>13. /\ Good(pruned, last) /\ pruned.series = left.series
           /\ Tidy(left.groups, series) => Tidy(pruned.groups, series)
           /\ Len(pruned.groups) = Len(left.groups) => pruned.groups = left.groups
      BY <3>5, <3>12, PrunedFacts
    <3>14. Len(other) = Len(chart.groups)
      <4>1. other \in Seq(GroupRecord)
        BY <3>8 DEF GoodGroups
      <4>2. /\ DOMAIN other = 1 .. Len(other) /\ Len(other) \in Nat
            /\ DOMAIN chart.groups = 1 .. Len(chart.groups) /\ Len(chart.groups) \in Nat
        BY <1>2, <4>1
      <4> QED BY <3>8, <4>2, SameLength
    <3> QED BY <3>8, <3>10, <3>11, <3>13, <3>14 DEF SameGroups
  <2> QED BY <2>1, <2>2
<1>5. chart' = [pruned EXCEPT !.series = series]
  <2> HIDE DEF pruned
  <2> QED BY <1>1, <1>4
<1>6. LET a == Len(pruned.groups) # Len(chart.groups)
          b == pruned.axes # chart.axes
      IN  (a => "Group" \in retired') /\ (b => "Axis" \in retired')
  <2> HIDE DEF pruned
  <2> QED BY <1>1 DEF RetiresIf, Retires
<1>7. "Series" \in retired'
  <2> HIDE DEF pruned
  <2> QED BY <1>1 DEF RetiresIf, Retires
<1> HIDE DEF pruned, series
<1>8. /\ chart' \in ChartRecord /\ chart'.groups = pruned.groups /\ chart'.axes = pruned.axes
      /\ chart'.series = series
  BY <1>3, <1>4, <1>5 DEF ChartRecord, Good
<1>9. Good(chart', last)
  BY <1>4, <1>8 DEF Good
<1>10. chart.groups # <<>> => Stable(chart')
  BY <1>3, <1>4, <1>8, StableIsTidy
<1>11. Len(pruned.groups) = Len(chart.groups) => SameGroups(chart, chart')
  BY <1>4, <1>8 DEF SameGroups
<1> QED BY <1>6, <1>7, <1>8, <1>9, <1>10, <1>11 DEF HandlesHold

LEMMA PlacedIn ==
  ASSUME NEW c, NEW last, Good(c, last), Stable(c), NEW s \in DOMAIN c.series,
         NEW g, g = CHOOSE h \in GroupsWith(c, c.series[s].raw) : TRUE
  PROVE  /\ g \in DOMAIN c.groups /\ c.series[s].raw \in c.groups[g].raws
         /\ c.groups[g].side = c.series[s].side
<1>1. Tidy(c.groups, c.series)
  BY GoodFacts, StableIsTidy
<1>2. \E h \in DOMAIN c.groups : c.series[s].raw \in c.groups[h].raws
  BY <1>1 DEF Tidy
<1>3. g \in GroupsWith(c, c.series[s].raw)
  BY <1>2 DEF GroupsWith
<1>4. g \in DOMAIN c.groups /\ c.series[s].raw \in c.groups[g].raws
  BY <1>3 DEF GroupsWith
<1> QED BY <1>1, <1>4 DEF Tidy

(* An empty group more, bound to axes that are there.                      *)
IsNewGroup(e, axes) ==
  /\ e \in GroupRecord /\ e.loaded = 0 /\ e.raws = {}
  /\ e.ids # <<>> /\ Range(e.ids) \subseteq IdsOf(axes)

HasGrown(groups, other) ==
  /\ other # <<>> /\ DOMAIN groups \subseteq DOMAIN other
  /\ \A k \in DOMAIN groups : other[k] = groups[k]
  /\ \A k \in DOMAIN other \ DOMAIN groups : other[k].raws = {}

LEMMA TidyGrown ==
  ASSUME NEW groups, NEW series, Tidy(groups, series), NEW other, HasGrown(groups, other)
  PROVE  Tidy(other, series)
<1>1. \A g \in DOMAIN other :
        \/ g \in DOMAIN groups /\ other[g] = groups[g]
        \/ other[g].raws = {}
  BY DEF HasGrown
<1>2. \A s \in DOMAIN series : \E g \in DOMAIN other : series[s].raw \in other[g].raws
  BY DEF Tidy, HasGrown
<1>3. \A g, h \in DOMAIN other : g # h => other[g].raws \cap other[h].raws = {}
  BY <1>1 DEF Tidy
<1>4. \A g \in DOMAIN other : \A raw \in other[g].raws :
        \E s \in DOMAIN series : series[s].raw = raw
  BY <1>1 DEF Tidy
<1>5. \A g \in DOMAIN other : \A s \in DOMAIN series :
        series[s].raw \in other[g].raws => series[s].side = other[g].side
  BY <1>1 DEF Tidy
<1> QED BY <1>2, <1>3, <1>4, <1>5 DEF Tidy, HasGrown

LEMMA GroupGrown ==
  ASSUME NEW c, NEW last \in Nat, Good(c, last),
         NEW axes, Proper(axes), IdsOf(c.axes) \subseteq IdsOf(axes),
         NEW e, IsNewGroup(e, axes),
         NEW d \in ChartRecord, d.groups = Append(c.groups, e), d.axes = axes
  PROVE  /\ Good(d, last)
         /\ Len(d.groups) = Len(c.groups) + 1
         /\ Len(d.groups) \notin DOMAIN c.groups
         /\ d.groups[Len(d.groups)] = e
         /\ \A k \in DOMAIN c.groups : d.groups[k] = c.groups[k]
<1> DEFINE n == Len(c.groups)
           groups == Append(c.groups, e)
<1> USE DEF IsNewGroup
<1>1. /\ n \in Nat /\ DOMAIN c.groups = 1 .. n /\ BoundTo(c.groups, c.axes)
      /\ GoodGroups(c.groups, last)
  BY GoodFacts DEF Good
<1>2. /\ GoodGroups(groups, last) /\ Len(groups) = n + 1 /\ groups[n + 1] = e
      /\ \A k \in DOMAIN c.groups : groups[k] = c.groups[k]
  BY <1>1, GroupAdded
<1>3. d.groups = groups
  OBVIOUS
<1> HIDE DEF groups
<1>4. DOMAIN groups = 1 .. n + 1
  BY <1>2 DEF GoodGroups
<1> HIDE DEF n
<1>5. DOMAIN groups = DOMAIN c.groups \cup {n + 1} /\ n + 1 \notin DOMAIN c.groups
  BY <1>1, <1>4
<1>6. BoundTo(groups, axes)
  BY <1>1, <1>2, <1>5 DEF BoundTo
<1>7. Good(d, last)
  BY <1>2, <1>3, <1>6 DEF Good
<1> QED BY <1>2, <1>3, <1>5, <1>7 DEF n

(* A series goes from one group to another.                                *)
WithRawMoved(c, g, to, raw) ==
  [c EXCEPT !.groups[g].raws = @ \ {raw}, !.groups[to].raws = @ \cup {raw}, !.moved = TRUE]

LEMMA RawMoved ==
  ASSUME NEW c, NEW last, Good(c, last), NEW g \in DOMAIN c.groups, NEW to \in DOMAIN c.groups,
         g # to, NEW raw \in Nat,
         NEW d, d = WithRawMoved(c, g, to, raw)
  PROVE  /\ Good(d, last) /\ d.series = c.series /\ d.axes = c.axes
         /\ Len(d.groups) = Len(c.groups) /\ DOMAIN d.groups = DOMAIN c.groups
         /\ d.groups[g].raws = c.groups[g].raws \ {raw}
         /\ d.groups[to].raws = c.groups[to].raws \cup {raw}
         /\ \A h \in DOMAIN c.groups : h # g /\ h # to => d.groups[h] = c.groups[h]
         /\ \A h \in DOMAIN c.groups :
              /\ d.groups[h].type = c.groups[h].type /\ d.groups[h].side = c.groups[h].side
              /\ d.groups[h].loaded = c.groups[h].loaded
<1> DEFINE less == c.groups[g].raws \ {raw}
           more == c.groups[to].raws \cup {raw}
           groups == WithRaws(c.groups, g, less)
           other == WithRaws(groups, to, more)
<1>1. /\ c \in ChartRecord /\ GoodGroups(c.groups, last) /\ BoundTo(c.groups, c.axes)
      /\ Proper(c.axes) /\ c.groups \in Seq(GroupRecord)
      /\ c.groups[g] \in GroupRecord /\ c.groups[to] \in GroupRecord
  BY GoodFacts DEF Good
<1>2. less \in SUBSET Nat /\ more \in SUBSET Nat
  BY <1>1 DEF GroupRecord
<1>3. d = [c EXCEPT !.groups = other, !.moved = TRUE]
  <2>1. groups[to].raws = c.groups[to].raws
    BY <1>1 DEF WithRaws
  <2> QED BY <1>1, <2>1 DEF WithRawMoved, WithRaws, ChartRecord
<1>4. groups = WithRaws(c.groups, g, less) /\ other = WithRaws(groups, to, more)
  OBVIOUS
<1>5. less = c.groups[g].raws \ {raw} /\ more = c.groups[to].raws \cup {raw}
  OBVIOUS
<1> HIDE DEF less, more, groups, other
<1>6. /\ GoodGroups(groups, last) /\ DOMAIN groups = DOMAIN c.groups
      /\ BoundTo(groups, c.axes) /\ groups[g].raws = less
      /\ \A h \in DOMAIN c.groups : h # g => groups[h] = c.groups[h]
      /\ \A h \in DOMAIN c.groups :
           /\ groups[h].type = c.groups[h].type /\ groups[h].side = c.groups[h].side
           /\ groups[h].ids = c.groups[h].ids /\ groups[h].loaded = c.groups[h].loaded
  BY <1>1, <1>2, <1>4, RawsReplaced
<1>7. to \in DOMAIN groups
  BY <1>6
<1>8. /\ GoodGroups(other, last) /\ DOMAIN other = DOMAIN groups
      /\ BoundTo(other, c.axes) /\ other[to].raws = more
      /\ \A h \in DOMAIN groups : h # to => other[h] = groups[h]
      /\ \A h \in DOMAIN groups :
           /\ other[h].type = groups[h].type /\ other[h].side = groups[h].side
           /\ other[h].ids = groups[h].ids /\ other[h].loaded = groups[h].loaded
  BY <1>2, <1>4, <1>6, <1>7, RawsReplaced
<1>9. /\ d \in ChartRecord /\ d.groups = other /\ d.series = c.series /\ d.axes = c.axes
  <2>1. other \in Seq(GroupRecord)
    BY <1>8 DEF GoodGroups
  <2> QED BY <1>1, <1>3, <2>1 DEF ChartRecord
<1>10. Good(d, last)
  BY <1>1, <1>8, <1>9 DEF Good
<1>11. Len(d.groups) = Len(c.groups)
  <2>1. d.groups \in Seq(GroupRecord)
    BY <1>9 DEF ChartRecord
  <2>2. /\ DOMAIN d.groups = 1 .. Len(d.groups) /\ Len(d.groups) \in Nat
        /\ DOMAIN c.groups = 1 .. Len(c.groups) /\ Len(c.groups) \in Nat
    BY <1>1, <2>1
  <2> QED BY <1>6, <1>8, <1>9, <2>2, SameLength
<1> QED BY <1>5, <1>6, <1>8, <1>9, <1>10, <1>11

HasMoved(groups, other, g, to, raw) ==
  /\ other # <<>> /\ DOMAIN other = DOMAIN groups
  /\ raw \in groups[g].raws /\ g # to
  /\ other[g].raws = groups[g].raws \ {raw}
  /\ other[to].raws = groups[to].raws \cup {raw}
  /\ \A h \in DOMAIN groups : h # g /\ h # to => other[h].raws = groups[h].raws
  /\ \A h \in DOMAIN groups : other[h].side = groups[h].side

HasSide(series, after, s, side) ==
  /\ DOMAIN after = DOMAIN series /\ after[s].side = side
  /\ \A t \in DOMAIN series : after[t].raw = series[t].raw
  /\ \A t \in DOMAIN series : t # s => after[t].side = series[t].side

LEMMA TidyMoved ==
  ASSUME NEW groups, NEW series, Tidy(groups, series),
         NEW s \in DOMAIN series, NEW g \in DOMAIN groups, NEW to \in DOMAIN groups,
         NEW other, HasMoved(groups, other, g, to, series[s].raw),
         NEW after, HasSide(series, after, s, groups[to].side)
  PROVE  Tidy(other, after)
<1> USE DEF HasMoved, HasSide
<1>1. \A t, u \in DOMAIN after : after[t].raw = after[u].raw => t = u
  BY DEF Tidy
<1>2. \A t \in DOMAIN after : t # s => after[t].raw # series[s].raw
  BY DEF Tidy
<1>3. \A h \in DOMAIN groups : h # g => series[s].raw \notin groups[h].raws
  BY DEF Tidy
<1>4. \A h \in DOMAIN other : \A raw \in other[h].raws :
        \/ raw = series[s].raw /\ h = to
        \/ raw # series[s].raw /\ raw \in groups[h].raws
  BY <1>3
<1>5. \A h \in DOMAIN other : \A raw \in groups[h].raws :
        raw # series[s].raw => raw \in other[h].raws
  OBVIOUS
<1>6. \A t \in DOMAIN after : \E h \in DOMAIN other : after[t].raw \in other[h].raws
  <2> SUFFICES ASSUME NEW t \in DOMAIN after
               PROVE  \E h \in DOMAIN other : after[t].raw \in other[h].raws
    OBVIOUS
  <2>1. CASE t = s
    BY <2>1
  <2>2. CASE t # s
    <3>1. PICK h \in DOMAIN groups : series[t].raw \in groups[h].raws
      BY DEF Tidy
    <3> QED BY <1>2, <1>5, <2>2, <3>1
  <2> QED BY <2>1, <2>2
<1>7. \A h \in DOMAIN other : \A raw \in other[h].raws : \E t \in DOMAIN after : after[t].raw = raw
  <2> SUFFICES ASSUME NEW h \in DOMAIN other, NEW raw \in other[h].raws
               PROVE  \E t \in DOMAIN after : after[t].raw = raw
    OBVIOUS
  <2>1. CASE raw = series[s].raw
    BY <2>1
  <2>2. CASE raw # series[s].raw
    <3>1. raw \in groups[h].raws
      BY <1>4, <2>2
    <3>2. \E t \in DOMAIN series : series[t].raw = raw
      BY <3>1 DEF Tidy
    <3> QED BY <3>2
  <2> QED BY <2>1, <2>2
<1>8. \A h \in DOMAIN other : \A t \in DOMAIN after :
        after[t].raw \in other[h].raws => after[t].side = other[h].side
  <2> SUFFICES ASSUME NEW h \in DOMAIN other, NEW t \in DOMAIN after, after[t].raw \in other[h].raws
               PROVE  after[t].side = other[h].side
    OBVIOUS
  <2>1. CASE t = s
    BY <1>4, <2>1
  <2>2. CASE t # s
    <3>1. series[t].raw \in groups[h].raws
      BY <1>2, <1>4, <2>2
    <3> QED BY <2>2, <3>1 DEF Tidy
  <2> QED BY <2>1, <2>2
<1>9. \A h, k \in DOMAIN other : h # k => other[h].raws \cap other[k].raws = {}
  BY <1>4 DEF Tidy
<1> QED BY <1>1, <1>6, <1>7, <1>8, <1>9 DEF Tidy

LEMMA MoveSeriesKeeps ==
  ASSUME NEW last \in Nat, Good(chart, last), NEW s \in DOMAIN chart.series, NEW side \in Sides,
         MoveSeries(s, side)
  PROVE  Good(chart', last) /\ HandlesHold /\ Stable(chart')
<1> DEFINE raw == chart.series[s].raw
           g == CHOOSE h \in GroupsWith(chart, raw) : TRUE
           type == chart.groups[g].type
           there == {h \in DOMAIN chart.groups :
                       chart.groups[h].side = side /\ chart.groups[h].type = type}
           target == TargetAxes(chart, g, side)
           made == [type |-> type, side |-> side, ids |-> target.ids, raws |-> {}, loaded |-> 0]
           grown == IF there # {} THEN chart
                    ELSE [chart EXCEPT !.groups = Append(@, made), !.axes = target.axes]
           to == IF there # {} THEN Min(there) ELSE Len(grown.groups)
           moved == [grown EXCEPT !.groups[g].raws = @ \ {raw},
                                  !.groups[to].raws = @ \cup {raw},
                                  !.moved = TRUE]
           pruned == Pruned(moved, g)
           series == [chart.series EXCEPT ![s].side = side]
<1>1. /\ chart.series[s].side # side /\ Stable(chart)
      /\ (there = {} => target.ids # <<>>)
      /\ chart' = [pruned EXCEPT !.series[s].side = side]
      /\ RetiresIf(Len(pruned.groups) # Len(grown.groups), pruned.axes # chart.axes, {})
  BY DEF MoveSeries
<1>2. /\ chart.series \in Seq(SeriesRecord) /\ chart.groups \in Seq(GroupRecord)
      /\ chart \in ChartRecord /\ chart.series[s] \in SeriesRecord /\ raw \in Nat
      /\ DOMAIN chart.groups \subseteq Nat
  <2>1. chart \in ChartRecord
    BY DEF Good
  <2> QED BY <2>1, GoodFacts
<1>3. /\ g \in DOMAIN chart.groups /\ raw \in chart.groups[g].raws
      /\ chart.groups[g].side = chart.series[s].side
  BY <1>1, PlacedIn
<1>4. Tidy(chart.groups, chart.series)
  BY <1>1, <1>2, StableIsTidy
<1>5. IsTarget(target, chart.axes)
  BY <1>3, TargetAxesFacts
<1> HIDE DEF g, target
<1>6. /\ Good(grown, last) /\ grown.series = chart.series
      /\ \A h \in DOMAIN chart.groups : h \in DOMAIN grown.groups /\ grown.groups[h] = chart.groups[h]
      /\ to \in DOMAIN grown.groups /\ grown.groups[to].side = side
      /\ Tidy(grown.groups, chart.series)
  <2>1. CASE there # {}
    <3>1. grown = chart /\ to = Min(there)
      BY <2>1
    <3>2. to \in there
      <4>1. there \subseteq Nat
        BY <1>2
      <4> QED BY <2>1, <3>1, <4>1, LeastPlace
    <3> QED BY <1>4, <3>1, <3>2
  <2>2. CASE there = {}
    <3>1. /\ grown = [chart EXCEPT !.groups = Append(@, made), !.axes = target.axes]
          /\ to = Len(grown.groups)
      BY <2>2
    <3>2. /\ made \in GroupRecord /\ made.loaded = 0 /\ made.ids # <<>> /\ made.raws = {}
          /\ made.side = side /\ Range(made.ids) \subseteq IdsOf(target.axes)
      <4>1. type \in Types
        BY <1>3, GoodFacts
      <4> QED BY <1>1, <1>5, <2>2, <4>1 DEF GroupRecord, IsTarget
    <3> HIDE DEF made, grown, there, to
    <3>3. Proper(target.axes) /\ IdsOf(chart.axes) \subseteq IdsOf(target.axes)
      BY <1>5 DEF IsTarget
    <3>4. /\ grown \in ChartRecord /\ grown.groups = Append(chart.groups, made)
          /\ grown.axes = target.axes /\ grown.series = chart.series
      <4>1. Append(chart.groups, made) \in Seq(GroupRecord) /\ target.axes \in Seq(AxisRecord)
        BY <1>2, <3>2, <3>3 DEF Proper
      <4> QED BY <1>2, <3>1, <4>1 DEF ChartRecord
    <3>5. /\ Good(grown, last)
          /\ Len(grown.groups) \in DOMAIN grown.groups
          /\ Len(grown.groups) \notin DOMAIN chart.groups
          /\ grown.groups[Len(grown.groups)] = made
          /\ \A k \in DOMAIN chart.groups : grown.groups[k] = chart.groups[k]
          /\ (Tidy(chart.groups, chart.series) => Tidy(grown.groups, chart.series))
      <4>1. IsNewGroup(made, target.axes)
        BY <3>2 DEF IsNewGroup
      <4>2. /\ Good(grown, last)
            /\ Len(grown.groups) = Len(chart.groups) + 1
            /\ grown.groups[Len(grown.groups)] = made
            /\ \A k \in DOMAIN chart.groups : grown.groups[k] = chart.groups[k]
        BY <3>3, <3>4, <4>1, GroupGrown
      <4>3. /\ Len(grown.groups) \in DOMAIN grown.groups
            /\ Len(grown.groups) \notin DOMAIN chart.groups
            /\ DOMAIN grown.groups = DOMAIN chart.groups \cup {Len(grown.groups)}
        <5>1. Len(chart.groups) \in Nat /\ DOMAIN chart.groups = 1 .. Len(chart.groups)
          BY <1>2
        <5>2. DOMAIN grown.groups = 1 .. Len(grown.groups)
          BY <4>2, GoodFacts
        <5> QED BY <4>2, <5>1, <5>2
      <4>4. HasGrown(chart.groups, grown.groups)
        <5>1. grown.groups # <<>>
          BY <4>2, <4>3, GoodFacts, NotEmpty
        <5>2. made.raws = {}
          BY <3>2
        <5> QED BY <4>2, <4>3, <5>1, <5>2 DEF HasGrown
      <4>5. Tidy(grown.groups, chart.series)
        BY <1>4, <4>4, TidyGrown
      <4> QED BY <4>2, <4>3, <4>5
    <3> QED BY <1>4, <3>1, <3>2, <3>4, <3>5
  <2> QED BY <2>1, <2>2
<1> HIDE DEF grown, to, there
<1>7. g \in DOMAIN grown.groups /\ g # to /\ raw \in grown.groups[g].raws
  BY <1>1, <1>3, <1>6
<1>8. /\ Good(moved, last) /\ moved.series = grown.series
      /\ Len(moved.groups) = Len(grown.groups) /\ DOMAIN moved.groups = DOMAIN grown.groups
      /\ moved.groups[g].raws = grown.groups[g].raws \ {raw}
      /\ moved.groups[to].raws = grown.groups[to].raws \cup {raw}
      /\ \A h \in DOMAIN grown.groups : h # g /\ h # to => moved.groups[h] = grown.groups[h]
      /\ \A h \in DOMAIN grown.groups :
           /\ moved.groups[h].type = grown.groups[h].type
           /\ moved.groups[h].side = grown.groups[h].side
           /\ moved.groups[h].loaded = grown.groups[h].loaded
  <2>1. moved = WithRawMoved(grown, g, to, raw)
    BY DEF WithRawMoved
  <2> HIDE DEF moved, raw
  <2> QED BY <1>2, <1>6, <1>7, <2>1, RawMoved
<1>9. /\ series \in Seq(SeriesRecord) /\ DOMAIN series = DOMAIN chart.series
      /\ series[s].side = side
      /\ \A t \in DOMAIN chart.series : series[t].raw = chart.series[t].raw
      /\ \A t \in DOMAIN chart.series : t # s => series[t].side = chart.series[t].side
  <2>1. /\ DOMAIN series = DOMAIN chart.series
        /\ series[s] = [chart.series[s] EXCEPT !.side = side]
        /\ \A t \in DOMAIN chart.series : t # s => series[t] = chart.series[t]
    OBVIOUS
  <2>2. series[s] \in SeriesRecord /\ series[s].side = side /\ series[s].raw = chart.series[s].raw
    BY <1>2, <2>1 DEF SeriesRecord
  <2>3. series \in Seq(SeriesRecord)
    BY <1>2, <2>2
  <2> QED BY <2>1, <2>2, <2>3
<1> HIDE DEF moved, series
<1>10. Tidy(moved.groups, series)
  <2>1. moved.groups # <<>>
    <3>1. moved.groups \in Seq(GroupRecord)
      BY <1>8, GoodFacts
    <3> QED BY <1>7, <1>8, <3>1, NotEmpty
  <2>2. HasSide(chart.series, series, s, grown.groups[to].side)
    BY <1>6, <1>9 DEF HasSide
  <2>3. HasMoved(grown.groups, moved.groups, g, to, raw)
    BY <1>7, <1>8, <2>1 DEF HasMoved
  <2> QED BY <1>6, <1>7, <2>2, <2>3, TidyMoved
<1>11. /\ Good(pruned, last) /\ pruned.series = moved.series
       /\ (Tidy(moved.groups, series) => Tidy(pruned.groups, series))
       /\ (Len(pruned.groups) = Len(moved.groups) => pruned.groups = moved.groups)
  <2>1. g \in DOMAIN moved.groups /\ pruned = Pruned(moved, g)
    BY <1>7, <1>8
  <2> HIDE DEF pruned
  <2> QED BY <1>8, <2>1, PrunedFacts
<1> HIDE DEF pruned
<1>12. chart' = [pruned EXCEPT !.series = series] /\ pruned.series = chart.series
  <2>1. pruned.series = chart.series
    BY <1>6, <1>8, <1>11
  <2> QED BY <1>1, <2>1 DEF series
<1>13. /\ chart' \in ChartRecord /\ chart'.groups = pruned.groups /\ chart'.axes = pruned.axes
       /\ chart'.series = series
  BY <1>9, <1>11, <1>12 DEF ChartRecord, Good
<1>14. Good(chart', last)
  BY <1>11, <1>13 DEF Good
<1>15. Stable(chart')
  BY <1>9, <1>10, <1>11, <1>13, StableIsTidy
<1>16. SameSeries(chart, chart')
  BY <1>9, <1>13 DEF SameSeries
<1>17. Len(pruned.groups) = Len(grown.groups) => SameGroups(chart, chart')
  BY <1>6, <1>8, <1>11, <1>13 DEF SameGroups
<1>18. /\ (Len(pruned.groups) # Len(grown.groups) => "Group" \in retired')
       /\ (pruned.axes # chart.axes => "Axis" \in retired')
  BY <1>1 DEF RetiresIf, Retires
<1> QED BY <1>13, <1>14, <1>15, <1>16, <1>17, <1>18 DEF HandlesHold

(* A group goes to the other side, with its series.                        *)
Going(g, side, target) ==
  [chart EXCEPT !.axes = target.axes,
                !.groups[g] = [@ EXCEPT !.side = side, !.ids = target.ids],
                !.series = [s \in DOMAIN @ |-> IF @[s].raw \in chart.groups[g].raws
                              THEN [@[s] EXCEPT !.side = side] ELSE @[s]]]

LEMMA GoingFacts ==
  ASSUME NEW last, Good(chart, last), Stable(chart), NEW g \in DOMAIN chart.groups,
         NEW side \in Sides, NEW target, IsTarget(target, chart.axes), target.ids # <<>>,
         NEW going, going = Going(g, side, target)
  PROVE  /\ Good(going, last) /\ Tidy(going.groups, going.series)
         /\ SameSeries(chart, going) /\ SameGroups(chart, going)
         /\ DOMAIN going.groups = DOMAIN chart.groups /\ going.axes = target.axes
<1> DEFINE groups == [chart.groups EXCEPT ![g] = [@ EXCEPT !.side = side, !.ids = target.ids]]
           series == [s \in DOMAIN chart.series |->
                       IF chart.series[s].raw \in chart.groups[g].raws
                         THEN [chart.series[s] EXCEPT !.side = side] ELSE chart.series[s]]
           axes == target.axes
<1>1. chart \in ChartRecord /\ GoodGroups(chart.groups, last) /\ BoundTo(chart.groups, chart.axes)
  BY DEF Good
<1>2. /\ chart.series \in Seq(SeriesRecord) /\ chart.groups \in Seq(GroupRecord)
      /\ chart.groups[g] \in GroupRecord
      /\ \A s \in DOMAIN chart.series : chart.series[s] \in SeriesRecord
  BY GoodFacts
<1>3. Tidy(chart.groups, chart.series)
  BY <1>2, StableIsTidy
<1>4. going = [chart EXCEPT !.axes = axes, !.groups = groups, !.series = series]
  BY <1>1 DEF Going, ChartRecord
<1>5. /\ DOMAIN groups = DOMAIN chart.groups
      /\ groups[g] = [chart.groups[g] EXCEPT !.side = side, !.ids = target.ids]
      /\ \A h \in DOMAIN chart.groups : h # g => groups[h] = chart.groups[h]
  OBVIOUS
<1>6. /\ groups[g] \in GroupRecord /\ groups[g].side = side /\ groups[g].ids = target.ids
      /\ groups[g].type = chart.groups[g].type /\ groups[g].raws = chart.groups[g].raws
      /\ groups[g].loaded = chart.groups[g].loaded
  BY <1>2, <1>5 DEF GroupRecord, IsTarget
<1>7. groups \in Seq(GroupRecord)
  BY <1>2, <1>6
<1>8. Resided(chart.series, series) /\ DOMAIN series = DOMAIN chart.series
  BY DEF Resided
<1>9. /\ series \in Seq(SeriesRecord)
      /\ \A s \in DOMAIN chart.series : series[s].raw = chart.series[s].raw
  BY <1>2, <1>8, OtherSides
<1>10. \A s \in DOMAIN chart.series :
         series[s].side = IF chart.series[s].raw \in chart.groups[g].raws
                            THEN side ELSE chart.series[s].side
  <2> TAKE s \in DOMAIN chart.series
  <2>1. chart.series[s] \in SeriesRecord
    BY <1>2
  <2> QED BY <2>1 DEF SeriesRecord
<1>11. Proper(axes) /\ IdsOf(chart.axes) \subseteq IdsOf(axes) /\ Range(target.ids) \subseteq IdsOf(axes)
  BY DEF IsTarget
<1> HIDE DEF groups, series, axes
<1>12. GoodGroups(groups, last)
  <2>1. \A h \in DOMAIN chart.groups :
          /\ groups[h].loaded = chart.groups[h].loaded
          /\ groups[h].ids = <<>> => chart.groups[h].ids = <<>> /\ groups[h].side = chart.groups[h].side
    BY <1>5, <1>6
  <2> QED BY <1>1, <1>5, <1>7, <2>1, GroupsAlike
<1>13. BoundTo(groups, axes)
  BY <1>1, <1>5, <1>6, <1>11 DEF BoundTo
<1>14. /\ going \in ChartRecord /\ going.groups = groups /\ going.series = series
       /\ going.axes = axes
  <2>1. axes \in Seq(AxisRecord)
    BY <1>11 DEF Proper
  <2> QED BY <1>1, <1>4, <1>7, <1>9, <2>1 DEF ChartRecord
<1>15. Tidy(groups, series)
  <2>1. \A h \in DOMAIN chart.groups : groups[h].raws = chart.groups[h].raws
    BY <1>5, <1>6
  <2>2. groups # <<>>
    BY <1>5, <1>7, NotEmpty
  <2>3. \A s, t \in DOMAIN series : series[s].raw = series[t].raw => s = t
    BY <1>3, <1>8, <1>9 DEF Tidy
  <2>4. \A s \in DOMAIN series : \E h \in DOMAIN groups : series[s].raw \in groups[h].raws
    <3> TAKE s \in DOMAIN series
    <3>1. s \in DOMAIN chart.series /\ series[s].raw = chart.series[s].raw
      BY <1>8, <1>9
    <3>2. PICK h \in DOMAIN chart.groups : chart.series[s].raw \in chart.groups[h].raws
      BY <1>3, <3>1 DEF Tidy
    <3> QED BY <1>5, <2>1, <3>1, <3>2
  <2>5. \A h \in DOMAIN groups : \A raw \in groups[h].raws :
          \E s \in DOMAIN series : series[s].raw = raw
    <3> TAKE h \in DOMAIN groups
    <3> TAKE raw \in groups[h].raws
    <3>1. h \in DOMAIN chart.groups /\ raw \in chart.groups[h].raws
      BY <1>5, <2>1
    <3>2. PICK s \in DOMAIN chart.series : chart.series[s].raw = raw
      BY <1>3, <3>1 DEF Tidy
    <3> QED BY <1>8, <1>9, <3>2
  <2>6. \A h \in DOMAIN groups : \A s \in DOMAIN series :
          series[s].raw \in groups[h].raws => series[s].side = groups[h].side
    <3> SUFFICES ASSUME NEW h \in DOMAIN groups, NEW s \in DOMAIN series
                 PROVE  series[s].raw \in groups[h].raws => series[s].side = groups[h].side
      OBVIOUS
    <3>1. CASE h = g
      BY <1>6, <1>8, <1>9, <1>10, <2>1, <3>1
    <3>2. CASE h # g
      <4>1. chart.series[s].raw \in groups[h].raws => chart.series[s].raw \notin chart.groups[g].raws
        BY <1>3, <1>5, <2>1, <3>2 DEF Tidy
      <4> QED BY <1>3, <1>5, <1>8, <1>9, <1>10, <2>1, <3>2, <4>1 DEF Tidy
    <3> QED BY <3>1, <3>2
  <2>7. \A h, k \in DOMAIN groups : h # k => groups[h].raws \cap groups[k].raws = {}
    BY <1>3, <1>5, <2>1 DEF Tidy
  <2> QED BY <2>2, <2>3, <2>4, <2>5, <2>6, <2>7 DEF Tidy
<1>16. Good(going, last)
  BY <1>11, <1>12, <1>13, <1>14 DEF Good
<1>17. SameSeries(chart, going) /\ SameGroups(chart, going)
  BY <1>5, <1>6, <1>8, <1>9, <1>14 DEF SameSeries, SameGroups
<1> QED BY <1>5, <1>14, <1>15, <1>16, <1>17 DEF axes

(* An empty group put in the place of another one.                         *)
HasPlaced(groups, other, g) ==
  /\ other # <<>> /\ other[g].raws = {}
  /\ \A k \in DOMAIN other : k # g =>
       /\ (IF k < g THEN k ELSE k - 1) \in DOMAIN groups
       /\ other[k] = groups[IF k < g THEN k ELSE k - 1]
  /\ \A k \in DOMAIN groups : (IF k < g THEN k ELSE k + 1) \in DOMAIN other
                              /\ other[IF k < g THEN k ELSE k + 1] = groups[k]

LEMMA TidyPlaced ==
  ASSUME NEW groups \in Seq(GroupRecord), NEW series, Tidy(groups, series),
         NEW other \in Seq(GroupRecord), NEW g \in Nat, HasPlaced(groups, other, g)
  PROVE  Tidy(other, series)
<1> DEFINE From(k) == IF k < g THEN k ELSE k - 1
           To(k) == IF k < g THEN k ELSE k + 1
<1>1. /\ other # <<>> /\ other[g].raws = {}
      /\ \A k \in DOMAIN other : k # g => From(k) \in DOMAIN groups /\ other[k] = groups[From(k)]
      /\ \A k \in DOMAIN groups : To(k) \in DOMAIN other /\ other[To(k)] = groups[k]
  BY DEF HasPlaced
<1>2. \A h, k \in DOMAIN other : h # g /\ k # g /\ h # k => From(h) # From(k)
  <2> SUFFICES ASSUME NEW h \in DOMAIN other, NEW k \in DOMAIN other, h # g, k # g, h # k
               PROVE  From(h) # From(k)
    OBVIOUS
  <2>1. h \in Nat /\ k \in Nat
    OBVIOUS
  <2>2. CASE h < g
    BY <2>1, <2>2
  <2>3. CASE h > g
    BY <2>1, <2>3
  <2> QED BY <2>1, <2>2, <2>3
<1> HIDE DEF From, To
<1>3. \A s \in DOMAIN series : \E k \in DOMAIN other : series[s].raw \in other[k].raws
  <2> SUFFICES ASSUME NEW s \in DOMAIN series
               PROVE  \E k \in DOMAIN other : series[s].raw \in other[k].raws
    OBVIOUS
  <2>1. PICK k \in DOMAIN groups : series[s].raw \in groups[k].raws
    BY DEF Tidy
  <2>2. To(k) \in DOMAIN other /\ other[To(k)] = groups[k]
    BY <1>1, <2>1
  <2> QED BY <2>1, <2>2
<1>4. \A k \in DOMAIN other : \A raw \in other[k].raws : \E s \in DOMAIN series : series[s].raw = raw
  <2> SUFFICES ASSUME NEW k \in DOMAIN other, NEW raw \in other[k].raws
               PROVE  \E s \in DOMAIN series : series[s].raw = raw
    OBVIOUS
  <2>1. k # g
    BY <1>1
  <2>2. From(k) \in DOMAIN groups /\ raw \in groups[From(k)].raws
    BY <1>1, <2>1
  <2> QED BY <2>2 DEF Tidy
<1>5. \A k \in DOMAIN other : \A s \in DOMAIN series :
        series[s].raw \in other[k].raws => series[s].side = other[k].side
  <2> SUFFICES ASSUME NEW k \in DOMAIN other, NEW s \in DOMAIN series,
                      series[s].raw \in other[k].raws
               PROVE  series[s].side = other[k].side
    OBVIOUS
  <2>1. k # g
    BY <1>1
  <2>2. From(k) \in DOMAIN groups /\ other[k] = groups[From(k)]
    BY <1>1, <2>1
  <2> QED BY <2>2 DEF Tidy
<1>6. \A h, k \in DOMAIN other : h # k => other[h].raws \cap other[k].raws = {}
  <2> TAKE h, k \in DOMAIN other
  <2>1. CASE h = g \/ k = g
    BY <1>1, <2>1
  <2>2. CASE h # g /\ k # g
    BY <1>1, <1>2, <2>2 DEF Tidy
  <2> QED BY <2>1, <2>2
<1> QED BY <1>1, <1>3, <1>4, <1>5, <1>6 DEF Tidy

Inserted(c, g, e) == [c EXCEPT !.groups = InsertAt(@, g, e)]

LEMMA PlacedFacts ==
  ASSUME NEW c, NEW last \in Nat, Good(c, last), NEW g \in DOMAIN c.groups,
         NEW e, IsNewGroup(e, c.axes),
         NEW d, d = Inserted(c, g, e)
  PROVE  /\ Good(d, last) /\ d.series = c.series /\ d.axes = c.axes
         /\ HasPlaced(c.groups, d.groups, g)
<1> DEFINE groups == InsertAt(c.groups, g, e)
           n == Len(c.groups)
<1>1. /\ c \in ChartRecord /\ Proper(c.axes) /\ GoodGroups(c.groups, last)
      /\ BoundTo(c.groups, c.axes)
      /\ n \in Nat /\ DOMAIN c.groups = 1 .. n /\ g \in 1 .. n + 1 /\ g \in Nat /\ g <= n
  <2>1. n \in Nat /\ DOMAIN c.groups = 1 .. n
    BY GoodFacts
  <2> HIDE DEF n
  <2>2. g \in 1 .. n + 1 /\ g \in Nat /\ g <= n
    BY <2>1
  <2> QED BY <2>1, <2>2 DEF Good
<1>2. e \in GroupRecord /\ e.loaded = 0 /\ e.ids # <<>>
  BY DEF IsNewGroup
<1>3. d = [c EXCEPT !.groups = groups]
  BY DEF Inserted
<1>4. /\ GoodGroups(groups, last)
      /\ Len(groups) = n + 1
      /\ groups[g] = e
      /\ \A k \in DOMAIN c.groups :
           groups[IF k < g THEN k ELSE k + 1] = c.groups[k]
      /\ \A k \in DOMAIN groups :
           k # g => /\ (IF k < g THEN k ELSE k - 1) \in DOMAIN c.groups
                    /\ groups[k] = c.groups[IF k < g THEN k ELSE k - 1]
  BY SMTT(30), <1>1, <1>2, GroupInserted
<1> HIDE DEF groups
<1>5. groups \in Seq(GroupRecord) /\ DOMAIN groups = 1 .. n + 1
  BY <1>4 DEF GoodGroups
<1>6. d \in ChartRecord /\ d.groups = groups /\ d.series = c.series /\ d.axes = c.axes
  BY <1>1, <1>3, <1>5 DEF ChartRecord
<1> HIDE DEF n
<1>7. HasPlaced(c.groups, groups, g)
  <2>1. groups # <<>> /\ groups[g].raws = {}
    BY <1>1, <1>4, <1>5, NotEmpty DEF IsNewGroup
  <2>2. \A k \in DOMAIN c.groups : (IF k < g THEN k ELSE k + 1) \in DOMAIN groups
    BY <1>1, <1>5
  <2> QED BY <1>4, <2>1, <2>2 DEF HasPlaced
<1>8. BoundTo(groups, c.axes)
  <2> SUFFICES ASSUME NEW k \in DOMAIN groups PROVE Range(groups[k].ids) \subseteq IdsOf(c.axes)
    BY DEF BoundTo
  <2>1. CASE k = g
    BY <1>4, <2>1 DEF IsNewGroup
  <2>2. CASE k # g
    <3> DEFINE was == IF k < g THEN k ELSE k - 1
    <3>1. was \in DOMAIN c.groups /\ groups[k] = c.groups[was]
      BY <1>4, <2>2
    <3> HIDE DEF was
    <3> QED BY <1>1, <3>1 DEF BoundTo
  <2> QED BY <2>1, <2>2
<1> QED BY <1>1, <1>4, <1>6, <1>7, <1>8 DEF Good

(* Axes that lost their last group go.                                     *)
LEMMA LeftFacts ==
  ASSUME NEW c, NEW last, Good(c, last), NEW candidates,
         NEW d, d = [c EXCEPT !.axes = PruneAxes(@, c.groups, candidates)]
  PROVE  Good(d, last) /\ d.groups = c.groups /\ d.series = c.series
<1> DEFINE axes == PruneAxes(c.axes, c.groups, candidates)
<1>1. c \in ChartRecord /\ Proper(c.axes) /\ GoodGroups(c.groups, last) /\ BoundTo(c.groups, c.axes)
  BY DEF Good
<1>2. /\ Proper(axes)
      /\ \A g \in DOMAIN c.groups : Range(c.groups[g].ids) \subseteq IdsOf(c.axes) =>
           Range(c.groups[g].ids) \subseteq IdsOf(axes)
  BY <1>1, PruneAxesFacts
<1>3. d = [c EXCEPT !.axes = axes]
  OBVIOUS
<1> HIDE DEF axes
<1>4. BoundTo(c.groups, axes)
  BY <1>1, <1>2 DEF BoundTo
<1>5. axes \in Seq(AxisRecord)
  BY <1>2 DEF Proper
<1>6. d \in ChartRecord /\ d.groups = c.groups /\ d.series = c.series /\ d.axes = axes
  BY <1>1, <1>3, <1>5 DEF ChartRecord
<1> QED BY <1>1, <1>2, <1>4, <1>6 DEF Good

LEMMA MoveGroupKeeps ==
  ASSUME NEW last \in Nat, Good(chart, last), NEW g \in DOMAIN chart.groups, NEW side \in Sides,
         MoveGroup(g, side)
  PROVE  Good(chart', last) /\ HandlesHold /\ Stable(chart')
<1> DEFINE source == chart.groups[g]
           target == TargetAxes(chart, g, side)
           going == Going(g, side, target)
           bound == {h \in DOMAIN chart.groups : chart.groups[h].ids # <<>>}
           held1 == side = "Secondary" /\ g = Min(bound)
           e == [source EXCEPT !.loaded = 0, !.raws = {}]
           placed == [going EXCEPT !.groups = InsertAt(@, g, e)]
           empty == {h \in DOMAIN chart.groups \ {g} :
                       /\ going.groups[h].side = side
                       /\ going.groups[h].type = source.type
                       /\ going.groups[h].ids = target.ids
                       /\ going.groups[h].raws = {}}
           met == empty # {} /\ MayPrune(going, Min(empty))
           one == Pruned(going, Min(empty))
           merged == IF met THEN [one EXCEPT !.moved = TRUE] ELSE going
           left == [merged EXCEPT !.axes = PruneAxes(@, merged.groups, Range(source.ids))]
<1>1. /\ Stable(chart) /\ source.ids # <<>> /\ target.ids # <<>>
      /\ chart' = IF held1 THEN placed ELSE left
      /\ RetiresIf(held1 \/ met, chart'.axes # chart.axes, {})
  BY DEF MoveGroup, Going
<1>2. /\ chart.groups \in Seq(GroupRecord) /\ source \in GroupRecord /\ g \in Nat
      /\ DOMAIN chart.groups \subseteq Nat /\ Range(source.ids) \subseteq IdsOf(chart.axes)
  <2>1. Range(source.ids) \subseteq IdsOf(chart.axes)
    BY DEF Good, BoundTo
  <2> QED BY <2>1, GoodFacts
<1>3. IsTarget(target, chart.axes)
  BY TargetAxesFacts
<1>4. /\ Good(going, last) /\ Tidy(going.groups, going.series)
      /\ SameSeries(chart, going) /\ SameGroups(chart, going)
      /\ DOMAIN going.groups = DOMAIN chart.groups /\ going.axes = target.axes
  <2>1. going = Going(g, side, target)
    OBVIOUS
  <2>2. Stable(chart) /\ target.ids # <<>>
    BY <1>1
  <2> HIDE DEF going, target
  <2>3. Good(going, last)
    BY <2>2, <1>3, <2>1, GoingFacts
  <2>4. Tidy(going.groups, going.series)
    BY <2>2, <1>3, <2>1, GoingFacts
  <2>5. SameSeries(chart, going) /\ SameGroups(chart, going)
    BY <2>2, <1>3, <2>1, GoingFacts
  <2>6. DOMAIN going.groups = DOMAIN chart.groups /\ going.axes = target.axes
    BY <2>2, <1>3, <2>1, GoingFacts
  <2> QED BY <2>3, <2>4, <2>5, <2>6
<1>5. /\ (held1 \/ met => "Group" \in retired') /\ (chart'.axes # chart.axes => "Axis" \in retired')
  <2> HIDE DEF held1, met
  <2> QED BY <1>1 DEF RetiresIf, Retires
<1>6. CASE held1
  <2>1. chart' = placed /\ "Group" \in retired'
    BY <1>1, <1>5, <1>6
  <2>2. IsNewGroup(e, going.axes)
    <3>1. /\ e \in GroupRecord /\ e.loaded = 0 /\ e.raws = {} /\ e.ids = source.ids
      <4> HIDE DEF source
      <4> QED BY <1>2 DEF GroupRecord
    <3>2. IdsOf(chart.axes) \subseteq IdsOf(going.axes)
      BY <1>3, <1>4 DEF IsTarget
    <3> HIDE DEF e, source, going
    <3> QED BY <1>1, <1>2, <3>1, <3>2 DEF IsNewGroup
  <2>3. g \in DOMAIN going.groups /\ placed = Inserted(going, g, e)
    <3>1. placed = Inserted(going, g, e)
      BY DEF Inserted
    <3> HIDE DEF placed, going, e
    <3> QED BY <1>4, <3>1
  <2> HIDE DEF going, e, placed, held1, met
  <2>4. /\ Good(placed, last) /\ placed.series = going.series /\ placed.axes = going.axes
        /\ HasPlaced(going.groups, placed.groups, g)
    BY <1>4, <2>2, <2>3, PlacedFacts
  <2>5. /\ placed.groups \in Seq(GroupRecord) /\ going.groups \in Seq(GroupRecord)
        /\ placed.series \in Seq(SeriesRecord)
    BY <1>4, <2>4, GoodFacts
  <2>6. Tidy(placed.groups, placed.series)
    BY <1>2, <1>4, <2>4, <2>5, TidyPlaced
  <2>7. Stable(placed)
    BY <2>5, <2>6, StableIsTidy
  <2>8. SameSeries(chart, placed)
    BY <1>4, <2>4 DEF SameSeries
  <2> QED BY <1>5, <2>1, <2>4, <2>7, <2>8 DEF HandlesHold
<1>7. CASE ~held1
  <2>1. chart' = left
    BY <1>1, <1>7
  <2>2. /\ Good(merged, last) /\ merged.series = going.series
        /\ Tidy(merged.groups, going.series)
        /\ (~met => merged = going)
    <3>1. CASE ~met
      <4>1. merged = going
        BY <3>1
      <4> QED BY <1>4, <3>1, <4>1
    <3>2. CASE met
      <4>1. Min(empty) \in DOMAIN going.groups
        <5>1. empty # {} /\ empty \subseteq Nat
          BY <1>2, <3>2
        <5> QED BY <1>4, <5>1, LeastPlace
      <4>2. merged = [one EXCEPT !.moved = TRUE] /\ one = Pruned(going, Min(empty))
        BY <3>2
      <4> HIDE DEF going, empty, one, merged
      <4>3. /\ Good(one, last) /\ one.series = going.series
            /\ (Tidy(going.groups, going.series) => Tidy(one.groups, going.series))
        BY <1>4, <4>1, <4>2, PrunedFacts
      <4>4. one \in ChartRecord /\ Proper(one.axes) /\ GoodGroups(one.groups, last)
            /\ BoundTo(one.groups, one.axes)
        BY <4>3 DEF Good
      <4>5. /\ merged \in ChartRecord /\ merged.groups = one.groups /\ merged.axes = one.axes
            /\ merged.series = one.series
        BY <4>2, <4>4 DEF ChartRecord
      <4>6. Good(merged, last)
        BY <4>4, <4>5 DEF Good
      <4> QED BY <1>4, <3>2, <4>3, <4>5, <4>6
    <3> QED BY <3>1, <3>2
  <2>3. left = [merged EXCEPT !.axes = PruneAxes(@, merged.groups, Range(source.ids))]
    OBVIOUS
  <2> HIDE DEF going, merged, left, met, held1, source
  <2>4. Good(left, last) /\ left.groups = merged.groups /\ left.series = merged.series
    BY <2>2, <2>3, LeftFacts
  <2>5. Stable(left)
    <3>1. left.series \in Seq(SeriesRecord)
      BY <2>4, GoodFacts
    <3> QED BY <2>2, <2>4, <3>1, StableIsTidy
  <2>6. SameSeries(chart, left)
    BY <1>4, <2>2, <2>4 DEF SameSeries
  <2>7. ~met => SameGroups(chart, left)
    BY <1>4, <2>2, <2>4 DEF SameGroups
  <2> QED BY <1>5, <2>1, <2>4, <2>5, <2>6, <2>7 DEF HandlesHold
<1> QED BY <1>6, <1>7

LEMMA SaveChartKeeps ==
  ASSUME Good(chart, Len(part)), part \in Seq(Types), SaveChart
  PROVE  /\ Good(chart', Len(part')) /\ part' \in Seq(Types) /\ Stable(chart')
         /\ SameSeries(chart, chart') /\ chart'.axes = chart.axes
         /\ DOMAIN chart'.groups = DOMAIN chart.groups
         /\ \A g \in DOMAIN chart.groups : chart'.groups[g].type = chart.groups[g].type
<1> DEFINE file == AsFile(chart)
<1>1. Stable(chart) /\ part' = TypesOf(file) /\ chart' = Renumbered(chart)
  BY DEF SaveChart, Encodable
<1>2. IsFile(file)
  BY <1>1, WrittenIsFile
<1>3. Len(file.groups) = Len(chart.groups)
  BY AsFileFacts
<1> HIDE DEF file
<1>4. part' \in Seq(Types) /\ Len(part') = Len(chart.groups)
  BY <1>1, <1>2, <1>3, TypesOfFacts
<1> DEFINE d == Renumbered(chart)
<1>5. /\ Good(d, Len(chart.groups))
      /\ d.series = chart.series /\ d.axes = chart.axes /\ DOMAIN d.groups = DOMAIN chart.groups
      /\ \A g \in DOMAIN chart.groups :
           d.groups[g].type = chart.groups[g].type /\ d.groups[g].raws = chart.groups[g].raws
      /\ \A series : Tidy(chart.groups, series) => Tidy(d.groups, series)
  BY RenumberedFacts
<1>6. Tidy(chart.groups, chart.series) /\ chart.series \in Seq(SeriesRecord)
  BY <1>1, GoodFacts, StableIsTidy
<1>7. Tidy(d.groups, d.series)
  BY <1>5, <1>6
<1> HIDE DEF d
<1>8. Stable(d)
  BY <1>5, <1>6, <1>7, StableIsTidy
<1>9. chart' = d
  BY <1>1 DEF d
<1> QED BY <1>4, <1>5, <1>8, <1>9 DEF SameSeries

LEMMA ReopenKeeps ==
  ASSUME Good(chart, Len(part)), part \in Seq(Types), Reopen
  PROVE  /\ Good(chart', Len(part')) /\ part' \in Seq(Types) /\ Stable(chart')
         /\ retired' = {"Series", "Group", "Axis"}
<1> DEFINE file == AsFile(chart)
           d == Read(file)
<1>1. /\ Stable(chart) /\ part' = TypesOf(file) /\ chart' = d
      /\ retired' = {"Series", "Group", "Axis"}
  BY DEF Reopen, Encodable, Retires
<1>2. IsFile(file)
  BY <1>1, WrittenIsFile
<1>3. d = Read(file)
  OBVIOUS
<1> HIDE DEF file, d
<1>4. part' \in Seq(Types) /\ Len(part') = Len(file.groups)
  BY <1>1, <1>2, TypesOfFacts
<1>5. Good(d, Len(file.groups)) /\ Tidy(d.groups, d.series)
  BY <1>2, <1>3, ReadFacts
<1>6. Stable(d)
  <2>1. d.series \in Seq(SeriesRecord)
    BY <1>5, GoodFacts
  <2> QED BY <1>5, <2>1, StableIsTidy
<1> QED BY <1>1, <1>4, <1>5, <1>6

-----------------------------------------------------------------------------
(* The inductive invariant: the chart is good, the places of its groups are *)
(* places of its part.                                                     *)
Kinds == {"Series", "Group", "Axis"}

IInv == Good(chart, Len(part)) /\ part \in Seq(Types) /\ retired \subseteq Kinds

HandlesStep ==
  /\ "Series" \notin retired' => \A s \in DOMAIN chart.series :
       s \in DOMAIN chart'.series /\ chart'.series[s].raw = chart.series[s].raw
  /\ "Axis" \notin retired' => \A i \in DOMAIN chart.axes :
       i \in DOMAIN chart'.axes /\ chart'.axes[i].id = chart.axes[i].id
  /\ "Group" \notin retired' /\ Stable(chart) /\ Stable(chart') =>
       \A g \in DOMAIN chart.groups :
         /\ g \in DOMAIN chart'.groups
         /\ chart'.groups[g].type = chart.groups[g].type
         /\ \/ chart'.groups[g].loaded = chart.groups[g].loaded
            \/ SaveChart

PartitionStep ==
  Stable(chart) /\ chart'.groups # <<>> =>
    \/ Stable(chart')
    \/ \E n \in 1 .. MaxSeries : ReplaceSeries(n)
    \/ \E s \in DOMAIN chart.series : \E side \in Sides : MarkSeries(s, side)
    \/ PasteValues /\ \A g \in DOMAIN chart.groups : chart.groups[g].side = "Secondary"

LEMMA InitGood == Init => IInv
<1> SUFFICES ASSUME Init PROVE IInv
  OBVIOUS
<1>1. PICK file \in Files : chart = Read(file) /\ part = TypesOf(file) /\ retired = {}
  BY DEF Init
<1>2. IsFile(file)
  BY FilesAreCharts
<1>3. part \in Seq(Types) /\ Len(part) = Len(file.groups)
  BY <1>1, <1>2, TypesOfFacts
<1>4. Good(chart, Len(file.groups))
  BY <1>1, <1>2, ReadFacts
<1> QED BY <1>1, <1>3, <1>4 DEF IInv

(* An operation retires some of the three kinds.                           *)
RetiresSome == \E a, b : RetiresIf(a, b, {}) \/ RetiresIf(a, b, {"Series"})

LEMMA NothingUnknownRetired == Next => retired' \subseteq Kinds
<1> SUFFICES ASSUME Next PROVE retired' \subseteq Kinds
  OBVIOUS
<1>0. RetiresSome => retired' \subseteq Kinds
  BY DEF RetiresSome, RetiresIf, Retires, Kinds
<1>1. CASE NewSeries
  BY <1>1 DEF NewSeries, Retires, Kinds
<1>2. CASE \E g \in DOMAIN chart.groups : NewSeriesOfGroup(g)
  BY <1>2 DEF NewSeriesOfGroup, Retires, Kinds
<1>3. ASSUME NEW side \in Sides, NewSeriesOfSide(side) PROVE RetiresSome
  BY <1>3, Zenon DEF NewSeriesOfSide, RetiresSome
<1>4. ASSUME NEW s \in DOMAIN chart.series, DeleteSeries(s) PROVE RetiresSome
  BY <1>4, Zenon DEF DeleteSeries, RetiresSome
<1>5. ASSUME NEW s \in DOMAIN chart.series, NEW side \in Sides, MoveSeries(s, side)
      PROVE  RetiresSome
  BY <1>5, Zenon DEF MoveSeries, RetiresSome
<1>6. ASSUME NEW s \in DOMAIN chart.series, NEW side \in Sides, MarkSeries(s, side)
      PROVE  RetiresSome
  BY <1>6, Zenon DEF MarkSeries, RetiresSome
<1>7. ASSUME NEW g \in DOMAIN chart.groups, NEW side \in Sides, MoveGroup(g, side)
      PROVE  RetiresSome
  BY <1>7, Zenon DEF MoveGroup, RetiresSome
<1>8. ASSUME NEW g \in 1 .. 2, NEW side \in Sides, MarkGroup(g, side)
      PROVE  RetiresSome
  BY <1>8, Zenon DEF MarkGroup, RetiresSome
<1>9. CASE \E n \in 1 .. MaxSeries : ReplaceSeries(n)
  BY <1>9 DEF ReplaceSeries, Retires, Kinds
<1>10. CASE ClearSeries
  BY <1>10 DEF ClearSeries, Retires, Kinds
<1>11. CASE PasteValues
  BY <1>11 DEF PasteValues, Retires, Kinds
<1>12. ASSUME NEW type \in NewTypes, SetChartType(type) PROVE RetiresSome
  BY <1>12, Zenon DEF SetChartType, RetiresSome
<1>13. CASE \E kind \in AxisKinds : \E side \in Sides :
              \E present \in BOOLEAN : SetHasAxis(kind, side, present)
  BY <1>13 DEF SetHasAxis, Retires, Kinds
<1>14. CASE \E i \in DOMAIN chart.axes : DeleteAxis(i)
  BY <1>14 DEF DeleteAxis, Retires, Kinds
<1>15. CASE SaveChart
  BY <1>15 DEF SaveChart, Retires, Kinds
<1>16. CASE Reopen
  BY <1>16 DEF Reopen, Retires, Kinds
<1> QED BY <1>0, <1>1, <1>2, <1>3, <1>4, <1>5, <1>6, <1>7, <1>8, <1>9, <1>10, <1>11, <1>12, <1>13,
           <1>14, <1>15, <1>16 DEF Next

LEMMA KeptIsEnough ==
  ASSUME Good(chart', Len(part)), HandlesHold, part' = part, part \in Seq(Types),
         retired' \subseteq Kinds
  PROVE  IInv' /\ HandlesStep
<1>1. IInv'
  BY DEF IInv
<1>2. "Series" \notin retired' => SameSeries(chart, chart')
  BY DEF HandlesHold
<1>3. "Axis" \notin retired' => chart'.axes = chart.axes
  BY DEF HandlesHold
<1>4. "Group" \notin retired' /\ Stable(chart) /\ Stable(chart') => SameGroups(chart, chart')
  BY DEF HandlesHold
<1> QED BY <1>1, <1>2, <1>3, <1>4 DEF HandlesStep, SameSeries, SameGroups

LEMMA StepKeeps ==
  ASSUME IInv, Next
  PROVE  IInv' /\ HandlesStep /\ PartitionStep
<1> DEFINE last == Len(part)
           Kept == Good(chart', last) /\ HandlesHold /\ part' = part
<1>1. last \in Nat /\ Good(chart, last) /\ part \in Seq(Types)
  BY DEF IInv
<1>2. Kept => IInv' /\ HandlesStep
  BY <1>1, NothingUnknownRetired, KeptIsEnough
<1>3. /\ (Stable(chart) => Stable(chart')) => PartitionStep
      /\ ~Stable(chart) => PartitionStep
      /\ chart'.groups = <<>> => PartitionStep
  BY DEF PartitionStep
<1>4. (chart.groups # <<>> => Stable(chart')) => PartitionStep
  BY DEF PartitionStep, Stable
<1> HIDE DEF last
<1>5. CASE NewSeries
  <2>1. part' = part
    BY <1>5 DEF NewSeries
  <2> QED BY <1>1, <1>2, <1>3, <1>5, <2>1, NewSeriesKeeps
<1>6. ASSUME NEW g \in DOMAIN chart.groups, NewSeriesOfGroup(g)
      PROVE  IInv' /\ HandlesStep /\ PartitionStep
  <2>1. part' = part
    BY <1>6 DEF NewSeriesOfGroup
  <2> QED BY <1>1, <1>2, <1>3, <1>6, <2>1, NewSeriesOfGroupKeeps
<1>7. ASSUME NEW side \in Sides, NewSeriesOfSide(side)
      PROVE  IInv' /\ HandlesStep /\ PartitionStep
  <2>1. part' = part
    BY <1>7 DEF NewSeriesOfSide
  <2> QED BY <1>1, <1>2, <1>3, <1>7, <2>1, NewSeriesOfSideKeeps
<1>8. ASSUME NEW s \in DOMAIN chart.series, DeleteSeries(s)
      PROVE  IInv' /\ HandlesStep /\ PartitionStep
  <2>1. part' = part
    BY <1>8 DEF DeleteSeries
  <2> QED BY <1>1, <1>2, <1>4, <1>8, <2>1, DeleteSeriesKeeps
<1>9. ASSUME NEW s \in DOMAIN chart.series, NEW side \in Sides, MoveSeries(s, side)
      PROVE  IInv' /\ HandlesStep /\ PartitionStep
  <2>1. part' = part
    BY <1>9 DEF MoveSeries
  <2> QED BY <1>1, <1>2, <1>3, <1>9, <2>1, MoveSeriesKeeps
<1>10. ASSUME NEW s \in DOMAIN chart.series, NEW side \in Sides, MarkSeries(s, side)
       PROVE  IInv' /\ HandlesStep /\ PartitionStep
  <2>1. part' = part
    BY <1>10 DEF MarkSeries
  <2>2. PartitionStep
    BY <1>10, Zenon DEF PartitionStep
  <2> QED BY <1>1, <1>2, <1>10, <2>1, <2>2, MarkSeriesKeeps
<1>11. ASSUME NEW g \in DOMAIN chart.groups, NEW side \in Sides, MoveGroup(g, side)
       PROVE  IInv' /\ HandlesStep /\ PartitionStep
  <2>1. part' = part
    BY <1>11 DEF MoveGroup
  <2> QED BY <1>1, <1>2, <1>3, <1>11, <2>1, MoveGroupKeeps
<1>12. ASSUME NEW g \in 1 .. 2, NEW side \in Sides, MarkGroup(g, side)
       PROVE  IInv' /\ HandlesStep /\ PartitionStep
  <2>1. part' = part
    BY <1>12 DEF MarkGroup
  <2> QED BY <1>1, <1>2, <1>3, <1>12, <2>1, MarkGroupKeeps
<1>13. ASSUME NEW n \in 1 .. MaxSeries, ReplaceSeries(n)
       PROVE  IInv' /\ HandlesStep /\ PartitionStep
  <2>1. part' = part
    BY <1>13 DEF ReplaceSeries
  <2>2. PartitionStep
    BY <1>13, Zenon DEF PartitionStep
  <2>3. n \in Nat
    BY BoundsAreNumbers
  <2> QED BY <1>1, <1>2, <1>13, <2>1, <2>2, <2>3, ReplaceSeriesKeeps
<1>14. CASE ClearSeries
  <2>1. part' = part
    BY <1>14 DEF ClearSeries
  <2> QED BY <1>1, <1>2, <1>3, <1>14, <2>1, ClearSeriesKeeps
<1>15. CASE PasteValues
  <2>1. part' = part
    BY <1>15 DEF PasteValues
  <2>2. Good(chart', last) /\ HandlesHold
    BY <1>1, <1>15, PasteValuesKeeps
  <2>3. Stable(chart) => Stable(chart') \/ \A g \in DOMAIN chart.groups : chart.groups[g].side = "Secondary"
    BY <1>1, <1>15, PasteValuesKeeps
  <2>4. PartitionStep
    BY <1>15, <2>3, Zenon DEF PartitionStep
  <2> QED BY <1>2, <2>1, <2>2, <2>4
<1>16. ASSUME NEW type \in NewTypes, SetChartType(type)
       PROVE  IInv' /\ HandlesStep /\ PartitionStep
  <2>1. part' = part
    BY <1>16 DEF SetChartType
  <2>2. type \in Types
    BY FamiliesAreKnown
  <2> QED BY <1>1, <1>2, <1>3, <1>16, <2>1, <2>2, SetChartTypeKeeps
<1>17. ASSUME NEW kind \in AxisKinds, NEW side \in Sides, NEW present \in BOOLEAN,
              SetHasAxis(kind, side, present)
       PROVE  IInv' /\ HandlesStep /\ PartitionStep
  <2>1. part' = part
    BY <1>17 DEF SetHasAxis
  <2> QED BY <1>1, <1>2, <1>3, <1>17, <2>1, SetHasAxisKeeps
<1>18. ASSUME NEW i \in DOMAIN chart.axes, DeleteAxis(i)
       PROVE  IInv' /\ HandlesStep /\ PartitionStep
  <2>1. part' = part
    BY <1>18 DEF DeleteAxis
  <2> QED BY <1>1, <1>2, <1>3, <1>18, <2>1, DeleteAxisKeeps
<1>19. CASE SaveChart
  <2>1. /\ Good(chart', Len(part')) /\ part' \in Seq(Types) /\ Stable(chart')
        /\ SameSeries(chart, chart') /\ chart'.axes = chart.axes
        /\ DOMAIN chart'.groups = DOMAIN chart.groups
        /\ \A g \in DOMAIN chart.groups : chart'.groups[g].type = chart.groups[g].type
    BY <1>1, <1>19, SaveChartKeeps DEF last
  <2>2. IInv'
    BY <2>1, NothingUnknownRetired DEF IInv
  <2>3. HandlesStep
    BY <1>19, <2>1 DEF HandlesStep, SameSeries
  <2> QED BY <1>3, <2>1, <2>2, <2>3
<1>20. CASE Reopen
  <2>1. /\ Good(chart', Len(part')) /\ part' \in Seq(Types) /\ Stable(chart')
        /\ retired' = {"Series", "Group", "Axis"}
    BY <1>1, <1>20, ReopenKeeps DEF last
  <2>2. IInv'
    BY <2>1, NothingUnknownRetired DEF IInv
  <2>3. HandlesStep
    BY <2>1 DEF HandlesStep
  <2> QED BY <1>3, <2>1, <2>2, <2>3
<1> QED BY <1>5, <1>6, <1>7, <1>8, <1>9, <1>10, <1>11, <1>12, <1>13, <1>14, <1>15, <1>16, <1>17,
           <1>18, <1>19, <1>20 DEF Next

-----------------------------------------------------------------------------
(* Between operations nothing changes, and a stuttering step breaks nothing. *)
LEMMA StutterKeeps ==
  ASSUME IInv, UNCHANGED vars
  PROVE  IInv'
BY DEF IInv, vars

(* Whatever is done to a chart, in the session or in its files, the chart  *)
(* is good: its axes are distinct and there, its groups keep the order of  *)
(* the part, and a group that names no axes is a primary one of the part.  *)
THEOREM ChartsAreGood == Spec => []IInv
<1>1. Init => IInv
  BY InitGood
<1>2. IInv /\ [Next]_vars => IInv'
  BY StepKeeps, StutterKeeps
<1> QED BY <1>1, <1>2, PTL DEF Spec

(* The state keeps its type, and a group that came from the part names a   *)
(* place in it.                                                            *)
THEOREM TypesHold == Spec => []TypeOK
<1>1. IInv => TypeOK
  <2> SUFFICES ASSUME IInv PROVE TypeOK
    OBVIOUS
  <2>1. /\ chart \in ChartRecord /\ FromPart(chart.groups, Len(part)) /\ part \in Seq(Types)
    BY DEF IInv, Good, GoodGroups
  <2>2. \A g \in DOMAIN chart.groups : chart.groups[g].loaded \in Nat
    BY GoodFacts DEF IInv
  <2>3. Len(part) \in Nat
    BY <2>1
  <2>4. \A g \in DOMAIN chart.groups : chart.groups[g].loaded \in 0 .. Len(part)
    BY <2>1, <2>2, <2>3 DEF FromPart
  <2> QED BY <2>1, <2>4 DEF TypeOK, ChartRecord, IInv, Kinds
<1> QED BY <1>1, ChartsAreGood, PTL

(* No two axes share an id, the axes a group names are there, and so is the *)
(* axis another one crosses.                                               *)
THEOREM AxesStayBound == Spec => []AxesAreBound
<1>1. IInv => AxesAreBound
  <2> SUFFICES ASSUME IInv PROVE AxesAreBound
    OBVIOUS
  <2> DEFINE axes == chart.axes
             n == Len(axes)
             ids == [i \in 1 .. n |-> axes[i].id]
  <2>1. Proper(axes) /\ BoundTo(chart.groups, axes)
    BY DEF IInv, Good
  <2>2. n \in Nat /\ DOMAIN axes = 1 .. n
    BY <2>1 DEF Proper
  <2>3. DOMAIN ids = 1 .. n /\ \A i \in 1 .. n : ids[i] = axes[i].id
    OBVIOUS
  <2>4. ids = [i \in 1 .. n |-> ids[i]]
    OBVIOUS
  <2>5. IdsOf(axes) = {ids[i] : i \in 1 .. n}
    BY <2>2, <2>3 DEF IdsOf
  <2> DEFINE all == IdsOf(axes)
  <2>6. all = {ids[i] : i \in 1 .. n}
    BY <2>5
  <2>7. \A i, j \in 1 .. n : ids[i] = ids[j] => i = j
    BY <2>1, <2>2, <2>3 DEF Proper, Distinct
  <2> HIDE DEF ids, n, all
  <2>8. Cardinality(all) = n
    BY <2>2, <2>3, <2>4, <2>6, <2>7, ImageFacts
  <2> QED BY <2>1, <2>8 DEF AxesAreBound, Proper, Crossed, BoundTo, n, all
<1> QED BY <1>1, ChartsAreGood, PTL

(* The groups come back from a save with their places, families, axes,     *)
(* series and sides, as long as their axes tell the sides apart.           *)
THEOREM GroupsSurviveSaves == Spec => []SavesKeepTheGroups
<1>1. IInv => SavesKeepTheGroups
  <2> SUFFICES ASSUME IInv, SidesAreTold(chart) PROVE
        LET back == Read(AsFile(chart))
        IN  /\ Len(back.groups) = Len(chart.groups)
            /\ \A g \in DOMAIN chart.groups :
                 back.groups[g] = [chart.groups[g] EXCEPT !.loaded = g]
    BY DEF SavesKeepTheGroups
  <2> QED BY GroupsComeBack DEF IInv
<1> QED BY <1>1, ChartsAreGood, PTL

(* Every series stays in one group of its side, but through the operations *)
(* that do not tell the groups.                                            *)
THEOREM SeriesStayInOneGroup == Spec => PartitionIsKept
<1>1. IInv /\ [Next]_vars => [PartitionStep]_vars
  BY StepKeeps
<1>2. Spec => [][PartitionStep]_vars
  BY <1>1, ChartsAreGood, PTL DEF Spec
<1> QED BY <1>2 DEF PartitionIsKept, PartitionStep

(* A handle that an operation does not retire denotes what it denoted.     *)
THEOREM HandlesStayTrue == Spec => HandlesDenote
<1>1. IInv /\ [Next]_vars => [HandlesStep]_vars
  BY StepKeeps
<1>2. Spec => [][HandlesStep]_vars
  BY <1>1, ChartsAreGood, PTL DEF Spec
<1> QED BY <1>2 DEF HandlesDenote, HandlesStep
=============================================================================
