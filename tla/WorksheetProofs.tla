-------------------------- MODULE WorksheetProofs --------------------------
(***************************************************************************)
(* What holds of a worksheet of every size, for every set of values and    *)
(* formulas and every loaded file.  The save preflight is only safe when   *)
(* no formula result is blank: MCWorksheet shows what happens otherwise.   *)
(***************************************************************************)
EXTENDS Worksheet, TLAPS

(* The hypothesis: array results are never blank, and the file shows a      *)
(* value in every spill child and in every cell of a formula group.         *)
NothingShownIsBlank ==
  /\ Blank \notin ArrayValue
  /\ \A s \in LoadedSheets :
       /\ \A a \in Cell : \A k \in s.spills[a] : Occupied(s.cells[k])
       /\ \A g \in s.groups : \A k \in g.owns : Occupied(s.cells[k])

(* The inductive strengthening: a spill range is full of its own children,  *)
(* so that the obstruction test, which looks only at cell contents, sees it. *)
RangesAreFull ==
  \A a, k \in Cell : k \in spill_ranges[a] /\ k # a =>
    /\ spill_owners[k] = a
    /\ ~HasFormula(cells[k]) /\ Occupied(cells[k])

GroupsAreFull ==
  \A g \in formula_groups : \A k \in g.owns : Occupied(cells[k])

DynamicIsApart == \A a \in dynamic_array_formulas : ~IsGroupMember(a)

TodoHasFormulas ==
  /\ \A k \in todo : HasFormula(cells[k])
  /\ ~calculating => todo = {}

SpillInv ==
  /\ TypeOK /\ ValidForSave
  /\ RangesAreFull /\ GroupsAreFull /\ DynamicIsApart /\ TodoHasFormulas

-----------------------------------------------------------------------------
(* What is stored in a cell, and what is left of it when it is cleared.     *)
LEMMA SlotFacts ==
  /\ BareBlank \in CellData
  /\ \A v \in CellValue, f \in Formula \cup {NoFormula}, s \in BOOLEAN :
        Stored(v, f, s) \in Slot
  /\ \A slot \in Slot : IsStyled(slot) \in BOOLEAN /\ Cleared(slot) \in Slot
  /\ \A slot \in Slot : HasFormula(slot) => Occupied(slot)
  /\ \A slot \in Slot : ~HasFormula(Cleared(slot))
BY ConstantsAreDistinct
   DEF BareBlank, CellData, CellValue, Slot, Stored, IsStyled, Cleared, HasFormula, Occupied

(* Putting a value keeps the style and stores what it was given.            *)
LEMMA PutFacts ==
  ASSUME TypeOK, NEW k \in Cell, NEW v \in CellValue, NEW f \in Formula \cup {NoFormula}
  PROVE  /\ Put(k, v, f) \in Slot
         /\ f # NoFormula => HasFormula(Put(k, v, f))
<1>1. IsStyled(cells[k]) \in BOOLEAN
  BY SlotFacts DEF TypeOK
<1>2. Put(k, v, f) \in Slot
  BY <1>1, SlotFacts DEF Put
<1>3. ASSUME f # NoFormula PROVE HasFormula(Put(k, v, f))
  <2> DEFINE slot == [value |-> v, formula |-> f, styled |-> IsStyled(cells[k])]
  <2>1. slot # BareBlank /\ slot.formula = f
    BY <1>3 DEF BareBlank
  <2>2. slot \in CellData
    BY <1>1 DEF CellData
  <2>3. Put(k, v, f) = slot
    BY <2>1 DEF Put, Stored
  <2> QED BY <1>3, <2>1, <2>2, <2>3, ConstantsAreDistinct DEF HasFormula
<1> QED BY <1>2, <1>3

(* The area of a result starts at its anchor.                               *)
LEMMA RectHasCorner ==
  ASSUME NEW a \in Cell, NEW h \in 1..MaxExtent, NEW w \in 1..MaxExtent
  PROVE  a \in RectFrom(a, h, w)
BY AreasOnGrid DEF Cell, RectFrom

-----------------------------------------------------------------------------
(* Every command but ClearFormats ends in Write.                            *)
LEMMA WriteKeepsSpillInv ==
  ASSUME SpillInv, ~calculating,
         NEW touched \in SUBSET Cell, NEW new, NEW dynamic \in SUBSET touched,
         MayEdit(touched),
         \A k \in touched : new[k] \in Slot,
         \A k \in dynamic : HasFormula(new[k]),
         Write(touched, new, dynamic)
  PROVE  SpillInv'
<1> DEFINE orphans == ChildrenOf(touched)
<1> USE DEF SpillInv, ValidForSave
<1>1. /\ cells' = [k \in Cell |-> IF k \in touched THEN new[k]
                                  ELSE IF k \in orphans THEN Cleared(cells[k])
                                  ELSE cells[k]]
      /\ spill_owners' = [k \in Cell |-> IF k \in touched \cup orphans
                                         THEN NoOwner ELSE spill_owners[k]]
      /\ spill_ranges' = [k \in Cell |-> IF k \in touched THEN {} ELSE spill_ranges[k]]
      /\ dynamic_array_formulas' = (dynamic_array_formulas \ touched) \cup dynamic
      /\ dirty_cells' = dirty_cells \cup touched \cup orphans
      /\ semantic_dirty' = TRUE
      /\ formula_groups' = formula_groups /\ formula_cache_dirty' = formula_cache_dirty
      /\ calculating' = calculating /\ todo' = todo
      /\ formula_cache_changed' = formula_cache_changed
  BY DEF Write, Marked, pass
<1>2. orphans \subseteq Cell
  BY DEF ChildrenOf
<1>3. \A k \in orphans : ~HasFormula(cells[k]) /\ ~IsGroupMember(k)
  BY ConstantsAreDistinct
     DEF ChildrenOf, ChildrenAreMaterialized, GroupsAreApart, IsGroupMember, TypeOK
<1>4. \A k \in touched : ~IsGroupMember(k) /\ spill_owners[k] = NoOwner
                        /\ \A a \in Cell : a # k => k \notin spill_ranges[a]
  BY DEF MayEdit, IsSpillChild
<1>5. TypeOK'
  <2>1. \A k \in Cell : cells'[k] \in Slot
    BY <1>1, <1>2, SlotFacts DEF TypeOK
  <2>2. cells' \in [Cell -> Slot]
    BY <1>1, <2>1
  <2> QED BY <1>1, <1>2, <2>2 DEF TypeOK
<1>6. \A k \in Cell : HasFormula(cells[k]) /\ k \notin touched => cells'[k] = cells[k]
  BY <1>1, <1>3
<1>7. \A a, k \in Cell : k \in spill_ranges'[a] /\ k # a =>
         /\ spill_ranges'[a] = spill_ranges[a] /\ a \notin touched
         /\ k \notin touched /\ k \notin orphans
         /\ cells'[k] = cells[k] /\ spill_owners'[k] = spill_owners[k]
  BY <1>1, <1>4 DEF RangesAreFull, ChildrenOf, TypeOK
<1>8. AnchorsHaveFormulas'
  BY <1>1, <1>4, <1>6 DEF AnchorsHaveFormulas, TypeOK
<1>9. SpillRangesDisjoint'
  BY <1>1 DEF SpillRangesDisjoint
<1>10. ChildrenAreMaterialized'
  <2> SUFFICES ASSUME NEW k \in Cell, spill_owners'[k] # NoOwner
               PROVE  /\ k # spill_owners'[k] /\ k \in spill_ranges'[spill_owners'[k]]
                      /\ cells'[k] # NoCell /\ ~HasFormula(cells'[k])
    BY DEF ChildrenAreMaterialized
  <2>1. /\ spill_owners'[k] = spill_owners[k] /\ spill_owners[k] \in Cell
        /\ k \notin touched /\ k \notin orphans
    BY <1>1 DEF TypeOK
  <2>2. k \in spill_ranges[spill_owners[k]] /\ spill_owners[k] \notin touched
    BY <2>1 DEF ChildrenAreMaterialized, ChildrenOf
  <2> QED BY <1>1, <2>1, <2>2 DEF ChildrenAreMaterialized
<1>11. \A g \in formula_groups : \A k \in g.owns : cells'[k] = cells[k]
  BY <1>1, <1>3, <1>4 DEF IsGroupMember, TypeOK
<1>12. GroupsAreApart'
  BY <1>1, <1>11 DEF GroupsAreApart, TypeOK
<1>13. RangesAreFull'
  BY <1>7 DEF RangesAreFull
<1>14. GroupsAreFull'
  BY <1>1, <1>11 DEF GroupsAreFull
<1>15. DynamicIsApart'
  BY <1>1, <1>4 DEF DynamicIsApart, IsGroupMember
<1>16. TodoHasFormulas'
  BY <1>1 DEF TodoHasFormulas
<1> QED BY <1>5, <1>8, <1>9, <1>10, <1>12, <1>13, <1>14, <1>15, <1>16

(* ClearFormats removes styles and with them cells that held nothing else.  *)
LEMMA ClearFormatsKeepsSpillInv ==
  ASSUME SpillInv, NEW area \in Areas, ClearFormats(area)
  PROVE  SpillInv'
<1> USE DEF SpillInv, ValidForSave
<1> DEFINE touched == {k \in area : IsStyled(cells[k])}
           kept(k) == HasTopology(k) \/ IsSpillChild(k) \/ Occupied(cells[k])
<1>1. /\ cells' = [k \in Cell |->
                    IF k \notin touched THEN cells[k]
                    ELSE IF kept(k) THEN [cells[k] EXCEPT !.styled = FALSE]
                    ELSE NoCell]
      /\ dirty_cells' = dirty_cells \cup touched
      /\ semantic_dirty' = TRUE
      /\ dynamic_array_formulas' = dynamic_array_formulas
      /\ spill_ranges' = spill_ranges /\ spill_owners' = spill_owners
      /\ formula_groups' = formula_groups /\ formula_cache_dirty' = formula_cache_dirty
      /\ calculating' = calculating /\ todo' = todo
      /\ formula_cache_changed' = formula_cache_changed
  BY DEF ClearFormats, topology, pass
<1>2. touched \subseteq Cell
  BY AreasOnGrid
<1>3. \A k \in Cell : /\ cells'[k] \in Slot
                      /\ (k \in touched => cells[k] # NoCell)
                      /\ cells[k] \in Slot
  <2> SUFFICES ASSUME NEW k \in Cell
               PROVE  cells'[k] \in Slot /\ (k \in touched => cells[k] # NoCell)
    BY DEF TypeOK
  <2>1. k \in touched => cells[k] # NoCell /\ cells[k] \in CellData
    BY DEF TypeOK, Slot, IsStyled
  <2>2. \A slot \in CellData : [slot EXCEPT !.styled = FALSE] \in CellData
    BY DEF CellData
  <2>3. cells'[k] = IF k \notin touched THEN cells[k]
                    ELSE IF kept(k) THEN [cells[k] EXCEPT !.styled = FALSE] ELSE NoCell
    BY <1>1
  <2> HIDE DEF touched, kept
  <2> QED BY <2>1, <2>2, <2>3 DEF TypeOK, Slot
<1>4. TypeOK'
  BY <1>1, <1>2, <1>3 DEF TypeOK
<1>5. \A k \in Cell : kept(k) => /\ HasFormula(cells[k]) = HasFormula(cells'[k])
                                 /\ Occupied(cells[k]) = Occupied(cells'[k])
                                 /\ cells[k] # NoCell => cells'[k] # NoCell
  <2> SUFFICES ASSUME NEW k \in Cell, kept(k), k \in touched
               PROVE  /\ HasFormula(cells[k]) = HasFormula(cells'[k])
                      /\ Occupied(cells[k]) = Occupied(cells'[k])
                      /\ cells'[k] # NoCell
    BY <1>1
  <2>1. cells'[k] = [cells[k] EXCEPT !.styled = FALSE] /\ cells[k] \in CellData
    BY <1>1, <1>3 DEF Slot
  <2>2. cells'[k] \in CellData /\ cells'[k].value = cells[k].value
        /\ cells'[k].formula = cells[k].formula
    BY <2>1 DEF CellData
  <2> QED BY <2>1, <2>2, ConstantsAreDistinct DEF HasFormula, Occupied
<1>6. \A k \in Cell : HasFormula(cells[k]) \/ Occupied(cells[k]) => kept(k)
  BY DEF HasFormula, Occupied
<1>7. AnchorsHaveFormulas' /\ SpillRangesDisjoint'
  BY <1>1, <1>5, <1>6 DEF AnchorsHaveFormulas, SpillRangesDisjoint, TypeOK
<1>8. ChildrenAreMaterialized'
  BY <1>1, <1>5 DEF ChildrenAreMaterialized, HasTopology
<1>9. GroupsAreApart' /\ GroupsAreFull'
  BY <1>1, <1>5, <1>6 DEF GroupsAreApart, GroupsAreFull, TypeOK
<1>10. RangesAreFull'
  BY <1>1, <1>5, <1>6 DEF RangesAreFull
<1>11. DynamicIsApart' /\ TodoHasFormulas'
  BY <1>1, <1>5, <1>6 DEF DynamicIsApart, IsGroupMember, TodoHasFormulas, TypeOK
<1> QED BY <1>4, <1>7, <1>8, <1>9, <1>10, <1>11

-----------------------------------------------------------------------------
(* The commands, one by one: what each of them writes is well formed.       *)
LEMMA CommandKeepsSpillInv ==
  ASSUME SpillInv, NEW area \in Areas, Command(area)
  PROVE  SpillInv'
<1> USE DEF SpillInv
<1>1. area \subseteq Cell
  BY AreasOnGrid
<1>2. CASE SetRangeValues(area)
  <2>1. PICK values \in [area -> InputValue \cup {Blank}] :
          LET same(k) == /\ cells[k] # NoCell
                         /\ cells[k].value = values[k] /\ ~HasFormula(cells[k])
                         /\ spill_owners[k] = NoOwner /\ spill_ranges[k] = {}
              touched == {k \in area :
                         /\ ~same(k)
                         /\ cells[k] # NoCell \/ values[k] # Blank \/ HasTopology(k)}
          IN Write(touched, [k \in touched |-> Put(k, values[k], NoFormula)], {})
    BY <1>2 DEF SetRangeValues
  <2> DEFINE same(k) == /\ cells[k] # NoCell
                        /\ cells[k].value = values[k] /\ ~HasFormula(cells[k])
                        /\ spill_owners[k] = NoOwner /\ spill_ranges[k] = {}
             touched == {k \in area :
                         /\ ~same(k)
                         /\ cells[k] # NoCell \/ values[k] # Blank \/ HasTopology(k)}
             new == [k \in touched |-> Put(k, values[k], NoFormula)]
  <2>2. Write(touched, new, {})
    BY <2>1
  <2>3. touched \in SUBSET Cell /\ ~calculating /\ MayEdit(touched)
    BY <1>1, <1>2 DEF SetRangeValues, MayEdit
  <2>4. \A k \in touched : new[k] \in Slot
    BY <1>1, PutFacts DEF CellValue
  <2> HIDE DEF touched, new
  <2> QED BY <2>2, <2>3, <2>4, WriteKeepsSpillInv
<1>3. CASE \E dynamic \in BOOLEAN : SetRangeFormulas(area, dynamic)
  <2>0. PICK dynamic \in BOOLEAN : SetRangeFormulas(area, dynamic)
    BY <1>3
  <2>1. PICK input \in [area -> Formula \cup InputValue \cup {Blank}] :
       LET formula(k) == IF input[k] \in Formula THEN input[k] ELSE NoFormula
           value(k) == IF input[k] \in Formula THEN Blank ELSE input[k]
           marked(k) == dynamic /\ input[k] \in Formula
           same(k) == /\ cells[k] # NoCell
                      /\ cells[k].value = value(k) /\ cells[k].formula = formula(k)
                      /\ (k \in dynamic_array_formulas) = marked(k)
           touched == {k \in area :
                         /\ ~same(k)
                         /\ \/ cells[k] # NoCell \/ HasTopology(k)
                            \/ value(k) # Blank \/ formula(k) # NoFormula}
       IN Write(touched, [k \in touched |-> Put(k, value(k), formula(k))],
                {k \in touched : marked(k)})
    BY <2>0 DEF SetRangeFormulas
  <2> DEFINE formula(k) == IF input[k] \in Formula THEN input[k] ELSE NoFormula
             value(k) == IF input[k] \in Formula THEN Blank ELSE input[k]
             marked(k) == dynamic /\ input[k] \in Formula
             same(k) == /\ cells[k] # NoCell
                        /\ cells[k].value = value(k) /\ cells[k].formula = formula(k)
                        /\ (k \in dynamic_array_formulas) = marked(k)
             touched == {k \in area :
                         /\ ~same(k)
                         /\ \/ cells[k] # NoCell \/ HasTopology(k)
                            \/ value(k) # Blank \/ formula(k) # NoFormula}
             new == [k \in touched |-> Put(k, value(k), formula(k))]
             flagged == {k \in touched : marked(k)}
  <2>2. Write(touched, new, flagged)
    BY <2>1
  <2>3. /\ touched \in SUBSET Cell /\ ~calculating /\ MayEdit(touched)
        /\ flagged \in SUBSET touched
    BY <1>1, <2>0 DEF SetRangeFormulas, MayEdit
  <2>4. \A k \in touched : new[k] \in Slot /\ (marked(k) => HasFormula(new[k]))
    <3> SUFFICES ASSUME NEW k \in touched
                 PROVE  new[k] \in Slot /\ (marked(k) => HasFormula(new[k]))
      OBVIOUS
    <3>1. k \in Cell /\ value(k) \in CellValue /\ formula(k) \in Formula \cup {NoFormula}
      BY <1>1 DEF CellValue
    <3>2. marked(k) => formula(k) # NoFormula
      BY ConstantsAreDistinct
    <3>3. new[k] = Put(k, value(k), formula(k))
      OBVIOUS
    <3> HIDE DEF value, formula, marked, new
    <3> QED BY <3>1, <3>2, <3>3, PutFacts
  <2>5. \A k \in flagged : HasFormula(new[k])
    BY <2>4
  <2> HIDE DEF touched, new, flagged, marked
  <2> QED BY <2>2, <2>3, <2>4, <2>5, WriteKeepsSpillInv
<1>4. CASE ReplaceCells(area)
  <2>1. PICK input \in [area -> Formula \cup InputValue \cup {Blank}] :
       LET new == [k \in area |-> IF input[k] \in Formula THEN Put(k, Blank, input[k])
                                  ELSE Put(k, input[k], NoFormula)]
           touched == {k \in area : cells[k] # new[k]}
       IN /\ MayEdit(touched)
          /\ Write(touched, new,
                   {k \in touched : k \in dynamic_array_formulas /\ HasFormula(new[k])})
    BY <1>4 DEF ReplaceCells
  <2> DEFINE new == [k \in area |-> IF input[k] \in Formula THEN Put(k, Blank, input[k])
                                    ELSE Put(k, input[k], NoFormula)]
             touched == {k \in area : cells[k] # new[k]}
             flagged == {k \in touched : k \in dynamic_array_formulas /\ HasFormula(new[k])}
  <2>2. /\ Write(touched, new, flagged) /\ MayEdit(touched) /\ ~calculating
        /\ touched \in SUBSET Cell /\ flagged \in SUBSET touched
    BY <1>1, <1>4, <2>1 DEF ReplaceCells
  <2>3. \A k \in touched : new[k] \in Slot
    BY <1>1, PutFacts DEF CellValue
  <2>4. \A k \in flagged : HasFormula(new[k])
    OBVIOUS
  <2> HIDE DEF touched, new, flagged
  <2> QED BY <2>2, <2>3, <2>4, WriteKeepsSpillInv
<1>5. CASE RearrangeCells(area)
  <2>1. PICK new \in [area -> {cells[k] : k \in {j \in Cell : MayRearrange({j})}}
                                 \cup {NoCell}] :
       LET touched == {k \in area : cells[k] # new[k]}
       IN MayRearrange(touched) /\ Write(touched, new, {})
    BY <1>5 DEF RearrangeCells
  <2> DEFINE touched == {k \in area : cells[k] # new[k]}
  <2>2. /\ Write(touched, new, {}) /\ MayEdit(touched) /\ ~calculating
        /\ touched \in SUBSET Cell
    BY <1>1, <1>5, <2>1 DEF RearrangeCells, MayRearrange
  <2>3. \A k \in touched : new[k] \in Slot
    BY DEF TypeOK, Slot
  <2> HIDE DEF touched
  <2> QED BY <2>2, <2>3, WriteKeepsSpillInv
<1>6. CASE ClearContents(area)
  <2> DEFINE touched == {k \in area : HasTopology(k) \/ Occupied(cells[k])}
             new == [k \in touched |-> IF Occupied(cells[k]) THEN Put(k, Blank, NoFormula)
                                       ELSE cells[k]]
  <2>1. /\ Write(touched, new, {}) /\ MayEdit(touched) /\ ~calculating
        /\ touched \in SUBSET Cell
    BY <1>1, <1>6 DEF ClearContents, MayEdit
  <2>2. \A k \in touched : new[k] \in Slot
    BY <1>1, PutFacts DEF TypeOK, CellValue
  <2> HIDE DEF touched, new
  <2> QED BY <2>1, <2>2, WriteKeepsSpillInv
<1>7. CASE Clear(area)
  <2> DEFINE touched == {k \in area : HasTopology(k) \/ cells[k] # NoCell}
             new == [k \in touched |-> NoCell]
  <2>1. /\ Write(touched, new, {}) /\ MayEdit(touched) /\ ~calculating
        /\ touched \in SUBSET Cell
    BY <1>1, <1>7 DEF Clear, MayEdit
  <2>2. \A k \in touched : new[k] \in Slot
    BY DEF Slot
  <2> HIDE DEF touched, new
  <2> QED BY <2>1, <2>2, WriteKeepsSpillInv
<1>8. CASE ClearFormats(area)
  BY <1>8, ClearFormatsKeepsSpillInv
<1> QED BY <1>2, <1>3, <1>4, <1>5, <1>6, <1>7, <1>8 DEF Command

-----------------------------------------------------------------------------
(* The steps of a calculation pass.                                         *)
LEMMA SpillDynamicKeepsSpillInv ==
  ASSUME SpillInv, Blank \notin ArrayValue,
         NEW a \in Cell, SpillDynamic(a)
  PROVE  SpillInv'
<1> USE DEF SpillInv, ValidForSave
<1>1. PICK h \in 1..MaxExtent, w \in 1..MaxExtent :
       LET target == RectFrom(a, h, w)
           old == {k \in Cell : spill_owners[k] = a}
           cleared == [k \in Cell |-> IF k \in old THEN Cleared(cells[k]) ELSE cells[k]]
           fits == Fits(target, a, cleared)
       IN \E values \in [target \cap Cell -> ArrayValue] :
            /\ cells' = [k \in Cell |->
                 IF fits /\ k \in target
                 THEN [value |-> values[k],
                       formula |-> IF k = a THEN cells[a].formula ELSE NoFormula,
                       styled |-> IsStyled(cleared[k])]
                 ELSE IF k = a THEN [cells[a] EXCEPT !.value = SpillError]
                 ELSE cleared[k]]
            /\ spill_owners' = [k \in Cell |-> IF fits /\ k \in target \ {a} THEN a
                                               ELSE IF k \in old THEN NoOwner
                                               ELSE spill_owners[k]]
            /\ spill_ranges' = [spill_ranges EXCEPT ![a] = IF fits THEN target ELSE {}]
            /\ dirty_cells' = dirty_cells \cup {a} \cup old
                                \cup (IF fits THEN target ELSE {})
  BY DEF SpillDynamic
<1> DEFINE target == RectFrom(a, h, w)
           old == {k \in Cell : spill_owners[k] = a}
           cleared == [k \in Cell |-> IF k \in old THEN Cleared(cells[k]) ELSE cells[k]]
           fits == Fits(target, a, cleared)
           new == IF fits THEN target ELSE {}
<1>2. PICK values \in [target \cap Cell -> ArrayValue] :
            /\ cells' = [k \in Cell |->
                 IF fits /\ k \in target
                 THEN [value |-> values[k],
                       formula |-> IF k = a THEN cells[a].formula ELSE NoFormula,
                       styled |-> IsStyled(cleared[k])]
                 ELSE IF k = a THEN [cells[a] EXCEPT !.value = SpillError]
                 ELSE cleared[k]]
            /\ spill_owners' = [k \in Cell |-> IF fits /\ k \in target \ {a} THEN a
                                               ELSE IF k \in old THEN NoOwner
                                               ELSE spill_owners[k]]
            /\ spill_ranges' = [spill_ranges EXCEPT ![a] = IF fits THEN target ELSE {}]
            /\ dirty_cells' = dirty_cells \cup {a} \cup old
                                \cup (IF fits THEN target ELSE {})
  BY <1>1
<1>3. /\ calculating /\ a \in todo /\ a \in dynamic_array_formulas
      /\ formula_cache_changed' = TRUE /\ todo' = todo \ {a}
      /\ dynamic_array_formulas' = dynamic_array_formulas
      /\ formula_groups' = formula_groups /\ semantic_dirty' = semantic_dirty
      /\ formula_cache_dirty' = formula_cache_dirty /\ calculating' = calculating
  BY DEF SpillDynamic, RowMajorFirst, DynamicTodo
<1>4. a \in target
  BY RectHasCorner
<1>5. HasFormula(cells[a]) /\ cells[a] \in CellData /\ spill_owners[a] = NoOwner
      /\ ~IsGroupMember(a)
  BY <1>3 DEF AnchorsHaveFormulas, ChildrenAreMaterialized, TypeOK, HasFormula, Slot,
     DynamicIsApart
<1>6. \A k \in old : /\ k # a /\ k \in spill_ranges[a] /\ ~HasFormula(cells[k])
                     /\ ~IsGroupMember(k) /\ \A b \in Cell : b # a => k \notin spill_ranges[b]
  BY <1>5, ConstantsAreDistinct
     DEF ChildrenAreMaterialized, IsGroupMember, GroupsAreApart, SpillRangesDisjoint
<1>7. \A k \in Cell : cleared[k] \in Slot /\ IsStyled(cleared[k]) \in BOOLEAN
  BY SlotFacts DEF TypeOK
<1>8. fits => \A k \in target \ {a} :
         /\ ~HasFormula(cells[k]) /\ k \notin dynamic_array_formulas
         /\ ~IsGroupMember(k)
         /\ \A b \in Cell \ {a} : k \notin spill_ranges[b]
  <2> SUFFICES ASSUME fits, NEW k \in target \ {a}
               PROVE  /\ ~HasFormula(cells[k]) /\ k \notin dynamic_array_formulas
                      /\ ~IsGroupMember(k)
                      /\ \A b \in Cell \ {a} : k \notin spill_ranges[b]
    OBVIOUS
  <2>1. k \in Cell /\ ~Occupied(cleared[k])
    BY DEF Fits
  <2>2. CASE k \in old
    BY <2>1, <2>2, <1>6 DEF AnchorsHaveFormulas
  <2>3. CASE k \notin old
    <3>1. ~Occupied(cells[k]) /\ ~HasFormula(cells[k])
      BY <2>1, <2>3, SlotFacts DEF TypeOK
    <3>2. k \notin dynamic_array_formulas /\ ~IsGroupMember(k)
      BY <3>1, <2>1 DEF AnchorsHaveFormulas, GroupsAreFull, IsGroupMember
    <3>3. \A b \in Cell \ {a} : k \notin spill_ranges[b]
      BY <3>1, <2>1 DEF AnchorsHaveFormulas, RangesAreFull
    <3> QED BY <3>1, <3>2, <3>3
  <2> QED BY <2>2, <2>3
<1>9. \A k \in Cell : k \in target /\ fits => values[k] \in CellValue /\ values[k] # Blank
  BY DEF CellValue
<1>10. /\ cells' \in [Cell -> Slot]
       /\ \A k \in Cell : /\ k \in new /\ k # a => Occupied(cells'[k]) /\ ~HasFormula(cells'[k])
                                                     /\ cells'[k] # NoCell
                          /\ k \notin new /\ k \notin old /\ k # a => cells'[k] = cells[k]
                          /\ k \notin new /\ k \in old => ~HasFormula(cells'[k])
       /\ HasFormula(cells'[a])
  <2>1. \A k \in Cell : k \in new => /\ cells'[k] \in CellData /\ cells'[k].value # Blank
                                     /\ k # a => cells'[k].formula = NoFormula
                                     /\ k = a => cells'[k].formula = cells[a].formula
    <3> SUFFICES ASSUME NEW k \in Cell, k \in new
                 PROVE  /\ cells'[k] \in CellData /\ cells'[k].value # Blank
                        /\ k # a => cells'[k].formula = NoFormula
                        /\ k = a => cells'[k].formula = cells[a].formula
      OBVIOUS
    <3>1. cells'[k] = [value |-> values[k],
                       formula |-> IF k = a THEN cells[a].formula ELSE NoFormula,
                       styled |-> IsStyled(cleared[k])]
      BY <1>2
    <3>2. values[k] \in CellValue /\ values[k] # Blank
      BY <1>9
    <3>3. IsStyled(cleared[k]) \in BOOLEAN
      BY <1>7
    <3>4. cells[a].formula \in Formula \cup {NoFormula}
      BY <1>5 DEF CellData
    <3> HIDE DEF cleared
    <3> QED BY <3>1, <3>2, <3>3, <3>4 DEF CellData
  <2>2. a \notin new => /\ cells'[a] \in CellData
                         /\ cells'[a].formula = cells[a].formula
    BY <1>2, <1>4, <1>5 DEF CellData, CellValue
  <2>3. \A k \in Cell : k \notin new /\ k # a => cells'[k] = cleared[k]
    BY <1>2
  <2> HIDE DEF new
  <2>4. \A k \in Cell : cells'[k] \in Slot
    BY <2>1, <2>2, <2>3, <1>7 DEF Slot
  <2>5. cells' \in [Cell -> Slot]
    BY <2>4, <1>2
  <2>6. HasFormula(cells'[a])
    BY <2>1, <2>2, <1>5, ConstantsAreDistinct DEF HasFormula
  <2>7. \A k \in Cell : k \in new /\ k # a => Occupied(cells'[k]) /\ ~HasFormula(cells'[k])
                                              /\ cells'[k] # NoCell
    BY <2>1, ConstantsAreDistinct DEF HasFormula, Occupied
  <2>8. \A k \in Cell : k \notin new /\ k \in old => ~HasFormula(cells'[k])
    BY <2>3, <1>6, SlotFacts DEF TypeOK
  <2>9. \A k \in Cell : k \notin new /\ k \notin old /\ k # a => cells'[k] = cells[k]
    BY <2>3
  <2> QED BY <2>5, <2>6, <2>7, <2>8, <2>9
<1>11. /\ new \subseteq Cell
       /\ spill_ranges' = [spill_ranges EXCEPT ![a] = new]
       /\ spill_owners' = [k \in Cell |-> IF k \in new \ {a} THEN a
                                          ELSE IF k \in old THEN NoOwner
                                          ELSE spill_owners[k]]
       /\ dirty_cells' = dirty_cells \cup {a} \cup old \cup new
       /\ new # {} => a \in new
       /\ \A k \in new \ {a} : /\ ~HasFormula(cells[k]) /\ k \notin dynamic_array_formulas
                               /\ ~IsGroupMember(k)
                               /\ \A b \in Cell \ {a} : k \notin spill_ranges[b]
  BY <1>2, <1>4, <1>8 DEF Fits
<1>12. old = {k \in Cell : spill_owners[k] = a}
  OBVIOUS
<1> HIDE DEF new, old, fits, cleared, target
<1>13. TypeOK'
  BY <1>3, <1>10, <1>11, <1>12 DEF TypeOK
<1>14. \A b \in Cell \ {a} : a \notin spill_ranges[b]
  BY <1>5 DEF RangesAreFull
<1>15. AnchorsHaveFormulas'
  <2>1. \A b \in dynamic_array_formulas : HasFormula(cells'[b])
    BY <1>6, <1>10, <1>11 DEF AnchorsHaveFormulas, TypeOK
  <2> QED BY <2>1, <1>3, <1>11 DEF AnchorsHaveFormulas, TypeOK
<1>16. SpillRangesDisjoint'
  BY <1>11, <1>14 DEF SpillRangesDisjoint, TypeOK
<1>17. ChildrenAreMaterialized'
  <2> SUFFICES ASSUME NEW k \in Cell, spill_owners'[k] # NoOwner
               PROVE  /\ k # spill_owners'[k] /\ k \in spill_ranges'[spill_owners'[k]]
                      /\ cells'[k] # NoCell /\ ~HasFormula(cells'[k])
    BY DEF ChildrenAreMaterialized
  <2>1. CASE k \in new \ {a}
    BY <2>1, <1>10, <1>11 DEF TypeOK
  <2>2. CASE k \notin new \ {a}
    <3>1. /\ k \notin old /\ spill_owners'[k] = spill_owners[k] /\ spill_owners[k] # a
          /\ k # a
      BY <2>2, <1>5, <1>11, <1>12
    <3>2. cells'[k] = cells[k]
      BY <2>2, <3>1, <1>10
    <3> QED BY <3>1, <3>2, <1>11 DEF ChildrenAreMaterialized, TypeOK
  <2> QED BY <2>1, <2>2
<1>18. \A g \in formula_groups : \A k \in g.owns : cells'[k] = cells[k] /\ k \notin new /\ k # a
  BY <1>5, <1>6, <1>10, <1>11 DEF IsGroupMember, TypeOK
<1>19. GroupsAreApart' /\ GroupsAreFull'
  BY <1>3, <1>11, <1>18 DEF GroupsAreApart, GroupsAreFull, TypeOK
<1>20. RangesAreFull'
  <2> SUFFICES ASSUME NEW b \in Cell, NEW k \in Cell, k \in spill_ranges'[b], k # b
               PROVE  /\ spill_owners'[k] = b
                      /\ ~HasFormula(cells'[k]) /\ Occupied(cells'[k])
    BY DEF RangesAreFull
  <2>1. CASE b = a
    BY <2>1, <1>10, <1>11 DEF TypeOK
  <2>2. CASE b # a
    <3>1. k \in spill_ranges[b] /\ k # a /\ k \notin new /\ k \notin old
      BY <2>2, <1>6, <1>11, <1>14 DEF TypeOK
    <3> QED BY <3>1, <1>10, <1>11 DEF RangesAreFull
  <2> QED BY <2>1, <2>2
<1>21. DynamicIsApart'
  BY <1>3 DEF DynamicIsApart, IsGroupMember
<1>22. TodoHasFormulas'
  <2>1. \A k \in todo : k # a => cells'[k] = cells[k]
    BY <1>6, <1>10, <1>11 DEF TodoHasFormulas, TypeOK
  <2> QED BY <2>1, <1>3 DEF TodoHasFormulas
<1> QED BY <1>13, <1>15, <1>16, <1>17, <1>19, <1>20, <1>21, <1>22

(* The start of a pass only collects what it has to do.                     *)
LEMMA BeginCalculationKeepsSpillInv ==
  ASSUME SpillInv, NEW area \in Scopes, BeginCalculation(area)
  PROVE  SpillInv'
<1> USE DEF SpillInv, ValidForSave
<1>1. /\ cells' = cells /\ dynamic_array_formulas' = dynamic_array_formulas
      /\ spill_ranges' = spill_ranges /\ spill_owners' = spill_owners
      /\ formula_groups' = formula_groups /\ dirty_cells' = dirty_cells
      /\ semantic_dirty' = semantic_dirty /\ formula_cache_dirty' = formula_cache_dirty
      /\ calculating' = TRUE /\ formula_cache_changed' = FALSE
      /\ todo' = {k \in area : HasFormula(cells[k])}
  BY DEF BeginCalculation, topology
<1>2. TypeOK'
  BY <1>1, AreasOnGrid DEF TypeOK
<1>3. TodoHasFormulas'
  BY <1>1 DEF TodoHasFormulas
<1> QED BY <1>1, <1>2, <1>3
        DEF AnchorsHaveFormulas, SpillRangesDisjoint, ChildrenAreMaterialized,
            GroupsAreApart, RangesAreFull, GroupsAreFull, DynamicIsApart, IsGroupMember

(* A formula that is not supported keeps its cell as it is.                 *)
LEMMA KeepUnsupportedKeepsSpillInv ==
  ASSUME SpillInv, NEW a \in Cell, KeepUnsupported(a)
  PROVE  SpillInv'
<1> USE DEF SpillInv, ValidForSave
<1>1. /\ cells' = cells /\ dynamic_array_formulas' = dynamic_array_formulas
      /\ spill_ranges' = spill_ranges /\ spill_owners' = spill_owners
      /\ formula_groups' = formula_groups /\ dirty_cells' = dirty_cells
      /\ semantic_dirty' = semantic_dirty /\ formula_cache_dirty' = formula_cache_dirty
      /\ calculating /\ calculating' = calculating
      /\ formula_cache_changed' = formula_cache_changed
      /\ todo' = todo \ {a}
  BY DEF KeepUnsupported, topology
<1>2. TypeOK' /\ TodoHasFormulas'
  BY <1>1 DEF TypeOK, TodoHasFormulas
<1> QED BY <1>1, <1>2
        DEF AnchorsHaveFormulas, SpillRangesDisjoint, ChildrenAreMaterialized,
            GroupsAreApart, RangesAreFull, GroupsAreFull, DynamicIsApart, IsGroupMember

(* A value written over a cell that is neither blanked nor deprived of its   *)
(* formula leaves the topology as sound as it was.                           *)
LEMMA ValueWritesKeepSpillInv ==
  ASSUME SpillInv,
         cells' \in [Cell -> Slot],
         \A k \in Cell : HasFormula(cells'[k]) = HasFormula(cells[k]),
         \A k \in Cell : Occupied(cells[k]) => Occupied(cells'[k]),
         UNCHANGED <<topology, formula_groups, semantic_dirty>>,
         dirty_cells' \subseteq Cell, formula_cache_dirty' \in BOOLEAN,
         formula_cache_changed' \in BOOLEAN, calculating' \in BOOLEAN,
         todo' \subseteq todo, ~calculating' => todo' = {}
  PROVE  SpillInv'
<1> USE DEF SpillInv, ValidForSave
<1>1. /\ dynamic_array_formulas' = dynamic_array_formulas
      /\ spill_ranges' = spill_ranges /\ spill_owners' = spill_owners
      /\ formula_groups' = formula_groups /\ semantic_dirty' = semantic_dirty
  BY DEF topology
<1>2. TypeOK'
  BY <1>1 DEF TypeOK
<1>3. AnchorsHaveFormulas' /\ SpillRangesDisjoint'
  BY <1>1 DEF AnchorsHaveFormulas, SpillRangesDisjoint, TypeOK
<1>4. RangesAreFull'
  BY <1>1 DEF RangesAreFull
<1>5. ChildrenAreMaterialized'
  <2> SUFFICES ASSUME NEW k \in Cell, spill_owners[k] # NoOwner
               PROVE  /\ k # spill_owners[k] /\ k \in spill_ranges[spill_owners[k]]
                      /\ cells'[k] # NoCell /\ ~HasFormula(cells'[k])
    BY <1>1 DEF ChildrenAreMaterialized
  <2>1. spill_owners[k] \in Cell
    BY DEF TypeOK
  <2>2. Occupied(cells'[k])
    BY <2>1 DEF ChildrenAreMaterialized, RangesAreFull
  <2> QED BY <2>2 DEF ChildrenAreMaterialized, Occupied
<1>6. GroupsAreApart' /\ GroupsAreFull'
  BY <1>1 DEF GroupsAreApart, GroupsAreFull, TypeOK
<1>7. DynamicIsApart' /\ TodoHasFormulas'
  BY <1>1 DEF DynamicIsApart, IsGroupMember, TodoHasFormulas, TypeOK
<1> QED BY <1>2, <1>3, <1>4, <1>5, <1>6, <1>7

(* A legacy array is written inside its own group.                          *)
LEMMA WriteLegacyArrayKeepsSpillInv ==
  ASSUME SpillInv, Blank \notin ArrayValue, NEW g \in formula_groups, WriteLegacyArray(g)
  PROVE  SpillInv'
<1> USE DEF SpillInv
<1> DEFINE before(k) == IF cells[k] = NoCell THEN BareBlank ELSE cells[k]
<1>1. PICK values \in [g.owns -> ArrayValue] :
         /\ cells' = [k \in Cell |-> IF k \in g.owns
                                     THEN [before(k) EXCEPT !.value = values[k]]
                                     ELSE cells[k]]
         /\ dirty_cells' = dirty_cells \cup {k \in g.owns : before(k).value # values[k]}
         /\ formula_cache_changed' = (formula_cache_changed
                                        \/ {k \in g.owns : before(k).value # values[k]} # {})
  BY DEF WriteLegacyArray
<1>2. /\ UNCHANGED <<topology, formula_groups, semantic_dirty>>
      /\ formula_cache_dirty' = formula_cache_dirty
      /\ calculating /\ calculating' = calculating /\ todo' = todo \ {g.anchor}
  BY DEF WriteLegacyArray
<1>3. g.owns \subseteq Cell /\ \A k \in g.owns : cells[k] \in CellData
  BY DEF TypeOK, GroupsAreFull, Occupied, Slot
<1>4. \A k \in Cell : /\ cells'[k] \in Slot
                      /\ HasFormula(cells'[k]) = HasFormula(cells[k])
                      /\ Occupied(cells[k]) => Occupied(cells'[k])
  <2> SUFFICES ASSUME NEW k \in g.owns
               PROVE  /\ cells'[k] \in Slot
                      /\ HasFormula(cells'[k]) = HasFormula(cells[k])
                      /\ Occupied(cells'[k])
    BY <1>1 DEF TypeOK
  <2>1. cells'[k] = [cells[k] EXCEPT !.value = values[k]] /\ cells[k] # NoCell
    BY <1>1, <1>3, ConstantsAreDistinct
  <2>2. values[k] \in CellValue /\ values[k] # Blank
    BY DEF CellValue
  <2>3. /\ cells'[k] \in CellData /\ cells'[k].value = values[k]
        /\ cells'[k].formula = cells[k].formula
    BY <1>3, <2>1, <2>2 DEF CellData
  <2> QED BY <2>1, <2>2, <2>3, ConstantsAreDistinct DEF HasFormula, Occupied, Slot
<1>5. cells' \in [Cell -> Slot]
  BY <1>1, <1>4
<1>6. /\ dirty_cells' \subseteq Cell /\ formula_cache_changed' \in BOOLEAN
      /\ formula_cache_dirty' \in BOOLEAN /\ calculating' \in BOOLEAN
      /\ todo' \subseteq todo /\ calculating'
  BY <1>1, <1>2, <1>3 DEF TypeOK
<1> HIDE DEF SpillInv
<1> QED BY <1>2, <1>4, <1>5, <1>6, ValueWritesKeepSpillInv

(* Scalar results go to cells with a formula.                               *)
LEMMA WriteScalarsKeepsSpillInv ==
  ASSUME SpillInv, WriteScalars
  PROVE  SpillInv'
<1> USE DEF SpillInv
<1>1. PICK supported \in SUBSET todo : \E values \in [supported -> ArrayValue] :
       LET changed == {k \in supported : cells[k].value # values[k]}
       IN /\ cells' = [k \in Cell |-> IF k \in changed
                                       THEN [cells[k] EXCEPT !.value = values[k]]
                                       ELSE cells[k]]
          /\ dirty_cells' = dirty_cells \cup changed
          /\ formula_cache_dirty' =
               (formula_cache_dirty \/ formula_cache_changed \/ changed # {})
  BY DEF WriteScalars
<1>2. PICK values \in [supported -> ArrayValue] :
       LET changed == {k \in supported : cells[k].value # values[k]}
       IN /\ cells' = [k \in Cell |-> IF k \in changed
                                       THEN [cells[k] EXCEPT !.value = values[k]]
                                       ELSE cells[k]]
          /\ dirty_cells' = dirty_cells \cup changed
          /\ formula_cache_dirty' =
               (formula_cache_dirty \/ formula_cache_changed \/ changed # {})
  BY <1>1
<1> DEFINE changed == {k \in supported : cells[k].value # values[k]}
<1>3. /\ UNCHANGED <<topology, formula_groups, semantic_dirty>>
      /\ calculating' = FALSE /\ todo' = {} /\ formula_cache_changed' = FALSE
  BY DEF WriteScalars
<1>4. changed \subseteq Cell /\ \A k \in changed : HasFormula(cells[k]) /\ cells[k] \in CellData
  BY DEF TypeOK, TodoHasFormulas, HasFormula, Slot
<1>5. \A k \in Cell : /\ cells'[k] \in Slot
                      /\ HasFormula(cells'[k]) = HasFormula(cells[k])
                      /\ Occupied(cells[k]) => Occupied(cells'[k])
  <2> SUFFICES ASSUME NEW k \in changed
               PROVE  cells'[k] \in Slot /\ HasFormula(cells'[k]) /\ Occupied(cells'[k])
    BY <1>2, <1>4 DEF TypeOK, HasFormula
  <2>1. cells'[k] = [cells[k] EXCEPT !.value = values[k]] /\ values[k] \in CellValue
    BY <1>2, <1>4 DEF CellValue
  <2>2. cells'[k] \in CellData /\ cells'[k].formula = cells[k].formula
    BY <1>4, <2>1 DEF CellData
  <2> QED BY <1>4, <2>2, ConstantsAreDistinct DEF HasFormula, Occupied, Slot
<1>6. cells' \in [Cell -> Slot]
  BY <1>2, <1>5
<1>7. /\ dirty_cells' \subseteq Cell /\ formula_cache_changed' \in BOOLEAN
      /\ formula_cache_dirty' \in BOOLEAN /\ calculating' \in BOOLEAN
      /\ todo' \subseteq todo /\ todo' = {}
  BY <1>2, <1>3, <1>4 DEF TypeOK
<1> HIDE DEF SpillInv
<1> QED BY <1>3, <1>5, <1>6, <1>7, ValueWritesKeepSpillInv

-----------------------------------------------------------------------------
(* The owners the codec assigns are the owners the ranges prescribe.         *)
LEMMA LoadedOwnersFacts ==
  ASSUME NEW slots, NEW ranges \in [Cell -> SUBSET Cell],
         \A a, b \in Cell : a # b => ranges[a] \cap ranges[b] = {},
         NEW k \in Cell
  PROVE  LET owner == LoadedOwners(slots, ranges)[k]
         IN /\ owner # NoOwner => /\ owner \in Cell /\ owner # k /\ k \in ranges[owner]
                                 /\ slots[k] # NoCell
            /\ \A a \in Cell : a # k /\ k \in ranges[a] /\ slots[k] # NoCell => owner = a
<1>1. CASE slots[k] # NoCell /\ \E a \in Cell : a # k /\ k \in ranges[a]
  <2>1. PICK a \in Cell : a # k /\ k \in ranges[a]
    BY <1>1
  <2>2. \A b \in Cell : k \in ranges[b] => b = a
    BY <2>1
  <2>3. LoadedOwners(slots, ranges)[k] = CHOOSE b \in Cell : b # k /\ k \in ranges[b]
    BY <1>1 DEF LoadedOwners
  <2>4. (CHOOSE b \in Cell : b # k /\ k \in ranges[b]) = a
    BY <2>1, <2>2
  <2> QED BY <1>1, <2>1, <2>2, <2>3, <2>4
<1>2. CASE ~(slots[k] # NoCell /\ \E a \in Cell : a # k /\ k \in ranges[a])
  <2>1. LoadedOwners(slots, ranges)[k] = NoOwner
    BY <1>2 DEF LoadedOwners
  <2> QED BY <1>2, <2>1
<1> QED BY <1>1, <1>2

(* A save resets marks and nothing else.                                    *)
LEMMA SaveKeepsSpillInv ==
  ASSUME SpillInv, Save
  PROVE  SpillInv'
BY DEF Save, topology, pass, SpillInv, ValidForSave, TypeOK, AnchorsHaveFormulas,
       SpillRangesDisjoint, ChildrenAreMaterialized, GroupsAreApart, RangesAreFull,
       GroupsAreFull, DynamicIsApart, IsGroupMember, TodoHasFormulas

(* The sheet that is read back has the topology of the one saved.           *)
LEMMA ReopenKeepsSpillInv ==
  ASSUME SpillInv, Reopen
  PROVE  /\ SpillInv'
         /\ dynamic_array_formulas' = dynamic_array_formulas
         /\ \A k \in Cell : FileCell(k)' = FileCell(k)
<1> USE DEF SpillInv, ValidForSave
<1> DEFINE slots == [k \in Cell |-> FileCell(k).slot]
           ranges == [k \in Cell |-> FileCell(k).range]
<1>1. /\ ~calculating
      /\ cells' = slots /\ spill_ranges' = ranges
      /\ dynamic_array_formulas' = dynamic_array_formulas
      /\ spill_owners' = LoadedOwners(slots, ranges)
      /\ dirty_cells' = dirty_cells /\ semantic_dirty' = semantic_dirty
      /\ formula_cache_dirty' = formula_cache_dirty
      /\ formula_groups' = formula_groups /\ calculating' = calculating /\ todo' = todo
      /\ formula_cache_changed' = formula_cache_changed
  BY DEF Reopen, pass, FileCell, TypeOK
<1>2. \A k \in Cell : /\ slots[k] \in Slot
                      /\ Occupied(cells[k]) => slots[k] = cells[k]
                      /\ HasFormula(cells[k]) => slots[k] = cells[k]
                      /\ slots[k] = cells[k] \/ slots[k] = NoCell
  BY DEF TypeOK, Slot, Occupied, HasFormula, BareBlank, FileCell
<1>3. ranges \in [Cell -> SUBSET Cell]
  BY DEF TypeOK, FileCell
<1>4. \A a, b \in Cell : a # b => ranges[a] \cap ranges[b] = {}
  <2>1. \A a \in dynamic_array_formulas, b \in Cell : a # b => a \notin spill_ranges[b]
    BY DEF AnchorsHaveFormulas, RangesAreFull, TypeOK
  <2> QED BY <2>1 DEF SpillRangesDisjoint, FileCell
<1>5. \A a, k \in Cell : k \in ranges[a] /\ k # a =>
         ranges[a] = spill_ranges[a] /\ k \in spill_ranges[a]
  BY DEF FileCell
<1> HIDE DEF slots, ranges
<1>6. \A k \in Cell : LoadedOwners(slots, ranges)[k] \in Cell \cup {NoOwner}
  BY <1>3, <1>4, LoadedOwnersFacts
<1>7. TypeOK'
  <2>1. LoadedOwners(slots, ranges) \in [Cell -> Cell \cup {NoOwner}]
    BY <1>6 DEF LoadedOwners
  <2>2. slots \in [Cell -> Slot]
    BY <1>2 DEF slots
  <2> QED BY <1>1, <1>3, <2>1, <2>2 DEF TypeOK
<1>8. AnchorsHaveFormulas'
  BY <1>1, <1>2 DEF AnchorsHaveFormulas, TypeOK, ranges, FileCell
<1>9. SpillRangesDisjoint'
  BY <1>1, <1>4 DEF SpillRangesDisjoint
<1>10. RangesAreFull'
  <2> SUFFICES ASSUME NEW a \in Cell, NEW k \in Cell, k \in ranges[a], k # a
               PROVE  /\ LoadedOwners(slots, ranges)[k] = a
                      /\ ~HasFormula(slots[k]) /\ Occupied(slots[k])
    BY <1>1 DEF RangesAreFull
  <2>1. /\ ~HasFormula(cells[k]) /\ Occupied(cells[k]) /\ slots[k] = cells[k]
    BY <1>2, <1>5 DEF RangesAreFull
  <2>2. slots[k] # NoCell
    BY <2>1 DEF Occupied
  <2> QED BY <1>3, <1>4, <2>1, <2>2, LoadedOwnersFacts
<1>11. ChildrenAreMaterialized'
  <2> SUFFICES ASSUME NEW k \in Cell, NEW owner, owner = LoadedOwners(slots, ranges)[k],
                      owner # NoOwner
               PROVE  /\ k # owner /\ k \in ranges[owner]
                      /\ slots[k] # NoCell /\ ~HasFormula(slots[k])
    BY <1>1 DEF ChildrenAreMaterialized
  <2>1. owner \in Cell /\ owner # k /\ k \in ranges[owner] /\ slots[k] # NoCell
    BY <1>3, <1>4, LoadedOwnersFacts
  <2> QED BY <1>2, <1>5, <2>1 DEF RangesAreFull
<1>12. GroupsAreApart' /\ GroupsAreFull'
  <2>1. \A g \in formula_groups : \A k \in g.owns : slots[k] = cells[k] /\ Occupied(cells[k])
    BY <1>2 DEF GroupsAreFull, TypeOK
  <2>2. \A g \in formula_groups : \A a \in Cell : g.owns \cap ranges[a] = {}
    BY DEF GroupsAreApart, DynamicIsApart, IsGroupMember, ranges, FileCell
  <2> QED BY <1>1, <2>1, <2>2 DEF GroupsAreApart, GroupsAreFull, TypeOK
<1>13. DynamicIsApart' /\ TodoHasFormulas'
  BY <1>1 DEF DynamicIsApart, IsGroupMember, TodoHasFormulas
<1>14. \A k \in Cell : FileCell(k)' = FileCell(k)
  BY <1>1 DEF FileCell, slots, ranges
<1> QED BY <1>1, <1>7, <1>8, <1>9, <1>10, <1>11, <1>12, <1>13, <1>14
-----------------------------------------------------------------------------
(* A loaded sheet satisfies the inductive invariant.                        *)
LEMMA InitGivesSpillInv ==
  ASSUME NothingShownIsBlank, Init
  PROVE  SpillInv
<1>1. PICK s \in LoadedSheets :
         /\ cells = s.cells /\ spill_ranges = s.spills
         /\ dynamic_array_formulas = {a \in Cell : s.spills[a] # {}}
         /\ spill_owners = LoadedOwners(s.cells, s.spills)
         /\ formula_groups = s.groups
  BY DEF Init
<1>2. Accepted(s)
  BY LoadedSheetsAccepted
<1>3. /\ dirty_cells = {} /\ semantic_dirty = FALSE /\ formula_cache_dirty = FALSE
      /\ calculating = FALSE /\ todo = {} /\ formula_cache_changed = FALSE
  BY DEF Init
<1>4. /\ cells \in [Cell -> Slot] /\ spill_ranges \in [Cell -> SUBSET Cell]
      /\ \A a, b \in Cell : a # b => spill_ranges[a] \cap spill_ranges[b] = {}
  BY <1>1, <1>2 DEF Accepted
<1>5. \A k \in Cell :
        /\ spill_owners[k] # NoOwner =>
             /\ spill_owners[k] \in Cell /\ spill_owners[k] # k
             /\ k \in spill_ranges[spill_owners[k]] /\ cells[k] # NoCell
        /\ \A a \in Cell : a # k /\ k \in spill_ranges[a] /\ cells[k] # NoCell =>
             spill_owners[k] = a
  BY <1>1, <1>4, LoadedOwnersFacts
<1>6. TypeOK
  <2>1. spill_owners \in [Cell -> Cell \cup {NoOwner}]
    BY <1>1, <1>5 DEF LoadedOwners
  <2> QED BY <1>1, <1>2, <1>3, <1>4, <2>1 DEF TypeOK, Accepted
<1>7. AnchorsHaveFormulas /\ SpillRangesDisjoint
  BY <1>1, <1>2 DEF AnchorsHaveFormulas, SpillRangesDisjoint, Accepted
<1>8. ChildrenAreMaterialized
  BY <1>1, <1>2, <1>5 DEF ChildrenAreMaterialized, Accepted
<1>9. GroupsAreApart
  <2>1. \A g \in formula_groups : \A a \in Cell : g.owns \cap spill_ranges[a] = {}
    BY <1>1, <1>2, <1>4 DEF Accepted
  <2> QED BY <1>1, <1>2, <2>1 DEF GroupsAreApart, Accepted
<1>10. RangesAreFull /\ GroupsAreFull
  <2>1. \A a, k \in Cell : k \in spill_ranges[a] /\ k # a =>
           ~HasFormula(cells[k]) /\ Occupied(cells[k]) /\ cells[k] # NoCell
    BY <1>1, <1>2 DEF Accepted, NothingShownIsBlank, Occupied
  <2> QED BY <1>1, <1>5, <2>1 DEF RangesAreFull, GroupsAreFull, NothingShownIsBlank
<1>11. DynamicIsApart /\ TodoHasFormulas
  BY <1>1, <1>2, <1>3 DEF DynamicIsApart, TodoHasFormulas, IsGroupMember, Accepted
<1> QED BY <1>6, <1>7, <1>8, <1>9, <1>10, <1>11 DEF SpillInv, ValidForSave

(* Every step keeps it.                                                     *)
LEMMA NextKeepsSpillInv ==
  ASSUME NothingShownIsBlank, SpillInv, [Next]_vars
  PROVE  SpillInv'
<1>0. Blank \notin ArrayValue
  BY DEF NothingShownIsBlank
<1>1. ASSUME NEW area \in Areas, Command(area) PROVE SpillInv'
  BY <1>1, CommandKeepsSpillInv
<1>2. ASSUME NEW area \in Scopes, BeginCalculation(area) PROVE SpillInv'
  BY <1>2, BeginCalculationKeepsSpillInv
<1>3. ASSUME NEW a \in Cell, SpillDynamic(a) PROVE SpillInv'
  BY <1>0, <1>3, SpillDynamicKeepsSpillInv
<1>4. ASSUME NEW a \in Cell, KeepUnsupported(a) PROVE SpillInv'
  BY <1>4, KeepUnsupportedKeepsSpillInv
<1>5. ASSUME NEW g \in formula_groups, WriteLegacyArray(g) PROVE SpillInv'
  BY <1>0, <1>5, WriteLegacyArrayKeepsSpillInv
<1>6. CASE WriteScalars
  BY <1>6, WriteScalarsKeepsSpillInv
<1>7. CASE Save
  BY <1>7, SaveKeepsSpillInv
<1>9. CASE Reopen
  BY <1>9, ReopenKeepsSpillInv
<1>8. CASE UNCHANGED vars
  BY <1>8 DEF SpillInv, ValidForSave, TypeOK, AnchorsHaveFormulas, SpillRangesDisjoint,
              ChildrenAreMaterialized, GroupsAreApart, RangesAreFull, GroupsAreFull,
              DynamicIsApart, IsGroupMember, TodoHasFormulas, vars, topology, pass
<1> QED BY <1>1, <1>2, <1>3, <1>4, <1>5, <1>6, <1>7, <1>8, <1>9 DEF Next, Calculate

(* Whatever the size of the sheet, the strengthened invariant holds of      *)
(* every reachable state of commands, calculation steps and saves.          *)
THEOREM SpillInvIsInvariant == NothingShownIsBlank => (Spec => []SpillInv)
<1> SUFFICES ASSUME NothingShownIsBlank PROVE Spec => []SpillInv
  OBVIOUS
<1>1. Init => SpillInv
  BY InitGivesSpillInv
<1>2. SpillInv /\ [Next]_vars => SpillInv'
  BY NextKeepsSpillInv
<1> QED BY <1>1, <1>2, PTL DEF Spec

(* Type correctness, for every grid and every loaded sheet.                 *)
THEOREM TypeCorrect == NothingShownIsBlank => (Spec => []TypeOK)
<1>1. SpillInv => TypeOK
  BY DEF SpillInv
<1> QED BY <1>1, SpillInvIsInvariant, PTL

(* A workbook whose formulas never show a blank can be saved after every     *)
(* sequence of commands and calculations, validate_for_save never objects.   *)
THEOREM SaveNeverRefused == NothingShownIsBlank => (Spec => []SaveIsNeverRefused)
<1>1. SpillInv => SaveIsNeverRefused
  BY DEF SpillInv, SaveIsNeverRefused
<1> QED BY <1>1, SpillInvIsInvariant, PTL

-----------------------------------------------------------------------------
(* What one dynamic result leaves alone, and that it marks what it changes.  *)
LEMMA SpillDynamicFrame ==
  ASSUME TypeOK, NEW a \in Cell, SpillDynamic(a), NEW c \in Cell
  PROVE  /\ cells'[c] # cells[c] => c \in dirty_cells'
         /\ spill_ranges'[c] # spill_ranges[c] => c \in dirty_cells'
         /\ c # a /\ spill_owners[c] # a /\ Occupied(cells[c]) => cells'[c] = cells[c]
<1>1. PICK h \in 1..MaxExtent, w \in 1..MaxExtent :
       LET target == RectFrom(a, h, w)
           old == {k \in Cell : spill_owners[k] = a}
           cleared == [k \in Cell |-> IF k \in old THEN Cleared(cells[k]) ELSE cells[k]]
           fits == Fits(target, a, cleared)
       IN \E values \in [target \cap Cell -> ArrayValue] :
            /\ cells' = [k \in Cell |->
                 IF fits /\ k \in target
                 THEN [value |-> values[k],
                       formula |-> IF k = a THEN cells[a].formula ELSE NoFormula,
                       styled |-> IsStyled(cleared[k])]
                 ELSE IF k = a THEN [cells[a] EXCEPT !.value = SpillError]
                 ELSE cleared[k]]
            /\ spill_owners' = [k \in Cell |-> IF fits /\ k \in target \ {a} THEN a
                                               ELSE IF k \in old THEN NoOwner
                                               ELSE spill_owners[k]]
            /\ spill_ranges' = [spill_ranges EXCEPT ![a] = IF fits THEN target ELSE {}]
            /\ dirty_cells' = dirty_cells \cup {a} \cup old
                                \cup (IF fits THEN target ELSE {})
  BY DEF SpillDynamic
<1> DEFINE target == RectFrom(a, h, w)
           old == {k \in Cell : spill_owners[k] = a}
           cleared == [k \in Cell |-> IF k \in old THEN Cleared(cells[k]) ELSE cells[k]]
           fits == Fits(target, a, cleared)
<1>2. /\ (fits /\ c \in target) \/ c = a \/ cells'[c] = cleared[c]
      /\ a \in dirty_cells' /\ old \subseteq dirty_cells' /\ (fits => target \subseteq dirty_cells')
  BY <1>1
<1>3. c \notin old => cleared[c] = cells[c]
  OBVIOUS
<1>4. fits /\ c \in target /\ c # a => ~Occupied(cleared[c])
  BY DEF Fits
<1>5. c \in old <=> spill_owners[c] = a
  OBVIOUS
<1>6. spill_ranges'[c] = spill_ranges[c] \/ c = a
  BY <1>1 DEF TypeOK
<1> HIDE DEF cleared, fits, target, old
<1> QED BY <1>2, <1>3, <1>4, <1>5, <1>6

(* A calculation writes formula cells, the children of spills and the cells *)
(* of formula groups, whatever the results are: the value a user typed into *)
(* a cell outlives every step of a pass.                                    *)
THEOREM CalculationKeepsTyped ==
  NothingShownIsBlank => (Spec => CalculationKeepsTypedValues)
<1> SUFFICES ASSUME NothingShownIsBlank PROVE Spec => CalculationKeepsTypedValues
  OBVIOUS
<1>1. SpillInv /\ [Next]_vars =>
        [calculating => \A k \in Cell : IsTyped(k) => cells'[k] = cells[k]]_vars
  <2> SUFFICES ASSUME SpillInv, Next, calculating, NEW k \in Cell, IsTyped(k)
               PROVE  cells'[k] = cells[k]
    OBVIOUS
  <2>1. k \notin todo /\ Occupied(cells[k]) /\ spill_owners[k] = NoOwner /\ ~IsGroupMember(k)
    BY DEF IsTyped, SpillInv, TodoHasFormulas
  <2>2. ASSUME NEW a \in Cell, SpillDynamic(a) PROVE cells'[k] = cells[k]
    <3>1. k # a
      BY <2>1, <2>2 DEF SpillDynamic, RowMajorFirst, DynamicTodo
    <3> QED BY <2>1, <2>2, <3>1, ConstantsAreDistinct, SpillDynamicFrame DEF SpillInv
  <2>3. ASSUME NEW g \in formula_groups, WriteLegacyArray(g) PROVE cells'[k] = cells[k]
    BY <2>1, <2>3 DEF WriteLegacyArray, IsGroupMember
  <2>4. CASE WriteScalars
    BY <2>1, <2>4 DEF WriteScalars
  <2>5. ASSUME NEW a \in Cell, KeepUnsupported(a) PROVE cells'[k] = cells[k]
    BY <2>5 DEF KeepUnsupported
  <2>6. ~Save /\ ~Reopen /\ (\A area \in Areas : ~Command(area)) /\ (\A area \in Scopes : ~BeginCalculation(area))
    BY DEF Save, Reopen, Command, BeginCalculation, SetRangeValues, SetRangeFormulas, ReplaceCells,
           RearrangeCells, ClearContents, Clear, ClearFormats
  <2> QED BY <2>2, <2>3, <2>4, <2>5, <2>6 DEF Next, Calculate
<1> QED BY <1>1, SpillInvIsInvariant, PTL DEF Spec, CalculationKeepsTypedValues

-----------------------------------------------------------------------------
(* The inductive strengthening of DirtyCellsAreAnnounced: while a pass runs  *)
(* its own flag stands for the cells it has written so far.                 *)
DirtyInv ==
  dirty_cells # {} =>
    semantic_dirty \/ formula_cache_dirty \/ (calculating /\ formula_cache_changed)

(* A workbook with a cell to rewrite says so in its dirty domains whenever   *)
(* no pass is running; this needs no hypothesis on the values.              *)
THEOREM DirtyAnnounced == Spec => []DirtyCellsAreAnnounced
<1>1. Init => DirtyInv
  BY DEF Init, DirtyInv
<1>2. DirtyInv /\ [Next]_vars => DirtyInv'
  <2> SUFFICES ASSUME DirtyInv, [Next]_vars PROVE DirtyInv'
    OBVIOUS
  <2> USE DEF DirtyInv
  <2>1. ASSUME NEW area \in Areas, Command(area) PROVE DirtyInv'
    <3>1. semantic_dirty' = TRUE
      <4>1. ASSUME NEW touched, NEW new, NEW dynamic, Write(touched, new, dynamic)
            PROVE  semantic_dirty' = TRUE
        BY <4>1 DEF Write
      <4>2. CASE SetRangeValues(area)
        BY <4>1, <4>2 DEF SetRangeValues
      <4>3. CASE \E dynamic \in BOOLEAN : SetRangeFormulas(area, dynamic)
        BY <4>1, <4>3 DEF SetRangeFormulas
      <4>4. CASE ReplaceCells(area)
        BY <4>1, <4>4 DEF ReplaceCells
      <4>5. CASE RearrangeCells(area)
        BY <4>1, <4>5 DEF RearrangeCells
      <4>6. CASE ClearContents(area) \/ Clear(area)
        BY <4>1, <4>6 DEF ClearContents, Clear
      <4>7. CASE ClearFormats(area)
        BY <4>7 DEF ClearFormats
      <4> QED BY <2>1, <4>2, <4>3, <4>4, <4>5, <4>6, <4>7 DEF Command
    <3> QED BY <3>1
  <2>2. ASSUME NEW area \in Scopes, BeginCalculation(area) PROVE DirtyInv'
    BY <2>2 DEF BeginCalculation
  <2>3. ASSUME NEW a \in Cell, SpillDynamic(a) PROVE DirtyInv'
    BY <2>3 DEF SpillDynamic
  <2>4. ASSUME NEW a \in Cell, KeepUnsupported(a) PROVE DirtyInv'
    BY <2>4 DEF KeepUnsupported
  <2>5. ASSUME NEW g \in formula_groups, WriteLegacyArray(g) PROVE DirtyInv'
    BY <2>5 DEF WriteLegacyArray
  <2>6. CASE WriteScalars
    BY <2>6 DEF WriteScalars
  <2>7. CASE Save \/ Reopen
    BY <2>7 DEF Save, Reopen, pass
  <2>8. CASE UNCHANGED vars
    BY <2>8 DEF vars, pass
  <2> QED BY <2>1, <2>2, <2>3, <2>4, <2>5, <2>6, <2>7, <2>8 DEF Next, Calculate
<1>3. DirtyInv => DirtyCellsAreAnnounced
  BY DEF DirtyInv, DirtyCellsAreAnnounced
<1> QED BY <1>1, <1>2, <1>3, PTL DEF Spec

-----------------------------------------------------------------------------
(* The save rewrites the dirty cells and copies the rest of the sheet from   *)
(* the file: no command and no calculation step changes what the file should *)
(* show for a cell without marking the cell.                                *)
THEOREM ChangesMarked ==
  NothingShownIsBlank => (Spec => ChangesAreMarkedDirty)
<1> SUFFICES ASSUME NothingShownIsBlank PROVE Spec => ChangesAreMarkedDirty
  OBVIOUS
<1>1. SpillInv /\ [Next]_vars =>
        [\A k \in Cell : FileCell(k)' # FileCell(k) => k \in dirty_cells']_vars
  <2> SUFFICES ASSUME SpillInv, Next, NEW k \in Cell, FileCell(k)' # FileCell(k)
               PROVE  k \in dirty_cells'
    OBVIOUS
  <2>1. \/ cells'[k] # cells[k] \/ dynamic_array_formulas' # dynamic_array_formulas
        \/ spill_ranges'[k] # spill_ranges[k]
    BY DEF FileCell
  <2>2. ASSUME NEW touched, NEW new, NEW dynamic \in SUBSET touched,
               Write(touched, new, dynamic)
        PROVE  k \in dirty_cells'
    BY <2>2 DEF Write, Marked, FileCell
  <2>3. ASSUME NEW area \in Areas, Command(area) PROVE k \in dirty_cells'
    <3>1. CASE ClearFormats(area)
      BY <2>1, <3>1 DEF ClearFormats, topology
    <3>2. CASE SetRangeValues(area)
      BY <2>2, <3>2 DEF SetRangeValues
    <3>5. CASE ClearContents(area) \/ Clear(area)
      BY <2>2, <3>5 DEF ClearContents, Clear
    <3>6. CASE RearrangeCells(area)
      BY <2>2, <3>6 DEF RearrangeCells
    <3>3. CASE ReplaceCells(area)
      BY <2>2, <3>3 DEF ReplaceCells
    <3>4. CASE \E dynamic \in BOOLEAN : SetRangeFormulas(area, dynamic)
      BY <2>2, <3>4 DEF SetRangeFormulas
    <3> QED BY <2>3, <3>1, <3>2, <3>3, <3>4, <3>5, <3>6 DEF Command
  <2>4. ASSUME NEW a \in Cell, SpillDynamic(a) PROVE k \in dirty_cells'
    BY <2>1, <2>4, SpillDynamicFrame DEF SpillDynamic, SpillInv
  <2>5. ASSUME NEW g \in formula_groups, WriteLegacyArray(g) PROVE k \in dirty_cells'
    BY <2>1, <2>5 DEF WriteLegacyArray, topology, SpillInv, GroupsAreFull, Occupied, TypeOK,
                      Slot, CellData
  <2>6. CASE WriteScalars
    BY <2>1, <2>6 DEF WriteScalars, topology
  <2>7. CASE Save
    BY <2>1, <2>7 DEF Save, topology
  <2>9. CASE Reopen
    BY <2>9, ReopenKeepsSpillInv
  <2>8. (\A area \in Scopes : ~BeginCalculation(area)) /\ (\A a \in Cell : ~KeepUnsupported(a))
    BY <2>1 DEF BeginCalculation, KeepUnsupported, topology
  <2> QED BY <2>3, <2>4, <2>5, <2>6, <2>7, <2>8, <2>9 DEF Next, Calculate
<1> QED BY <1>1, SpillInvIsInvariant, PTL DEF Spec, ChangesAreMarkedDirty

-----------------------------------------------------------------------------
(* What it takes for a step to leave the input of a cell as it was.         *)
LEMMA InputStays ==
  ASSUME NEW k \in Cell, formula_groups' = formula_groups,
         k \in dynamic_array_formulas' <=> k \in dynamic_array_formulas,
         HasFormula(cells'[k]) <=> HasFormula(cells[k]),
         HasFormula(cells[k]) => cells'[k].formula = cells[k].formula,
         IsTyped(k)' <=> IsTyped(k),
         IsTyped(k) => cells'[k].value = cells[k].value
  PROVE  InputOf(k)' = InputOf(k)
<1>1. CASE HasFormula(cells[k])
  <2>1. CASE k \in dynamic_array_formulas
    BY <1>1, <2>1 DEF InputOf
  <2>2. CASE k \notin dynamic_array_formulas
    BY <1>1, <2>2 DEF InputOf
  <2> QED BY <2>1, <2>2
<1>2. CASE ~HasFormula(cells[k])
  BY <1>2 DEF InputOf
<1> QED BY <1>1, <1>2

(* Every input is one of the abstract grid's.                               *)
AllInputs == {<<c>> : c \in CellValue} \cup (Formula \X BOOLEAN) \cup {<<>>}
InputsAreTyped == \A k \in Cell : InputOf(k) \in AllInputs

LEMMA InputsAreInputs == TypeOK => InputsAreTyped
<1> SUFFICES ASSUME TypeOK, NEW k \in Cell PROVE InputOf(k) \in AllInputs
  BY DEF InputsAreTyped
<1> USE DEF AllInputs
<1>1. cells[k] # NoCell => /\ cells[k].value \in CellValue
                           /\ cells[k].formula \in Formula \cup {NoFormula}
  BY DEF TypeOK, Slot, CellData
<1>2. CASE HasFormula(cells[k])
  <2>1. InputOf(k) = <<cells[k].formula, k \in dynamic_array_formulas>>
    BY <1>2 DEF InputOf
  <2>2. cells[k].formula \in Formula
    BY <1>1, <1>2 DEF HasFormula
  <2>3. \A b \in BOOLEAN : <<cells[k].formula, b>> \in Formula \X BOOLEAN
    BY <2>2
  <2>4. CASE k \in dynamic_array_formulas
    <3>1. InputOf(k) = <<cells[k].formula, TRUE>>
      BY <2>1, <2>4
    <3> QED BY <2>3, <3>1, Zenon
  <2>5. CASE k \notin dynamic_array_formulas
    <3>1. (k \in dynamic_array_formulas) = FALSE
      BY <2>5
    <3>2. InputOf(k) = <<cells[k].formula, FALSE>>
      BY <2>1, <3>1, Zenon
    <3> QED BY <2>3, <3>2, Zenon
  <2> QED BY <2>4, <2>5
<1>3. CASE ~HasFormula(cells[k]) /\ IsTyped(k)
  <2>1. InputOf(k) = <<cells[k].value>>
    BY <1>3 DEF InputOf
  <2>2. cells[k].value \in CellValue
    BY <1>1, <1>3 DEF IsTyped, Occupied
  <2> QED BY <2>1, <2>2
<1>4. CASE ~HasFormula(cells[k]) /\ ~IsTyped(k)
  BY <1>4 DEF InputOf
<1> QED BY <1>2, <1>3, <1>4

(* A write changes inputs only where it was asked to: the children that it  *)
(* clears had been shown, not entered.                                      *)
LEMMA WriteKeepsInputs ==
  ASSUME SpillInv, NEW touched \in SUBSET Cell, NEW new, NEW dynamic \in SUBSET touched,
         MayEdit(touched), Write(touched, new, dynamic),
         NEW k \in Cell, k \notin touched \/ IsGroupMember(k)
  PROVE  InputOf(k)' = InputOf(k)
<1> USE DEF SpillInv, ValidForSave
<1> DEFINE orphans == ChildrenOf(touched)
<1>1. k \notin touched
  BY DEF MayEdit
<1>2. /\ cells'[k] = IF k \in orphans THEN Cleared(cells[k]) ELSE cells[k]
      /\ spill_owners'[k] = IF k \in orphans THEN NoOwner ELSE spill_owners[k]
      /\ formula_groups' = formula_groups
      /\ k \in dynamic_array_formulas' <=> k \in dynamic_array_formulas
  BY <1>1 DEF Write
<1>3. CASE k \in orphans
  <2>1. spill_owners[k] # NoOwner /\ ~HasFormula(cells[k])
    BY <1>3, ConstantsAreDistinct DEF ChildrenOf, ChildrenAreMaterialized
  <2>2. cells[k] \in Slot /\ cells'[k] = Cleared(cells[k])
    BY <1>2, <1>3 DEF TypeOK
  <2>3. ~HasFormula(cells'[k]) /\ ~Occupied(cells'[k])
    <3>1. ~HasFormula(Cleared(cells[k]))
      BY <2>2, SlotFacts
    <3>2. Cleared(cells[k]) = NoCell \/ Cleared(cells[k]).value = Blank
      BY DEF Cleared, Stored
    <3> QED BY <2>2, <3>1, <3>2 DEF Occupied, HasFormula
  <2> QED BY <2>1, <2>3 DEF InputOf, IsTyped
<1>4. CASE k \notin orphans
  <2>1. IsTyped(k)' <=> IsTyped(k)
    BY <1>2, <1>4 DEF IsTyped, IsGroupMember
  <2>2. cells'[k] = cells[k]
    BY <1>2, <1>4
  <2> QED BY <1>2, <2>1, <2>2, InputStays
<1> QED BY <1>3, <1>4

(* A command keeps every input outside its area and inside a formula group. *)
LEMMA CommandKeepsInputs ==
  ASSUME SpillInv, NEW area \in Areas, Command(area),
         NEW k \in Cell, k \notin area \/ IsGroupMember(k)
  PROVE  InputOf(k)' = InputOf(k)
<1>1. area \subseteq Cell
  BY AreasOnGrid
<1>2. ASSUME NEW touched \in SUBSET area, NEW new, NEW dynamic \in SUBSET touched,
             MayEdit(touched), Write(touched, new, dynamic)
      PROVE  InputOf(k)' = InputOf(k)
  BY <1>1, <1>2, WriteKeepsInputs
<1>9. ASSUME NEW touched \in SUBSET area, NEW new, MayEdit(area), Write(touched, new, {})
      PROVE  InputOf(k)' = InputOf(k)
  <2>1. MayEdit(touched) /\ {} \in SUBSET touched
    BY <1>9 DEF MayEdit
  <2> QED BY <1>2, <1>9, <2>1
<1>3. CASE SetRangeValues(area)
  BY <1>3, <1>9 DEF SetRangeValues
<1>4. CASE \E dynamic \in BOOLEAN : SetRangeFormulas(area, dynamic)
  <2>1. \A touched \in SUBSET area : MayEdit(touched)
    BY <1>4 DEF SetRangeFormulas, MayEdit
  <2> QED BY <1>2, <1>4, <2>1 DEF SetRangeFormulas
<1>5. CASE ReplaceCells(area)
  BY <1>2, <1>5 DEF ReplaceCells
<1>6. CASE RearrangeCells(area)
  BY <1>2, <1>6 DEF RearrangeCells, MayRearrange
<1>7. CASE ClearContents(area) \/ Clear(area)
  BY <1>7, <1>9 DEF ClearContents, Clear
<1>8. CASE ClearFormats(area)
  <2> DEFINE kept == HasTopology(k) \/ IsSpillChild(k) \/ Occupied(cells[k])
             touched == {j \in area : IsStyled(cells[j])}
  <2>1. /\ cells'[k] = IF k \notin touched THEN cells[k]
                       ELSE IF kept THEN [cells[k] EXCEPT !.styled = FALSE] ELSE NoCell
        /\ dynamic_array_formulas' = dynamic_array_formulas
        /\ spill_owners' = spill_owners /\ formula_groups' = formula_groups
    BY <1>8 DEF ClearFormats, topology
  <2>2. k \in touched => cells[k] \in CellData /\ cells[k] # NoCell
    BY DEF SpillInv, TypeOK, Slot, IsStyled
  <2>3. kept \/ (~HasFormula(cells[k]) /\ ~Occupied(cells[k]))
    BY DEF HasFormula, Occupied
  <2> HIDE DEF kept, touched
  <2>4. \/ cells'[k] = cells[k]
        \/ /\ cells'[k] # NoCell /\ cells[k] # NoCell
           /\ cells'[k].formula = cells[k].formula /\ cells'[k].value = cells[k].value
        \/ /\ ~Occupied(cells[k]) /\ ~HasFormula(cells[k])
           /\ cells'[k] = NoCell
    <3>1. CASE k \in touched /\ kept
      <4>1. cells'[k] = [cells[k] EXCEPT !.styled = FALSE] /\ cells[k] \in CellData
        BY <2>1, <2>2, <3>1
      <4>2. cells'[k] \in CellData /\ cells'[k].formula = cells[k].formula
            /\ cells'[k].value = cells[k].value
        BY <4>1 DEF CellData
      <4> QED BY <2>2, <3>1, <4>2, ConstantsAreDistinct
    <3> QED BY <2>1, <2>3, <3>1
  <2>5. /\ HasFormula(cells'[k]) <=> HasFormula(cells[k])
        /\ HasFormula(cells[k]) => cells'[k].formula = cells[k].formula
        /\ Occupied(cells'[k]) <=> Occupied(cells[k])
        /\ Occupied(cells[k]) => cells'[k].value = cells[k].value
    BY <2>4 DEF HasFormula, Occupied
  <2>6. /\ IsTyped(k)' <=> IsTyped(k)
        /\ IsTyped(k) => Occupied(cells[k])
    BY <2>1, <2>5 DEF IsTyped, IsGroupMember
  <2> QED BY <2>1, <2>5, <2>6, InputStays
<1> QED BY <1>3, <1>4, <1>5, <1>6, <1>7, <1>8 DEF Command

(* Values written into cells that show formula results are not inputs.      *)
LEMMA ValueWritesKeepInputs ==
  ASSUME UNCHANGED <<topology, formula_groups>>, NEW k \in Cell,
         HasFormula(cells'[k]) <=> HasFormula(cells[k]),
         HasFormula(cells[k]) => cells'[k].formula = cells[k].formula,
         HasFormula(cells[k]) \/ IsGroupMember(k) \/ cells'[k] = cells[k]
  PROVE  InputOf(k)' = InputOf(k)
<1>1. /\ dynamic_array_formulas' = dynamic_array_formulas
      /\ spill_owners' = spill_owners /\ formula_groups' = formula_groups
  BY DEF topology
<1>2. /\ IsTyped(k)' <=> IsTyped(k)
      /\ IsTyped(k) => cells'[k] = cells[k]
  BY <1>1 DEF IsTyped, IsGroupMember
<1> QED BY <1>1, <1>2, InputStays

(* A dynamic result moves the cells that show it and no input.              *)
LEMMA SpillDynamicKeepsInputs ==
  ASSUME SpillInv, NEW a \in Cell, SpillDynamic(a), NEW k \in Cell
  PROVE  InputOf(k)' = InputOf(k)
<1> USE DEF SpillInv, ValidForSave
<1>1. PICK h \in 1..MaxExtent, w \in 1..MaxExtent :
       LET target == RectFrom(a, h, w)
           old == {j \in Cell : spill_owners[j] = a}
           cleared == [j \in Cell |-> IF j \in old THEN Cleared(cells[j]) ELSE cells[j]]
           fits == Fits(target, a, cleared)
       IN \E values \in [target \cap Cell -> ArrayValue] :
            /\ cells' = [j \in Cell |->
                 IF fits /\ j \in target
                 THEN [value |-> values[j],
                       formula |-> IF j = a THEN cells[a].formula ELSE NoFormula,
                       styled |-> IsStyled(cleared[j])]
                 ELSE IF j = a THEN [cells[a] EXCEPT !.value = SpillError]
                 ELSE cleared[j]]
            /\ spill_owners' = [j \in Cell |-> IF fits /\ j \in target \ {a} THEN a
                                               ELSE IF j \in old THEN NoOwner
                                               ELSE spill_owners[j]]
            /\ spill_ranges' = [spill_ranges EXCEPT ![a] = IF fits THEN target ELSE {}]
            /\ dirty_cells' = dirty_cells \cup {a} \cup old
                                \cup (IF fits THEN target ELSE {})
  BY DEF SpillDynamic
<1> DEFINE target == RectFrom(a, h, w)
           old == {j \in Cell : spill_owners[j] = a}
           cleared == [j \in Cell |-> IF j \in old THEN Cleared(cells[j]) ELSE cells[j]]
           fits == Fits(target, a, cleared)
           written == fits /\ k \in target
<1>2. PICK values :
         /\ cells'[k] = IF written
                        THEN [value |-> values[k],
                              formula |-> IF k = a THEN cells[a].formula ELSE NoFormula,
                              styled |-> IsStyled(cleared[k])]
                        ELSE IF k = a THEN [cells[a] EXCEPT !.value = SpillError]
                        ELSE cleared[k]
         /\ spill_owners'[k] = IF written /\ k # a THEN a
                               ELSE IF k \in old THEN NoOwner ELSE spill_owners[k]
         /\ written => values[k] \in ArrayValue
  BY <1>1
<1>3. /\ HasFormula(cells[a]) /\ cells[a] \in CellData
      /\ dynamic_array_formulas' = dynamic_array_formulas
      /\ formula_groups' = formula_groups
  BY DEF SpillDynamic, RowMajorFirst, DynamicTodo, TodoHasFormulas, TypeOK, HasFormula, Slot
<1>4. k \in old <=> spill_owners[k] = a
  OBVIOUS
<1>5. /\ k \notin old => cleared[k] = cells[k]
      /\ k \in old => cleared[k] = Cleared(cells[k])
  OBVIOUS
<1>6. k \in old => /\ k # a /\ ~HasFormula(cells[k]) /\ spill_owners[k] # NoOwner
                   /\ ~HasFormula(cleared[k]) /\ ~Occupied(cleared[k])
  <2> SUFFICES ASSUME k \in old
               PROVE  /\ k # a /\ ~HasFormula(cells[k]) /\ spill_owners[k] # NoOwner
                      /\ ~HasFormula(cleared[k]) /\ ~Occupied(cleared[k])
    OBVIOUS
  <2>1. k # a /\ ~HasFormula(cells[k]) /\ spill_owners[k] # NoOwner
    BY <1>4, ConstantsAreDistinct DEF ChildrenAreMaterialized
  <2>2. ~HasFormula(Cleared(cells[k]))
    BY SlotFacts DEF TypeOK
  <2>3. Cleared(cells[k]) = NoCell \/ Cleared(cells[k]).value = Blank
    BY DEF Cleared, Stored
  <2> QED BY <1>5, <2>1, <2>2, <2>3 DEF Occupied, HasFormula
<1>7. written /\ k # a => ~Occupied(cleared[k])
  BY DEF Fits
<1>11. IsStyled(cleared[k]) \in BOOLEAN
  BY SlotFacts DEF TypeOK
<1> HIDE DEF target, old, cleared, fits, written
<1>8. CASE k = a
  <2>1. cells'[k] # NoCell /\ cells'[k].formula = cells[k].formula
    <3>1. CASE written
      <4> DEFINE slot == [value |-> values[k], formula |-> cells[a].formula,
                          styled |-> IsStyled(cleared[k])]
      <4>1. cells'[k] = slot
        BY <1>2, <1>8, <3>1
      <4>2. /\ values[k] \in CellValue /\ IsStyled(cleared[k]) \in BOOLEAN
            /\ cells[a].formula \in Formula \cup {NoFormula}
        BY <1>2, <1>3, <1>11, <3>1 DEF CellValue, CellData
      <4>3. slot \in CellData /\ slot.formula = cells[a].formula
        BY <4>2 DEF CellData
      <4> QED BY <1>8, <4>1, <4>3, ConstantsAreDistinct
    <3>2. CASE ~written
      <4>1. cells'[k] = [cells[a] EXCEPT !.value = SpillError]
        BY <1>2, <1>8, <3>2
      <4> QED BY <1>3, <1>8, <4>1, ConstantsAreDistinct DEF CellData, CellValue
    <3> QED BY <3>1, <3>2
  <2>2. HasFormula(cells'[k]) /\ HasFormula(cells[k])
    BY <1>3, <1>8, <2>1 DEF HasFormula
  <2>3. ~IsTyped(k) /\ ~IsTyped(k)'
    BY <2>2 DEF IsTyped
  <2> QED BY <1>3, <2>1, <2>2, <2>3, InputStays
<1>9. CASE k # a /\ written
  <2>1. cells'[k].formula = NoFormula /\ spill_owners'[k] = a
    BY <1>2, <1>9
  <2>2. ~HasFormula(cells'[k]) /\ ~IsTyped(k)'
    BY <2>1, ConstantsAreDistinct DEF HasFormula, IsTyped
  <2>3. ~HasFormula(cells[k]) /\ ~IsTyped(k)
    BY <1>5, <1>6, <1>7, <1>9, SlotFacts DEF IsTyped, TypeOK
  <2> QED BY <2>2, <2>3 DEF InputOf
<1>10. CASE k # a /\ ~written
  <2>1. CASE k \in old
    <3>1. cells'[k] = cleared[k]
      BY <1>2, <1>10
    <3> QED BY <1>6, <2>1, <3>1 DEF InputOf, IsTyped
  <2>2. CASE k \notin old
    <3>1. cells'[k] = cells[k] /\ spill_owners'[k] = spill_owners[k]
      BY <1>2, <1>5, <1>10, <2>2
    <3>2. IsTyped(k)' <=> IsTyped(k)
      BY <1>3, <3>1 DEF IsTyped, IsGroupMember
    <3> QED BY <1>3, <3>1, <3>2, InputStays
  <2> QED BY <2>1, <2>2
<1> QED BY <1>8, <1>9, <1>10

(* The other writes of a pass replace the results of formulas.              *)
LEMMA WriteLegacyArrayKeepsInputs ==
  ASSUME SpillInv, NEW g \in formula_groups, WriteLegacyArray(g), NEW k \in Cell
  PROVE  InputOf(k)' = InputOf(k)
<1>1. UNCHANGED <<topology, formula_groups>>
  BY DEF WriteLegacyArray
<1>2. CASE k \in g.owns
  <2>1. cells[k] \in CellData /\ cells[k] # NoCell
    BY <1>2 DEF SpillInv, TypeOK, GroupsAreFull, Occupied, Slot
  <2>2. PICK v \in CellValue : cells'[k] = [cells[k] EXCEPT !.value = v]
    BY <1>2, <2>1 DEF WriteLegacyArray, CellValue
  <2>3. cells'[k] # NoCell /\ cells'[k].formula = cells[k].formula
    <3>1. cells'[k] \in CellData /\ cells'[k].formula = cells[k].formula
      BY <2>1, <2>2 DEF CellData
    <3> QED BY <3>1, ConstantsAreDistinct
  <2>4. HasFormula(cells'[k]) <=> HasFormula(cells[k])
    BY <2>1, <2>3 DEF HasFormula
  <2>5. IsGroupMember(k)
    BY <1>2 DEF IsGroupMember
  <2> QED BY <1>1, <2>3, <2>4, <2>5, ValueWritesKeepInputs
<1>3. CASE k \notin g.owns
  <2>1. cells'[k] = cells[k]
    BY <1>3 DEF WriteLegacyArray
  <2> QED BY <1>1, <2>1, ValueWritesKeepInputs
<1> QED BY <1>2, <1>3

(* Scalar results go to cells that have a formula.                          *)
LEMMA WriteScalarsKeepsInputs ==
  ASSUME SpillInv, WriteScalars, NEW k \in Cell
  PROVE  InputOf(k)' = InputOf(k)
<1>1. UNCHANGED <<topology, formula_groups>>
  BY DEF WriteScalars
<1>2. CASE cells'[k] = cells[k]
  BY <1>1, <1>2, ValueWritesKeepInputs
<1>3. CASE cells'[k] # cells[k]
  <2>1. k \in todo /\ \E v \in ArrayValue : cells'[k] = [cells[k] EXCEPT !.value = v]
    BY <1>3 DEF WriteScalars
  <2>2. HasFormula(cells[k]) /\ cells[k] \in CellData
    BY <2>1 DEF SpillInv, TodoHasFormulas, TypeOK, HasFormula, Slot
  <2>3. cells'[k] \in CellData /\ cells'[k].formula = cells[k].formula
    BY <2>1, <2>2 DEF CellData, CellValue
  <2>4. HasFormula(cells'[k])
    BY <2>2, <2>3, ConstantsAreDistinct DEF HasFormula
  <2> QED BY <1>1, <2>2, <2>3, <2>4, ValueWritesKeepInputs
<1> QED BY <1>2, <1>3

(* Reading the file back gives every cell the input it had: a cell that is  *)
(* not read back held nothing, and an owner that is gone owned no input.    *)
LEMMA ReopenKeepsInputs ==
  ASSUME SpillInv, Reopen, NEW k \in Cell
  PROVE  InputOf(k)' = InputOf(k)
<1> DEFINE slots == [j \in Cell |-> FileCell(j).slot]
           ranges == [j \in Cell |-> FileCell(j).range]
<1>1. /\ SpillInv' /\ dynamic_array_formulas' = dynamic_array_formulas
      /\ formula_groups' = formula_groups
  BY ReopenKeepsSpillInv DEF Reopen
<1>2. cells'[k] = IF cells[k] = BareBlank THEN NoCell ELSE cells[k]
  BY DEF Reopen, FileCell
<1>3. CASE ~Occupied(cells[k])
  <2>1. ~HasFormula(cells[k]) /\ ~HasFormula(cells'[k]) /\ ~Occupied(cells'[k])
    BY <1>2, <1>3 DEF Occupied, HasFormula
  <2> QED BY <1>3, <2>1 DEF InputOf, IsTyped
<1>4. CASE Occupied(cells[k])
  <2>1. cells'[k] = cells[k]
    BY <1>2, <1>4 DEF Occupied, BareBlank
  <2>2. spill_owners'[k] # NoOwner <=> spill_owners[k] # NoOwner
    <3>1. (\E a \in Cell : a # k /\ k \in spill_ranges[a]) <=> spill_owners[k] # NoOwner
      BY ConstantsAreDistinct
         DEF SpillInv, ValidForSave, ChildrenAreMaterialized, RangesAreFull, TypeOK
    <3>2. (\E a \in Cell : a # k /\ k \in spill_ranges'[a]) <=> spill_owners'[k] # NoOwner
      BY <1>1, ConstantsAreDistinct
         DEF SpillInv, ValidForSave, ChildrenAreMaterialized, RangesAreFull, TypeOK
    <3>3. \A a \in Cell : a # k => (k \in spill_ranges'[a] <=> k \in spill_ranges[a])
      BY DEF Reopen, FileCell, SpillInv, ValidForSave, AnchorsHaveFormulas, TypeOK
    <3> QED BY <3>1, <3>2, <3>3
  <2>3. IsTyped(k)' <=> IsTyped(k)
    BY <1>1, <2>1, <2>2 DEF IsTyped, IsGroupMember
  <2> QED BY <1>1, <2>1, <2>3, InputStays
<1> QED BY <1>3, <1>4

(* What the user entered behaves like a plain grid of inputs, whatever the  *)
(* results of formulas do around it: the range commands of the runtime      *)
(* change inputs only inside the area they are given and never in a formula *)
(* group, and neither recalculation nor a save and a reopening changes any. *)
THEOREM SheetIsAGridOfInputs ==
  NothingShownIsBlank => (Spec => ImplementsInputs)
<1> SUFFICES ASSUME NothingShownIsBlank PROVE Spec => ImplementsInputs
  OBVIOUS
<1> DEFINE grid == [k \in Cell |-> InputOf(k)]
           members == {k \in Cell : IsGroupMember(k)}
<1>1. TypeOK => InputsAreTyped
  BY InputsAreInputs
<1>2. TypeOK' => InputsAreTyped'
  BY <1>1, PTL
<1>3. Init => Inputs!Init
  <2> SUFFICES ASSUME Init PROVE Inputs!Init
    OBVIOUS
  <2>1. grid \in [Cell -> AllInputs]
    BY <1>1, InitGivesSpillInv DEF SpillInv, InputsAreTyped
  <2>2. calculating = FALSE
    BY DEF Init
  <2> QED BY <2>1, <2>2 DEF Inputs!Init, AllInputs
<1>4. SpillInv /\ SpillInv' /\ [Next]_vars => [Inputs!Next]_<<grid, members, calculating>>
  <2> SUFFICES ASSUME SpillInv, SpillInv', [Next]_vars
               PROVE  Inputs!Next \/ UNCHANGED <<grid, members, calculating>>
    OBVIOUS
  <2>1. formula_groups' = formula_groups /\ members' = members
    <3>1. ASSUME NEW touched, NEW new, NEW dynamic, Write(touched, new, dynamic)
          PROVE  formula_groups' = formula_groups
      BY <3>1 DEF Write
    <3>2. ASSUME NEW area \in Areas, Command(area) PROVE formula_groups' = formula_groups
      BY <3>1, <3>2 DEF Command, SetRangeValues, SetRangeFormulas, ReplaceCells,
                        RearrangeCells, ClearContents, Clear, ClearFormats
    <3>3. formula_groups' = formula_groups
      BY <3>2 DEF Next, Calculate, BeginCalculation, SpillDynamic, KeepUnsupported,
                  WriteLegacyArray, WriteScalars, Save, Reopen, vars
    <3> QED BY <3>3 DEF IsGroupMember
  <2>2. ASSUME \A k \in Cell : InputOf(k)' = InputOf(k) PROVE grid' = grid
    BY <2>2
  <2>3. ASSUME NEW area \in Areas, Command(area) PROVE Inputs!Next
    <3>1. ~calculating /\ calculating' = calculating
      <4>1. ASSUME NEW touched, NEW new, NEW dynamic, Write(touched, new, dynamic)
            PROVE  calculating' = calculating
        BY <4>1 DEF Write, pass
      <4> QED BY <2>3, <4>1 DEF Command, SetRangeValues, SetRangeFormulas, ReplaceCells,
                       RearrangeCells, ClearContents, Clear, ClearFormats, pass
    <3>2. grid' \in [Cell -> AllInputs]
      BY <1>2 DEF SpillInv, InputsAreTyped
    <3>3. \A k \in Cell : grid'[k] # grid[k] => k \in area \ members
      BY <2>3, CommandKeepsInputs
    <3>4. Inputs!Edit(area)
      BY <2>1, <3>1, <3>2, <3>3 DEF Inputs!Edit, AllInputs
    <3> QED BY <3>4 DEF Inputs!Next
  <2>4. ASSUME NEW area \in Scopes, BeginCalculation(area) PROVE Inputs!Next
    <3>1. calculating' = TRUE /\ grid' = grid
      BY <2>4, <2>2 DEF BeginCalculation, topology, InputOf, IsTyped, IsGroupMember
    <3> QED BY <2>1, <3>1 DEF Inputs!Next, Inputs!BeginCalculation
  <2>5. ASSUME NEW a \in Cell, SpillDynamic(a) \/ KeepUnsupported(a)
        PROVE  UNCHANGED <<grid, members, calculating>>
    <3>1. CASE SpillDynamic(a)
      BY <2>1, <2>2, <3>1, SpillDynamicKeepsInputs DEF SpillDynamic
    <3>2. CASE KeepUnsupported(a)
      BY <2>1, <2>2, <3>2 DEF KeepUnsupported, topology, InputOf, IsTyped, IsGroupMember
    <3> QED BY <2>5, <3>1, <3>2
  <2>6. ASSUME NEW g \in formula_groups, WriteLegacyArray(g)
        PROVE  UNCHANGED <<grid, members, calculating>>
    BY <2>1, <2>2, <2>6, WriteLegacyArrayKeepsInputs DEF WriteLegacyArray
  <2>7. CASE WriteScalars
    <3>1. calculating' = FALSE /\ grid' = grid
      BY <2>2, <2>7, WriteScalarsKeepsInputs DEF WriteScalars
    <3> QED BY <2>1, <3>1 DEF Inputs!Next, Inputs!EndCalculation
  <2>8. CASE Save
    BY <2>1, <2>2, <2>8 DEF Save, topology, pass, InputOf, IsTyped, IsGroupMember
  <2>9. CASE Reopen
    BY <2>1, <2>2, <2>9, ReopenKeepsInputs DEF Reopen, pass
  <2>10. CASE UNCHANGED vars
    BY <2>1, <2>2, <2>10 DEF vars, topology, pass, InputOf, IsTyped, IsGroupMember
  <2> QED BY <2>3, <2>4, <2>5, <2>6, <2>7, <2>8, <2>9, <2>10 DEF Next, Calculate
<1> QED BY <1>3, <1>4, SpillInvIsInvariant, PTL DEF Spec, ImplementsInputs, Inputs!Spec
=============================================================================
