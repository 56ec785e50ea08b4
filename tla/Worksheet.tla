------------------------------ MODULE Worksheet ------------------------------
(***************************************************************************)
(* One worksheet of an open workbook: the cells and the spill topology     *)
(* that excel-model keeps in WorksheetData, the range commands that edit   *)
(* them, the calculation pass of excel-runtime that writes formula results *)
(* back into them, the save that checks them, and the reopening that reads *)
(* them back.                                                              *)
(*                                                                         *)
(* Every command of the program holds &mut WorkbookState, so a command is  *)
(* one step here.  A calculation pass is a loop over formula cells; each   *)
(* iteration is a step, and no command can run until the loop has ended    *)
(* (calculating).  A rejected command changes nothing, which is no step.   *)
(*                                                                         *)
(* MayEditGroupCells, ChildrenForgotten, MarkedTouchedOnly, FitsOffGrid,   *)
(* FitsOverValues and SaveKeepsMarks stand each before the definition it   *)
(* is a faulty variant of; PROJECT.json pairs it with the property that    *)
(* notices the fault.                                                      *)
(***************************************************************************)
EXTENDS Naturals, FiniteSets

CONSTANTS
  Rows, Cols,        \* the last row and the last column of the grid
  InputValue,        \* the values a user can type into a cell
  ArrayValue,        \* the values a formula result may hold
  Formula,           \* formula texts
  Blank, SpillError, \* CellValue::Blank and CellError::Spill
  NoFormula, NoCell, NoOwner,
  Areas,             \* the cell sets that commands address
  Scopes,            \* the cell sets that a calculation covers
  MaxExtent,         \* bound on the height and the width of an array result
  LoadedSheets       \* what the codec may hand over when a workbook opens

Cell == (1..Rows) \X (1..Cols)
CellValue == InputValue \cup ArrayValue \cup {Blank, SpillError}
CellData == [value : CellValue, formula : Formula \cup {NoFormula},
             styled : BOOLEAN]
Slot == CellData \cup {NoCell}
BareBlank == [value |-> Blank, formula |-> NoFormula, styled |-> FALSE]

VARIABLES
  cells,                  \* Cell -> Slot
  dynamic_array_formulas, \* the cells marked as dynamic array formulas
  spill_ranges,           \* anchor -> the cells of its spill range, {} if none
  spill_owners,           \* spill child -> anchor
  formula_groups,         \* the groups read from the file
  dirty_cells,            \* the cells the save has to rewrite
  semantic_dirty,         \* RuntimeWorkbook: an edit is unsaved
  formula_cache_dirty,    \* RuntimeWorkbook: a recalculated value is unsaved
  calculating,            \* a calculation pass is under way
  todo,                   \* formula cells the pass has still to write
  formula_cache_changed   \* the pass has written something

topology == <<dynamic_array_formulas, spill_ranges, spill_owners>>
pass == <<calculating, todo, formula_cache_changed>>
vars == <<cells, topology, formula_groups, dirty_cells, semantic_dirty,
          formula_cache_dirty, pass>>

-----------------------------------------------------------------------------
(* Shapes.                                                                  *)

RectFrom(k, h, w) == (k[1]..(k[1] + h - 1)) \X (k[2]..(k[2] + w - 1))

HasFormula(slot) == slot # NoCell /\ slot.formula # NoFormula
Occupied(slot) == slot # NoCell /\ (slot.formula # NoFormula \/ slot.value # Blank)
IsStyled(slot) == slot # NoCell /\ slot.styled

(* A cell survives an edit only if it still carries something.              *)
Stored(v, f, s) ==
  LET slot == [value |-> v, formula |-> f, styled |-> s]
  IN IF slot = BareBlank THEN NoCell ELSE slot

(* A spill child that loses its spill: blank, and gone unless it is styled. *)
Cleared(slot) == Stored(Blank, NoFormula, IsStyled(slot))

RowMajorFirst(S) ==
  {k \in S : \A j \in S : k[1] < j[1] \/ (k[1] = j[1] /\ k[2] <= j[2])}

-----------------------------------------------------------------------------
(* Opening: the codec rejects overlapping spill ranges and groups, and      *)
(* gives every materialized cell of a spill range its owner; a state that    *)
(* the save preflight would refuse is not opened at all.  A group is         *)
(* [anchor, owns, kind]: the anchor is a legacy array's or a data table's   *)
(* first cell, or the master of a shared formula.                           *)

GroupKind == {"Shared", "DataTable", "LegacyArray"}

Accepted(s) ==
  /\ s.cells \in [Cell -> Slot \ {BareBlank}]
  /\ s.spills \in [Cell -> SUBSET Cell]
  /\ \A g \in s.groups :
        /\ g.anchor \in g.owns /\ g.owns \subseteq Cell /\ g.kind \in GroupKind
        /\ g.kind # "DataTable" => HasFormula(s.cells[g.anchor])
  /\ \A g, i \in s.groups : g # i => g.owns \cap i.owns = {}
  /\ \A a \in Cell : s.spills[a] # {} =>
        /\ a \in s.spills[a] /\ HasFormula(s.cells[a])
        /\ \A k \in s.spills[a] \ {a} : ~HasFormula(s.cells[k])
        /\ \A g \in s.groups : g.owns \cap s.spills[a] = {}
        /\ \A b \in Cell : b # a => s.spills[a] \cap s.spills[b] = {}

ASSUME LoadedSheetsAccepted == \A s \in LoadedSheets : Accepted(s)

ASSUME ConstantsAreDistinct ==
  /\ NoCell \notin CellData /\ NoOwner \notin Cell /\ NoFormula \notin Formula
  /\ Blank # SpillError /\ Blank \notin InputValue

ASSUME AreasOnGrid ==
  /\ Rows \in Nat /\ Cols \in Nat /\ MaxExtent \in Nat
  /\ Areas \subseteq SUBSET Cell /\ Scopes \subseteq SUBSET Cell

(* The owners the codec gives to the cells it materialized.                 *)
LoadedOwners(slots, ranges) ==
  [k \in Cell |->
     IF slots[k] # NoCell /\ \E a \in Cell : a # k /\ k \in ranges[a]
     THEN CHOOSE a \in Cell : a # k /\ k \in ranges[a]
     ELSE NoOwner]

Init ==
  /\ \E s \in LoadedSheets :
       /\ cells = s.cells
       /\ spill_ranges = s.spills
       /\ dynamic_array_formulas = {a \in Cell : s.spills[a] # {}}
       /\ spill_owners = LoadedOwners(s.cells, s.spills)
       /\ formula_groups = s.groups
  /\ dirty_cells = {}
  /\ semantic_dirty = FALSE /\ formula_cache_dirty = FALSE
  /\ calculating = FALSE /\ todo = {} /\ formula_cache_changed = FALSE

-----------------------------------------------------------------------------
(* Preflight: what a command may touch.                                     *)

IsGroupMember(k) == \E g \in formula_groups : k \in g.owns

IsSpillChild(k) ==
  \/ spill_owners[k] # NoOwner
  \/ \E a \in Cell : a # k /\ k \in spill_ranges[a]

HasTopology(k) ==
  \/ spill_owners[k] # NoOwner
  \/ spill_ranges[k] # {}
  \/ k \in dynamic_array_formulas

MayEditGroupCells(ks) == \A k \in ks : ~IsSpillChild(k)
MayEdit(ks) == \A k \in ks : ~IsGroupMember(k) /\ ~IsSpillChild(k)

MayRearrange(ks) ==
  /\ MayEdit(ks)
  /\ \A k \in ks : spill_ranges[k] = {} /\ k \notin dynamic_array_formulas

-----------------------------------------------------------------------------
(* The write every command ends in: each touched cell gives up its spill    *)
(* metadata, its children are cleared, and all of them become dirty.        *)

ChildrenForgotten(ks) == {}
ChildrenOf(ks) ==
  {k \in Cell : \E a \in ks : spill_ranges[a] # {} /\ spill_owners[k] = a}

MarkedTouchedOnly(touched) == touched
Marked(touched) == touched \cup ChildrenOf(touched)

Write(touched, new, dynamic) ==
  LET orphans == ChildrenOf(touched)
  IN /\ touched # {}
     /\ cells' = [k \in Cell |-> IF k \in touched THEN new[k]
                                 ELSE IF k \in orphans THEN Cleared(cells[k])
                                 ELSE cells[k]]
     /\ spill_owners' = [k \in Cell |-> IF k \in touched \cup orphans
                                        THEN NoOwner ELSE spill_owners[k]]
     /\ spill_ranges' = [k \in Cell |-> IF k \in touched THEN {}
                                        ELSE spill_ranges[k]]
     /\ dynamic_array_formulas' = (dynamic_array_formulas \ touched) \cup dynamic
     /\ dirty_cells' = dirty_cells \cup Marked(touched)
     /\ semantic_dirty' = TRUE
     /\ UNCHANGED <<formula_groups, formula_cache_dirty, pass>>

Put(k, v, f) == Stored(v, f, IsStyled(cells[k]))

-----------------------------------------------------------------------------
(* Commands.                                                                *)

SetRangeValues(area) ==
  /\ ~calculating /\ MayEdit(area)
  /\ \E values \in [area -> InputValue \cup {Blank}] :
       LET same(k) == /\ cells[k] # NoCell
                      /\ cells[k].value = values[k] /\ ~HasFormula(cells[k])
                      /\ spill_owners[k] = NoOwner /\ spill_ranges[k] = {}
           touched == {k \in area :
                         /\ ~same(k)
                         /\ cells[k] # NoCell \/ values[k] # Blank \/ HasTopology(k)}
       IN Write(touched, [k \in touched |-> Put(k, values[k], NoFormula)], {})

(* Formula and Formula2 take a matrix of formulas and plain values.  A new  *)
(* formula is blank until the next calculation.                             *)
SetRangeFormulas(area, dynamic) ==
  /\ ~calculating /\ MayEdit(area)
  /\ \E input \in [area -> Formula \cup InputValue \cup {Blank}] :
       LET formula(k) == IF input[k] \in Formula THEN input[k] ELSE NoFormula
           value(k) == IF input[k] \in Formula THEN Blank ELSE input[k]
           marked(k) == dynamic /\ input[k] \in Formula
           same(k) == /\ cells[k] # NoCell
                      /\ cells[k].value = value(k) /\ cells[k].formula = formula(k)
                      /\ (k \in dynamic_array_formulas) = marked(k)
           touched == {k \in area :
                         /\ ~same(k)
                         /\ \/ cells[k] # NoCell \/ HasTopology(k)
                            \/ value(k) # Blank \/ formula(k) # NoFormula}
       IN Write(touched, [k \in touched |-> Put(k, value(k), formula(k))],
                {k \in touched : marked(k)})

(* Range.Replace rewrites whole cells and keeps a dynamic anchor dynamic.   *)
ReplaceCells(area) ==
  /\ ~calculating
  /\ \E input \in [area -> Formula \cup InputValue \cup {Blank}] :
       LET new == [k \in area |-> IF input[k] \in Formula THEN Put(k, Blank, input[k])
                                  ELSE Put(k, input[k], NoFormula)]
           touched == {k \in area : cells[k] # new[k]}
       IN /\ MayEdit(touched)
          /\ Write(touched, new,
                   {k \in touched : k \in dynamic_array_formulas /\ HasFormula(new[k])})

(* Sort, fill, copy, cut and paste move whole cells, cached values included, *)
(* from cells that may be rearranged themselves.                             *)
RearrangeCells(area) ==
  /\ ~calculating
  /\ \E new \in [area -> {cells[k] : k \in {j \in Cell : MayRearrange({j})}} \cup {NoCell}] :
       LET touched == {k \in area : cells[k] # new[k]}
       IN MayRearrange(touched) /\ Write(touched, new, {})

ClearContents(area) ==
  /\ ~calculating /\ MayEdit(area)
  /\ LET touched == {k \in area : HasTopology(k) \/ Occupied(cells[k])}
     IN Write(touched,
              [k \in touched |-> IF Occupied(cells[k]) THEN Put(k, Blank, NoFormula)
                                 ELSE cells[k]], {})

Clear(area) ==
  /\ ~calculating /\ MayEdit(area)
  /\ LET touched == {k \in area : HasTopology(k) \/ cells[k] # NoCell}
     IN Write(touched, [k \in touched |-> NoCell], {})

(* Formats may be cleared anywhere: a blank cell that belongs to a spill    *)
(* stays materialized.                                                      *)
ClearFormats(area) ==
  LET touched == {k \in area : IsStyled(cells[k])}
      kept(k) == HasTopology(k) \/ IsSpillChild(k) \/ Occupied(cells[k])
  IN /\ ~calculating /\ touched # {}
     /\ cells' = [k \in Cell |->
                    IF k \notin touched THEN cells[k]
                    ELSE IF kept(k) THEN [cells[k] EXCEPT !.styled = FALSE]
                    ELSE NoCell]
     /\ dirty_cells' = dirty_cells \cup touched
     /\ semantic_dirty' = TRUE
     /\ UNCHANGED <<topology, formula_groups, formula_cache_dirty, pass>>

-----------------------------------------------------------------------------
(* The calculation pass over the formula cells of a sheet or of a range.    *)
(* Dynamic arrays come first, in row-major order, then legacy arrays, then  *)
(* scalars.  What a formula evaluates to is left open: any value, or        *)
(* Unsupported, which keeps the cached value.                               *)

IsLegacyAnchor(k) == \E g \in formula_groups : g.kind = "LegacyArray" /\ g.anchor = k
DynamicTodo == {k \in todo : k \in dynamic_array_formulas /\ ~IsLegacyAnchor(k)}
LegacyTodo == {k \in todo : IsLegacyAnchor(k)}

BeginCalculation(area) ==
  LET formula_cells == {k \in area : HasFormula(cells[k])}
  IN /\ ~calculating /\ formula_cells # {}
     /\ calculating' = TRUE /\ todo' = formula_cells /\ formula_cache_changed' = FALSE
     /\ UNCHANGED <<cells, topology, formula_groups, dirty_cells,
                    semantic_dirty, formula_cache_dirty>>

(* A result fits if it stays on the grid and meets no formula and no value.  *)
FitsOffGrid(target, a, slots) == \A k \in (target \cap Cell) \ {a} : ~Occupied(slots[k])
FitsOverValues(target, a, slots) ==
  target \subseteq Cell /\ \A k \in target \ {a} : ~HasFormula(slots[k])
Fits(target, a, slots) ==
  target \subseteq Cell /\ \A k \in target \ {a} : ~Occupied(slots[k])

(* One dynamic result: the old extent is cleared, then the new one is       *)
(* written unless it leaves the grid or meets an occupied cell.             *)
SpillDynamic(a) ==
  /\ calculating /\ a \in RowMajorFirst(DynamicTodo)
  /\ \E h, w \in 1..MaxExtent :
       LET target == RectFrom(a, h, w)
           old == {k \in Cell : spill_owners[k] = a}
           cleared == [k \in Cell |-> IF k \in old THEN Cleared(cells[k]) ELSE cells[k]]
           fits == Fits(target, a, cleared)
       IN \E values \in [target \cap Cell -> ArrayValue] :
            /\ cells' = [k \in Cell |->
                 IF fits /\ k \in target
                 THEN [value |-> values[k],
                       formula |-> IF k = a THEN cells[a].formula ELSE NoFormula,
                       styled |-> IsStyled(cleared[k])]
                 ELSE IF k = a THEN [cells[a] EXCEPT !.value = SpillError]
                 ELSE cleared[k]]
            /\ spill_owners' = [k \in Cell |-> IF fits /\ k \in target \ {a} THEN a
                                               ELSE IF k \in old THEN NoOwner
                                               ELSE spill_owners[k]]
            /\ spill_ranges' = [spill_ranges EXCEPT ![a] = IF fits THEN target ELSE {}]
            /\ dirty_cells' = dirty_cells \cup {a} \cup old
                                \cup (IF fits THEN target ELSE {})
  /\ formula_cache_changed' = TRUE
  /\ todo' = todo \ {a}
  /\ UNCHANGED <<dynamic_array_formulas, formula_groups, semantic_dirty,
                 formula_cache_dirty, calculating>>

(* A legacy array writes every cell of its fixed range, and materializes it. *)
WriteLegacyArray(g) ==
  /\ calculating /\ DynamicTodo = {}
  /\ g.kind = "LegacyArray" /\ g.anchor \in RowMajorFirst(LegacyTodo)
  /\ \E values \in [g.owns -> ArrayValue] :
       LET before(k) == IF cells[k] = NoCell THEN BareBlank ELSE cells[k]
           changed == {k \in g.owns : before(k).value # values[k]}
       IN /\ cells' = [k \in Cell |-> IF k \in g.owns
                                       THEN [before(k) EXCEPT !.value = values[k]]
                                       ELSE cells[k]]
          /\ dirty_cells' = dirty_cells \cup changed
          /\ formula_cache_changed' = (formula_cache_changed \/ changed # {})
  /\ todo' = todo \ {g.anchor}
  /\ UNCHANGED <<topology, formula_groups, semantic_dirty, formula_cache_dirty,
                 calculating>>

(* An unsupported array formula keeps its cached result.                    *)
KeepUnsupported(k) ==
  /\ calculating
  /\ k \in RowMajorFirst(DynamicTodo) \/ (DynamicTodo = {} /\ k \in RowMajorFirst(LegacyTodo))
  /\ todo' = todo \ {k}
  /\ UNCHANGED <<cells, topology, formula_groups, dirty_cells, semantic_dirty,
                 formula_cache_dirty, calculating, formula_cache_changed>>

(* All scalar results are computed from one snapshot and written together;  *)
(* the pass ends.                                                           *)
WriteScalars ==
  /\ calculating /\ DynamicTodo = {} /\ LegacyTodo = {}
  /\ \E supported \in SUBSET todo : \E values \in [supported -> ArrayValue] :
       LET changed == {k \in supported : cells[k].value # values[k]}
       IN /\ cells' = [k \in Cell |-> IF k \in changed
                                       THEN [cells[k] EXCEPT !.value = values[k]]
                                       ELSE cells[k]]
          /\ dirty_cells' = dirty_cells \cup changed
          /\ formula_cache_dirty' =
               (formula_cache_dirty \/ formula_cache_changed \/ changed # {})
  /\ calculating' = FALSE /\ todo' = {} /\ formula_cache_changed' = FALSE
  /\ UNCHANGED <<topology, formula_groups, semantic_dirty>>

-----------------------------------------------------------------------------
(* Saving: WorkbookState::validate_for_save, clause by clause.              *)

AnchorsHaveFormulas ==
  /\ \A a \in dynamic_array_formulas : HasFormula(cells[a])
  /\ \A a \in Cell : spill_ranges[a] # {} =>
        a \in dynamic_array_formulas /\ a \in spill_ranges[a]

SpillRangesDisjoint ==
  \A a, b \in Cell : a # b => spill_ranges[a] \cap spill_ranges[b] = {}

ChildrenAreMaterialized ==
  \A k \in Cell : spill_owners[k] # NoOwner =>
    /\ k # spill_owners[k] /\ k \in spill_ranges[spill_owners[k]]
    /\ cells[k] # NoCell /\ ~HasFormula(cells[k])

GroupsAreApart ==
  /\ \A g \in formula_groups : g.kind # "DataTable" => HasFormula(cells[g.anchor])
  /\ \A g \in formula_groups : \A a \in Cell : g.owns \cap spill_ranges[a] = {}

ValidForSave == /\ AnchorsHaveFormulas /\ SpillRangesDisjoint
                /\ ChildrenAreMaterialized /\ GroupsAreApart

(* The save writes the dirty cells into the bytes it read and keeps the      *)
(* state in memory, now clean.                                              *)
SaveKeepsMarks ==
  /\ ~calculating /\ ValidForSave
  /\ semantic_dirty' = FALSE /\ formula_cache_dirty' = FALSE
  /\ UNCHANGED <<cells, topology, formula_groups, dirty_cells, pass>>
Save ==
  /\ ~calculating /\ ValidForSave
  /\ dirty_cells' = {}
  /\ semantic_dirty' = FALSE /\ formula_cache_dirty' = FALSE
  /\ UNCHANGED <<cells, topology, formula_groups, pass>>

(* What the file shows for a cell: a bare blank cell is not read back, and a *)
(* dynamic formula that spills nowhere has its own cell as its range.       *)
FileCell(k) ==
  [slot  |-> IF cells[k] = BareBlank THEN NoCell ELSE cells[k],
   range |-> IF k \notin dynamic_array_formulas THEN {}
             ELSE IF spill_ranges[k] = {} THEN {k} ELSE spill_ranges[k]]

(* A workbook without unsaved changes is closed and opened again.            *)
Reopen ==
  LET slots == [k \in Cell |-> FileCell(k).slot]
      ranges == [k \in Cell |-> FileCell(k).range]
  IN /\ ~calculating /\ dirty_cells = {} /\ ~semantic_dirty /\ ~formula_cache_dirty
     /\ cells' = slots /\ spill_ranges' = ranges
     /\ dynamic_array_formulas' = {a \in Cell : ranges[a] # {}}
     /\ spill_owners' = LoadedOwners(slots, ranges)
     /\ UNCHANGED <<formula_groups, dirty_cells, semantic_dirty, formula_cache_dirty, pass>>

-----------------------------------------------------------------------------
Command(area) ==
  \/ SetRangeValues(area)
  \/ \E dynamic \in BOOLEAN : SetRangeFormulas(area, dynamic)
  \/ ReplaceCells(area)
  \/ RearrangeCells(area)
  \/ ClearContents(area)
  \/ Clear(area)
  \/ ClearFormats(area)

Calculate ==
  \/ \E area \in Scopes : BeginCalculation(area)
  \/ \E a \in Cell : SpillDynamic(a) \/ KeepUnsupported(a)
  \/ \E g \in formula_groups : WriteLegacyArray(g)
  \/ WriteScalars

Next == (\E area \in Areas : Command(area)) \/ Calculate \/ Save \/ Reopen

Spec == Init /\ [][Next]_vars

-----------------------------------------------------------------------------
(* Every variable keeps to the values the program's types allow.            *)
TypeOK ==
  /\ cells \in [Cell -> Slot]
  /\ dynamic_array_formulas \subseteq Cell
  /\ spill_ranges \in [Cell -> SUBSET Cell]
  /\ spill_owners \in [Cell -> Cell \cup {NoOwner}]
  /\ dirty_cells \subseteq Cell
  /\ semantic_dirty \in BOOLEAN /\ formula_cache_dirty \in BOOLEAN
  /\ calculating \in BOOLEAN /\ todo \subseteq Cell /\ formula_cache_changed \in BOOLEAN
  /\ \A g \in formula_groups :
        g.anchor \in g.owns /\ g.owns \subseteq Cell /\ g.kind \in GroupKind

(* No sequence of accepted commands and calculations leads to a sheet that   *)
(* the save preflight refuses: between commands and also between the writes  *)
(* of a pass, spill ranges are disjoint, anchored on dynamic formulas, apart *)
(* from formula groups, and their children are materialized values.          *)
SaveIsNeverRefused == ValidForSave

(* The save copies every cell that is not dirty from the bytes it read, so   *)
(* whatever the file should show for a cell, its spill range included, may   *)
(* change only together with its dirty mark.                                *)
ChangesAreMarkedDirty ==
  [][\A k \in Cell : FileCell(k)' # FileCell(k) => k \in dirty_cells']_vars

(* Between commands, a sheet with cells to rewrite belongs to a workbook     *)
(* whose dirty domains say so, and the close prompt and the save see it.     *)
DirtyCellsAreAnnounced ==
  ~calculating /\ dirty_cells # {} => semantic_dirty \/ formula_cache_dirty

(* A calculation only writes formula results: it never overwrites a value    *)
(* the user typed, whatever extent an array result takes.                    *)
IsTyped(k) == Occupied(cells[k]) /\ ~HasFormula(cells[k])
              /\ spill_owners[k] = NoOwner /\ ~IsGroupMember(k)
CalculationKeepsTypedValues ==
  [][calculating => \A k \in Cell : IsTyped(k) => cells'[k] = cells[k]]_vars

-----------------------------------------------------------------------------
(* What the user entered into a cell: formula results, spill children and    *)
(* the cells of a formula group are not entered, they are shown.             *)
InputOf(k) ==
  IF HasFormula(cells[k]) THEN <<cells[k].formula, k \in dynamic_array_formulas>>
  ELSE IF IsTyped(k) THEN <<cells[k].value>>
  ELSE <<>>

Inputs == INSTANCE SheetInputs WITH
  Input <- {<<c>> : c \in CellValue} \cup (Formula \X BOOLEAN) \cup {<<>>},
  input <- [k \in Cell |-> InputOf(k)],
  locked <- {k \in Cell : IsGroupMember(k)}

(* The sheet implements the plain grid of inputs: a command changes inputs   *)
(* only inside the area it addresses and never in a formula group, and       *)
(* neither a calculation nor saving and reopening changes any.               *)
ImplementsInputs == Inputs!Spec
=============================================================================
