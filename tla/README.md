# OOTD: TLA+ models and proofs

OOTD is a headless, Excel-compatible workbook engine in Rust. It opens XLSX
packages, offers the Excel object model on them through dispatch calls, recalculates
formulas and writes the package back. This directory holds TLA+ models of its core, TLC
configurations that check them on small instances, and TLAPS proofs of what holds at every
size. `PROJECT.json` maps every definition to the lines of `src/` it stands for.

## 1. The system

| Component | Source | State it keeps | Operations | Here |
| --- | --- | --- | --- | --- |
| Worksheet cells and spill topology | `excel-model/src/lib.rs` (`WorksheetData`, `WorkbookState`) | cells, dynamic formulas, spill ranges and owners, formula groups, dirty marks | set values and formulas, replace, sort/fill/copy/cut, clear, shift, `validate_for_save` | `Worksheet`, all but shifts |
| Recalculation pass | `excel-runtime/src/recalculation.rs` | a report, a calculation snapshot with an input digest | calculate a range, a sheet, a workbook (iterating or not), all workbooks | `Recalculation`, `Worksheet` |
| Formula evaluator | `excel-runtime/src/calc/evaluator.rs`, `context.rs` | the memo of a calculation, the stack of the dependency walk, the cells under evaluation | walk precedents, evaluate a cell, evaluate a formula text | `Evaluator` |
| Formula functions and parsers | `excel-runtime/src/calc/*` | none | some hundred functions | not modelled |
| Durable writing | `excel-runtime/src/persistence.rs` | a temporary file | `durable_atomic_write` in five stages | `SaveTransaction` |
| Session | `excel-runtime/src/lib.rs`, `dispatch/*` | open workbooks, object handles, dirty domains, selection, clipboard | open, add, edit, save, close; get/set/invoke on every object | `SaveTransaction`, `Sheets` |
| Sheets of a workbook | `excel-runtime/src/lib.rs`, `dispatch/worksheet.rs`, `dispatch/application.rs` | the order of the sheets, their visibility, the selection | add, delete, copy, move, hide, activate, one by one and in collections | `Sheets` |
| Object handles, mutation snapshots | `excel-runtime/src/lib.rs` | tables of handles; a copy of the session while a compound mutation runs | retire, snapshot, rollback | `Sheets`, for sheets and ranges |
| Defined names | `excel-model/src/names.rs`, `dispatch/names.rs` | names by id and by scope and text | add, rename, delete, resolve, save, load | `DefinedNames` |
| Charts | `excel-model/src/charts.rs`, `dispatch/chart.rs`, `excel-xlsx/src/chart_*.rs` | series, groups, axes, formats, drawings | a large set of properties, copy and paste, encode, read | `ChartTopology`: what belongs to what |
| XLSX codec | `excel-xlsx/src/*` | none between calls | load, patch worksheets, structural shifts, save | as far as the modules above save and reopen |
| Package container | `office-opc/src/lib.rs` | parts, relationships, content types | add, remove, rename parts | not modelled |
| Tools | `excel-oracle`, `office-capture`, `office-codegen`, `office-idl`, `tools/excel-oracle-win` | none at run time | compare with Excel, capture, generate | not modelled |

**How they interact.** There is one thread. Every command borrows the session
exclusively, calls down into the model, and returns; there are no callbacks. A calculation
pass reads the model through the evaluator, collects results, and writes them back array by
array and then all scalars together. A command marks cells (in the model) and domains (in the
session) as dirty; a save looks at both, lets the codec patch the bytes it read, hands the bytes
to the durable write and, when that returned, makes them the new baseline.

**What is hard.** Not concurrency inside the process, but:

- long sequences of legal commands that leave redundant state inconsistent: spill ranges, spill
  owners and cells; dirty cells and dirty domains; the prompt and the save;
- the order of a recalculation: cycles, provisional results, memoized results that outlive what
  they rest on, where the walk starts;
- failures, crashes, power cuts and other processes between the stages of a write;
- partly failed compound mutations: what their snapshot covers, and the operations that have none;
- ids and places that are used again: a handle, a name's scope or a file that still has the old one.

**What makes each correct.** For the cells: no accepted sequence of commands leads to a sheet the
save refuses, nothing the file should show changes without its mark, typed values survive
calculations. For the evaluator: results depend on formulas alone, a calculation ends, its native
recursion is bounded, all dependents see one result. For the write: a file is a whole package at
any moment, an acknowledged save lasts. For the session: dirty means what it says, a handle that
is not stale denotes what it was made for, a failed operation changes nothing. For names and
charts: redundant maps agree, and what a save wrote is read back as what it was.

`PROJECT.json` lists every component with its status, and the hazards at their lines.

## 2. The modules

```
SheetInputs    <--implements--  Worksheet        <- MCWorksheet        WorksheetProofs
AtomicFiles    <--implements--  SaveTransaction  <- MCSaveTransaction  SaveTransactionProofs
Calculation    <--implements--  Evaluator        <- MCEvaluator        EvaluatorProofs
                                Recalculation    <- MCRecalculation    RecalculationProofs
Picking             <- Sheets                    <- MCSheets           SheetsProofs
DefinedNameTable    <- DefinedNames              <- MCDefinedNames     DefinedNamesProofs
                                ChartTopology    <- MCChartTopology    ChartTopologyProofs
                                                 ListFacts, the lemmas on lists the last proofs share
```

The modules meet at narrow places. `Worksheet` leaves the results of formulas open, `Evaluator`
says what they are for one pass over one sheet, `Recalculation` what comes of several passes over
several sheets. `SaveTransaction` takes a workbook as a version number; `Worksheet`,
`DefinedNames` and `ChartTopology` say when a save accepts what it holds, what it writes and what
reopening makes of it. `Sheets` has the workbooks side by side, with sheets that carry their data
as one value.

Each detailed module also holds faulty variants of some of its definitions
(`ChildrenForgotten` before `ChildrenOf`), named in its header. They take no part in the
specification: replacing a definition by its variant must break the property that `PROJECT.json`
pairs with it.

### 2.1 Worksheet

One worksheet: `cells` is the map `WorksheetData::cells` (a value, a formula, whether a style is
set), `dynamic_array_formulas`, `spill_ranges` and `spill_owners` are the fields of the same
names, `formula_groups` the shared, data-table and legacy array groups read from the file,
`dirty_cells` the cells the codec rewrites, `semantic_dirty` and `formula_cache_dirty` the
workbook's flags. `calculating`, `todo` and `formula_cache_changed` are the locals of
a running pass.

| Action | Code |
| --- | --- |
| `SetRangeValues`, `SetRangeFormulas`, `ClearContents`, `Clear`, `ClearFormats` | the methods of `WorkbookState` of those names (`..._with_change`) |
| `ReplaceCells` | `Range.Replace` |
| `RearrangeCells` | sort, fill, copy, cut and paste: whole cells from cells that may move |
| `BeginCalculation`, `SpillDynamic`, `WriteLegacyArray`, `KeepUnsupported`, `WriteScalars` | the loops of `calculate_sheet_formulas_in_context`, one iteration a step |
| `Save`, `Reopen` | `validate_for_save` and the new baseline; `parse_worksheet_cells` on what was written |

All commands end in `Write`, which is the code's `prepare_cell_for_edit_with_change`: a touched
cell gives up its spill, the children are cleared, all are marked. A refused command changes
nothing and is no step. Formula texts and values are members of small sets; what a formula
evaluates to is any value or Unsupported.

`SheetInputs` is the promise to the user: a grid of inputs that commands change inside the area
they address only, that calculations, saves and reopening leave alone, with locked cells.

### 2.2 SaveTransaction

The open workbooks of one process and the files they are saved to. A book is a version number
(`content`), the version of its package (`package`), its path, `read_only`, and its dirty
marks: the prompt, the semantic domain, the formula cache, and in `parts_dirty` the other terms of
`serialization_dirty` (worksheets, names, charts, drawings, package graph, calculation properties
and the recorded calculation). A file has what a reader sees (`visible`) and the set of what a
power failure may leave (`after_crash`); `Torn` stands for bytes that are no whole package. `op`
is the save under way, with the stage it is in. `promised`, `next_content` and two fields of
a book are history: the last acknowledged content, the next version, whether the book has an
edit that `Saved = True` did not waive (`edited`), and whether only the order of its sheets changed
(`only_moved`).

| Action | Code |
| --- | --- |
| `Add`, `AddOtherSheetKind`, `Open` | `Workbooks.Add`, its other sheet kinds, `Workbooks.Open` |
| `Edit` | any command that uses the shared marker, `mark_semantic_dirty` |
| `EditMarkingParts`, `MoveSheets` | edits that set the prompt themselves: beside the mark of a part (`Names.Add`, `SeriesCollection.NewSeries`), or alone (`Worksheets(...).Move`) |
| `Calculate`, `CalculateFullRebuild` | a pass; the one that drops the calculation chain first |
| `SetIteration`, `SetSaved` | `set_workbook_iteration`; `Workbook.Saved` |
| `Save`, `SaveAs`, `SaveCopyAs`, `CloseSaving`, `SaveToWriter` | the commands up to the write |
| `CloseDropping`, `CloseAll` | `Close` without saving, `Workbooks.Close` |
| `WriteTemporary`, `SyncTemporary`, `ReplaceTarget`, `SyncParentDirectory`, `Acknowledge` | the stages of `durable_atomic_write` and what its caller does when it returned |
| `Fail`, `RefuseExistingTarget` | an error of any stage, among them `persist_noclobber` on an existing file |
| `Killed`, `PowerFailure`, `CreatedElsewhere` | the environment, which is outside the code |

`AtomicFiles` is the promise about files: they change as a whole or not at all, and a settled file
stays.

The file system is the one the Unix build runs on: a rename is atomic, and durable once the
parent directory was synced; bytes are durable once their file was. On other systems
`sync_parent_directory` does nothing, and then an acknowledged save may be lost: that is the
variant `UnsyncedDirectory`.

### 2.3 Evaluator

A calculation over cells with formulas. A formula is what it names (`lexical`), what it reads
(`reads`), whether it catches errors and whether it is an array formula; so `ROWS(A1)` names
without reading and `INDIRECT` reads without naming. A result is *how it came to be*: `Fresh`
(from current content only), `Previous` (an iterative pass took a value of the pass before),
`Circular` (#CALC!).

`path` is the stack of the walk in `evaluate_precedents_in_dependency_order`, each cell with its
precedents still on the stack; `calls` is the native stack of `evaluate_cell`; `memo` the results in
the context, `provisional` the back-edge targets among them; `batch` and `updates` the loops
of the pass.

| Action | Code |
| --- | --- |
| `Calculate` | the start of a pass over a range or over the sheet, with an empty memo |
| `StartRoot`, `PopPrecedent` (`SkipPrecedent`, `BackEdge`, `Expand`), `Leave` | the walk |
| `EvaluateRoot`, `ReadCell`, `Return` | the evaluation of the root and of the cells it meets |
| `EndArrays`, `EndScalars` | the write-back of a batch, the array one with `forget_cell_results` |

The walk pops precedents in the code's stack order and a formula reads in text order; the model
lets both take any order, which covers every formula text. Left out: cells without formulas (they
have nothing to compute), reads of other sheets, Unsupported results (they keep the cached value,
see `KeepUnsupported`), and what functions compute.

`Calculation` is the promise: a calculation gives each cell of its scope what its formula means,
and that depends on formulas alone. A cell that reads a value cycle, however far down, is
unsettled; any other is `Fresh`.

### 2.4 Recalculation

The calculation of a workbook: `work` is the calculation under way (its sheets, the sheet and the
stage it is in, the pass, the values before the pass, what stayed unresolved), `memo` the results in its
context, `draws` what `RAND()` gives until the memo is emptied, `snapshot` and `sheetsDirty` what a
save decides from, `disk` what the file says of its calculation state.

| Action | Code |
| --- | --- |
| `CalculateWorkbook`, `CalculateSheet` | the start of a calculation, with an empty memo |
| `CalculateArrays`, `CalculateScalars` | the two halves of `calculate_sheet_formulas_in_context` |
| `StartPass`, `EndCalculation` | the loop of `calculate_workbook_formulas` and its end |
| `Edit`, `SetIteration`, `Save` | the session between calculations |

A formula is a constant plus the cells it reads, or what is left of `Cap` after them, for each of
its elements; it may be volatile or not supported. Which references of a cycle an iterative
calculation cuts is open (`Evaluations`), which is more than the code's back edges.

### 2.5 Sheets

The session as one value: workbooks (their sheets in order, `readOnly`), the active workbook, the
selection, the handles a program holds. An operation is an operator from a session to the set of its
outcomes, a session and whether it succeeded; that is how the code composes them (a move to another
workbook is a copy and a delete), and it lets every step inside an operation fail. `Rollback` is
`MutationSnapshot`: it restores the workbooks the code takes a snapshot of, and only those.

| Action | Code |
| --- | --- |
| `OpenFile`, `Create`, `Close` | `Workbooks.Open` and `Add`, `Workbook.Close` |
| `Add`, `Delete`, `Copy`, `Move` | `Worksheets.Add`, `Delete`, `Copy`, `Move` of one sheet, to a place, another workbook or a new one |
| `DeleteAll`, `CopyAll`, `MoveAll` | the same of a collection: loops over sheets, under a snapshot |
| `Hide`, `Activate`, `PickRange`, `Item` | `Visible`, `Activate`, `Range.Select`, and taking a handle |

The loops are folds over the sheets (`Picked` lists the chosen ones in order).

### 2.6 DefinedNames

`DefinedNameTable` is the code's table of that name: names by id, ids by scope and canonical text, the next id.
`DefinedNames` puts it in a workbook: sheets with ids and titles, the sources of chart series
(each with the sheet it was resolved to), the `definedNames` element of the package, the
file, and the two dirty flags. The scope of a name is a sheet's id in the session and a place in the
file; `Entry` and `Scoped` are the two conversions.

| Action | Code |
| --- | --- |
| `NamesAdd`, `NameDelete`, `NameRename`, `NameRefersTo`, `NameVisible` | `Names.Add`, `Name.Delete` and the setters |
| `SeriesSource` | a series formula spelled with a name |
| `AppendSheet`, `AddSheet`, `MoveSheet`, `DeleteSheet`, `RetitleSheet` | what happens to names and sources when sheets come, move, go and are renamed |
| `Save`, `Reopen` | `Written` if the table is dirty, else the old element; `Loaded` |

`Operations` names the operations of an instance: a run takes those its question is about, and a
theorem says which it needs to leave out.

### 2.7 ChartTopology

One chart read from a file: its series (a `c:idx` and a side), the groups that draw them (family, side,
axis ids, the series in it, the place in the part it came from), the axes (id, kind, side, hidden, the axis
it crosses). `part` is the order of groups in the package, which a save patches; `retired` is history: the
kinds of handles the last operation retired.

`Files` are charts as the format has them (`FilesAreCharts`: ids of axes and `c:idx` are distinct, what a
group or a crossing names is there); the reader validates none of it. The properties about a
save need the reader to tell the sides of the groups from the file (`SidesAreTold`): the first group
with axes is a primary one, the groups of a side name the same axes, those of different sides do not, and
no axis is without a group. The code does not keep the first of these, which `SidesSurviveSaves` states
without any of them and `charts_sides` refutes.

| Action | Code |
| --- | --- |
| `NewSeries`, `NewSeriesOfGroup`, `NewSeriesOfSide`, `DeleteSeries` | `SeriesCollection.NewSeries` and `Add`, `Series.Delete` |
| `MoveSeries`, `MarkSeries`, `MoveGroup`, `MarkGroup` | `Series.AxisGroup`, `ChartGroup.AxisGroup`, in charts with and without bound groups |
| `ReplaceSeries`, `ClearSeries`, `PasteValues`, `SetChartType` | `SetSourceData`, `ChartWizard`, `Clear`, `Paste`, `ChartType` |
| `SetHasAxis`, `DeleteAxis` | `Chart.HasAxis`, `Axis.Delete` |
| `SaveChart`, `Reopen` | the encoder's order of groups (`Written`) and the reader's rule of sides (`SecondaryIds`) |

## 3. The runs

| Run | Instance | Shows |
| --- | --- | --- |
| `worksheet_spill` | a new 2x2 sheet, one value, one formula, results up to 2x2 | `TypeOK`, `SaveIsNeverRefused`, `CalculationKeepsTypedValues` |
| `worksheet_edit` | 1x3 sheets loaded with a legacy array or a spill with a styled child; commands on the first cell and on the pair after it | `DirtyCellsAreAnnounced`, `ChangesAreMarkedDirty`, `ImplementsInputs` |
| `worksheet_overlap` | as the first, results may be blank | violation of `SpillRangesDisjoint` |
| `saves` | two files, one book, two versions, every kind of edit | `TypeOK`, `FilesAreWhole`, `AcknowledgedSavesLast`, `UnsavedIsDirty`, `EditsPrompt`, `CleanMeansStored`, `ReadOnlyReplacesNothing`, `SavesAreAnswered`, `ImplementsAtomicFiles` |
| `evaluator_values` | every assignment to three cells of references to up to two cells, array references to one, and an indirect reference to one of them | `TypeOK`, `RecursionIsShallow`, `ImplementsCalculation`, `ResultsAreShared`, `CalculationsEnd` |
| `recalculation` | a sheet of one cell and a sheet of three; circular, oscillating, unsupported, volatile and array formulas; no reader of a spill before its turn | `TypeOK`, `FullFilesAreSettled`, `DependentsShareDraws`, `CalculationsEnd` |
| `sheets` | two workbooks of up to two sheets, some read-only, one handle at a time | `TypeOK`, `SomethingIsShown`, `HandlesDenoteTheirSheets`, `FailuresChangeNothing`, `OnlyDeletingLosesData` |
| `names_table` | two sheets, names in two scopes, texts that differ in case; no save | `TypeOK`, `TableIsABijection`, `NamesKeepTheirIds` |
| `names_files` | one scope, a chart source, saving and reopening | `CleanNamesAreOnDisk`, `SourcesAreResolved` |
| `names_moves` | two sheets that move, and saves | violation of `CleanNamesAreOnDisk` |
| `charts` | four charts (columns; points; columns and a pie; three groups on two sides), five operations | `TypeOK`, `AxesAreBound`, `SavesKeepTheGroups`, `PartitionIsKept`, `HandlesDenote` |
| `charts_sides` | the same | violation of `SidesSurviveSaves` |

**Bounds.** `MaxExtent` bounds the height and width of a result, `Areas` and `Scopes` the areas
commands and passes address, `MaxBooks` the workbooks a process opens, `MaxContent` the versions made,
`N` and `Formulas` the cells and formulas of a calculation, `Books`, `Cap` and `MaxIterations` a
recalculation, `MaxSheets`, `MaxId` and `MaxHandles` the session of sheets, `MaxNameId` and `MaxSheetId`
the ids given, and `MaxSeries`, `MaxGroups`, `MaxAxes`, `MaxHidden`, `MaxRaw` and `MaxOps` a chart.
2x2 is the smallest grid on which two spills may cross in an L and one may run off either
edge; 1x3 the smallest on which a group stands in the
way of a spill and a spill has two children. Two versions are
enough for an old and a new content of one file, two files for a save to go elsewhere. Three cells are
enough for a cycle with a tail, two cycles that share a cell, and a chain whose length could show in the
recursion. The runs of the evaluator do not iterate: iterating changes
what a back edge leaves in the memo and not the steps of the walk, and the proofs cover both; iterated passes
are in `recalculation`. Two workbooks of two sheets are enough for a move that empties its source, a shown sheet that
is the last, and an id that is used again. Five operations are enough for a chart to lose the group a
placeholder was left for and come back to it. Most proofs below do without the bounds.

**Deadlock** is checked in all runs but `charts` and `charts_sides`, where the bound on the operations ends every behaviour;
elsewhere a session always has a next command.

**Fairness.** `SaveTransaction` assumes `WF_vars(Progress)`: a stage is one blocking call that
returns and the code goes on to the next one; no command, failure or crash is ever forced.
`Evaluator` assumes `WF_vars(Step)` and `Recalculation` the same of its `Step`, written out
(`Fairness`): a calculation runs on the thread that called it, and nothing else runs meanwhile. The
others have safety properties only and no fairness.

## 4. Where the code and its documents differ

Three runs show a property that a document states and the code does not keep:

1. `worksheet_overlap`: the obstruction test of an array result (`recalculation.rs:660`) looks at
   cell contents. A spill child that holds a blank looks free, a second spill runs over
   it, both ranges are kept, and the next save is refused by `validate_for_save`.
2. `names_moves`: moving a sheet leaves the table of names clean, so that a save keeps the old
   `definedNames` element, where the scope of a name is the place its sheet had.
3. `charts_sides`: where a first group is pruned and a primary group follows later, a secondary group
   is first, and the file comes back with the sides exchanged, against the loader's first-group-primary
   invariant (`PLAN.md:5878`).

Seven more configurations are counterexamples to keep beside them: TLC refutes the property of each at once,
and they are there to be run when the code changes. The property the runs check names the case as an
exception, or its instance leaves it out.

| Configuration | Refutes | What happens |
| --- | --- | --- |
| `SaveTransaction_order.cfg` | `EveryChangeIsDirty` (`docs/interfaces/workbook_dirty_domains.md:25`) | `Worksheets(...).Move` in its own workbook sets the prompt and no domain (`dispatch/worksheet.rs:726`): the workbook asks before it closes and reports that nothing is to be saved |
| `SaveTransaction_marker.cfg` | `EditsAreSemantic` (the same, line 50) | `Names.Add`, `Name.Delete` (`dispatch/names.rs:401`, `:592`), that move, `SeriesCollection.NewSeries` and `Add`, chart frames and chart lines do not use the shared semantic marker; but for the move the mark of the part covers them |
| `Evaluator_references.cfg` | `OnlyCyclesAreCircular` (`docs/interfaces/calculation_order.md:41`) | on a cycle of references that is none of values (`ROWS`) a cell reads a provisional result, shows `#CALC!` and keeps it |
| `Evaluator_starts.cfg` | `IndependentOfStart` (the same, line 45) | where a formula catches errors, the results of a cycle depend on the cell the calculation starts from |
| `Recalculation_draws.cfg` | `DependentsShareDraws` (the same, line 14) | writing an array result empties the memo (`recalculation.rs:706`), so that `RAND()` of an earlier sheet is drawn again for a reader that comes after |
| `Recalculation_spills.cfg` | `FullFilesAreSettled` (`excel-xlsx/src/lib.rs:170`) | a formula reads a spill of a later sheet before it is written; nothing calculates it again, and the file says all was calculated |
| `DefinedNames_deletes.cfg` | `CanBeSaved` (`docs/interfaces/workbook_state_save_validation.md:371`) | deleting a sheet leaves the names scoped to it, and later saves are refused |

Others were met while modelling. The models have them, as what the code does; the properties are
stated so that they hold, with the case named as a hypothesis or an exception:

- A save that failed after its rename has replaced the file. A read-only `SaveAs` that is repeated is
  then refused because the target exists.
- `Range.Select` on a hidden sheet makes it the selected one. A failed `Worksheet.Copy` of a hidden sheet
  to a new workbook leaves that workbook open.
- Renaming a workbook's name to the text of a name of the chart's sheet hands the source of the series
  to that name. Deleting a sheet leaves sources of charts that refer to it: a later rename fails.
- Charts: moving a series or a group back to the primary side prunes the empty primary placeholder, so
  that a secondary group is first; the save is refused if the families differ, and else it is the
  case of `charts_sides`. Deleting the last series of the first of several groups prunes the group and leaves the
  chart's family, and the save is refused. `SetSourceData` and `ChartWizard` do not tell the groups of
  the new series, `Series.AxisGroup` in a group without axes and `Paste` without a primary group
  break the partition too. `HasAxis` adds axes that no group names. `ChartType` clears the groups and leaves
  their handles.

## 5. The proofs

The proof modules prove their theorems for every value of the constants that their assumptions allow.

**WorksheetProofs.** `SpillInv` strengthens `SaveIsNeverRefused`. It is not inductive as it stands:
the next spill trusts the contents of cells, so the invariant has to say that every spill range is full
of its own occupied children (`RangesAreFull`), that groups stay occupied (`GroupsAreFull`), that no
dynamic formula lies in a group, and that the cells still to write have formulas. That needs
the hypothesis `NothingShownIsBlank` (array results and loaded spills are never blank); without it
difference 1 of section 4 is a counterexample. `TypeCorrect`, `SaveNeverRefused` and `CalculationKeepsTyped`
follow from it, and so does `ChangesMarked`. `DirtyAnnounced` needs no hypothesis. `SheetIsAGridOfInputs` is the
refinement `ImplementsInputs`: `WriteKeepsInputs` shows that the children a write clears were shown and not entered,
`SpillDynamicKeepsInputs` that a result covers only cells without input, `ReopenKeepsInputs` that the file brings back the
owners that matter; each command is then an `Edit` of its area and each step of a pass but the first and the last a stutter.

**SaveTransactionProofs.** `FilesInv` adds to types what a write can count on at each stage
(`WriteInv`): the temporary file is synced before it gets a name, the name before the save
is acknowledged, and meanwhile the book is as it was. From it follow `FilesStayWhole`,
`AcknowledgedSavesAreDurable`, `ReadOnlyIsSafe`, `SavesAreAtomic` (each step of the stages is a
`Put`, a `Settle`, or a stutter of `AtomicFiles`) and `CleanIsStored`. `DirtyInv` is inductive
beside it and gives `UnsavedChangesAreDirty`, whose one exception is a workbook of which only the order of
the sheets differs, and `EditsAreAskedAbout`, which has none.

**EvaluatorProofs.** `CalcInv` says that both stacks are paths of reads that start in the root, that
whatever is in the memo, in the updates and on the sheet is what the formulas mean, and that a
pending call has so far told the truth. A back edge then closes a cycle of reads
(`CycleOnStack`), so its provisional result is the right one. This needs `HonestFormulas`
(formulas read what they name and catch nothing), without which two configurations of section 4
are counterexamples. It gives `CalculatesMeaning`, with and without iteration, and `StartDoesNotMatter`. `MemoInv` (the calls are distinct and
each waits for a cell not in the memo) gives `MemoIsShared` without a hypothesis. `ShallowInv`
(when the walk leaves a cell, the precedents it names are in the memo or below it on the stack) gives
`RecursionStaysShallow`, also without one: the property itself speaks of formulas that name what they read.

**DefinedNamesProofs.** `IInv` is the type invariant with the two maps of the table as inverse
functions, positions and ids of sheets that determine one another, and every id below the next one:
it gives `TypesHold`, `TheTableIsABijection` and `IdsAreKept` for all operations. That the file on disk can be
opened is part of the types (`CanLoad`); that a save is accepted is not, and fails where sheets are deleted. Two more
theorems say for which operations the rest holds, which is where the code's gaps are:

- `SourcesStayResolved`, as long as no name is renamed and no sheet moves, goes or is retitled
  (`ResolvingOperations`). A lookup that found nothing before the edit must find nothing new after it,
  so the lemmas follow the order of the lookup: the sheet's own names, then the workbook's.
- `CleanNamesStayOnDisk`, unless sheets change their places (`KeepingOperations`), of a file
  without two names of one key: `DiskInv` says what the package and the file are to the table, at
  any moment and not only when it is clean.

**SheetsProofs.** `Inv` is `Good(session) /\ Bounded(session)`: ids of sheets are positive and
distinct, each workbook shows a sheet, the selection is on a sheet of the active workbook, a handle that is
not stale has its sheet. That each operation keeps it is proved along the operators the session is composed
from. Because an operation is a relation between sessions, most lemmas say what it leaves
alone: `Same` and `Extends` (the other workbooks are untouched, so that `Rollback` to a snapshot
of one workbook restores the session exactly), `Keeps`, `Copies` and `Arrived` (what is on a sheet is
there still, or in the copy), `LeaveFacts` (a source is closed only when all its sheets have moved, by counting
them). The loops over collections are folds; each is proved by induction over the numbers of
elements done (`DeleteEachRuns`, `AddSheetsRuns`, `CopyBlockRuns`). It gives all five properties of the run:
`TypesHold`, `SomethingStaysShown`, `HandlesKeepTheirSheets`, `FailuresAreUndone` and
`NothingElseLosesData`. The assumption on files is what the reader checks (ids positive and distinct)
and that a sheet is shown: a file without would be opened with no selection, and is left out.

**ChartTopologyProofs.** `IInv` is the type invariant with `Good`: ids of axes are distinct and crossings
name axes that are there (`Proper`), groups name axes that are there (`BoundTo`), the groups that came from
the part are in its order (`LoadedInOrder`) and at places it has (`FromPart`), and a group without axes came from
the part (`UnboundFromPart`). What each is for:

- `Proper` makes an id denote one axis, which pruning and moving rely on; with `BoundTo` it is
  `AxesStayBound`. `NextAxisIdFacts` counts the candidates against the axes: one is always free.
- `LoadedInOrder` makes the order in which the encoder patches the part (`Written`) the order of the groups
  themselves (`WrittenInPlace`), although new groups are placed by the next loaded one and old ones by number. Then
  what is read back are the groups, and the reader's rule gives their sides (`SidesComeBack`): `GroupsSurviveSaves`.
- `Tidy` says of groups and series what `Stable` says of a chart, by counting (`StableIsTidy`) and
  without it. Each operation is shown to keep it, pruning included (`PrunedFacts`), which is `SeriesStayInOneGroup`.
  The case of `Reopen` needs that the written file is a chart file again (`WrittenIsFile`), and that listing the series
  group by group loses none (`DrawnFacts`).
- `HandlesStayTrue` follows action by action: what is pruned or inserted shifts the places after it, and
  exactly then the kind is retired.

The proof of `UnboundFromPart` shows one more thing: `MarkGroup` never changes a chart whose groups are
a partition, since a group without axes has a place in the part.

**RecalculationProofs.** `TypesHold` needs no hypothesis. `FullFilesShowTheirFormulas` is about workbooks without
array formulas (`ScalarsOnly`): with them a spill of a later sheet may be read too early (`Recalculation_spills.cfg`), and
which layouts are safe is a condition on the order of the sheets that the run covers and the theorem does not. It also has
`MaxChange = 0`: otherwise passes end when cells still move, and the file shows values that are settled only up to
`iterateDelta`. `DependentsSeeOneDraw` allows array formulas. It assumes that none has its turn between a volatile cell and
one that refers to it (`ArraysComeApart`), without which `Recalculation_draws.cfg` is a counterexample, and that volatile
formulas are scalar and read nothing (`DrawsReadNothing`), as `RAND()` does. Its invariant `DrawInv` follows each such
pair of cells through a pass: while one of the two has its turn still to come, the draw the other shows is remembered,
though array formulas empty the memo before and after. The argument of the first:

- `ResultsFacts`: the walk, a recursive function that gives one more cell a result at each step, gets to a
  point where no cell is ready, since the cells with results are counted (`LookFacts`). With that every result follows from
  the results of what the formula reads, and every failure from an own one or one it reads (`EvaluationFacts`).
- `PassOK` is the inductive invariant within a pass. The memo is closed under reading (`Closed`), each result
  in it is what the formula gives for the memo's results and the typed values, or across a cut reference of a cycle the
  value of the pass before (`Grounded`), each failure has its cause (`Blamed`); a formula that had its turn shows its
  result, or counts as unresolved (`Finished`); and while it iterates, a cell shows its result or what it
  showed before the pass (`Iterated`). Each is needed: a result outlives the batch that gave it, and what it was
  computed from may have been another batch's.
- `PassEnds`: when nothing is unresolved and nothing moved, the values of the pass before are the values,
  so every formula gives what it shows. `SnapshotHolds` and `FileHolds` carry that through edits, calculations of single
  sheets, switches of iteration and saves up to the file.

**ListFacts** has the lemmas on places, ranks and picked lists that several proofs cite.

**Only model-checked.** `FullFilesAreSettled` with array formulas, for those of the run.
The liveness properties `SavesAreAnswered` and `CalculationsEnd` (of both modules), since the
prover has neither liveness under fairness nor `ENABLED`.
Induction over the size of a set is available through the well-founded ordering of finite sets, and over numbers
by taking a least counterexample; the proofs about folds and picked lists use both. No module has `RECURSIVE`
operators.

## 6. What is not modelled, and the plan

Left out inside the modelled parts:

- `Worksheet`: structural shifts of rows and columns; more than one sheet at a time.
- `Evaluator`: other sheets, cells without formulas, what functions compute.
- `Recalculation`: cycles through array formulas under iteration; an iterative calculation may cut more
  references than the code's back edges; of formulas the file keeps only whether they show values.
- `Sheets`: `Find`, the clipboard, the active chart, `DisplayAlerts`, pivots and templates, handles to other
  objects, files with no visible sheet.
- `DefinedNames`: R1C1 texts (a reopened one is A1 text), names qualified by a workbook, full references,
  read-only workbooks, the cells and formulas that use names.
- `ChartTopology`: 3D and volume-stock charts, date and series axes, filtered series, the plot order; what the
  writer makes of charts without groups or with a broken partition; a chart whose sides are not told is not followed
  over a reopening; the chart graph that copies a chart's parts.

Next, in this order: `FullFilesAreSettled` with array formulas as a theorem; `StructuralShift`, the insertion and
deletion of rows and columns with the addresses, spills and names they move; `PackageGraph`, the parts and
relationships of `office-opc`.

Left out for good: the functions and parsers of formulas (pure and large), the XML and ZIP codecs, the syntax of
references, and the tools, which keep no state at run time.
