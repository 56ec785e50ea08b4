---------------------------- MODULE Recalculation ----------------------------
(***************************************************************************)
(* The calculation of a workbook: passes over its sheets in their order,   *)
(* with one memo for all of them.  On each sheet the array formulas are    *)
(* evaluated together, their elements written, and then the scalar ones;   *)
(* writing elements empties the memo.  Without iteration there is one      *)
(* pass; with it passes go on until no formula cell moved or their number  *)
(* is reached.  A calculation leaves a snapshot: a digest of the cells and *)
(* whether every formula was resolved.  A save trusts the snapshot as long *)
(* as the digest is the same, and marks the file as fully calculated.      *)
(*                                                                         *)
(* The cells are numbered sheet by sheet, in row-major order; element i of *)
(* an array formula in c belongs to cell c + i - 1, which has no formula   *)
(* and is free (module Worksheet has the obstructed case).  A formula      *)
(* reads all it names and catches no error, for which module Evaluator     *)
(* shows that a walk gives each cell what Results says, whatever its root. *)
(*                                                                         *)
(* FreshMemo, ShownRaw, Uncounted and AnySnapshot stand each before the    *)
(* definition they are a faulty variant of.                                *)
(***************************************************************************)
EXTENDS Naturals, Sequences, FiniteSets, FiniteSetsExt, Functions

CONSTANTS
  SheetCells,      \* the sheets of the workbook: a sequence of sets of cells
  Books,           \* the formulas a workbook may have: cell -> formula or NoFormula
  Typed,           \* the numbers that are typed in
  Cap,             \* numbers are 0..Cap and a sum beyond is Cap
  MaxIterations,   \* iterateCount
  MaxChange        \* iterateDelta

Sheet == 1..Len(SheetCells)
Cell == UNION {SheetCells[s] : s \in Sheet}
Number == 0..Cap
Calc == Cap + 1             \* the error value #CALC!
Circular == Cap + 2         \* the evaluation met a cycle; the cell shows #CALC!
Unsupported == Cap + 3      \* no evaluation; the cell keeps its value
NoResult == Cap + 4
NoFormula == [elements |-> <<>>, array |-> FALSE, supported |-> TRUE, volatile |-> FALSE]

\* A formula has an element for each cell it fills, and a scalar one fills one.
Formula == [elements : Seq([plus : Number, reads : SUBSET Cell, left : BOOLEAN]),
            array : BOOLEAN, supported : BOOLEAN, volatile : BOOLEAN]
IsFormula(f) ==
  /\ f \in Formula
  /\ f # NoFormula => f.elements # <<>>
  /\ ~f.array => Len(f.elements) <= 1

ASSUME CellsAreNumbered == IsFiniteSet(Cell) /\ Cell = 1..Cardinality(Cell) /\ Cap \in Nat
ASSUME SheetsAreThere == SheetCells \in Seq(SUBSET Cell) /\ SheetCells # <<>>
ASSUME SheetsAreDisjoint == \A s, t \in Sheet : s # t => SheetCells[s] \cap SheetCells[t] = {}
ASSUME BooksHaveFormulas ==
  \A b \in Books : b \in [Cell -> Formula] /\ \A c \in Cell : IsFormula(b[c])
ASSUME ElementsHaveRoom ==
  \A b \in Books : \A s \in Sheet : \A c \in SheetCells[s] : b[c].array =>
    \A p \in (c + 1)..(c + Len(b[c].elements) - 1) : p \in SheetCells[s] /\ b[p] = NoFormula
ASSUME TypedAreNumbers == Typed \subseteq Number
ASSUME SettingsAreValid == MaxIterations \in Nat \ {0} /\ MaxChange \in Nat

VARIABLES
  formula,     \* Cell -> Formula or NoFormula
  value,       \* Cell -> the value it shows, blank being 0
  iterate,     \* whether iteration is enabled
  sheetsDirty, \* whether a worksheet changed since the baseline
  snapshot,    \* the calculation snapshot, or the empty set
  disk,        \* the file: its calculation state and what it shows
  work,        \* the calculation under way
  memo,        \* Cell -> the result in the calculation's context
  draws        \* Cell -> what RAND() gives there until the memo is emptied

book == <<formula, iterate>>
vars == <<book, value, sheetsDirty, snapshot, disk, work, memo, draws>>

HasFormula(c) == formula[c] # NoFormula
FormulasOf(s) == {c \in SheetCells[s] : HasFormula(c)}
ArraysOf(s) == {c \in FormulasOf(s) : formula[c].array}
Elements(c) == formula[c].elements
Reads(c) == UNION {Elements(c)[i].reads : i \in DOMAIN Elements(c)}

Idle == [on |-> {}, sheet |-> 0, stage |-> "Idle", pass |-> 0,
         before |-> [c \in Cell |-> NoResult], unresolved |-> {},
         iterative |-> FALSE, whole |-> FALSE]
Empty == [c \in Cell |-> NoResult]

-----------------------------------------------------------------------------
(* What formulas give.                                                      *)

(* The first cell read whose evaluation fails decides, if there is one.     *)
Failing(c, seen) == {r \in Reads(c) : seen[r] \in {Circular, Unsupported}}
Failure(c, seen) ==
  IF ~formula[c].supported THEN Unsupported
  ELSE IF Failing(c, seen) # {} THEN seen[Min(Failing(c, seen))]
  ELSE NoResult

(* An element is a constant plus the cells it reads, or what is left of Cap *)
(* after them; an error value is passed on.                                 *)
Element(c, i, seen) ==
  LET element == Elements(c)[i]
      read == [r \in element.reads |-> seen[r]]
      total == element.plus + SumFunction(read)
  IN IF formula[c].volatile THEN draws[c]
     ELSE IF Calc \in Range(read) THEN Calc
     ELSE LET sum == IF total > Cap THEN Cap ELSE total IN
          IF element.left THEN Cap - sum ELSE sum

Apply(c, seen) == IF Failure(c, seen) # NoResult THEN Failure(c, seen) ELSE Element(c, 1, seen)

(* An iterative calculation reads the value of the pass before across some  *)
(* of the references of each cycle; cut is their set.                       *)
Seen(cut, c, results) ==
  [r \in Cell |-> IF <<c, r>> \in cut THEN value[r] ELSE results[r]]

(* The result of every cell, with the memo and the stored values as they    *)
(* are: a cell has one as soon as all it reads has.  Those left without     *)
(* read a cycle.                                                            *)
Ready(results, cut) ==
  {c \in Cell : results[c] = NoResult /\ \A r \in Reads(c) : <<c, r>> \in cut \/ results[r] # NoResult}
ResultOf(c, results, cut) == IF HasFormula(c) THEN Apply(c, Seen(cut, c, results)) ELSE value[c]
Look(results, cut) ==
  IF Ready(results, cut) = {} THEN results
  ELSE LET c == Min(Ready(results, cut)) IN [results EXCEPT ![c] = ResultOf(c, results, cut)]

Results(cut) ==
  LET looked[n \in 0..Cardinality(Cell)] == IF n = 0 THEN memo ELSE Look(looked[n - 1], cut)
      last == looked[Cardinality(Cell)]
  IN [c \in Cell |-> IF last[c] = NoResult THEN Circular ELSE last[c]]

(* The cells a walk from c meets: all it reads, and all that these read.    *)
Reached(c) ==
  {d \in Cell : \A S \in SUBSET Cell :
     Reads(c) \subseteq S /\ (\A x \in S : Reads(x) \subseteq S) => d \in S}
CycleReferences ==
  {ref \in Cell \X Cell : ref[2] \in Reads(ref[1]) /\ ref[1] \in Reached(ref[2]) \cup {ref[2]}}

(* What a batch of formulas of one sheet may give.                          *)
Evaluations ==
  LET given == {[cut |-> cut, results |-> Results(cut)] :
                  cut \in (IF work.iterative THEN SUBSET CycleReferences ELSE {{}})}
  IN {e \in given : work.iterative => \A c \in Cell : e.results[c] # Circular}
Sees(e, c) == Seen(e.cut, c, e.results)

Remembered(e, roots) ==
  [c \in Cell |-> IF HasFormula(c) /\ c \in roots \cup UNION {Reached(d) : d \in roots}
                  THEN e.results[c] ELSE memo[c]]

(* RAND() draws where it is called.                                         *)
Draws == {d \in [Cell -> Number] :
            \A c \in Cell : d[c] # 0 => HasFormula(c) /\ formula[c].volatile}
Forget == memo' = Empty /\ draws' \in Draws

-----------------------------------------------------------------------------
(* Where a calculation starts.                                              *)

Begin(sheets, whole) ==
  /\ work.stage = "Idle"
  /\ work' = [Idle EXCEPT !.on = sheets, !.sheet = Min(sheets), !.stage = "Arrays", !.pass = 1,
                          !.before = value, !.whole = whole, !.iterative = whole /\ iterate]
  /\ Forget
  /\ UNCHANGED <<book, value, sheetsDirty, snapshot, disk>>

CalculateWorkbook == Begin(Sheet, TRUE)

(* Worksheet.Calculate, which never iterates.                               *)
CalculateSheet(s) == Begin({s}, FALSE)

-----------------------------------------------------------------------------
(* calculate_sheet_formulas_in_context.                                     *)

(* What an array formula writes: its elements; or its error, the places of  *)
(* the other elements then being blank; or nothing if it is not supported.  *)
Owner(p) == {c \in ArraysOf(work.sheet) : p \in c..(c + Len(Elements(c)) - 1)}
Written(e, c, p) ==
  CASE Failure(c, Sees(e, c)) = Unsupported -> value[p]
    [] Failure(c, Sees(e, c)) = Circular -> IF p = c THEN Calc ELSE 0
    [] OTHER -> Element(c, p - c + 1, Sees(e, c))

Fails(e, roots, how) == {c \in roots : Failure(c, Sees(e, c)) \in how}
Unresolved(e, roots) == Fails(e, roots, {Circular, Unsupported})

(* The array formulas are all evaluated before the first of them is         *)
(* written.  An array formula itself is not memoized, what it reads is.     *)
CalculateArrays ==
  /\ work.stage = "Arrays"
  /\ \E e \in Evaluations :
       LET arrays == ArraysOf(work.sheet)
           writes == arrays \ Fails(e, arrays, {Unsupported}) # {}
       IN /\ value' = [p \in Cell |-> IF Owner(p) = {} THEN value[p]
                                      ELSE Written(e, CHOOSE c \in Owner(p) : TRUE, p)]
          /\ work' = [work EXCEPT !.stage = "Scalars", !.unresolved = @ \cup Unresolved(e, arrays)]
          /\ IF writes THEN Forget
             ELSE memo' = Remembered(e, UNION {Reads(c) : c \in arrays}) /\ UNCHANGED draws
          /\ sheetsDirty' = (sheetsDirty \/ writes)
  /\ UNCHANGED <<book, snapshot, disk>>

NextSheet == {s \in work.on : s > work.sheet}
AfterSheet(w) == IF NextSheet = {} THEN [w EXCEPT !.stage = "EndOfPass"]
                 ELSE [w EXCEPT !.stage = "Arrays", !.sheet = Min(NextSheet)]

FreshMemo(e, scalars) == Empty
ScalarMemo(e, scalars) == Remembered(e, scalars)

ShownRaw(e, c) == e.results[c]
Shown(e, c) == CASE e.results[c] = Unsupported -> value[c]
                 [] e.results[c] = Circular -> Calc
                 [] OTHER -> e.results[c]

CalculateScalars ==
  /\ work.stage = "Scalars"
  /\ \E e \in Evaluations :
       LET scalars == FormulasOf(work.sheet) \ ArraysOf(work.sheet) IN
       /\ value' = [c \in Cell |-> IF c \in scalars THEN Shown(e, c) ELSE value[c]]
       /\ work' = AfterSheet([work EXCEPT !.unresolved = @ \cup Unresolved(e, scalars)])
       /\ memo' = ScalarMemo(e, scalars)
       /\ draws' \in (IF memo' = Empty THEN Draws ELSE {draws})
  /\ sheetsDirty' = (sheetsDirty \/ value' # value)
  /\ UNCHANGED <<book, snapshot, disk>>

-----------------------------------------------------------------------------
(* calculate_workbook_formulas, at the end of a pass.                       *)

Moved(c) ==
  LET was == work.before[c] now == value[c] IN
  IF was \in Number /\ now \in Number
  THEN (IF was > now THEN was - now ELSE now - was) > MaxChange
  ELSE was # now
Converged == \A c \in Cell : HasFormula(c) => ~Moved(c)

AnotherPass == work.iterative /\ ~Converged /\ work.pass < MaxIterations

Uncounted == [work EXCEPT !.stage = "Arrays", !.sheet = Min(work.on),
                          !.before = value, !.unresolved = {}]
NextPass == [work EXCEPT !.stage = "Arrays", !.sheet = Min(work.on), !.pass = @ + 1,
                         !.before = value, !.unresolved = {}]

StartPass ==
  /\ work.stage = "EndOfPass" /\ AnotherPass
  /\ work' = NextPass
  /\ Forget
  /\ UNCHANGED <<book, value, sheetsDirty, snapshot, disk>>

(* A calculation of a sheet or a range says nothing of the others.  The     *)
(* snapshot also keeps, for the properties only, whether the passes ran out.*)
EndSnapshot ==
  [state |-> IF work.unresolved = {} /\ work.whole THEN "Full" ELSE "Partial",
   digest |-> value, settled |-> work.iterative => Converged]

EndCalculation ==
  /\ work.stage = "EndOfPass" /\ ~AnotherPass
  /\ snapshot' = {EndSnapshot}
  /\ work' = Idle
  /\ memo' = Empty /\ draws' = [c \in Cell |-> 0]
  /\ UNCHANGED <<book, value, sheetsDirty, disk>>

-----------------------------------------------------------------------------
(* The rest of the session.                                                 *)

(* A number typed into a cell that holds no formula and no element, and that *)
(* some formula reads.                                                      *)
Inputs == {p \in Cell : ~HasFormula(p) /\ \A c \in Cell : HasFormula(c) /\ formula[c].array =>
                           p \notin c..(c + Len(Elements(c)) - 1)}
            \cap UNION {Reads(c) : c \in Cell}
Edit(p, n) ==
  /\ work.stage = "Idle" /\ p \in Inputs
  /\ value' = [value EXCEPT ![p] = n]
  /\ sheetsDirty' = TRUE
  /\ UNCHANGED <<book, snapshot, disk, work, memo, draws>>

SetIteration ==
  /\ work.stage = "Idle"
  /\ iterate' = ~iterate
  /\ UNCHANGED <<formula, value, sheetsDirty, snapshot, disk, work, memo, draws>>

(* The calculation state a save writes: the snapshot's as long as the cells *)
(* are those it was taken of, otherwise that the workbook is to be          *)
(* calculated when a worksheet changed, otherwise what the file said.       *)
AnySnapshot == IF snapshot # {} THEN snapshot
               ELSE IF sheetsDirty THEN {[state |-> "Required", settled |-> FALSE]}
               ELSE {disk}
Trusted == {s \in snapshot : s.digest = value}
SavedState == IF Trusted # {} THEN Trusted
              ELSE IF sheetsDirty THEN {[state |-> "Required", settled |-> FALSE]}
              ELSE {disk}

-----------------------------------------------------------------------------
(* Each formula shows what it gives for the cells it reads as they are, so  *)
(* that one more calculation would change nothing.  RAND() has no such value. *)
ShowsItsFormula(c, shown) ==
  formula[c].supported /\ \A i \in DOMAIN Elements(c) : shown[c + i - 1] = Element(c, i, shown)
Settled(shown) ==
  \A c \in Cell : HasFormula(c) => formula[c].volatile \/ ShowsItsFormula(c, shown)

(* A save makes the file the new baseline.  Of a file that is marked as      *)
(* fully calculated we keep whether its formulas show their values.         *)
File(state, shown, settled) ==
  IF state = "Full" THEN [state |-> "Full", shows |-> Settled(shown), settled |-> settled]
  ELSE [state |-> "Required", shows |-> FALSE, settled |-> FALSE]
Save ==
  /\ work.stage = "Idle"
  /\ \E s \in SavedState :
       disk' = File(s.state, value, s.settled)
  /\ sheetsDirty' = FALSE /\ snapshot' = {}
  /\ UNCHANGED <<book, value, work, memo, draws>>

-----------------------------------------------------------------------------
(* A workbook as it is opened, calculated or not.                           *)
Init ==
  /\ formula \in Books
  /\ iterate \in BOOLEAN
  /\ value = [c \in Cell |-> 0]
  /\ sheetsDirty = FALSE /\ snapshot = {}
  /\ disk = File("Required", value, FALSE)
  /\ work = Idle /\ memo = Empty
  /\ draws = [c \in Cell |-> 0]

Step == CalculateArrays \/ CalculateScalars \/ StartPass \/ EndCalculation
Next ==
  \/ CalculateWorkbook
  \/ \E s \in Sheet : CalculateSheet(s)
  \/ \E p \in Cell, n \in Typed : Edit(p, n)
  \/ SetIteration
  \/ Save
  \/ Step

(* A calculation runs to its end on the thread that called it: weak         *)
(* fairness of Step, which is enabled as long as a calculation is under way. *)
Running == work.stage # "Idle"
Fairness == []<>~Running \/ []<><<Step>>_vars
Spec == Init /\ [][Next]_vars /\ Fairness

-----------------------------------------------------------------------------
Stored == Number \cup {Calc}
Outcome == Stored \cup {Circular, Unsupported, NoResult}

(* Every variable keeps to its values.                                      *)
TypeOK ==
  /\ formula \in [Cell -> Formula]
  /\ value \in [Cell -> Stored] /\ iterate \in BOOLEAN /\ sheetsDirty \in BOOLEAN
  /\ snapshot \subseteq [state : {"Full", "Partial"}, digest : [Cell -> Stored], settled : BOOLEAN]
  /\ Cardinality(snapshot) <= 1
  /\ disk \in [shows : BOOLEAN, settled : BOOLEAN, state : {"Full", "Required"}]
  /\ work.stage \in {"Idle", "Arrays", "Scalars", "EndOfPass"}
  /\ work.sheet \in work.on \cup {0} /\ work.pass \in 0..MaxIterations
  /\ memo \in [Cell -> Outcome] /\ draws \in [Cell -> Number]

(* crates/excel-xlsx/src/lib.rs:170 says of the calculation state: "Whether *)
(* cached formula results are complete or require Excel recalculation."  A  *)
(* file marked as fully calculated shows each formula's value, unless its   *)
(* iterations ran out, whatever was typed, iterated, calculated in part or  *)
(* saved in between.  Where a formula reads an element of an array formula  *)
(* that has its turn later, Recalculation_spills.cfg refutes it.            *)
FullFilesAreSettled == disk.state = "Full" /\ disk.settled => disk.shows

RefersTo(r) == [NoFormula EXCEPT !.elements = <<[plus |-> 0, reads |-> {r}, left |-> FALSE]>>]

(* docs/interfaces/calculation_order.md: "a volatile cell such as `=RAND()` *)
(* has one value per cycle for all of its dependents."  After a calculation *)
(* of the workbook a cell that only refers to such a cell shows its value.  *)
(* An array formula that is written between the turns of the two empties    *)
(* the memo, and RAND() is drawn again: Recalculation_draws.cfg refutes it  *)
(* there, and the workbooks of Recalculation.cfg have none in between.      *)
DependentsShareDraws ==
  work.stage = "EndOfPass" /\ work.whole =>
    \A c, r \in Cell : formula[c] = RefersTo(r) /\ formula[r].volatile => value[c] = value[r]

(* calculation_order.md: "a workbook calculation runs up to max_iterations  *)
(* passes".  It comes to an end, whatever oscillates.                       *)
CalculationsEnd == Running ~> ~Running
=============================================================================
