------------------------------ MODULE Evaluator ------------------------------
(***************************************************************************)
(* The evaluation of the formulas of one calculation.  Every formula of    *)
(* the scope is a root, array formulas before scalar ones.  From a root    *)
(* the evaluator first walks the graph of lexical references with a stack  *)
(* of its own, evaluating precedents in post-order, and then evaluates the *)
(* root; results are memoized in the calculation's context.  A lexical     *)
(* back edge gives its target a provisional result while the rest of the   *)
(* cycle is evaluated.                                                     *)
(*                                                                         *)
(* A formula is what it names (lexical), the cells whose values it reads   *)
(* (reads; ROWS(A1) names A1 and does not read it, INDIRECT reads what it  *)
(* does not name), whether it catches errors (IFERROR), and whether it is  *)
(* an array formula.  A result is Fresh when it was computed from the      *)
(* current content, Previous when it rests on a value an iterative         *)
(* calculation took from the pass before, Circular when it is #CALC!.      *)
(* Cells without a formula, and results of formulas that are not           *)
(* supported, are left out.  A cell is its place in row-major order.       *)
(*                                                                         *)
(* BackEdgeUnmarked, ForgottenAnyway, ObservingCaught, ObservingDiscarded  *)
(* and SkipPrecedentPeeked stand each before the definition they are a     *)
(* faulty variant of.                                                      *)
(***************************************************************************)
EXTENDS Naturals, Sequences

CONSTANTS
  N,                      \* the number of formula cells
  Formulas,               \* the formulas a cell may hold
  Iterative               \* whether the calculation iterates

Cell == 1..N
NoCell == 0

ASSUME CellsAreCounted == N \in Nat /\ Iterative \in BOOLEAN

Formula == [lexical : SUBSET Cell, reads : SUBSET Cell,
            catches : BOOLEAN, array : BOOLEAN]

ASSUME FormulasAreFormulas == Formulas \subseteq Formula

Result == {"Fresh", "Previous", "Circular"}
NoResult == "NoResult"

(* What a reference to a cell that is being evaluated reads.               *)
AcrossCycle == IF Iterative THEN "Previous" ELSE "Circular"

VARIABLES
  formula,       \* Cell -> Formula; no formula changes during a calculation
  value,         \* Cell -> the result the cell shows
  scope,         \* the cells of the calculation
  phase,         \* the batch of roots under way
  batch,         \* the roots of the batch that are still to do
  updates,       \* Cell -> the result the batch is about to write
  memo,          \* Cell -> the result in the calculation's context
  root,          \* the root under way
  path,          \* the cells the walk is in, each with the precedents on the stack
  finished,      \* the cells the walk has left
  provisional,   \* the back-edge targets with a provisional result
  calls          \* the calls of evaluate_cell, each with what is still to read

walk == <<root, path, finished, provisional>>
roots == <<scope, phase, batch, updates>>
vars == <<formula, value, roots, memo, walk, calls>>

Nothing == [c \in Cell |-> NoResult]

Init ==
  /\ formula \in [Cell -> Formulas]
  /\ value = Nothing
  /\ scope = {} /\ phase = "Idle" /\ batch = {} /\ updates = Nothing
  /\ memo = Nothing
  /\ root = NoCell /\ path = <<>> /\ finished = {} /\ provisional = {}
  /\ calls = <<>>

Arrays(cells) == {c \in cells : formula[c].array}
Known(c) == memo[c] # NoResult
Last(s) == s[Len(s)]
Front(s) == SubSeq(s, 1, Len(s) - 1)
CellsOf(s) == {s[i].cell : i \in 1..Len(s)}

-----------------------------------------------------------------------------
(* A calculation: the array formulas of the scope, then the scalar ones.    *)

(* Range.Calculate, Worksheet.Calculate, or a pass over a workbook with one  *)
(* sheet, each with an empty memo.  Only the passes over a workbook iterate. *)
Calculate(cells) ==
  /\ phase = "Idle"
  /\ Iterative => cells = Cell
  /\ scope' = cells /\ phase' = "Arrays" /\ batch' = Arrays(cells)
  /\ memo' = Nothing
  /\ UNCHANGED <<formula, value, updates, walk, calls>>

BatchDone == phase # "Idle" /\ root = NoCell /\ batch = {}
Written == [c \in Cell |-> IF updates[c] = NoResult THEN value[c] ELSE updates[c]]

(* Writing array results forgets what was memoized: it may rest on old      *)
(* spill children.                                                          *)
EndArrays ==
  /\ BatchDone /\ phase = "Arrays"
  /\ value' = Written /\ updates' = Nothing
  /\ memo' = IF updates = Nothing THEN memo ELSE Nothing
  /\ phase' = "Scalars" /\ batch' = scope \ Arrays(scope)
  /\ UNCHANGED <<formula, scope, walk, calls>>

EndScalars ==
  /\ BatchDone /\ phase = "Scalars"
  /\ value' = Written /\ updates' = Nothing
  /\ phase' = "Idle" /\ scope' = {}
  /\ UNCHANGED <<formula, batch, memo, walk, calls>>

-----------------------------------------------------------------------------
(* evaluate_precedents_in_dependency_order: the walk from a root.           *)

(* The precedents a cell pushes when the walk reaches it.                   *)
Pending(c, left) == {p \in formula[c].lexical : p \notin left /\ ~Known(p)}
Frame(c, left) == [cell |-> c, todo |-> Pending(c, left)]

StartRoot ==
  /\ phase # "Idle" /\ root = NoCell /\ batch # {}
  /\ \E c \in batch :
       /\ \A d \in batch : c <= d
       /\ batch' = batch \ {c} /\ root' = c
       /\ path' = IF Known(c) THEN <<>> ELSE <<Frame(c, {})>>
  /\ finished' = {} /\ provisional' = {}
  /\ UNCHANGED <<formula, value, scope, phase, updates, memo, calls>>

Walking == path # <<>> /\ calls = <<>>
Popped(p) == [path EXCEPT ![Len(path)].todo = @ \ {p}]

SkipPrecedentPeeked(p) ==
  /\ p \in finished \/ Known(p)
  /\ UNCHANGED <<path, provisional, memo>>
SkipPrecedent(p) ==
  /\ p \in finished \/ Known(p)
  /\ path' = Popped(p)
  /\ UNCHANGED <<provisional, memo>>

BackEdgeUnmarked(p) ==
  /\ p \notin finished /\ ~Known(p) /\ p \in CellsOf(path)
  /\ path' = Popped(p)
  /\ UNCHANGED <<provisional, memo>>
BackEdge(p) ==
  /\ p \notin finished /\ ~Known(p) /\ p \in CellsOf(path)
  /\ path' = Popped(p)
  /\ provisional' = provisional \cup {p}
  /\ memo' = [memo EXCEPT ![p] = AcrossCycle]

Expand(p) ==
  /\ p \notin finished /\ ~Known(p) /\ p \notin CellsOf(path)
  /\ path' = Append(Popped(p), Frame(p, finished))
  /\ UNCHANGED <<provisional, memo>>

PopPrecedent ==
  /\ Walking
  /\ \E p \in Last(path).todo : SkipPrecedent(p) \/ BackEdge(p) \/ Expand(p)
  /\ UNCHANGED <<formula, value, roots, root, finished, calls>>

Call(c) == [cell |-> c, todo |-> formula[c].reads, result |-> "Fresh"]

ForgottenAnyway(c) == [memo EXCEPT ![c] = NoResult]
Forgotten(c) == IF c \in provisional THEN [memo EXCEPT ![c] = NoResult] ELSE memo

(* The walk leaves a cell: a provisional result is forgotten, and the cell  *)
(* is evaluated unless it is the root or its result is known.               *)
Leave ==
  /\ Walking /\ Last(path).todo = {}
  /\ LET c == Last(path).cell IN
       /\ path' = Front(path)
       /\ finished' = finished \cup {c}
       /\ provisional' = provisional \ {c}
       /\ memo' = Forgotten(c)
       /\ calls' = IF c # root /\ memo'[c] = NoResult THEN <<Call(c)>> ELSE <<>>
  /\ UNCHANGED <<formula, value, roots, root>>

-----------------------------------------------------------------------------
(* evaluate_cell, and the evaluation of the root.                           *)

RootDone(result) ==
  /\ updates' = [updates EXCEPT ![root] = result]
  /\ root' = NoCell

(* A scalar root takes its memoized result; an array root only #CALC!.      *)
Settles(c) == IF formula[c].array THEN memo[c] = "Circular" ELSE Known(c)

EvaluateRoot ==
  /\ root # NoCell /\ path = <<>> /\ calls = <<>>
  /\ IF Settles(root)
     THEN RootDone(memo[root]) /\ UNCHANGED calls
     ELSE calls' = <<Call(root)>> /\ UNCHANGED <<updates, root>>
  /\ UNCHANGED <<formula, value, scope, phase, batch, memo, path, finished, provisional>>

(* What a formula makes of one more value it reads; an error it does not    *)
(* catch ends its evaluation.                                               *)
ObservingCaught(call, r, result) ==
  IF result = "Previous" THEN [call EXCEPT !.todo = @ \ {r}, !.result = "Previous"]
  ELSE [call EXCEPT !.todo = @ \ {r}]
ObservingDiscarded(call, r, result) ==
  IF result = "Circular" THEN [call EXCEPT !.todo = {}, !.result = NoResult]
  ELSE [call EXCEPT !.todo = @ \ {r}]
Observing(call, r, result) ==
  CASE result = "Circular" /\ ~formula[call.cell].catches ->
         [call EXCEPT !.todo = {}, !.result = "Circular"]
    [] result = "Previous" ->
         [call EXCEPT !.todo = @ \ {r}, !.result = "Previous"]
    [] OTHER -> [call EXCEPT !.todo = @ \ {r}]

ReadCell ==
  /\ calls # <<>>
  /\ \E r \in Last(calls).todo :
       calls' = IF Known(r) THEN [calls EXCEPT ![Len(calls)] = Observing(@, r, memo[r])]
                ELSE IF r \in CellsOf(calls)
                THEN [calls EXCEPT ![Len(calls)] = Observing(@, r, AcrossCycle)]
                ELSE Append(calls, Call(r))
  /\ UNCHANGED <<formula, value, roots, memo, walk>>

(* The root of an array formula is evaluated outside evaluate_cell: its     *)
(* result is not memoized.                                                  *)
OfRoot == path = <<>> /\ Len(calls) = 1
Memoized == ~(OfRoot /\ formula[root].array)

Return ==
  /\ calls # <<>> /\ Last(calls).todo = {}
  /\ calls' = Front(calls)
  /\ memo' = IF Memoized THEN [memo EXCEPT ![Last(calls).cell] = Last(calls).result] ELSE memo
  /\ IF OfRoot THEN RootDone(Last(calls).result) ELSE UNCHANGED <<updates, root>>
  /\ UNCHANGED <<formula, value, scope, phase, batch, path, finished, provisional>>

-----------------------------------------------------------------------------
Step ==
  \/ EndArrays \/ EndScalars \/ StartRoot \/ PopPrecedent \/ Leave
  \/ EvaluateRoot \/ ReadCell \/ Return

Next == (\E a, b \in Cell : a <= b /\ Calculate(a..b)) \/ Step

(* A calculation runs to its end on the thread that called it.              *)
Spec == Init /\ [][Next]_vars /\ WF_vars(Step)

-----------------------------------------------------------------------------
(* Every variable keeps to its values.                                      *)
TypeOK ==
  /\ formula \in [Cell -> Formula]
  /\ value \in [Cell -> Result \cup {NoResult}]
  /\ scope \subseteq Cell /\ phase \in {"Idle", "Arrays", "Scalars"}
  /\ batch \subseteq Cell /\ updates \in [Cell -> Result \cup {NoResult}]
  /\ memo \in [Cell -> Result \cup {NoResult}]
  /\ root \in Cell \cup {NoCell}
  /\ path \in Seq([cell : Cell, todo : SUBSET Cell])
  /\ finished \subseteq Cell /\ provisional \subseteq Cell
  /\ calls \in Seq([cell : Cell, todo : SUBSET Cell, result : Result])

(* What the formulas mean, whatever the order of evaluation.                *)
Sheet == INSTANCE Calculation
           WITH Unsettled <- IF Iterative THEN "Previous" ELSE "Circular"

(* As long as formulas read all they name and none catches errors, a batch   *)
(* of any scope gives each of its cells what its formula means, whichever   *)
(* cell the walk starts from.                                               *)
ImplementsCalculation == Sheet!Spec

(* docs/interfaces/calculation_order.md: a back edge does not prove a        *)
(* circular reference, and "In a reference-only cycle, every member         *)
(* computes normally." So only cells that read a value cycle are #CALC!. It *)
(* holds where formulas read what they name (ImplementsCalculation); the    *)
(* provisional result of a cell that is named and not read leaks into the   *)
(* cells of its cycle, and Evaluator_references.cfg refutes it.             *)
OnlyCyclesAreCircular == \A c \in Cell : value[c] = "Circular" => Sheet!ReadsCycle(c)

(* The same page: cycle results do not depend on the cell that starts the    *)
(* evaluation.  Recalculating any part of the sheet changes nothing.  Where *)
(* a formula catches errors it does: Evaluator_starts.cfg refutes it.       *)
IndependentOfStart ==
  [][\A c \in Cell : value[c] # NoResult => value'[c] = value[c]]_vars

(* Every formula is scalar and names all it reads.                          *)
Named == \A c \in Cell : formula[c].reads \subseteq formula[c].lexical /\ ~formula[c].array

(* The same page: references hit the memo, so native recursion stays shallow *)
(* however long a chain of lexical references is.                           *)
RecursionIsShallow == Named => Len(calls) <= 1

(* Within a calculation every dependent observes the same result of a cell:  *)
(* once it is there, and not provisional, it stays until the context is     *)
(* emptied.                                                                 *)
ResultsAreShared ==
  [][\A c \in Cell : Known(c) /\ c \notin provisional /\ memo' # Nothing =>
       memo'[c] = memo[c]]_vars

(* A calculation comes to an end, whatever cycles the formulas have.         *)
CalculationsEnd == phase # "Idle" ~> phase = "Idle"
=============================================================================
