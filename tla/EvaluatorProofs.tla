-------------------------- MODULE EvaluatorProofs --------------------------
(***************************************************************************)
(* What holds of a calculation of any number of cells and any set of       *)
(* formulas.  Type correctness is unconditional; that the results are what *)
(* the formulas mean, whatever the scope and the order, needs formulas     *)
(* that read what they name and catch no errors: MCEvaluator shows what    *)
(* happens otherwise.                                                      *)
(***************************************************************************)
EXTENDS Evaluator, SequenceTheorems, TLAPS

(* The hypothesis of the theorems about values.                             *)
HonestFormulas == \A f \in Formulas : f.lexical \subseteq f.reads /\ ~f.catches

FrameType == [cell : Cell, todo : SUBSET Cell]
CallType == [cell : Cell, todo : SUBSET Cell, result : Result]

-----------------------------------------------------------------------------
(* Stacks.                                                                  *)

(* What is left of a stack when its top is taken off.                       *)
LEMMA FrontFacts ==
  ASSUME NEW S, NEW s \in Seq(S), s # <<>>
  PROVE  /\ Front(s) \in Seq(S)
         /\ Len(Front(s)) = Len(s) - 1
         /\ \A i \in 1..Len(s) - 1 : Front(s)[i] = s[i]
         /\ Len(s) \in Nat \ {0}
         /\ Last(s) \in S /\ Last(s) = s[Len(s)]
<1> DEFINE n == Len(s)
<1>1. n \in Nat \ {0} /\ \A i \in 1..n : s[i] \in S
  BY EmptySeq, ElementOfSeq
<1>2. Last(s) = s[n]
  BY DEF Last
<1>3. Front(s) = SubSeq(s, 1, n - 1)
  BY DEF Front
<1> HIDE DEF n
<1>4. \A i \in 1..n - 1 : s[i] \in S
  BY <1>1
<1>5. n - 1 \in Int
  BY <1>1
<1>6. /\ SubSeq(s, 1, n - 1) \in Seq(S)
      /\ Len(SubSeq(s, 1, n - 1)) = IF 1 <= n - 1 THEN n - 1 - 1 + 1 ELSE 0
      /\ \A i \in 1..n - 1 - 1 + 1 : SubSeq(s, 1, n - 1)[i] = s[1 + i - 1]
  BY <1>4, <1>5, SubSeqProperties
<1>7. Len(Front(s)) = n - 1
  BY <1>1, <1>3, <1>6
<1>8. \A i \in 1..n - 1 : Front(s)[i] = s[i]
  BY <1>1, <1>3, <1>6
<1>9. Last(s) \in S
  BY <1>1, <1>2
<1> QED BY <1>1, <1>2, <1>3, <1>6, <1>7, <1>8, <1>9 DEF n

(* A stack with one more element.                                           *)
LEMMA PushFacts ==
  ASSUME NEW S, NEW s \in Seq(S), NEW e \in S
  PROVE  /\ Append(s, e) \in Seq(S)
         /\ Len(Append(s, e)) = Len(s) + 1
         /\ \A i \in 1..Len(s) : Append(s, e)[i] = s[i]
         /\ Append(s, e)[Len(s) + 1] = e
         /\ Len(s) \in Nat
BY AppendProperties, LenProperties

(* A stack whose top is replaced.                                           *)
LEMMA TopFacts ==
  ASSUME NEW S, NEW s \in Seq(S), s # <<>>, NEW e \in S
  PROVE  /\ [s EXCEPT ![Len(s)] = e] \in Seq(S)
         /\ Len([s EXCEPT ![Len(s)] = e]) = Len(s)
         /\ \A i \in 1..Len(s) - 1 : [s EXCEPT ![Len(s)] = e][i] = s[i]
         /\ [s EXCEPT ![Len(s)] = e][Len(s)] = e
         /\ [s EXCEPT ![Len(s)] = e] # <<>>
<1> DEFINE n == Len(s)
           t == [s EXCEPT ![n] = e]
<1>1. n \in Nat \ {0}
  BY EmptySeq
<1>2. n \in 1..n
  BY <1>1
<1>3. /\ t \in Seq(S) /\ Len(t) = n
      /\ \A j \in 1..n : t[j] = IF j = n THEN e ELSE s[j]
  BY <1>2, ExceptSeq
<1>4. t # <<>>
  BY <1>1, <1>3, EmptySeq
<1> HIDE DEF n, t
<1>5. \A i \in 1..n - 1 : t[i] = s[i]
  BY <1>1, <1>3
<1>6. t[n] = e
  BY <1>2, <1>3
<1> QED BY <1>3, <1>4, <1>5, <1>6 DEF n, t

(* A stack of one element.                                                  *)
LEMMA OneFacts ==
  ASSUME NEW S, NEW e \in S
  PROVE  <<e>> \in Seq(S) /\ Len(<<e>>) = 1 /\ <<e>>[1] = e /\ <<e>> # <<>>
OBVIOUS

-----------------------------------------------------------------------------
(* Types.                                                                   *)

(* What the definitions the actions use return.                             *)
LEMMA TypeFacts ==
  ASSUME TypeOK
  PROVE  /\ AcrossCycle \in Result
         /\ NoResult \notin Result
         /\ Nothing \in [Cell -> Result \cup {NoResult}]
         /\ \A c \in Cell : formula[c] \in Formula
         /\ \A c \in Cell, left \in SUBSET Cell : Frame(c, left) \in FrameType
         /\ \A c \in Cell : Call(c) \in CallType
         /\ \A call \in CallType, r \in Cell, result \in Result :
               Observing(call, r, result) \in CallType
<1>1. \A c \in Cell : formula[c] \in Formula
  BY DEF TypeOK
<1>2. ASSUME NEW c \in Cell, NEW left \in SUBSET Cell PROVE Frame(c, left) \in FrameType
  BY <1>1 DEF Frame, Pending, FrameType, Formula
<1>3. ASSUME NEW c \in Cell PROVE Call(c) \in CallType
  BY <1>1 DEF Call, CallType, Formula, Result
<1>4. ASSUME NEW call \in CallType, NEW r \in Cell, NEW result \in Result
      PROVE  Observing(call, r, result) \in CallType
  BY <1>4 DEF Observing, CallType, Result
<1> QED BY <1>1, <1>2, <1>3, <1>4 DEF AcrossCycle, Result, NoResult, Nothing

(* Every step keeps the types.                                              *)
LEMMA TypeStep ==
  ASSUME TypeOK, [Next]_vars
  PROVE  TypeOK'
<1> USE TypeFacts
<1>a. /\ path \in Seq(FrameType) /\ calls \in Seq(CallType)
      /\ NoCell \notin Cell
  BY CellsAreCounted DEF TypeOK, FrameType, CallType, Cell, NoCell
<1>1. ASSUME NEW a \in Cell, NEW b \in Cell, Calculate(a..b) PROVE TypeOK'
  <2>1. a..b \subseteq Cell
    BY CellsAreCounted DEF Cell
  <2> QED BY <1>1, <2>1 DEF TypeOK, Calculate, walk, Arrays
<1>2. CASE EndArrays
  BY <1>2 DEF TypeOK, EndArrays, walk, Arrays, Written, BatchDone
<1>3. CASE EndScalars
  BY <1>3 DEF TypeOK, EndScalars, walk, Written, BatchDone
<1>4. CASE StartRoot
  <2>1. PICK c \in batch : /\ batch' = batch \ {c} /\ root' = c
                           /\ path' = IF Known(c) THEN <<>> ELSE <<Frame(c, {})>>
    BY <1>4 DEF StartRoot
  <2>2. c \in Cell
    BY DEF TypeOK
  <2>3. path' \in Seq(FrameType)
    BY <2>1, <2>2, OneFacts
  <2> QED BY <1>4, <2>1, <2>2, <2>3 DEF TypeOK, StartRoot, FrameType
<1>5. CASE PopPrecedent
  <2>1. PICK p \in Last(path).todo : SkipPrecedent(p) \/ BackEdge(p) \/ Expand(p)
    BY <1>5 DEF PopPrecedent
  <2>2. /\ path # <<>> /\ Last(path) \in FrameType
    BY <1>5, <1>a, FrontFacts DEF PopPrecedent, Walking
  <2>3. p \in Cell
    BY <2>2 DEF FrameType
  <2>4. Popped(p) \in Seq(FrameType)
    <3>1. [Last(path) EXCEPT !.todo = @ \ {p}] \in FrameType
      BY <2>2 DEF FrameType
    <3>2. Popped(p) = [path EXCEPT ![Len(path)] = [Last(path) EXCEPT !.todo = @ \ {p}]]
      BY DEF Popped, Last
    <3> QED BY <2>2, <3>1, <3>2, <1>a, TopFacts
  <2>5. path' \in Seq(FrameType)
    <3>1. Frame(p, finished) \in FrameType
      BY <2>3 DEF TypeOK
    <3>2. Append(Popped(p), Frame(p, finished)) \in Seq(FrameType)
      BY <2>4, <3>1, PushFacts
    <3> QED BY <2>1, <2>4, <3>2 DEF SkipPrecedent, BackEdge, Expand
  <2>6. /\ memo' \in [Cell -> Result \cup {NoResult}]
        /\ provisional' \subseteq Cell
    <3>1. CASE BackEdge(p)
      BY <2>3, <3>1 DEF BackEdge, TypeOK
    <3>2. CASE SkipPrecedent(p) \/ Expand(p)
      BY <3>2 DEF SkipPrecedent, Expand, TypeOK
    <3> QED BY <2>1, <3>1, <3>2
  <2> QED BY <1>5, <2>5, <2>6 DEF PopPrecedent, TypeOK, roots, FrameType
<1>6. CASE Leave
  <2>1. /\ path # <<>> /\ Last(path) \in FrameType /\ Front(path) \in Seq(FrameType)
    BY <1>6, <1>a, FrontFacts DEF Leave, Forgotten, Walking
  <2>2. Last(path).cell \in Cell
    BY <2>1 DEF FrameType
  <2>3. calls' \in Seq(CallType)
    BY <1>6, <2>2, OneFacts, EmptySeq DEF Leave, Forgotten
  <2>4. memo' \in [Cell -> Result \cup {NoResult}]
    BY <1>6, <2>2 DEF Leave, Forgotten, TypeOK
  <2> QED BY <1>6, <2>1, <2>2, <2>3, <2>4 DEF Leave, Forgotten, TypeOK, roots, FrameType, CallType
<1>7. CASE EvaluateRoot
  <2>1. root \in Cell
    BY <1>7 DEF EvaluateRoot, TypeOK
  <2>2. CASE Settles(root)
    <3>1. memo[root] \in Result
      BY <2>1, <2>2 DEF Settles, Known, TypeOK, Result, NoResult
    <3> QED BY <1>7, <2>1, <2>2, <3>1 DEF EvaluateRoot, RootDone, TypeOK
  <2>3. CASE ~Settles(root)
    <3>1. calls' \in Seq(CallType)
      BY <1>7, <2>1, <2>3, OneFacts DEF EvaluateRoot
    <3> QED BY <1>7, <2>3, <3>1 DEF EvaluateRoot, TypeOK, CallType
  <2> QED BY <2>2, <2>3
<1>8. CASE ReadCell
  <2>1. calls # <<>> /\ Last(calls) \in CallType
    BY <1>8, <1>a, FrontFacts DEF ReadCell
  <2>2. PICK r \in Last(calls).todo :
          calls' = IF Known(r) THEN [calls EXCEPT ![Len(calls)] = Observing(@, r, memo[r])]
                   ELSE IF r \in CellsOf(calls)
                   THEN [calls EXCEPT ![Len(calls)] = Observing(@, r, AcrossCycle)]
                   ELSE Append(calls, Call(r))
    BY <1>8 DEF ReadCell
  <2>3. r \in Cell
    BY <2>1 DEF CallType
  <2>4. ASSUME NEW result \in Result
        PROVE  [calls EXCEPT ![Len(calls)] = Observing(@, r, result)] \in Seq(CallType)
    <3>1. [calls EXCEPT ![Len(calls)] = Observing(@, r, result)]
            = [calls EXCEPT ![Len(calls)] = Observing(Last(calls), r, result)]
      BY DEF Last
    <3>2. Observing(Last(calls), r, result) \in CallType
      BY <2>1, <2>3
    <3> QED BY <2>1, <3>1, <3>2, <1>a, TopFacts
  <2>5. Known(r) => memo[r] \in Result
    BY <2>3 DEF Known, TypeOK
  <2>6. calls' \in Seq(CallType)
    BY <2>2, <2>3, <2>4, <2>5, <1>a, PushFacts
  <2> QED BY <1>8, <2>6 DEF ReadCell, TypeOK, roots, walk, CallType
<1>9. CASE Return
  <2>1. /\ calls # <<>> /\ Last(calls) \in CallType /\ Front(calls) \in Seq(CallType)
    BY <1>9, <1>a, FrontFacts DEF Return
  <2>2. Last(calls).cell \in Cell /\ Last(calls).result \in Result
    BY <2>1 DEF CallType
  <2>3. memo' \in [Cell -> Result \cup {NoResult}]
    BY <1>9, <2>2 DEF Return, TypeOK
  <2>4. /\ updates' \in [Cell -> Result \cup {NoResult}]
        /\ root' \in Cell \cup {NoCell}
    BY <1>9, <2>2 DEF Return, RootDone, TypeOK
  <2> QED BY <1>9, <2>1, <2>3, <2>4 DEF Return, TypeOK, CallType
<1>10. CASE UNCHANGED vars
  BY <1>10 DEF vars, roots, walk, TypeOK
<1> QED BY <1>1, <1>2, <1>3, <1>4, <1>5, <1>6, <1>7, <1>8, <1>9, <1>10 DEF Next, Step

(* Type correctness, for any number of cells and any formulas.              *)
THEOREM TypeCorrect == Spec => []TypeOK
<1>1. Init => TypeOK
  BY FormulasAreFormulas, EmptySeq DEF Init, TypeOK, Nothing
<1>2. TypeOK /\ [Next]_vars => TypeOK'
  BY TypeStep
<1> QED BY <1>1, <1>2, PTL DEF Spec

-----------------------------------------------------------------------------
(* Value cycles.                                                            *)

(* A cell that reads a cell that reads a value cycle does so itself.        *)
LEMMA CycleUp ==
  ASSUME TypeOK, NEW c \in Cell, NEW r \in formula[c].reads, Sheet!ReadsCycle(r)
  PROVE  Sheet!ReadsCycle(c)
<1>1. PICK cells \in SUBSET Cell : r \in cells /\ Sheet!Unfounded(cells)
  BY DEF Sheet!ReadsCycle
<1>2. Sheet!Unfounded(cells \cup {c})
  BY <1>1 DEF Sheet!Unfounded
<1> QED BY <1>1, <1>2 DEF Sheet!ReadsCycle

(* A cell that reads a value cycle reads it through one of its references.  *)
LEMMA CycleDown ==
  ASSUME TypeOK, NEW c \in Cell, Sheet!ReadsCycle(c)
  PROVE  \E r \in formula[c].reads : Sheet!ReadsCycle(r)
<1>1. PICK cells \in SUBSET Cell : c \in cells /\ Sheet!Unfounded(cells)
  BY DEF Sheet!ReadsCycle
<1>2. PICK r \in formula[c].reads : r \in cells
  BY <1>1 DEF Sheet!Unfounded
<1> QED BY <1>1, <1>2 DEF Sheet!ReadsCycle

-----------------------------------------------------------------------------
(* The inductive invariant behind the results.                              *)

(* Each element of a stack is what the one below it reads, and has still to *)
(* do only what its formula reads.                                          *)
Stacked(s) ==
  /\ \A i \in 1..Len(s) : s[i].cell \in Cell /\ s[i].todo \subseteq formula[s[i].cell].reads
  /\ \A i \in 1..Len(s) - 1 : s[i + 1].cell \in formula[s[i].cell].reads

(* The walk starts from the root, and so does what follows it.              *)
RootIsBelow ==
  /\ path # <<>> => path[1].cell = root
  /\ path = <<>> /\ calls # <<>> => calls[1].cell = root

(* Results are what the formulas mean.                                      *)
Agrees(results) == \A c \in Cell : results[c] # NoResult => results[c] = Sheet!Meaning(c)

(* A call that is still Fresh has met no value cycle; any other has.        *)
Truthful(call) ==
  /\ call.result = "Fresh" =>
       \A r \in formula[call.cell].reads \ call.todo : ~Sheet!ReadsCycle(r)
  /\ call.result # "Fresh" => call.result = AcrossCycle /\ Sheet!ReadsCycle(call.cell)

Honest == \A c \in Cell : formula[c].lexical \subseteq formula[c].reads /\ ~formula[c].catches

CalcInv ==
  /\ TypeOK /\ Honest
  /\ Stacked(path) /\ Stacked(calls) /\ RootIsBelow
  /\ Agrees(value) /\ Agrees(updates) /\ Agrees(memo)
  /\ \A i \in 1..Len(calls) : Truthful(calls[i])

(* A cell on a stack that the top of the stack reads is on a value cycle:   *)
(* what the back edge and the visiting guard take for granted.              *)
LEMMA CycleOnStack ==
  ASSUME TypeOK, NEW S, NEW s \in Seq(S), s # <<>>, Stacked(s),
         NEW r \in formula[Last(s).cell].reads, r \in CellsOf(s)
  PROVE  Sheet!ReadsCycle(r)
<1> DEFINE n == Len(s)
<1>1. n \in Nat \ {0} /\ Last(s) = s[n]
  BY FrontFacts
<1>2. PICK k \in 1..n : r = s[k].cell
  BY DEF CellsOf
<1> DEFINE cells == {s[j].cell : j \in k..n}
<1>3. cells \in SUBSET Cell /\ r \in cells
  BY <1>1, <1>2 DEF Stacked
<1>4. ASSUME NEW c \in cells PROVE formula[c].reads \cap cells # {}
  <2>1. PICK j \in k..n : c = s[j].cell
    OBVIOUS
  <2>2. CASE j = n
    BY <1>1, <1>3, <2>1, <2>2
  <2>3. CASE j # n
    <3>1. j \in 1..n - 1 /\ j + 1 \in k..n
      BY <1>1, <1>2, <2>1, <2>3
    <3>2. s[j + 1].cell \in formula[s[j].cell].reads /\ s[j + 1].cell \in cells
      BY <3>1 DEF Stacked
    <3> QED BY <2>1, <3>2
  <2> QED BY <2>2, <2>3
<1>5. Sheet!Unfounded(cells)
  BY <1>4 DEF Sheet!Unfounded
<1> QED BY <1>3, <1>5 DEF Sheet!ReadsCycle

(* A stack stays a stack when its top is taken off.                         *)
LEMMA StackedFront ==
  ASSUME NEW S, NEW s \in Seq(S), s # <<>>, Stacked(s)
  PROVE  Stacked(Front(s))
<1> DEFINE n == Len(s)
<1>1. /\ n \in Nat \ {0} /\ Len(Front(s)) = n - 1
      /\ \A i \in 1..n - 1 : Front(s)[i] = s[i]
  BY FrontFacts
<1>2. /\ \A i \in 1..n : s[i].cell \in Cell /\ s[i].todo \subseteq formula[s[i].cell].reads
      /\ \A i \in 1..n - 1 : s[i + 1].cell \in formula[s[i].cell].reads
  BY DEF Stacked
<1> DEFINE t == Front(s)
<1>3. Len(t) = n - 1 /\ \A i \in 1..n - 1 : t[i] = s[i]
  BY <1>1
<1> HIDE DEF n, t
<1>4. \A i \in 1..n - 1 : t[i].cell \in Cell /\ t[i].todo \subseteq formula[t[i].cell].reads
  BY <1>1, <1>2, <1>3
<1>5. ASSUME NEW i \in 1..n - 1 - 1 PROVE t[i + 1].cell \in formula[t[i].cell].reads
  <2>1. i \in 1..n - 1 /\ i + 1 \in 1..n - 1
    BY <1>1
  <2> QED BY <1>2, <1>3, <2>1
<1>6. Stacked(t)
  BY <1>3, <1>4, <1>5 DEF Stacked
<1> QED BY <1>6 DEF t

(* Its top may have less to do,                                             *)
LEMMA StackedTop ==
  ASSUME NEW S, NEW s \in Seq(S), s # <<>>, Stacked(s),
         NEW e \in S, e.cell = Last(s).cell, e.todo \subseteq Last(s).todo
  PROVE  Stacked([s EXCEPT ![Len(s)] = e])
<1> DEFINE n == Len(s)
           t == [s EXCEPT ![Len(s)] = e]
<1>1. n \in Nat \ {0} /\ Last(s) = s[n]
  BY FrontFacts
<1>2. /\ \A i \in 1..n : s[i].cell \in Cell /\ s[i].todo \subseteq formula[s[i].cell].reads
      /\ \A i \in 1..n - 1 : s[i + 1].cell \in formula[s[i].cell].reads
  BY DEF Stacked
<1>3. Len(t) = n /\ (\A i \in 1..n - 1 : t[i] = s[i]) /\ t[n] = e
  BY TopFacts
<1> HIDE DEF n, t
<1>4. \A i \in 1..n : t[i].cell = s[i].cell /\ t[i].todo \subseteq s[i].todo
  <2> TAKE i \in 1..n
  <2>1. i = n \/ i \in 1..n - 1
    BY <1>1
  <2> QED BY <1>1, <1>3, <2>1
<1>5. \A i \in 1..n - 1 : i \in 1..n /\ i + 1 \in 1..n
  BY <1>1
<1>6. Stacked(t)
  BY <1>2, <1>3, <1>4, <1>5 DEF Stacked
<1> QED BY <1>6 DEF t

(* or push what it reads;                                                   *)
LEMMA StackedPush ==
  ASSUME NEW S, NEW s \in Seq(S), s # <<>>, Stacked(s),
         NEW e \in S, e.cell \in Cell, e.cell \in formula[Last(s).cell].reads,
         e.todo \subseteq formula[e.cell].reads
  PROVE  Stacked(Append(s, e))
<1> DEFINE n == Len(s)
           t == Append(s, e)
<1>1. n \in Nat \ {0} /\ Last(s) = s[n]
  BY FrontFacts
<1>2. /\ \A i \in 1..n : s[i].cell \in Cell /\ s[i].todo \subseteq formula[s[i].cell].reads
      /\ \A i \in 1..n - 1 : s[i + 1].cell \in formula[s[i].cell].reads
  BY DEF Stacked
<1>3. Len(t) = n + 1 /\ (\A i \in 1..n : t[i] = s[i]) /\ t[n + 1] = e
  BY PushFacts
<1> HIDE DEF n, t
<1>4. \A i \in 1..n + 1 : t[i].cell \in Cell /\ t[i].todo \subseteq formula[t[i].cell].reads
  <2> TAKE i \in 1..n + 1
  <2>1. i = n + 1 \/ i \in 1..n
    BY <1>1
  <2> QED BY <1>2, <1>3, <2>1
<1>5. ASSUME NEW i \in 1..n PROVE t[i + 1].cell \in formula[t[i].cell].reads
  <2>1. CASE i = n
    BY <1>1, <1>3, <2>1
  <2>2. CASE i # n
    <3>1. i \in 1..n - 1 /\ i \in 1..n /\ i + 1 \in 1..n
      BY <1>1, <2>2
    <3> QED BY <1>2, <1>3, <3>1
  <2> QED BY <2>1, <2>2
<1>6. Len(t) - 1 = n
  BY <1>1, <1>3
<1>7. Stacked(t)
  BY <1>3, <1>4, <1>5, <1>6 DEF Stacked
<1> QED BY <1>7 DEF t

(* a stack may start with any cell.                                         *)
LEMMA StackedOne ==
  ASSUME NEW e, e.cell \in Cell, e.todo \subseteq formula[e.cell].reads
  PROVE  Stacked(<<e>>) /\ Stacked(<<>>)
<1>1. Len(<<e>>) = 1 /\ <<e>>[1] = e /\ Len(<<>>) = 0
  OBVIOUS
<1> DEFINE t == <<e>>
<1>2. Len(t) = 1 /\ t[1] = e
  BY <1>1
<1> HIDE DEF t
<1>3. Stacked(t)
  BY <1>2 DEF Stacked
<1> QED BY <1>1, <1>3 DEF Stacked, t

(* What a formula makes of one more true result is true.                    *)
LEMMA ObservingTruthful ==
  ASSUME TypeOK, Honest, NEW call \in CallType, Truthful(call),
         call.todo \subseteq formula[call.cell].reads, NEW r \in call.todo
  PROVE  /\ Truthful(Observing(call, r, Sheet!Meaning(r)))
         /\ Observing(call, r, Sheet!Meaning(r)).cell = call.cell
         /\ Observing(call, r, Sheet!Meaning(r)).todo \subseteq call.todo
         /\ Sheet!Meaning(r) \in Result
<1> DEFINE result == Sheet!Meaning(r)
           next == Observing(call, r, result)
<1>1. call.cell \in Cell /\ r \in Cell /\ r \in formula[call.cell].reads
  BY DEF CallType
<1>2. result = IF Sheet!ReadsCycle(r) THEN AcrossCycle ELSE "Fresh"
  BY DEF Sheet!Meaning, AcrossCycle
<1>3. AcrossCycle \in {"Previous", "Circular"} /\ ~formula[call.cell].catches
  BY <1>1 DEF AcrossCycle, Honest
<1>4. /\ next.cell = call.cell /\ next.todo \subseteq call.todo
      /\ next.result = IF result = "Fresh" THEN call.result ELSE result
      /\ result = "Fresh" => next.todo = call.todo \ {r}
  BY <1>2, <1>3 DEF Observing, CallType
<1>5. result # "Fresh" => result = AcrossCycle /\ Sheet!ReadsCycle(call.cell)
  BY <1>1, <1>2, CycleUp
<1>6. result = "Fresh" => ~Sheet!ReadsCycle(r)
  BY <1>2, <1>3
<1>7. result \in Result
  BY <1>2, <1>3 DEF Result
<1> HIDE DEF result, next
<1>8. Truthful(next)
  BY <1>4, <1>5, <1>6 DEF Truthful
<1> QED BY <1>4, <1>7, <1>8 DEF result, next

(* A call that has read all it reads returns what its formula means.        *)
LEMMA ReturnedMeaning ==
  ASSUME TypeOK, NEW call \in CallType, Truthful(call), call.todo = {}
  PROVE  call.result = Sheet!Meaning(call.cell)
<1>1. call.cell \in Cell
  BY DEF CallType
<1>2. CASE call.result = "Fresh"
  <2>1. ~Sheet!ReadsCycle(call.cell)
    BY <1>1, <1>2, CycleDown DEF Truthful
  <2> QED BY <1>2, <2>1 DEF Sheet!Meaning
<1>3. CASE call.result # "Fresh"
  BY <1>3 DEF Truthful, Sheet!Meaning, AcrossCycle
<1> QED BY <1>2, <1>3

-----------------------------------------------------------------------------
(* Every step keeps the invariant.                                          *)

(* No step changes a formula, nor what it means.                            *)
LEMMA FormulasStay ==
  ASSUME [Next]_vars
  PROVE  formula' = formula
BY DEF Next, Step, Calculate, EndArrays, EndScalars, StartRoot, PopPrecedent, Leave, Forgotten,
       EvaluateRoot, ReadCell, Return, vars

(* The first place of a stack that is not empty.                            *)
LEMMA FirstPlace ==
  ASSUME NEW n \in Nat \ {0}
  PROVE  1 \in 1..n /\ (n = 1 \/ 1 \in 1..n - 1)
OBVIOUS

(* The top of a stack and what it is made of.                               *)
LEMMA StackTypes ==
  ASSUME TypeOK
  PROVE  /\ path \in Seq(FrameType) /\ calls \in Seq(CallType)
         /\ path # <<>> => Last(path) \in FrameType /\ Last(path) = path[Len(path)]
         /\ calls # <<>> => Last(calls) \in CallType /\ Last(calls) = calls[Len(calls)]
<1>1. path \in Seq(FrameType) /\ calls \in Seq(CallType)
  BY DEF TypeOK, FrameType, CallType
<1> QED BY <1>1, FrontFacts

(* What a walk pushes and a call starts from.                               *)
LEMMA FreshFacts ==
  ASSUME TypeOK, Honest
  PROVE  /\ \A c \in Cell, left \in SUBSET Cell :
              /\ Frame(c, left).cell = c
              /\ Frame(c, left).todo \subseteq formula[c].reads
         /\ \A c \in Cell :
              /\ Call(c).cell = c /\ Call(c).todo = formula[c].reads
              /\ Truthful(Call(c))
BY DEF Frame, Pending, Call, Truthful, Honest

(* The walk.                                                                *)
LEMMA PathStep ==
  ASSUME CalcInv, [Next]_vars
  PROVE  Stacked(path') /\ (path' # <<>> => path'[1].cell = root')
<1> USE DEF CalcInv
<1>1. CASE StartRoot
  <2>1. PICK c \in batch : /\ root' = c
                           /\ path' = IF Known(c) THEN <<>> ELSE <<Frame(c, {})>>
    BY <1>1 DEF StartRoot
  <2>2. c \in Cell /\ Frame(c, {}).cell = c /\ Frame(c, {}).todo \subseteq formula[c].reads
    BY FreshFacts DEF TypeOK
  <2>3. Stacked(<<Frame(c, {})>>) /\ Stacked(<<>>)
    BY <2>2, StackedOne
  <2>4. <<Frame(c, {})>>[1] = Frame(c, {})
    OBVIOUS
  <2> QED BY <2>1, <2>2, <2>3, <2>4
<1>2. CASE PopPrecedent
  <2>1. PICK p \in Last(path).todo : SkipPrecedent(p) \/ BackEdge(p) \/ Expand(p)
    BY <1>2 DEF PopPrecedent
  <2>2. /\ path # <<>> /\ path \in Seq(FrameType)
        /\ Last(path) \in FrameType /\ Last(path) = path[Len(path)]
    BY <1>2, StackTypes DEF PopPrecedent, Walking
  <2>3. Len(path) \in Nat \ {0}
    BY <2>2, FrontFacts
  <2> DEFINE e == [Last(path) EXCEPT !.todo = @ \ {p}]
             n == Len(path)
  <2>4. /\ e \in FrameType /\ e.cell = Last(path).cell /\ e.todo \subseteq Last(path).todo
        /\ Popped(p) = [path EXCEPT ![n] = e]
    BY <2>2 DEF FrameType, Popped, Last
  <2>5. p \in Cell /\ p \in formula[Last(path).cell].reads
    BY <2>2, <2>3 DEF Stacked, FrameType
  <2> HIDE DEF e
  <2>6. /\ Popped(p) \in Seq(FrameType) /\ Len(Popped(p)) = n /\ Popped(p)[n] = e
        /\ (\A i \in 1..n - 1 : Popped(p)[i] = path[i]) /\ Popped(p) # <<>>
    BY <2>2, <2>4, TopFacts
  <2>7. Stacked(Popped(p))
    <3>1. Stacked([path EXCEPT ![Len(path)] = e])
      BY <2>2, <2>4, StackedTop
    <3> QED BY <2>4, <3>1
  <2>8. Popped(p)[1].cell = path[1].cell
    <3>1. n = 1 \/ 1 \in 1..n - 1
      BY <2>3, FirstPlace
    <3> QED BY <2>2, <2>4, <2>6, <3>1
  <2>9. root' = root /\ path[1].cell = root
    BY <1>2, <2>2 DEF PopPrecedent, RootIsBelow
  <2>10. CASE SkipPrecedent(p) \/ BackEdge(p)
    BY <2>7, <2>8, <2>9, <2>10 DEF SkipPrecedent, BackEdge
  <2>11. CASE Expand(p)
    <3> DEFINE f == Frame(p, finished)
    <3>1. f \in FrameType /\ f.cell = p /\ f.todo \subseteq formula[p].reads
      BY <2>5, TypeFacts, FreshFacts DEF TypeOK
    <3>2. path' = Append(Popped(p), f)
      BY <2>11 DEF Expand
    <3> HIDE DEF f
    <3>3. Last(Popped(p)).cell = Last(path).cell
      BY <2>4, <2>6 DEF Last
    <3>4. Stacked(path')
      BY <2>5, <2>6, <2>7, <3>1, <3>2, <3>3, StackedPush
    <3>5. path'[1] = Popped(p)[1]
      <4>1. 1 \in 1..n
        BY <2>3, FirstPlace
      <4> QED BY <2>6, <3>1, <3>2, <4>1, PushFacts
    <3> QED BY <2>8, <2>9, <3>4, <3>5
  <2> QED BY <2>1, <2>10, <2>11
<1>3. CASE Leave
  <2>1. path # <<>> /\ path \in Seq(FrameType) /\ path' = Front(path) /\ root' = root
    BY <1>3, StackTypes DEF Leave, Forgotten, Walking
  <2>2. Stacked(path')
    BY <2>1, StackedFront
  <2>3. ASSUME path' # <<>> PROVE path'[1].cell = root'
    <3> DEFINE n == Len(path)
    <3>1. /\ n \in Nat \ {0} /\ Len(path') = n - 1 /\ path' \in Seq(FrameType)
          /\ \A i \in 1..n - 1 : path'[i] = path[i]
      BY <2>1, FrontFacts
    <3>2. Len(path') # 0
      BY <2>3, <3>1, EmptySeq
    <3>3. 1 \in 1..n - 1
      BY <3>1, <3>2
    <3> QED BY <2>1, <3>1, <3>3 DEF RootIsBelow
  <2> QED BY <2>2, <2>3
<1>4. CASE EvaluateRoot
  BY <1>4 DEF EvaluateRoot
<1>5. CASE Return
  <2>1. path' = path /\ (root' = root \/ path = <<>>)
    BY <1>5 DEF Return, OfRoot
  <2> QED BY <2>1 DEF RootIsBelow
<1>6. CASE (\E a, b \in Cell : a <= b /\ Calculate(a..b)) \/ EndArrays \/ EndScalars
             \/ ReadCell \/ UNCHANGED vars
  <2>1. path' = path /\ root' = root
    BY <1>6 DEF Calculate, EndArrays, EndScalars, ReadCell, vars, walk
  <2> QED BY <2>1 DEF RootIsBelow
<1> QED BY <1>1, <1>2, <1>3, <1>4, <1>5, <1>6 DEF Next, Step

(* Between two roots nothing is under way.                                  *)
LEMMA NoRootNoCalls ==
  ASSUME CalcInv, root = NoCell
  PROVE  path = <<>> /\ calls = <<>>
<1> USE DEF CalcInv
<1>1. NoCell \notin Cell
  BY CellsAreCounted DEF Cell, NoCell
<1>2. ASSUME path # <<>> PROVE FALSE
  <2>1. 1 \in 1..Len(path)
    BY <1>2, StackTypes, FrontFacts, FirstPlace
  <2>2. path[1].cell \in Cell
    BY <2>1 DEF Stacked
  <2> QED BY <1>1, <1>2, <2>2 DEF RootIsBelow
<1>3. ASSUME path = <<>>, calls # <<>> PROVE FALSE
  <2>1. 1 \in 1..Len(calls)
    BY <1>3, StackTypes, FrontFacts, FirstPlace
  <2>2. calls[1].cell \in Cell
    BY <2>1 DEF Stacked
  <2> QED BY <1>1, <1>3, <2>2 DEF RootIsBelow
<1> QED BY <1>2, <1>3

(* The calls.                                                               *)
LEMMA CallsStep ==
  ASSUME CalcInv, [Next]_vars
  PROVE  /\ Stacked(calls') /\ \A i \in 1..Len(calls') : Truthful(calls'[i])
         /\ path' = <<>> /\ calls' # <<>> => calls'[1].cell = root'
<1> USE DEF CalcInv
<1>a. \A c \in Cell : /\ Call(c) \in CallType /\ Call(c).cell = c
                      /\ Call(c).todo \subseteq formula[c].reads /\ Truthful(Call(c))
  BY TypeFacts, FreshFacts
<1>b. ASSUME NEW c \in Cell
      PROVE  /\ Stacked(<<Call(c)>>) /\ <<Call(c)>>[1] = Call(c) /\ Len(<<Call(c)>>) = 1
             /\ \A i \in 1..Len(<<Call(c)>>) : Truthful(<<Call(c)>>[i])
  <2>1. <<Call(c)>>[1] = Call(c) /\ Len(<<Call(c)>>) = 1
    OBVIOUS
  <2>2. Stacked(<<Call(c)>>)
    BY <1>a, StackedOne
  <2> QED BY <1>a, <2>1, <2>2
<1>c. Stacked(<<>>) /\ Len(<<>>) = 0
  BY DEF Stacked
<1>1. CASE Leave
  <2>1. /\ path # <<>> /\ path \in Seq(FrameType) /\ path' = Front(path) /\ root' = root
        /\ Last(path) \in FrameType /\ Last(path) = path[Len(path)]
    BY <1>1, StackTypes DEF Leave, Forgotten, Walking
  <2> DEFINE c == Last(path).cell
             n == Len(path)
  <2>2. c \in Cell
    BY <2>1 DEF FrameType
  <2>3. calls' = <<>> \/ (c # root /\ calls' = <<Call(c)>>)
    BY <1>1 DEF Leave, Forgotten
  <2>4. ASSUME path' = <<>> PROVE c = root
    <3>1. n \in Nat \ {0} /\ Len(path') = n - 1
      BY <2>1, FrontFacts
    <3>2. Len(path') = 0
      BY <2>4
    <3>3. n = 1
      BY <3>1, <3>2
    <3> QED BY <2>1, <3>3 DEF RootIsBelow
  <2> QED BY <1>b, <1>c, <2>1, <2>2, <2>3, <2>4
<1>2. CASE EvaluateRoot
  <2>1. root \in Cell
    BY <1>2 DEF EvaluateRoot, TypeOK
  <2>2. calls' = <<>> \/ (calls' = <<Call(root)>> /\ root' = root)
    BY <1>2 DEF EvaluateRoot
  <2> QED BY <1>a, <1>b, <1>c, <2>1, <2>2
<1>3. CASE ReadCell
  <2>1. /\ calls # <<>> /\ calls \in Seq(CallType)
        /\ Last(calls) \in CallType /\ Last(calls) = calls[Len(calls)]
        /\ path' = path /\ root' = root
    BY <1>3, StackTypes DEF ReadCell, walk
  <2> DEFINE n == Len(calls)
             call == Last(calls)
  <2>2. n \in Nat \ {0}
    BY <2>1, FrontFacts
  <2>3. PICK r \in call.todo :
          calls' = IF Known(r) THEN [calls EXCEPT ![Len(calls)] = Observing(@, r, memo[r])]
                   ELSE IF r \in CellsOf(calls)
                   THEN [calls EXCEPT ![Len(calls)] = Observing(@, r, AcrossCycle)]
                   ELSE Append(calls, Call(r))
    BY <1>3 DEF ReadCell
  <2>4. /\ call.todo \subseteq formula[call.cell].reads /\ Truthful(call)
        /\ r \in Cell /\ r \in formula[call.cell].reads
    BY <2>1, <2>2 DEF Stacked, CallType
  <2> DEFINE e == Observing(call, r, Sheet!Meaning(r))
             read == [calls EXCEPT ![Len(calls)] = e]
  <2>5. /\ Truthful(e) /\ e.cell = call.cell /\ e.todo \subseteq call.todo
        /\ e \in CallType
    BY <2>1, <2>4, ObservingTruthful, TypeFacts
  <2>6. calls' = read \/ (r \in Cell /\ calls' = Append(calls, Call(r)))
    <3>1. CASE Known(r)
      <4>1. memo[r] = Sheet!Meaning(r)
        BY <2>4, <3>1 DEF Agrees, Known
      <4>2. calls' = [calls EXCEPT ![Len(calls)] = Observing(@, r, Sheet!Meaning(r))]
        BY <2>3, <3>1, <4>1
      <4> QED BY <2>1, <4>2
    <3>2. CASE ~Known(r) /\ r \in CellsOf(calls)
      <4>1. Sheet!ReadsCycle(r)
        BY <2>1, <2>4, <3>2, CycleOnStack
      <4>2. AcrossCycle = Sheet!Meaning(r)
        BY <4>1 DEF Sheet!Meaning, AcrossCycle
      <4>3. calls' = [calls EXCEPT ![Len(calls)] = Observing(@, r, Sheet!Meaning(r))]
        BY <2>3, <3>2, <4>2
      <4> QED BY <2>1, <4>3
    <3>3. CASE ~Known(r) /\ r \notin CellsOf(calls)
      BY <2>3, <2>4, <3>3
    <3> QED BY <3>1, <3>2, <3>3
  <2> HIDE DEF e
  <2>7. 1 \in 1..n /\ (n = 1 \/ 1 \in 1..n - 1)
    BY <2>2, FirstPlace
  <2>8. CASE calls' = read
    <3>1. /\ Len(read) = n /\ read[n] = e /\ \A i \in 1..n - 1 : read[i] = calls[i]
      BY <2>1, <2>5, TopFacts
    <3>2. Stacked(read)
      BY <2>1, <2>5, StackedTop
    <3> HIDE DEF read
    <3>3. ASSUME NEW i \in 1..Len(read) PROVE Truthful(read[i])
      <4>1. i \in 1..n /\ (i = n \/ i \in 1..n - 1)
        BY <2>2, <3>1
      <4> QED BY <2>5, <3>1, <4>1
    <3>4. read[1].cell = calls[1].cell
      BY <2>1, <2>5, <2>7, <3>1
    <3> QED BY <2>1, <2>8, <3>2, <3>3, <3>4 DEF RootIsBelow
  <2>9. CASE calls' = Append(calls, Call(r))
    <3> DEFINE longer == Append(calls, Call(r))
    <3>1. /\ Len(longer) = n + 1 /\ longer[n + 1] = Call(r)
          /\ \A i \in 1..n : longer[i] = calls[i]
      BY <1>a, <2>1, <2>4, PushFacts
    <3>2. Stacked(longer)
      BY <1>a, <2>1, <2>4, StackedPush
    <3> HIDE DEF longer
    <3>3. ASSUME NEW i \in 1..Len(longer) PROVE Truthful(longer[i])
      <4>1. i = n + 1 \/ i \in 1..n
        BY <2>2, <3>1
      <4> QED BY <1>a, <2>4, <3>1, <4>1
    <3>4. longer[1] = calls[1]
      BY <2>7, <3>1
    <3> QED BY <2>1, <2>9, <3>2, <3>3, <3>4 DEF longer, RootIsBelow
  <2> QED BY <2>6, <2>8, <2>9
<1>4. CASE Return
  <2>1. calls # <<>> /\ calls \in Seq(CallType) /\ calls' = Front(calls) /\ path' = path
    BY <1>4, StackTypes DEF Return
  <2> DEFINE n == Len(calls)
  <2>2. /\ n \in Nat \ {0} /\ Len(calls') = n - 1 /\ calls' \in Seq(CallType)
        /\ \A i \in 1..n - 1 : calls'[i] = calls[i]
    BY <2>1, FrontFacts
  <2>3. Stacked(calls')
    BY <2>1, StackedFront
  <2>4. ASSUME path' = <<>>, calls' # <<>> PROVE calls'[1].cell = root'
    <3>1. Len(calls') # 0
      BY <2>2, <2>4, EmptySeq
    <3>2. 1 \in 1..n - 1 /\ n # 1
      BY <2>2, <3>1
    <3>3. root' = root
      BY <1>4, <3>2 DEF Return, OfRoot
    <3> QED BY <2>1, <2>2, <2>4, <3>2, <3>3 DEF RootIsBelow
  <2> HIDE DEF n
  <2>5. ASSUME NEW i \in 1..Len(calls') PROVE Truthful(calls'[i])
    <3>1. i \in 1..n - 1 /\ i \in 1..n
      BY <2>2
    <3> QED BY <2>2, <3>1 DEF n
  <2> QED BY <2>3, <2>4, <2>5
<1>5. CASE StartRoot \/ PopPrecedent
  <2>1. calls' = calls
    BY <1>5 DEF StartRoot, PopPrecedent
  <2>2. CASE StartRoot
    BY <1>c, <2>1, <2>2, NoRootNoCalls DEF StartRoot
  <2>3. CASE PopPrecedent
    BY <1>c, <2>1, <2>3 DEF PopPrecedent, Walking
  <2> QED BY <1>5, <2>2, <2>3
<1>6. CASE (\E a, b \in Cell : a <= b /\ Calculate(a..b)) \/ EndArrays \/ EndScalars
             \/ UNCHANGED vars
  <2>1. path' = path /\ root' = root /\ calls' = calls
    BY <1>6 DEF Calculate, EndArrays, EndScalars, vars, walk
  <2> QED BY <2>1 DEF RootIsBelow
<1> QED BY <1>1, <1>2, <1>3, <1>4, <1>5, <1>6 DEF Next, Step

(* The results.                                                             *)
LEMMA ResultsStep ==
  ASSUME CalcInv, [Next]_vars
  PROVE  Agrees(value') /\ Agrees(updates') /\ Agrees(memo')
<1> USE DEF CalcInv
<1>1. Agrees(Nothing)
  BY DEF Agrees, Nothing
<1>2. CASE \E a, b \in Cell : a <= b /\ Calculate(a..b)
  BY <1>1, <1>2 DEF Calculate
<1>3. CASE EndArrays \/ EndScalars
  <2>1. Agrees(Written)
    BY DEF Agrees, Written
  <2> QED BY <1>1, <1>3, <2>1 DEF EndArrays, EndScalars
<1>4. CASE StartRoot
  BY <1>4 DEF StartRoot
<1>5. CASE PopPrecedent
  <2>1. PICK p \in Last(path).todo : SkipPrecedent(p) \/ BackEdge(p) \/ Expand(p)
    BY <1>5 DEF PopPrecedent
  <2>2. value' = value /\ updates' = updates
    BY <1>5 DEF PopPrecedent, roots
  <2>3. CASE BackEdge(p)
    <3>1. /\ path # <<>> /\ path \in Seq(FrameType)
          /\ Last(path) \in FrameType /\ Last(path) = path[Len(path)]
      BY <1>5, StackTypes DEF PopPrecedent, Walking
    <3>2. Len(path) \in Nat \ {0}
      BY <3>1, FrontFacts
    <3>3. p \in formula[Last(path).cell].reads /\ p \in CellsOf(path)
      BY <2>3, <3>1, <3>2 DEF Stacked, BackEdge
    <3>4. Sheet!ReadsCycle(p)
      BY <3>1, <3>3, CycleOnStack
    <3>5. AcrossCycle = Sheet!Meaning(p)
      BY <3>4 DEF Sheet!Meaning, AcrossCycle
    <3>6. Agrees(memo')
      BY <2>3, <3>5 DEF BackEdge, Agrees, TypeOK
    <3> QED BY <2>2, <3>6
  <2>4. CASE SkipPrecedent(p) \/ Expand(p)
    BY <2>2, <2>4 DEF SkipPrecedent, Expand
  <2> QED BY <2>1, <2>3, <2>4
<1>6. CASE Leave
  <2>1. value' = value /\ updates' = updates
    BY <1>6 DEF Leave, Forgotten, roots
  <2>2. memo' = memo \/ \E c : memo' = [memo EXCEPT ![c] = NoResult]
    BY <1>6 DEF Leave, Forgotten
  <2>3. Agrees(memo')
    BY <2>2 DEF Agrees, TypeOK
  <2> QED BY <2>1, <2>3
<1>7. CASE EvaluateRoot
  <2>1. value' = value /\ memo' = memo
    BY <1>7 DEF EvaluateRoot
  <2>2. CASE Settles(root)
    <3>1. root \in Cell /\ updates' = [updates EXCEPT ![root] = memo[root]]
      BY <1>7, <2>2 DEF EvaluateRoot, RootDone, TypeOK
    <3>2. Agrees(updates')
      BY <3>1 DEF Agrees, TypeOK
    <3> QED BY <2>1, <3>2
  <2>3. CASE ~Settles(root)
    BY <1>7, <2>1, <2>3 DEF EvaluateRoot
  <2> QED BY <2>2, <2>3
<1>8. CASE ReadCell
  BY <1>8 DEF ReadCell, roots
<1>9. CASE Return
  <2>1. /\ calls # <<>> /\ calls \in Seq(CallType)
        /\ Last(calls) \in CallType /\ Last(calls) = calls[Len(calls)] /\ Last(calls).todo = {}
    BY <1>9, StackTypes DEF Return
  <2> DEFINE call == Last(calls)
             n == Len(calls)
  <2>2. n \in Nat \ {0}
    BY <2>1, FrontFacts
  <2>3. Truthful(call) /\ call.cell \in Cell
    BY <2>1, <2>2 DEF CallType
  <2>4. call.result = Sheet!Meaning(call.cell)
    BY <2>1, <2>3, ReturnedMeaning
  <2>5. Agrees(memo')
    BY <1>9, <2>3, <2>4 DEF Return, Agrees, TypeOK
  <2>6. Agrees(updates')
    <3>1. CASE OfRoot
      <4>1. calls[1].cell = root /\ call.cell = root
        BY <2>1, <3>1 DEF OfRoot, RootIsBelow
      <4>2. updates' = [updates EXCEPT ![root] = call.result]
        BY <1>9, <3>1 DEF Return, RootDone
      <4> QED BY <2>3, <2>4, <4>1, <4>2 DEF Agrees, TypeOK
    <3>2. CASE ~OfRoot
      BY <1>9, <3>2 DEF Return
    <3> QED BY <3>1, <3>2
  <2>7. value' = value
    BY <1>9 DEF Return
  <2> QED BY <2>5, <2>6, <2>7
<1>10. CASE UNCHANGED vars
  BY <1>10 DEF vars, roots
<1> QED BY <1>2, <1>3, <1>4, <1>5, <1>6, <1>7, <1>8, <1>9, <1>10 DEF Next, Step

(* Every step keeps the invariant.                                          *)
LEMMA CalcInvStep ==
  ASSUME CalcInv, [Next]_vars
  PROVE  CalcInv'
<1>1. formula' = formula
  BY FormulasStay
<1>2. TypeOK'
  BY TypeStep DEF CalcInv
<1>3. Honest'
  BY <1>1 DEF CalcInv, Honest
<1>4. Stacked(path)' /\ Stacked(calls)'
  BY <1>1, PathStep, CallsStep DEF Stacked
<1>5. RootIsBelow'
  BY PathStep, CallsStep DEF RootIsBelow
<1>6. Agrees(value)' /\ Agrees(updates)' /\ Agrees(memo)'
  BY <1>1, ResultsStep DEF Agrees, Sheet!Meaning, Sheet!ReadsCycle, Sheet!Unfounded
<1>7. (\A i \in 1..Len(calls) : Truthful(calls[i]))'
  BY <1>1, CallsStep DEF Truthful, Sheet!ReadsCycle, Sheet!Unfounded
<1> QED BY <1>2, <1>3, <1>4, <1>5, <1>6, <1>7 DEF CalcInv

(* The inductive invariant holds: results agree with what formulas mean, in *)
(* the sheet, in the batch and in the memo, the provisional ones included.  *)
THEOREM CalcInvIsInvariant == HonestFormulas => (Spec => []CalcInv)
<1> SUFFICES ASSUME HonestFormulas PROVE Spec => []CalcInv
  OBVIOUS
<1>1. Init => CalcInv
  <2> SUFFICES ASSUME Init PROVE CalcInv
    OBVIOUS
  <2>1. TypeOK
    BY FormulasAreFormulas, EmptySeq DEF Init, TypeOK, Nothing
  <2>2. Honest
    BY DEF Init, Honest, HonestFormulas
  <2>3. path = <<>> /\ calls = <<>> /\ Len(<<>>) = 0
    BY DEF Init
  <2>4. Stacked(path) /\ Stacked(calls) /\ RootIsBelow
    BY <2>3 DEF Stacked, RootIsBelow
  <2>5. Agrees(value) /\ Agrees(updates) /\ Agrees(memo)
    BY DEF Init, Agrees, Nothing
  <2> QED BY <2>1, <2>2, <2>3, <2>4, <2>5 DEF CalcInv
<1>2. CalcInv /\ [Next]_vars => CalcInv'
  BY CalcInvStep
<1> QED BY <1>1, <1>2, PTL DEF Spec

(* The walk, its provisional results, the memo and the two batches give the *)
(* cells of every scope what their formulas mean, in one step.              *)
THEOREM CalculatesMeaning == HonestFormulas => (Spec => ImplementsCalculation)
<1> SUFFICES ASSUME HonestFormulas PROVE Spec => ImplementsCalculation
  OBVIOUS
<1>1. Init => Sheet!Init
  BY DEF Init, Sheet!Init, Nothing
<1>2. CalcInv /\ [Next]_vars => [Sheet!Next]_<<formula, value>>
  <2> SUFFICES ASSUME CalcInv, [Next]_vars
               PROVE  Sheet!Next \/ UNCHANGED <<formula, value>>
    OBVIOUS
  <2>1. CASE EndArrays \/ EndScalars
    <3> DEFINE done == {c \in Cell : updates[c] # NoResult}
    <3>1. value' = [c \in Cell |-> IF c \in done THEN Sheet!Meaning(c) ELSE value[c]]
      BY <2>1 DEF EndArrays, EndScalars, Written, CalcInv, Agrees
    <3>2. Sheet!Recalculate(done)
      BY <3>1, FormulasStay DEF Sheet!Recalculate
    <3> QED BY <3>2 DEF Sheet!Next
  <2>2. CASE ~(EndArrays \/ EndScalars)
    <3>1. value' = value
      BY <2>2 DEF Next, Step, Calculate, StartRoot, PopPrecedent, Leave, Forgotten, EvaluateRoot,
                  ReadCell, Return, vars, roots
    <3> QED BY <3>1, FormulasStay
  <2> QED BY <2>1, <2>2
<1> QED BY <1>1, <1>2, CalcInvIsInvariant, PTL DEF Spec, ImplementsCalculation, Sheet!Spec

(* Where formulas read what they name and catch nothing, calculating any    *)
(* part of the sheet again, from whichever cell, changes no result that is  *)
(* there.                                                                   *)
THEOREM StartDoesNotMatter == HonestFormulas => (Spec => IndependentOfStart)
<1> SUFFICES ASSUME HonestFormulas PROVE Spec => IndependentOfStart
  OBVIOUS
<1>1. CalcInv /\ CalcInv' /\ [Next]_vars =>
        [\A c \in Cell : value[c] # NoResult => value'[c] = value[c]]_vars
  <2> SUFFICES ASSUME CalcInv, CalcInv', [Next]_vars, NEW c \in Cell, value[c] # NoResult
               PROVE  value'[c] = value[c]
    OBVIOUS
  <2>1. value'[c] # NoResult
    BY DEF Next, Step, Calculate, EndArrays, EndScalars, StartRoot, PopPrecedent, Leave, Forgotten,
           EvaluateRoot, ReadCell, Return, vars, roots, Written
  <2>2. value'[c] = Sheet!Meaning(c)'
    BY <2>1 DEF CalcInv, Agrees
  <2>3. Sheet!Meaning(c)' = Sheet!Meaning(c)
    BY FormulasStay DEF Sheet!Meaning, Sheet!ReadsCycle, Sheet!Unfounded
  <2> QED BY <2>2, <2>3 DEF CalcInv, Agrees
<1> QED BY <1>1, CalcInvIsInvariant, PTL DEF Spec, IndependentOfStart

-----------------------------------------------------------------------------
(* The memo.  A cell is called once, and only while it has no result, but   *)
(* for the root of an array formula, whose own result is not memoized.      *)
CallsAreDistinct ==
  \A i, j \in 1..Len(calls) : calls[i].cell = calls[j].cell => i = j

CallsAreNeeded ==
  \A i \in 1..Len(calls) :
    Known(calls[i].cell) => i = 1 /\ path = <<>> /\ root \in Cell /\ formula[root].array

BusyWithRoot == path # <<>> \/ calls # <<>> => root # NoCell

MemoInv == TypeOK /\ CallsAreDistinct /\ CallsAreNeeded /\ BusyWithRoot

(* The steps that neither call, nor return, nor change a memoized result.   *)
LEMMA MemoQuiet ==
  ASSUME MemoInv, calls' = calls, path' = path, root' = root, formula' = formula,
         memo' = memo \/ memo' = Nothing
  PROVE  CallsAreDistinct' /\ CallsAreNeeded' /\ BusyWithRoot'
<1>1. \A i \in 1..Len(calls) : calls[i].cell \in Cell
  <2>1. \A i \in 1..Len(calls) : calls[i] \in CallType
    BY StackTypes, ElementOfSeq DEF MemoInv
  <2> QED BY <2>1 DEF CallType
<1>2. \A c \in Cell : Known(c)' => Known(c)
  BY DEF Known, Nothing
<1> QED BY <1>1, <1>2 DEF MemoInv, CallsAreDistinct, CallsAreNeeded, BusyWithRoot, Known

(* A call that is the only one.                                             *)
LEMMA MemoOne ==
  ASSUME NEW c \in Cell, calls' = <<Call(c)>>, root' # NoCell,
         Known(c)' => path' = <<>> /\ root' \in Cell /\ formula'[root'].array
  PROVE  CallsAreDistinct' /\ CallsAreNeeded' /\ BusyWithRoot'
<1>1. Len(<<Call(c)>>) = 1 /\ <<Call(c)>>[1] = Call(c) /\ Call(c).cell = c
  BY DEF Call
<1>2. \A i \in 1..Len(calls') : i = 1 /\ calls'[i].cell = c
  BY <1>1
<1>3. CallsAreDistinct'
  BY <1>2 DEF CallsAreDistinct
<1>4. CallsAreNeeded'
  BY <1>2 DEF CallsAreNeeded, Known
<1> QED BY <1>3, <1>4 DEF BusyWithRoot

(* No call at all.                                                          *)
LEMMA MemoNone ==
  ASSUME calls' = <<>>, path' # <<>> => root' # NoCell
  PROVE  CallsAreDistinct' /\ CallsAreNeeded' /\ BusyWithRoot'
BY DEF CallsAreDistinct, CallsAreNeeded, BusyWithRoot

(* Every step keeps the invariant of the memo.                              *)
LEMMA MemoInvStep ==
  ASSUME MemoInv, [Next]_vars
  PROVE  MemoInv'
<1> USE DEF MemoInv
<1>1. TypeOK' /\ formula' = formula
  BY TypeStep, FormulasStay
<1> SUFFICES CallsAreDistinct' /\ CallsAreNeeded' /\ BusyWithRoot'
  BY <1>1
<1>2. NoCell \notin Cell
  BY CellsAreCounted DEF Cell, NoCell
<1>3. CASE StartRoot
  <2>1. calls' = calls /\ root' \in batch /\ calls = <<>>
    BY <1>3 DEF StartRoot, BusyWithRoot
  <2>2. root' # NoCell
    BY <1>2, <2>1 DEF TypeOK
  <2> QED BY <2>1, <2>2, MemoNone
<1>4. CASE PopPrecedent
  BY <1>4, MemoNone DEF PopPrecedent, Walking, BusyWithRoot
<1>5. CASE Leave
  <2>1. /\ path # <<>> /\ root' = root /\ root # NoCell /\ Last(path).cell \in Cell
    BY <1>5, StackTypes DEF Leave, Forgotten, Walking, BusyWithRoot, FrameType
  <2>2. CASE calls' = <<>>
    BY <2>1, <2>2, MemoNone
  <2>3. CASE calls' # <<>>
    <3>1. calls' = <<Call(Last(path).cell)>> /\ memo'[Last(path).cell] = NoResult
      BY <1>5, <2>3 DEF Leave, Forgotten
    <3> QED BY <2>1, <3>1, MemoOne DEF Known
  <2> QED BY <2>2, <2>3
<1>6. CASE EvaluateRoot
  <2>1. root \in Cell /\ path = <<>> /\ path' = <<>> /\ memo' = memo
    BY <1>6 DEF EvaluateRoot, TypeOK
  <2>2. CASE Settles(root)
    BY <1>6, <2>1, <2>2, MemoNone DEF EvaluateRoot
  <2>3. CASE ~Settles(root)
    <3>1. calls' = <<Call(root)>> /\ root' = root
      BY <1>6, <2>3 DEF EvaluateRoot
    <3>2. Known(root)' => formula'[root'].array
      BY <1>1, <2>1, <2>3, <3>1 DEF Settles, Known
    <3> QED BY <1>2, <2>1, <3>1, <3>2, MemoOne
  <2> QED BY <2>2, <2>3
<1>7. CASE ReadCell
  <2>1. /\ calls # <<>> /\ calls \in Seq(CallType)
        /\ Last(calls) \in CallType /\ Last(calls) = calls[Len(calls)]
        /\ path' = path /\ root' = root /\ memo' = memo
    BY <1>7, StackTypes DEF ReadCell, walk
  <2> DEFINE n == Len(calls)
  <2>2. n \in Nat \ {0}
    BY <2>1, FrontFacts
  <2>3. PICK r \in Last(calls).todo :
          calls' = IF Known(r) THEN [calls EXCEPT ![Len(calls)] = Observing(@, r, memo[r])]
                   ELSE IF r \in CellsOf(calls)
                   THEN [calls EXCEPT ![Len(calls)] = Observing(@, r, AcrossCycle)]
                   ELSE Append(calls, Call(r))
    BY <1>7 DEF ReadCell
  <2>4. r \in Cell
    BY <2>1 DEF CallType
  <2>5. ASSUME NEW result \in Result,
               calls' = [calls EXCEPT ![Len(calls)] = Observing(@, r, result)]
        PROVE  CallsAreDistinct' /\ CallsAreNeeded' /\ BusyWithRoot'
    <3> DEFINE e == Observing(Last(calls), r, result)
    <3>1. calls' = [calls EXCEPT ![Len(calls)] = e]
      BY <2>1, <2>5
    <3>2. e \in CallType /\ e.cell = Last(calls).cell
      BY <2>1, <2>4, TypeFacts DEF Observing, CallType
    <3> HIDE DEF e
    <3>3. Len(calls') = n /\ calls'[n] = e /\ \A i \in 1..n - 1 : calls'[i] = calls[i]
      BY <2>1, <3>1, <3>2, TopFacts
    <3>4. \A i \in 1..n : calls'[i].cell = calls[i].cell
      <4> TAKE i \in 1..n
      <4>1. i = n \/ i \in 1..n - 1
        BY <2>2
      <4> QED BY <2>1, <3>2, <3>3, <4>1
    <3> QED BY <1>1, <2>1, <3>3, <3>4
            DEF CallsAreDistinct, CallsAreNeeded, BusyWithRoot, Known
  <2>6. CASE Known(r)
    BY <2>3, <2>4, <2>5, <2>6 DEF Known, TypeOK
  <2>7. CASE ~Known(r) /\ r \in CellsOf(calls)
    BY <2>3, <2>5, <2>7, TypeFacts
  <2>8. CASE ~Known(r) /\ r \notin CellsOf(calls)
    <3>1. calls' = Append(calls, Call(r)) /\ Call(r) \in CallType /\ Call(r).cell = r
      BY <2>3, <2>4, <2>8, TypeFacts DEF Call
    <3>2. /\ Len(calls') = n + 1 /\ calls'[n + 1].cell = r
          /\ \A i \in 1..n : calls'[i] = calls[i]
      BY <2>1, <3>1, PushFacts
    <3>3. \A i \in 1..n : calls[i].cell # r
      BY <2>8 DEF CellsOf
    <3>4. \A i \in 1..n + 1 : i = n + 1 \/ i \in 1..n
      BY <2>2
    <3>5. CallsAreDistinct'
      BY <3>2, <3>3, <3>4 DEF CallsAreDistinct
    <3>6. ASSUME NEW i \in 1..n + 1, memo'[calls'[i].cell] # NoResult
          PROVE  i = 1 /\ path' = <<>> /\ root' \in Cell /\ formula'[root'].array
      <4>1. i \in 1..n /\ memo[calls[i].cell] # NoResult
        BY <2>1, <2>8, <3>2, <3>4, <3>6 DEF Known
      <4>2. i = 1 /\ path = <<>> /\ root \in Cell /\ formula[root].array
        BY <4>1 DEF CallsAreNeeded, Known
      <4> QED BY <1>1, <2>1, <4>2
    <3>7. CallsAreNeeded'
      BY <3>2, <3>6 DEF CallsAreNeeded, Known
    <3> QED BY <2>1, <3>5, <3>7 DEF BusyWithRoot
  <2> QED BY <2>6, <2>7, <2>8
<1>8. CASE Return
  <2>1. /\ calls # <<>> /\ calls \in Seq(CallType) /\ calls' = Front(calls) /\ path' = path
        /\ Last(calls) \in CallType /\ Last(calls) = calls[Len(calls)]
    BY <1>8, StackTypes DEF Return
  <2> DEFINE n == Len(calls)
  <2>2. /\ n \in Nat \ {0} /\ Len(calls') = n - 1 /\ calls' \in Seq(CallType)
        /\ \A i \in 1..n - 1 : calls'[i] = calls[i]
    BY <2>1, FrontFacts
  <2>3. CASE n = 1
    <3>1. calls' = <<>>
      BY <2>2, <2>3, EmptySeq
    <3>2. path' # <<>> => root' # NoCell
      BY <1>8, <2>1 DEF Return, OfRoot, BusyWithRoot
    <3> QED BY <3>1, <3>2, MemoNone
  <2>4. CASE n # 1
    <3>1. root' = root /\ ~OfRoot
      BY <1>8, <2>4 DEF Return, OfRoot
    <3>2. memo' = [memo EXCEPT ![calls[n].cell] = Last(calls).result]
      BY <1>8, <2>1, <3>1 DEF Return, Memoized
    <3> HIDE DEF n
    <3>3. \A i \in 1..n - 1 : i \in 1..n /\ i # n /\ n \in 1..n
      BY <2>2
    <3>4. \A i \in 1..n - 1 : calls[i].cell # calls[n].cell
      BY <3>3 DEF CallsAreDistinct, n
    <3>5. \A i \in 1..n - 1 : memo'[calls[i].cell] = memo[calls[i].cell]
      BY <3>2, <3>4 DEF TypeOK
    <3>6. ASSUME NEW i \in 1..n - 1, memo'[calls'[i].cell] # NoResult
          PROVE  i = 1 /\ path' = <<>> /\ root' \in Cell /\ formula'[root'].array
      <4>1. i \in 1..Len(calls) /\ memo[calls[i].cell] # NoResult
        BY <2>2, <3>3, <3>5, <3>6 DEF n
      <4>2. i = 1 /\ path = <<>> /\ root \in Cell /\ formula[root].array
        BY <4>1 DEF CallsAreNeeded, Known
      <4> QED BY <1>1, <2>1, <3>1, <4>2
    <3>8. CallsAreNeeded'
      BY <2>2, <3>6 DEF CallsAreNeeded, Known
    <3>7. CallsAreDistinct'
      BY <2>2, <3>3 DEF CallsAreDistinct, n
    <3> QED BY <2>1, <3>1, <3>7, <3>8 DEF BusyWithRoot
  <2> QED BY <2>3, <2>4
<1>9. CASE (\E a, b \in Cell : a <= b /\ Calculate(a..b)) \/ EndArrays \/ EndScalars
             \/ UNCHANGED vars
  <2>1. path' = path /\ root' = root /\ calls' = calls /\ (memo' = memo \/ memo' = Nothing)
    BY <1>9 DEF Calculate, EndArrays, EndScalars, vars, walk
  <2> QED BY <1>1, <2>1, MemoQuiet
<1> QED BY <1>3, <1>4, <1>5, <1>6, <1>7, <1>8, <1>9 DEF Next, Step

(* Within a calculation every dependent observes the same result of a cell, *)
(* whatever the formulas are: evaluate_cell never evaluates a cell twice.   *)
THEOREM MemoIsShared == Spec => ResultsAreShared
<1>1. Init => MemoInv
  BY FormulasAreFormulas, EmptySeq
     DEF Init, MemoInv, TypeOK, Nothing, CallsAreDistinct, CallsAreNeeded, BusyWithRoot
<1>2. MemoInv /\ [Next]_vars => MemoInv'
  BY MemoInvStep
<1>3. MemoInv /\ [Next]_vars =>
        [\A c \in Cell : Known(c) /\ c \notin provisional /\ memo' # Nothing =>
           memo'[c] = memo[c]]_vars
  <2> SUFFICES ASSUME MemoInv, [Next]_vars, NEW c \in Cell,
                      Known(c), c \notin provisional, memo' # Nothing
               PROVE  memo'[c] = memo[c]
    OBVIOUS
  <2>1. CASE PopPrecedent
    <3>1. PICK p \in Last(path).todo : SkipPrecedent(p) \/ BackEdge(p) \/ Expand(p)
      BY <2>1 DEF PopPrecedent
    <3> QED BY <3>1 DEF SkipPrecedent, BackEdge, Expand, MemoInv, TypeOK
  <2>2. CASE Leave
    BY <2>2 DEF Leave, Forgotten, MemoInv, TypeOK
  <2>3. CASE Return
    <3>1. /\ calls # <<>> /\ calls \in Seq(CallType) /\ Last(calls) = calls[Len(calls)]
      BY <2>3, StackTypes DEF Return, MemoInv
    <3>2. Len(calls) \in 1..Len(calls)
      BY <3>1, FrontFacts
    <3>3. CASE c = Last(calls).cell
      <4>1. Len(calls) = 1 /\ path = <<>> /\ formula[root].array
        BY <3>1, <3>2, <3>3 DEF MemoInv, CallsAreNeeded
      <4> QED BY <2>3, <4>1 DEF Return, Memoized, OfRoot
    <3>4. CASE c # Last(calls).cell
      BY <2>3, <3>4 DEF Return, MemoInv, TypeOK
    <3> QED BY <3>3, <3>4
  <2>4. CASE ~PopPrecedent /\ ~Leave /\ ~Return
    BY <2>4 DEF Next, Step, Calculate, EndArrays, EndScalars, StartRoot, EvaluateRoot,
                ReadCell, vars
  <2> QED BY <2>1, <2>2, <2>3, <2>4
<1> QED BY <1>1, <1>2, <1>3, PTL DEF Spec, ResultsAreShared

-----------------------------------------------------------------------------
(* Recursion.  For scalar formulas that name all they read, the walk leaves *)
(* a cell only when whatever it reads has a result.                         *)
Shallow == Len(calls) <= 1

RootIsAlone ==
  /\ BusyWithRoot
  /\ path # <<>> =>
       /\ path[1].cell = root /\ root \notin finished
       /\ \A i \in 2..Len(path) : path[i].cell # root

(* A precedent that is no longer on the stack has a result, or was left, or *)
(* is the next cell of the path.                                            *)
Above(s, i, p) == i + 1 \in 1..Len(s) /\ p = s[i + 1].cell
PrecedentsAreDone ==
  \A i \in 1..Len(path) : \A p \in formula[path[i].cell].lexical \ path[i].todo :
    Known(p) \/ p \in finished \/ Above(path, i, p)

(* A cell the walk has left has a result, or is the root, or is being called. *)
LeftAreKnown ==
  root # NoCell =>
    \A c \in finished : Known(c) \/ c = root \/ (calls # <<>> /\ c = calls[1].cell)

RootIsReady ==
  root # NoCell /\ path = <<>> =>
    Known(root) \/ \A p \in formula[root].lexical : Known(p) \/ p = root

CallIsReady ==
  calls # <<>> =>
    /\ calls[1].cell \in Cell /\ calls[1].todo \subseteq formula[calls[1].cell].reads
    /\ \A p \in formula[calls[1].cell].reads : Known(p) \/ p = calls[1].cell

ShallowInv ==
  /\ TypeOK /\ Named /\ Shallow
  /\ RootIsAlone /\ PrecedentsAreDone /\ LeftAreKnown /\ RootIsReady /\ CallIsReady

(* A root starts a path of its own.                                         *)
LEMMA ShallowStart ==
  ASSUME ShallowInv, StartRoot
  PROVE  ShallowInv'
<1> USE DEF ShallowInv
<1>1. TypeOK' /\ formula' = formula /\ memo' = memo /\ calls' = calls /\ finished' = {}
  BY TypeStep DEF StartRoot, Next, Step
<1>2. PICK c \in batch : /\ root' = c
                         /\ path' = IF Known(c) THEN <<>> ELSE <<Frame(c, {})>>
  BY DEF StartRoot
<1>3. c \in Cell /\ c # NoCell /\ calls = <<>>
  BY CellsAreCounted DEF StartRoot, RootIsAlone, BusyWithRoot, TypeOK, Cell, NoCell
<1>4. /\ Len(<<>>) = 0 /\ Len(<<Frame(c, {})>>) = 1
      /\ <<Frame(c, {})>>[1] = Frame(c, {}) /\ <<Frame(c, {})>> # <<>>
      /\ Frame(c, {}).cell = c /\ Frame(c, {}).todo = Pending(c, {})
  BY DEF Frame
<1>5. RootIsAlone'
  BY <1>1, <1>2, <1>3, <1>4 DEF RootIsAlone, BusyWithRoot
<1>6. PrecedentsAreDone'
  <2>1. \A i \in 1..Len(path') : path'[i] = Frame(c, {})
    BY <1>2, <1>4
  <2>2. \A p \in formula[c].lexical \ Pending(c, {}) : Known(p)
    BY DEF Pending
  <2> QED BY <1>1, <1>4, <2>1, <2>2 DEF PrecedentsAreDone, Known
<1>7. LeftAreKnown' /\ RootIsReady' /\ CallIsReady' /\ Shallow'
  BY <1>1, <1>2, <1>3, <1>4
     DEF LeftAreKnown, RootIsReady, CallIsReady, Shallow, Known
<1> QED BY <1>1, <1>5, <1>6, <1>7 DEF Named

(* A precedent is skipped, marked or walked into.                           *)
LEMMA ShallowPop ==
  ASSUME ShallowInv, PopPrecedent
  PROVE  ShallowInv'
<1> USE DEF ShallowInv
<1>1. /\ TypeOK' /\ formula' = formula /\ calls' = calls /\ calls = <<>>
      /\ finished' = finished /\ root' = root
  BY TypeStep DEF PopPrecedent, Walking, Next, Step
<1>2. PICK p \in Last(path).todo : SkipPrecedent(p) \/ BackEdge(p) \/ Expand(p)
  BY DEF PopPrecedent
<1>3. /\ path # <<>> /\ path \in Seq(FrameType)
      /\ Last(path) \in FrameType /\ Last(path) = path[Len(path)]
  BY StackTypes DEF PopPrecedent, Walking
<1> DEFINE n == Len(path)
           e == [Last(path) EXCEPT !.todo = @ \ {p}]
           t == Popped(p)
<1>4. n \in Nat \ {0} /\ 1 \in 1..n
  BY <1>3, FrontFacts, FirstPlace
<1>5. /\ e \in FrameType /\ e.cell = Last(path).cell /\ e.todo = Last(path).todo \ {p}
      /\ t = [path EXCEPT ![Len(path)] = e]
  BY <1>3 DEF FrameType, Popped, Last
<1> HIDE DEF e
<1>6. /\ t \in Seq(FrameType) /\ Len(t) = n /\ t[n] = e
      /\ \A i \in 1..n - 1 : t[i] = path[i]
  <2>1. /\ [path EXCEPT ![Len(path)] = e] \in Seq(FrameType)
        /\ Len([path EXCEPT ![Len(path)] = e]) = Len(path)
        /\ [path EXCEPT ![Len(path)] = e][Len(path)] = e
        /\ \A i \in 1..Len(path) - 1 : [path EXCEPT ![Len(path)] = e][i] = path[i]
    BY <1>3, <1>5, TopFacts
  <2> QED BY <1>5, <2>1
<1> HIDE DEF n, t
<1>7. \A i \in 1..n : t[i].cell = path[i].cell
  <2> TAKE i \in 1..n
  <2>1. i = n \/ i \in 1..n - 1
    BY <1>4
  <2> QED BY <1>3, <1>5, <1>6, <2>1 DEF n
<1>a. \A i \in 1..n : t[i].todo = IF i = n THEN path[i].todo \ {p} ELSE path[i].todo
  <2> TAKE i \in 1..n
  <2>1. CASE i = n
    BY <1>3, <1>5, <1>6, <2>1 DEF n
  <2>2. CASE i # n
    <3>1. i \in 1..n - 1
      BY <1>4, <2>2
    <3> QED BY <1>6, <2>2, <3>1
  <2> QED BY <2>1, <2>2
<1>b. 1 \in 1..n /\ (\A i \in 2..n : i \in 1..n) /\ \A i \in 1..n : i + 1 \in 1..n + 1
  BY <1>4
<1>8. \A c \in Cell : Known(c) => Known(c)'
  BY <1>2 DEF SkipPrecedent, BackEdge, Expand, Known, TypeOK, AcrossCycle, NoResult
<1>9. p \in Cell
  BY <1>3 DEF FrameType
<1>10. /\ \A i \in 1..n : path[i] \in FrameType
       /\ \A i \in 1..n : formula[path[i].cell].lexical \subseteq Cell
  <2>1. \A i \in 1..n : path[i] \in FrameType
    BY <1>3, ElementOfSeq DEF n
  <2> QED BY <2>1, TypeFacts DEF FrameType, Formula
<1>11. /\ path[1].cell = root /\ root \notin finished /\ root # NoCell
       /\ \A i \in 2..n : path[i].cell # root
  BY <1>3 DEF RootIsAlone, BusyWithRoot, n
<1>12. LeftAreKnown' /\ CallIsReady' /\ Shallow'
  BY <1>1, <1>8 DEF LeftAreKnown, CallIsReady, Shallow, TypeOK
<1>13. CASE SkipPrecedent(p) \/ BackEdge(p)
  <2>1. path' = t /\ (Known(p)' \/ p \in finished)
    BY <1>8, <1>9, <1>13 DEF SkipPrecedent, BackEdge, Known, TypeOK, AcrossCycle, NoResult, t
  <2>2. path' # <<>>
    BY <1>4, <1>6, <2>1, EmptySeq
  <2>3. RootIsAlone'
    <3>1. t[1].cell = root /\ \A i \in 2..n : t[i].cell # root
      BY <1>7, <1>11, <1>b
    <3> QED BY <1>1, <1>6, <1>11, <2>1, <3>1 DEF RootIsAlone, BusyWithRoot
  <2>4. ASSUME NEW i \in 1..n, NEW q \in formula[t[i].cell].lexical \ t[i].todo
        PROVE  Known(q)' \/ q \in finished \/ Above(t, i, q)
    <3>1. CASE q = p /\ i = n
      BY <2>1, <3>1
    <3>2. CASE ~(q = p /\ i = n)
      <4>1. q \in formula[path[i].cell].lexical \ path[i].todo /\ q \in Cell
        BY <1>7, <1>10, <1>a, <3>2
      <4>2. Known(q) \/ q \in finished \/ Above(path, i, q)
        BY <4>1 DEF PrecedentsAreDone, n
      <4>3. Above(path, i, q) => Above(t, i, q)
        BY <1>6, <1>7 DEF Above, n
      <4> QED BY <1>8, <4>1, <4>2, <4>3
    <3> QED BY <3>1, <3>2
  <2>5. PrecedentsAreDone'
    BY <1>1, <1>6, <2>1, <2>4 DEF PrecedentsAreDone, Above
  <2> QED BY <1>1, <1>12, <2>2, <2>3, <2>5 DEF Named, RootIsReady
<1>14. CASE Expand(p)
  <2> DEFINE f == Frame(p, finished)
  <2>1. /\ path' = Append(t, f) /\ f \in FrameType /\ f.cell = p
        /\ f.todo = Pending(p, finished) /\ p \notin CellsOf(path) /\ memo' = memo
    BY <1>9, <1>14, TypeFacts DEF Expand, Frame, TypeOK, t
  <2> HIDE DEF f
  <2>2. /\ Len(path') = n + 1 /\ path'[n + 1] = f
        /\ \A i \in 1..n : path'[i] = t[i]
    BY <1>6, <2>1, PushFacts
  <2>3. path' # <<>>
    BY <1>4, <2>2
  <2>4. \A i \in 1..n + 1 : i = n + 1 \/ i \in 1..n
    BY <1>4
  <2>5. p # root
    BY <1>4, <1>11, <2>1 DEF CellsOf, n
  <2>6. RootIsAlone'
    <3>1. \A i \in 2..n + 1 : path'[i].cell # root
      <4> TAKE i \in 2..n + 1
      <4>1. CASE i = n + 1
        BY <2>1, <2>2, <2>5, <4>1
      <4>2. CASE i # n + 1
        <5>1. i \in 1..n /\ i \in 2..n
          BY <1>4, <4>2
        <5>2. path'[i].cell = path[i].cell
          BY <1>7, <2>2, <5>1
        <5> QED BY <1>11, <5>1, <5>2
      <4> QED BY <4>1, <4>2
    <3>2. path'[1].cell = root
      BY <1>7, <1>11, <1>b, <2>2
    <3> QED BY <1>1, <1>11, <2>2, <3>1, <3>2 DEF RootIsAlone, BusyWithRoot
  <2>7. ASSUME NEW i \in 1..n + 1, NEW q \in formula[path'[i].cell].lexical \ path'[i].todo
        PROVE  Known(q) \/ q \in finished \/ Above(path', i, q)
    <3>1. CASE i = n + 1
      BY <2>1, <2>2, <3>1 DEF Pending
    <3>2. CASE i = n /\ q = p
      BY <1>4, <2>1, <2>2, <3>2 DEF Above
    <3>3. CASE i \in 1..n /\ ~(i = n /\ q = p)
      <4>1. q \in formula[path[i].cell].lexical \ path[i].todo
        BY <1>7, <1>a, <2>2, <3>3
      <4>2. Known(q) \/ q \in finished \/ Above(path, i, q)
        BY <3>3, <4>1 DEF PrecedentsAreDone, n
      <4>3. Above(path, i, q) => Above(path', i, q)
        <5>1. ASSUME i + 1 \in 1..n PROVE i + 1 \in 1..n + 1 /\ path'[i + 1].cell = path[i + 1].cell
          BY <1>4, <1>7, <1>b, <2>2, <5>1
        <5> QED BY <2>2, <5>1 DEF Above, n
      <4> QED BY <4>2, <4>3
    <3> QED BY <2>4, <3>1, <3>2, <3>3
  <2>8. PrecedentsAreDone'
    BY <1>1, <2>1, <2>2, <2>7 DEF PrecedentsAreDone, Above, Known
  <2> QED BY <1>1, <1>12, <2>3, <2>6, <2>8 DEF Named, RootIsReady
<1> QED BY <1>2, <1>13, <1>14

(* A stack of at most one element.                                          *)
LEMMA AtMostOne ==
  ASSUME NEW n \in Nat \ {0}, n <= 1
  PROVE  n = 1
OBVIOUS

(* A cell left by the walk finds all it reads.                              *)
LEMMA ShallowLeave ==
  ASSUME ShallowInv, Leave
  PROVE  ShallowInv'
<1> USE DEF ShallowInv
<1> DEFINE n == Len(path)
           c == Last(path).cell
<1>1. /\ TypeOK' /\ formula' = formula /\ calls = <<>> /\ root' = root
      /\ path' = Front(path) /\ finished' = finished \cup {c} /\ path # <<>>
      /\ Last(path).todo = {}
      /\ memo' = IF c \in provisional THEN [memo EXCEPT ![c] = NoResult] ELSE memo
      /\ calls' = IF c # root /\ memo'[c] = NoResult THEN <<Call(c)>> ELSE <<>>
  BY TypeStep DEF Leave, Forgotten, Walking, Next, Step
<1>2. /\ path \in Seq(FrameType) /\ Last(path) \in FrameType /\ Last(path) = path[n]
      /\ n \in Nat \ {0} /\ Len(path') = n - 1 /\ path' \in Seq(FrameType)
      /\ \A i \in 1..n - 1 : path'[i] = path[i]
  BY <1>1, StackTypes, FrontFacts
<1>3. c \in Cell /\ formula[c].lexical \subseteq Cell
  BY <1>2, TypeFacts DEF FrameType, Formula
<1>4. /\ path[1].cell = root /\ root \notin finished /\ root # NoCell
      /\ \A i \in 2..n : path[i].cell # root
  BY <1>1 DEF RootIsAlone, BusyWithRoot
<1>5. \A q \in Cell : Known(q) => Known(q)' \/ q = c
  BY <1>1 DEF Known, TypeOK
<1>6. path' = <<>> <=> n = 1
  BY <1>2, EmptySeq
<1>7. c = root <=> n = 1
  <2>1. n = 1 \/ n \in 2..n
    BY <1>2
  <2> QED BY <1>2, <1>4, <2>1
<1>8. \A p \in formula[c].lexical : Known(p)' \/ p = c
  <2> TAKE p \in formula[c].lexical
  <2>1. n \in 1..n /\ ~(n + 1 \in 1..n)
    BY <1>2
  <2>2. Known(p) \/ p \in finished
    BY <1>1, <1>2, <2>1 DEF PrecedentsAreDone, Above
  <2>3. p \in finished => Known(p)
    BY <1>1, <1>4 DEF LeftAreKnown
  <2> QED BY <1>3, <1>5, <2>2, <2>3
<1>9. Call(c).cell = c /\ Call(c).todo = formula[c].reads
  BY DEF Call
<1>10. /\ Len(<<Call(c)>>) = 1 /\ <<Call(c)>>[1] = Call(c)
       /\ <<Call(c)>> # <<>> /\ Len(<<>>) = 0
  OBVIOUS
<1> HIDE DEF n, c
<1>11. RootIsAlone'
  <2>1. \A i \in 2..n - 1 : i \in 1..n - 1 /\ i \in 2..n
    BY <1>2
  <2>2. n # 1 => 1 \in 1..n - 1
    BY <1>2
  <2>3. \A i \in 2..n - 1 : path'[i].cell # root
    BY <1>2, <1>4, <2>1
  <2>4. path' # <<>> => path'[1].cell = root /\ root \notin finished'
    BY <1>1, <1>2, <1>4, <1>6, <1>7, <2>2
  <2> QED BY <1>1, <1>2, <1>4, <2>3, <2>4 DEF RootIsAlone, BusyWithRoot
<1>12. PrecedentsAreDone'
  <2>1. ASSUME NEW i \in 1..n - 1, NEW p \in formula[path[i].cell].lexical \ path[i].todo
        PROVE  Known(p)' \/ p \in finished' \/ Above(path', i, p)
    <3>1. i \in 1..n /\ i + 1 \in 1..n
      BY <1>2
    <3>2. p \in Cell
      <4>1. path[i] \in FrameType
        BY <1>2, <3>1, ElementOfSeq DEF n
      <4> QED BY <4>1, TypeFacts DEF FrameType, Formula
    <3>3. Known(p) \/ p \in finished \/ p = path[i + 1].cell
      BY <3>1 DEF PrecedentsAreDone, Above, n
    <3>4. CASE p = path[i + 1].cell
      <4>1. CASE i + 1 = n
        BY <1>1, <1>2, <3>4, <4>1 DEF c
      <4>2. CASE i + 1 # n
        <5>1. i + 1 \in 1..n - 1
          BY <1>2, <4>2
        <5> QED BY <1>2, <3>4, <5>1 DEF Above
      <4> QED BY <4>1, <4>2
    <3> QED BY <1>1, <1>5, <3>2, <3>3, <3>4
  <2>2. \A i \in 1..Len(path') : i \in 1..n - 1 /\ path'[i] = path[i]
    BY <1>2
  <2> QED BY <1>1, <2>1, <2>2 DEF PrecedentsAreDone, Above
<1>13. LeftAreKnown'
  <2>1. ASSUME NEW q \in finished'
        PROVE  Known(q)' \/ q = root \/ (calls' # <<>> /\ q = calls'[1].cell)
    <3>1. q \in Cell
      BY <1>1 DEF TypeOK
    <3>2. CASE q = c
      BY <1>1, <1>3, <1>9, <1>10, <3>2 DEF Known
    <3>3. CASE q # c
      BY <1>1, <1>4, <1>5, <3>1, <3>3 DEF LeftAreKnown
    <3> QED BY <3>2, <3>3
  <2> QED BY <1>1, <2>1 DEF LeftAreKnown
<1>14. RootIsReady'
  BY <1>1, <1>6, <1>7, <1>8 DEF RootIsReady, Known
<1>15. CallIsReady'
  <2>1. calls' # <<>> => calls'[1] = Call(c)
    BY <1>1, <1>10
  <2>2. formula[c].reads \subseteq formula[c].lexical
    BY <1>3 DEF Named
  <2> QED BY <1>1, <1>3, <1>8, <1>9, <2>1, <2>2 DEF CallIsReady, Known
<1>16. Shallow'
  BY <1>1, <1>10 DEF Shallow
<1> QED BY <1>1, <1>11, <1>12, <1>13, <1>14, <1>15, <1>16 DEF Named

(* The root finds all it reads.                                             *)
LEMMA ShallowRoot ==
  ASSUME ShallowInv, EvaluateRoot
  PROVE  ShallowInv'
<1> USE DEF ShallowInv
<1>1. /\ TypeOK' /\ formula' = formula /\ memo' = memo /\ finished' = finished
      /\ path = <<>> /\ path' = <<>> /\ calls = <<>> /\ root \in Cell /\ root # NoCell
  BY TypeStep DEF EvaluateRoot, Next, Step, TypeOK
<1>2. Named' /\ PrecedentsAreDone'
  BY <1>1 DEF Named, PrecedentsAreDone
<1>3. Settles(root) <=> Known(root)
  BY <1>1 DEF Settles, Named
<1>4. CASE Settles(root)
  <2>1. calls' = <<>> /\ root' = NoCell
    BY <1>4 DEF EvaluateRoot, RootDone
  <2> QED BY <1>1, <1>2, <2>1 DEF RootIsAlone, BusyWithRoot, LeftAreKnown, RootIsReady,
                                  CallIsReady, Shallow
<1>5. CASE ~Settles(root)
  <2>1. calls' = <<Call(root)>> /\ root' = root
    BY <1>5 DEF EvaluateRoot
  <2>2. Len(calls') = 1 /\ calls'[1] = Call(root) /\ calls' # <<>>
    BY <2>1
  <2>3. Call(root).cell = root /\ Call(root).todo = formula[root].reads
    BY DEF Call
  <2>4. \A p \in formula[root].reads : Known(p) \/ p = root
    BY <1>1, <1>3, <1>5 DEF RootIsReady, Named
  <2>5. CallIsReady' /\ Shallow'
    BY <1>1, <2>2, <2>3, <2>4 DEF CallIsReady, Shallow, Known
  <2>6. RootIsAlone' /\ LeftAreKnown' /\ RootIsReady'
    BY <1>1, <2>1 DEF RootIsAlone, BusyWithRoot, LeftAreKnown, RootIsReady, Known
  <2> QED BY <1>1, <1>2, <2>5, <2>6
<1> QED BY <1>4, <1>5

(* A call reads results, or itself, and calls nothing.                      *)
LEMMA ShallowRead ==
  ASSUME ShallowInv, ReadCell
  PROVE  ShallowInv'
<1> USE DEF ShallowInv
<1>1. /\ TypeOK' /\ formula' = formula /\ memo' = memo /\ finished' = finished
      /\ path' = path /\ root' = root /\ calls # <<>>
  BY TypeStep DEF ReadCell, Next, Step, walk, roots
<1>2. /\ calls \in Seq(CallType) /\ Last(calls) \in CallType
      /\ Last(calls) = calls[Len(calls)] /\ Len(calls) \in Nat \ {0}
  BY <1>1, StackTypes, FrontFacts
<1>3. Len(calls) = 1 /\ Last(calls) = calls[1]
  BY <1>2, AtMostOne DEF Shallow
<1>4. PICK r \in Last(calls).todo :
        calls' = IF Known(r) THEN [calls EXCEPT ![Len(calls)] = Observing(@, r, memo[r])]
                 ELSE IF r \in CellsOf(calls)
                 THEN [calls EXCEPT ![Len(calls)] = Observing(@, r, AcrossCycle)]
                 ELSE Append(calls, Call(r))
  BY DEF ReadCell
<1>5. r \in Cell /\ (Known(r) \/ r = calls[1].cell)
  BY <1>1, <1>2, <1>3 DEF CallIsReady, CallType
<1>6. calls[1].cell \in CellsOf(calls)
  BY <1>3 DEF CellsOf
<1>7. PICK result \in Result :
        calls' = [calls EXCEPT ![Len(calls)] = Observing(@, r, result)]
  <2>1. Known(r) => memo[r] \in Result
    BY <1>5 DEF Known, TypeOK
  <2> QED BY <1>4, <1>5, <1>6, <2>1, TypeFacts
<1> DEFINE e == Observing(Last(calls), r, result)
<1>8. e \in CallType /\ e.cell = calls[1].cell /\ e.todo \subseteq calls[1].todo
  BY <1>2, <1>3, <1>5, TypeFacts DEF Observing, CallType
<1>9. calls' = [calls EXCEPT ![Len(calls)] = e]
  BY <1>2, <1>7
<1> HIDE DEF e
<1>10. Len(calls') = 1 /\ calls'[1] = e /\ calls' # <<>>
  BY <1>1, <1>2, <1>3, <1>8, <1>9, TopFacts
<1>11. CallIsReady' /\ Shallow' /\ LeftAreKnown' /\ RootIsAlone'
  BY <1>1, <1>8, <1>10
     DEF CallIsReady, Shallow, LeftAreKnown, RootIsAlone, BusyWithRoot, Known
<1> QED BY <1>1, <1>11 DEF Named, PrecedentsAreDone, Above, RootIsReady, Known

(* A call leaves a result.                                                  *)
LEMMA ShallowReturn ==
  ASSUME ShallowInv, Return
  PROVE  ShallowInv'
<1> USE DEF ShallowInv
<1>1. /\ TypeOK' /\ formula' = formula /\ finished' = finished
      /\ path' = path /\ calls # <<>> /\ calls' = Front(calls)
  BY TypeStep DEF Return, Next, Step
<1>2. /\ calls \in Seq(CallType) /\ Last(calls) \in CallType
      /\ Last(calls) = calls[Len(calls)] /\ Len(calls) \in Nat \ {0}
      /\ Len(calls') = Len(calls) - 1 /\ calls' \in Seq(CallType)
  BY <1>1, StackTypes, FrontFacts
<1>3. Len(calls) = 1 /\ Last(calls) = calls[1]
  BY <1>2, AtMostOne DEF Shallow
<1>4. calls' = <<>> /\ Len(<<>>) = 0
  BY <1>2, <1>3, EmptySeq
<1>5. root # NoCell
  BY <1>1 DEF RootIsAlone, BusyWithRoot
<1> DEFINE c == calls[1].cell
<1>6. c \in Cell /\ calls[1].result \in Result
  BY <1>2, <1>3 DEF CallType
<1>7. memo' = [memo EXCEPT ![c] = calls[1].result]
  <2>1. Memoized
    BY <1>5 DEF Memoized, OfRoot, Named, TypeOK
  <2> QED BY <1>3, <2>1 DEF Return
<1> HIDE DEF c
<1>8. (\A q \in Cell : Known(q) => memo'[q] # NoResult) /\ memo'[c] # NoResult
  <2>1. calls[1].result # NoResult /\ memo \in [Cell -> Result \cup {NoResult}]
    BY <1>6, TypeFacts DEF TypeOK
  <2>2. memo'[c] # NoResult
    BY <1>6, <1>7, <2>1
  <2>3. \A q \in Cell : q # c => memo'[q] = memo[q]
    BY <1>6, <1>7, <2>1
  <2> QED BY <2>2, <2>3 DEF Known
<1>9. root' = IF path = <<>> THEN NoCell ELSE root
  BY <1>3 DEF Return, OfRoot, RootDone
<1>10. LeftAreKnown'
  <2>1. finished \subseteq Cell
    BY DEF TypeOK
  <2>2. \A q \in finished : Known(q) \/ q = root \/ q = c
    BY <1>1, <1>5 DEF LeftAreKnown, c
  <2>3. \A q \in finished : memo'[q] # NoResult \/ q = root
    BY <1>8, <2>1, <2>2
  <2> QED BY <1>1, <1>9, <2>3 DEF LeftAreKnown, Known
<1>11. PrecedentsAreDone'
  <2>1. \A i \in 1..Len(path) : formula[path[i].cell].lexical \subseteq Cell
    <3>1. \A i \in 1..Len(path) : path[i] \in FrameType
      BY StackTypes, ElementOfSeq
    <3> QED BY <3>1, TypeFacts DEF FrameType, Formula
  <2> QED BY <1>1, <1>8, <2>1 DEF PrecedentsAreDone, Above, Known
<1> QED BY <1>1, <1>4, <1>9, <1>10, <1>11
        DEF Named, Shallow, RootIsAlone, BusyWithRoot, RootIsReady, CallIsReady

(* Only a calculation under way has a root.                                 *)
IdleHasNoRoot == phase = "Idle" => root = NoCell

(* Every step keeps the invariant of the recursion.                         *)
LEMMA ShallowInvStep ==
  ASSUME ShallowInv, IdleHasNoRoot, [Next]_vars
  PROVE  ShallowInv' /\ IdleHasNoRoot'
<1>a. IdleHasNoRoot'
  BY DEF IdleHasNoRoot, Next, Step, Calculate, EndArrays, EndScalars, BatchDone, StartRoot,
         PopPrecedent, Leave, Forgotten, EvaluateRoot, RootDone, ReadCell, Return, vars, roots, walk
<1>1. CASE (\E a, b \in Cell : a <= b /\ Calculate(a..b)) \/ EndArrays \/ EndScalars
  <2>1. TypeOK' /\ formula' = formula
    BY TypeStep, FormulasStay DEF ShallowInv
  <2>2. path' = path /\ root' = root /\ calls' = calls /\ finished' = finished
    BY <1>1 DEF Calculate, EndArrays, EndScalars, walk
  <2>3. root = NoCell
    BY <1>1 DEF IdleHasNoRoot, Calculate, EndArrays, EndScalars, BatchDone
  <2>4. path = <<>> /\ calls = <<>>
    BY <2>3 DEF ShallowInv, RootIsAlone, BusyWithRoot
  <2>5. Len(<<>>) = 0
    OBVIOUS
  <2> QED BY <1>a, <2>1, <2>2, <2>3, <2>4, <2>5 DEF ShallowInv, Named, Shallow,
        RootIsAlone, BusyWithRoot, PrecedentsAreDone, LeftAreKnown, RootIsReady, CallIsReady
<1>2. CASE UNCHANGED vars
  <2>1. TypeOK'
    BY TypeStep DEF ShallowInv
  <2> QED BY <1>a, <1>2, <2>1 DEF vars, roots, walk, ShallowInv, Named, Shallow,
        RootIsAlone, BusyWithRoot, PrecedentsAreDone, Above, LeftAreKnown, RootIsReady,
        CallIsReady, Known
<1> QED BY <1>a, <1>1, <1>2, ShallowStart, ShallowPop, ShallowLeave, ShallowRoot, ShallowRead,
           ShallowReturn DEF Next, Step

(* evaluate_cell is never entered from evaluate_cell: however long a chain  *)
(* of named references is and whatever cycles it closes, the native stack   *)
(* stays shallow.                                                           *)
THEOREM RecursionStaysShallow == Spec => []RecursionIsShallow
<1> DEFINE Inv == Named => ShallowInv /\ IdleHasNoRoot
<1>1. Init => Inv
  <2> SUFFICES ASSUME Init, Named PROVE ShallowInv /\ IdleHasNoRoot
    OBVIOUS
  <2>1. TypeOK
    BY FormulasAreFormulas, EmptySeq DEF Init, TypeOK, Nothing
  <2>2. IdleHasNoRoot
    BY DEF Init, IdleHasNoRoot
  <2>3. path = <<>> /\ calls = <<>> /\ Len(<<>>) = 0 /\ root = NoCell
    BY DEF Init
  <2> QED BY <2>1, <2>2, <2>3
          DEF ShallowInv, Shallow, RootIsAlone, BusyWithRoot, PrecedentsAreDone,
              LeftAreKnown, RootIsReady, CallIsReady
<1>2. Inv /\ [Next]_vars => Inv'
  <2>1. [Next]_vars => (Named' => Named)
    BY FormulasStay DEF Named
  <2> QED BY <2>1, ShallowInvStep
<1>3. Inv => RecursionIsShallow
  BY DEF ShallowInv, Shallow, RecursionIsShallow
<1> QED BY <1>1, <1>2, <1>3, PTL DEF Spec
=============================================================================
