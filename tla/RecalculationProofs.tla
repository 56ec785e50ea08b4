------------------------ MODULE RecalculationProofs ------------------------
(***************************************************************************)
(* What a calculation of a workbook leaves behind: every variable keeps    *)
(* its type; and, for workbooks without array formulas, a file marked as   *)
(* fully calculated shows the values of its formulas, and all dependents   *)
(* of a volatile cell show one draw.                                       *)
(***************************************************************************)
EXTENDS Recalculation, ListFacts

-----------------------------------------------------------------------------
(* Numbers and cells.                                                       *)
LEMMA CellFacts ==
  /\ IsFiniteSet(Cell) /\ Cardinality(Cell) \in Nat /\ Cell \subseteq Nat
  /\ Cap \in Nat /\ \A s \in Sheet : SheetCells[s] \subseteq Cell
<1>1. IsFiniteSet(Cell) /\ Cell = 1..Cardinality(Cell) /\ Cap \in Nat
  BY CellsAreNumbered
<1>2. Cardinality(Cell) \in Nat
  BY <1>1, FS_CardinalityType
<1>3. Cell \subseteq Nat
  BY <1>1, <1>2
<1>4. \A s \in Sheet : SheetCells[s] \subseteq Cell
  BY SheetsAreThere DEF Sheet
<1> QED BY <1>1, <1>2, <1>3, <1>4

LEMMA MinIsLeast ==
  ASSUME NEW T, T \subseteq Nat, T # {}
  PROVE  Min(T) \in T /\ \A x \in T : Min(T) <= x
<1>1. \E x \in T : \A y \in T : x <= y
  BY Smallest
<1> QED BY <1>1 DEF Min

LEMMA SheetFacts ==
  /\ Sheet \subseteq Nat /\ Sheet # {} /\ IsFiniteSet(Sheet)
  /\ \A T \in SUBSET Sheet : T # {} => Min(T) \in T /\ \A x \in T : Min(T) <= x
<1>1. Len(SheetCells) \in Nat /\ Len(SheetCells) # 0
  BY SheetsAreThere
<1>2. Sheet \subseteq Nat /\ Sheet # {}
  BY <1>1 DEF Sheet
<1>3. IsFiniteSet(Sheet)
  BY <1>1, FS_Interval DEF Sheet
<1> QED BY <1>2, <1>3, MinIsLeast

-----------------------------------------------------------------------------
(* A function defined by steps.                                             *)
Steps(V, n, base, G) ==
  \E f \in [0..n -> V] : f[0] = base /\ \A k \in 1..n : f[k] = G[f[k - 1]]

LEMMA StepsExist ==
  ASSUME NEW V, NEW n \in Nat, NEW base \in V, NEW G \in [V -> V]
  PROVE  Steps(V, n, base, G)
<1> DEFINE Runs(m) == \E f \in [0..m -> V] : f[0] = base /\ \A k \in 1..m : f[k] = G[f[k - 1]]
           R == {m \in Nat : Runs(m)}
<1>1. Runs(0)
  <2> DEFINE f == [k \in 0..0 |-> base]
  <2>1. f \in [0..0 -> V] /\ f[0] = base /\ \A k \in 1..0 : f[k] = G[f[k - 1]]
    OBVIOUS
  <2> QED BY <2>1
<1>2. ASSUME NEW m \in Nat, Runs(m) PROVE Runs(m + 1)
  <2>1. PICK f \in [0..m -> V] : f[0] = base /\ \A k \in 1..m : f[k] = G[f[k - 1]]
    BY <1>2
  <2> DEFINE h == [k \in 0..m + 1 |-> IF k = m + 1 THEN G[f[m]] ELSE f[k]]
  <2>2. f[m] \in V /\ G[f[m]] \in V
    OBVIOUS
  <2>3. h \in [0..m + 1 -> V]
    BY <2>2
  <2>4. h[0] = base /\ h[m + 1] = G[f[m]] /\ \A k \in 0..m : h[k] = f[k]
    BY <2>1
  <2>5. \A k \in 1..m + 1 : h[k] = G[h[k - 1]]
    <3> TAKE k \in 1..m + 1
    <3> HIDE DEF h
    <3>1. CASE k = m + 1
      BY <2>4, <3>1
    <3>2. CASE k # m + 1
      <4>1. k \in 1..m /\ k \in 0..m /\ k - 1 \in 0..m
        BY <3>2
      <4> QED BY <2>1, <2>4, <4>1
    <3> QED BY <3>1, <3>2
  <2> HIDE DEF h
  <2> QED BY <2>3, <2>4, <2>5
<1> HIDE DEF Runs
<1>3. n \in R
  <2>1. 0 \in R /\ \A m \in Nat : m \in R => m + 1 \in R
    BY <1>1, <1>2
  <2> HIDE DEF R
  <2> QED BY <2>1, NatInduct
<1> QED BY <1>3 DEF Runs, Steps

(* The sum of a function of numbers is a number.                            *)
LEMMA SumFacts ==
  ASSUME NEW S, IsFiniteSet(S), NEW g \in [S -> Nat]
  PROVE  SumFunction(g) \in Nat /\ \A x : S = {x} => SumFunction(g) = g[x]
<1> DEFINE One(s) == CHOOSE x \in s : TRUE
           Body(it, s) == IF s = {} THEN 0 ELSE g[One(s)] + it[s \ {One(s)}]
           Eq(it) == it = [s \in SUBSET S |-> Body(it, s)]
           sum == CHOOSE it : Eq(it)
           Small(n) == {s \in SUBSET S : Cardinality(s) <= n}
           Sums(n) == \E it \in [Small(n) -> Nat] : \A s \in Small(n) : it[s] = Body(it, s)
           R == {n \in Nat : Sums(n)}
<1>1. SumFunction(g) = sum[S]
  <2>1. DOMAIN g = S
    OBVIOUS
  <2> QED BY <2>1 DEF SumFunction, SumFunctionOnSet, FoldFunctionOnSet, MapThenFoldSet
<1>2. \A s \in SUBSET S :
        /\ IsFiniteSet(s) /\ Cardinality(s) \in Nat /\ (Cardinality(s) = 0 <=> s = {})
        /\ s # {} => /\ One(s) \in s /\ g[One(s)] \in Nat
                     /\ s \ {One(s)} \in SUBSET S /\ Cardinality(s \ {One(s)}) = Cardinality(s) - 1
  <2> TAKE s \in SUBSET S
  <2>1. IsFiniteSet(s) /\ Cardinality(s) \in Nat /\ (Cardinality(s) = 0 <=> s = {})
    BY FS_Subset, FS_CardinalityType, FS_EmptySet
  <2>2. ASSUME s # {} PROVE One(s) \in s
    BY <2>2
  <2> HIDE DEF One
  <2>3. ASSUME s # {} PROVE Cardinality(s \ {One(s)}) = Cardinality(s) - 1
    BY <2>1, <2>2, <2>3, FS_RemoveElement
  <2> QED BY <2>1, <2>2, <2>3
<1> HIDE DEF One
<1>0. \A s \in SUBSET S :
        IsFiniteSet(s) /\ Cardinality(s) \in Nat /\ (Cardinality(s) = 0 <=> s = {})
  BY <1>2
<1>3. Sums(0)
  <2>1. Small(0) = {{}}
    <3>1. \A s \in SUBSET S : Cardinality(s) <= 0 <=> s = {}
      BY <1>0
    <3> QED BY <3>1
  <2> DEFINE it == [s \in Small(0) |-> 0]
  <2>2. it \in [Small(0) -> Nat] /\ \A s \in Small(0) : it[s] = Body(it, s)
    BY <2>1
  <2> QED BY <2>2
<1>4. ASSUME NEW n \in Nat, Sums(n) PROVE Sums(n + 1)
  <2>1. PICK it \in [Small(n) -> Nat] : \A s \in Small(n) : it[s] = Body(it, s)
    BY <1>4
  <2> DEFINE more == [s \in Small(n + 1) |-> Body(it, s)]
  <2>2. \A s \in Small(n + 1) : s # {} => s \ {One(s)} \in Small(n)
    BY <1>2
  <2>3. \A s \in Small(n) : s \in Small(n + 1) /\ more[s] = it[s]
    <3> TAKE s \in Small(n)
    <3>1. s \in Small(n + 1)
      <4>1. s \in SUBSET S /\ Cardinality(s) \in Nat /\ Cardinality(s) <= n
        BY <1>0
      <4> QED BY <4>1
    <3> QED BY <2>1, <3>1
  <2>4. \A s \in Small(n + 1) : more[s] \in Nat /\ more[s] = Body(more, s)
    <3> TAKE s \in Small(n + 1)
    <3>1. more[s] = Body(it, s)
      OBVIOUS
    <3> HIDE DEF more
    <3>2. CASE s = {}
      BY <3>1, <3>2
    <3>3. CASE s # {}
      <4>1. s \ {One(s)} \in Small(n) /\ g[One(s)] \in Nat
        BY <1>2, <2>2, <3>3
      <4>2. it[s \ {One(s)}] \in Nat /\ more[s \ {One(s)}] = it[s \ {One(s)}]
        BY <2>3, <4>1
      <4> QED BY <3>1, <3>3, <4>1, <4>2
    <3> QED BY <3>2, <3>3
  <2>5. more \in [Small(n + 1) -> Nat]
    <3>1. more = [s \in Small(n + 1) |-> more[s]]
      OBVIOUS
    <3> HIDE DEF more
    <3> QED BY <2>4, <3>1
  <2> HIDE DEF more, Body, Small
  <2> QED BY <2>4, <2>5
<1>5. Cardinality(S) \in Nat /\ \A s \in SUBSET S : Cardinality(s) <= Cardinality(S)
  BY FS_CardinalityType, FS_Subset
<1>6. Small(Cardinality(S)) = SUBSET S
  BY <1>5
<1>7. Sums(Cardinality(S))
  <2> HIDE DEF Sums
  <2>1. 0 \in R /\ \A n \in Nat : n \in R => n + 1 \in R
    BY <1>3, <1>4
  <2>2. Cardinality(S) \in R
    <3> HIDE DEF R
    <3> QED BY <1>5, <2>1, NatInduct
  <2> QED BY <2>2
<1>8. PICK it \in [SUBSET S -> Nat] : \A s \in SUBSET S : it[s] = Body(it, s)
  <2> HIDE DEF Small, Body
  <2> QED BY <1>6, <1>7
<1>9. Eq(it)
  <2>1. it = [s \in SUBSET S |-> it[s]]
    OBVIOUS
  <2> HIDE DEF Body
  <2> QED BY <1>8, <2>1
<1>10. Eq(sum)
  <2> HIDE DEF Eq
  <2> QED BY <1>9
<1> HIDE DEF sum
<1>11. \A s \in SUBSET S : sum[s] = Body(sum, s)
  BY <1>10
<1>15. \A s \in SUBSET S : s = {} => sum[s] \in Nat
  <2> SUFFICES ASSUME NEW s \in SUBSET S, s = {} PROVE sum[s] \in Nat
    OBVIOUS
  <2>1. sum[s] = 0
    BY <1>11
  <2> QED BY <2>1
<1> DEFINE Wrong == {s \in SUBSET S : sum[s] \notin Nat}
<1>12. Wrong = {}
  <2> SUFFICES ASSUME Wrong # {} PROVE FALSE
    OBVIOUS
  <2>1. Wrong \subseteq FiniteSubsetsOf(S)
    BY <1>0 DEF FiniteSubsetsOf
  <2>2. PICK s \in Wrong : \A t \in Wrong : ~(t \subseteq s /\ t # s)
    <3> HIDE DEF Wrong
    <3> QED BY <2>1, FinMin
  <2>6. s \in SUBSET S /\ sum[s] \notin Nat
    OBVIOUS
  <2>3. s # {}
    BY <1>15, <2>6
  <2>4. s \ {One(s)} \in SUBSET S /\ s \ {One(s)} \subseteq s /\ s \ {One(s)} # s /\ g[One(s)] \in Nat
    BY <1>2, <2>3
  <2>5. sum[s \ {One(s)}] \in Nat
    BY <2>2, <2>4
  <2>7. sum[s] = g[One(s)] + sum[s \ {One(s)}]
    BY <1>11, <2>3, <2>6
  <2> QED BY <2>4, <2>5, <2>6, <2>7
<1>13. sum[S] \in Nat
  BY <1>12
<1>14. ASSUME NEW x, S = {x} PROVE sum[S] = g[x]
  <2>1. One(S) = x /\ S # {} /\ S \ {x} = {} /\ {} \in SUBSET S
    BY <1>2, <1>14
  <2>2. sum[{}] = 0
    BY <1>11, <2>1
  <2>3. sum[S] = g[x] + 0 /\ g[x] \in Nat
    BY <1>11, <1>14, <2>1, <2>2
  <2> QED BY <2>3
<1> QED BY <1>1, <1>13, <1>14

-----------------------------------------------------------------------------
(* What a formula gives for what it sees.                                  *)
FormulasOK == formula \in [Cell -> Formula] /\ \A c \in Cell : IsFormula(formula[c])
Failures == {Circular, Unsupported}

LEMMA OutcomeFacts ==
  /\ Stored \cap Failures = {} /\ NoResult \notin Stored \cup Failures /\ Circular # Unsupported
  /\ Outcome = Stored \cup Failures \cup {NoResult} /\ Calc \notin Number
  /\ Stored = Number \cup {Calc} /\ 0 \in Stored /\ 0 \in Number
  /\ Circular \in Failures /\ Unsupported \in Failures /\ Failures = {Circular, Unsupported}
<1>1. Cap \in Nat
  BY CellFacts
<1> QED BY <1>1 DEF Stored, Failures, Outcome, Number, Calc, Circular, Unsupported, NoResult

LEMMA ReadsFacts ==
  ASSUME FormulasOK, NEW c \in Cell
  PROVE  /\ Reads(c) \subseteq Cell
         /\ \A i \in DOMAIN Elements(c) :
              /\ Elements(c)[i].plus \in Number /\ Elements(c)[i].left \in BOOLEAN
              /\ Elements(c)[i].reads \subseteq Reads(c)
         /\ HasFormula(c) => 1 \in DOMAIN Elements(c)
         /\ HasFormula(c) /\ ~formula[c].array => DOMAIN Elements(c) = {1}
         /\ ~HasFormula(c) => Reads(c) = {} /\ formula[c].supported /\ ~formula[c].volatile
                              /\ ~formula[c].array
         /\ formula[c].supported \in BOOLEAN /\ formula[c].volatile \in BOOLEAN
<1> DEFINE E == [plus : Number, reads : SUBSET Cell, left : BOOLEAN]
<1>1. /\ formula[c] \in [elements : Seq(E), array : BOOLEAN, supported : BOOLEAN, volatile : BOOLEAN]
      /\ IsFormula(formula[c])
  BY DEF FormulasOK, Formula
<1>2. /\ Elements(c) \in Seq(E) /\ formula[c].supported \in BOOLEAN /\ formula[c].volatile \in BOOLEAN
      /\ formula[c].array \in BOOLEAN
  BY <1>1 DEF Elements
<1>3. \A i \in DOMAIN Elements(c) : Elements(c)[i] \in E
  <2> HIDE DEF E
  <2> QED BY <1>2
<1>4. \A i \in DOMAIN Elements(c) :
        /\ Elements(c)[i].plus \in Number /\ Elements(c)[i].left \in BOOLEAN
        /\ Elements(c)[i].reads \subseteq Cell
  BY <1>3
<1>5. DOMAIN Elements(c) = 1..Len(Elements(c)) /\ Len(Elements(c)) \in Nat
  BY <1>2
<1>6. Reads(c) \subseteq Cell /\ \A i \in DOMAIN Elements(c) : Elements(c)[i].reads \subseteq Reads(c)
  BY <1>4 DEF Reads
<1>7. ASSUME HasFormula(c) PROVE Elements(c) # <<>>
  BY <1>1, <1>7 DEF HasFormula, IsFormula, Elements
<1>8. HasFormula(c) => Len(Elements(c)) # 0
  BY <1>2, <1>7
<1>9. ~formula[c].array => Len(Elements(c)) <= 1
  BY <1>1 DEF IsFormula, Elements
<1>10. HasFormula(c) => 1 \in DOMAIN Elements(c)
  BY <1>5, <1>8
<1>11. HasFormula(c) /\ ~formula[c].array => DOMAIN Elements(c) = {1}
  BY <1>5, <1>8, <1>9
<1>12. ASSUME ~HasFormula(c)
       PROVE  Reads(c) = {} /\ formula[c].supported /\ ~formula[c].volatile /\ ~formula[c].array
  <2>1. formula[c] = NoFormula
    BY <1>12 DEF HasFormula
  <2>2. formula[c].supported /\ ~formula[c].volatile /\ ~formula[c].array /\ Elements(c) = <<>>
    BY <2>1 DEF NoFormula, Elements
  <2>3. DOMAIN Elements(c) = {}
    BY <2>2
  <2>4. Reads(c) = {}
    BY <2>3 DEF Reads
  <2> QED BY <2>2, <2>4
<1> QED BY <1>2, <1>4, <1>6, <1>10, <1>11, <1>12

LEMMA ElementFacts ==
  ASSUME FormulasOK, draws \in [Cell -> Number], NEW c \in Cell, NEW i \in DOMAIN Elements(c), NEW seen,
         \A r \in Elements(c)[i].reads : seen[r] \in Stored
  PROVE  /\ Element(c, i, seen) \in Stored
         /\ formula[c].volatile => Element(c, i, seen) = draws[c] /\ draws[c] \in Number
<1> DEFINE element == Elements(c)[i]
           read == [r \in element.reads |-> seen[r]]
           total == element.plus + SumFunction(read)
           sum == IF total > Cap THEN Cap ELSE total
<1>1. /\ element.plus \in Number /\ element.left \in BOOLEAN /\ element.reads \subseteq Cell
      /\ Cap \in Nat /\ IsFiniteSet(element.reads)
  BY ReadsFacts, CellFacts, FS_Subset
<1>2. Element(c, i, seen) = IF formula[c].volatile THEN draws[c] ELSE IF Calc \in Range(read) THEN Calc
                             ELSE IF element.left THEN Cap - sum ELSE sum
  BY DEF Element
<1>3. draws[c] \in Number
  OBVIOUS
<1>4. ASSUME Calc \notin Range(read) PROVE sum \in Number
  <2>1. \A r \in element.reads : read[r] \in Nat
    <3> TAKE r \in element.reads
    <3>1. read[r] \in Stored /\ read[r] \in Range(read)
      BY DEF Range
    <3> QED BY <1>1, <1>4, <3>1 DEF Stored, Number
  <2>2. read \in [element.reads -> Nat]
    <3>1. read = [r \in element.reads |-> read[r]]
      OBVIOUS
    <3> HIDE DEF read
    <3> QED BY <2>1, <3>1
  <2> HIDE DEF read
  <2>3. SumFunction(read) \in Nat
    BY <1>1, <2>2, SumFacts
  <2> HIDE DEF element
  <2> QED BY <1>1, <2>3 DEF Number
<1> HIDE DEF sum, read, element
<1>5. sum \in Number => sum \in Stored /\ Cap - sum \in Stored
  BY <1>1 DEF Number, Stored
<1>6. Calc \in Stored /\ (draws[c] \in Number => draws[c] \in Stored)
  BY DEF Stored
<1> QED BY <1>1, <1>2, <1>3, <1>4, <1>5, <1>6

LEMMA ElementAlike ==
  ASSUME NEW c, NEW i, NEW seen, NEW other,
         \A r \in Elements(c)[i].reads : seen[r] = other[r]
  PROVE  Element(c, i, seen) = Element(c, i, other)
<1>1. [r \in Elements(c)[i].reads |-> seen[r]] = [r \in Elements(c)[i].reads |-> other[r]]
  OBVIOUS
<1> QED BY <1>1 DEF Element

LEMMA FailureFacts ==
  ASSUME FormulasOK, NEW c \in Cell, NEW seen
  PROVE  /\ Failure(c, seen) \in Failures \cup {NoResult}
         /\ Failure(c, seen) = NoResult <=>
              formula[c].supported /\ \A r \in Reads(c) : seen[r] \notin Failures
         /\ Failure(c, seen) \in Failures =>
              ~formula[c].supported \/ \E r \in Reads(c) : seen[r] = Failure(c, seen)
<1>1. Reads(c) \subseteq Nat /\ Failing(c, seen) = {r \in Reads(c) : seen[r] \in Failures}
  BY ReadsFacts, CellFacts DEF Failing, Failures
<1>2. CASE ~formula[c].supported
  BY <1>2, OutcomeFacts DEF Failure
<1>3. CASE formula[c].supported /\ Failing(c, seen) = {}
  BY <1>1, <1>3, OutcomeFacts DEF Failure
<1>4. CASE formula[c].supported /\ Failing(c, seen) # {}
  <2> DEFINE r == Min(Failing(c, seen))
  <2>1. r \in Failing(c, seen)
    <3>1. Failing(c, seen) \subseteq Nat
      BY <1>1
    <3> QED BY <1>4, <3>1, MinIsLeast
  <2>2. Failure(c, seen) = seen[r]
    BY <1>4 DEF Failure
  <2> HIDE DEF r
  <2>3. r \in Reads(c) /\ seen[r] \in Failures
    BY <1>1, <2>1
  <2> QED BY <1>4, <2>2, <2>3, OutcomeFacts
<1> QED BY <1>2, <1>3, <1>4

LEMMA FailureAlike ==
  ASSUME FormulasOK, NEW c \in Cell, NEW seen, NEW other, \A r \in Reads(c) : seen[r] = other[r]
  PROVE  Failure(c, seen) = Failure(c, other)
<1>1. Failing(c, seen) = Failing(c, other)
  BY DEF Failing
<1>2. CASE Failing(c, seen) = {}
  BY <1>1, <1>2 DEF Failure
<1>3. CASE Failing(c, seen) # {}
  <2>1. Failing(c, seen) \subseteq Nat
    BY ReadsFacts, CellFacts DEF Failing
  <2>2. Min(Failing(c, seen)) \in Reads(c)
    BY <1>3, <2>1, MinIsLeast DEF Failing
  <2> QED BY <1>1, <1>3, <2>2 DEF Failure
<1> QED BY <1>2, <1>3

LEMMA ApplyFacts ==
  ASSUME FormulasOK, draws \in [Cell -> Number], NEW c \in Cell, HasFormula(c), NEW seen,
         \A r \in Reads(c) : seen[r] \in Stored \cup Failures
  PROVE  /\ Apply(c, seen) \in Stored \cup Failures
         /\ Apply(c, seen) \in Stored => Failure(c, seen) = NoResult /\ Apply(c, seen) = Element(c, 1, seen)
         /\ Apply(c, seen) \in Failures =>
              /\ Failure(c, seen) = Apply(c, seen)
              /\ ~formula[c].supported \/ \E r \in Reads(c) : seen[r] = Apply(c, seen)
         /\ Apply(c, seen) = Unsupported =>
              ~formula[c].supported \/ \E r \in Reads(c) : seen[r] = Unsupported
<1>1. CASE Failure(c, seen) # NoResult
  <2>1. Failure(c, seen) \in Failures /\ Apply(c, seen) = Failure(c, seen)
    BY <1>1, FailureFacts DEF Apply
  <2> QED BY <2>1, FailureFacts, OutcomeFacts
<1>2. CASE Failure(c, seen) = NoResult
  <2>1. \A r \in Reads(c) : seen[r] \in Stored
    BY <1>2, FailureFacts
  <2>2. 1 \in DOMAIN Elements(c) /\ Elements(c)[1].reads \subseteq Reads(c)
    BY ReadsFacts
  <2>3. \A r \in Elements(c)[1].reads : seen[r] \in Stored
    BY <2>1, <2>2
  <2>4. Element(c, 1, seen) \in Stored
    BY <2>2, <2>3, ElementFacts
  <2>5. Apply(c, seen) = Element(c, 1, seen)
    BY <1>2 DEF Apply
  <2> QED BY <1>2, <2>4, <2>5, OutcomeFacts
<1> QED BY <1>1, <1>2

LEMMA ApplyAlike ==
  ASSUME FormulasOK, NEW c \in Cell, HasFormula(c), NEW seen, NEW other,
         \A r \in Reads(c) : seen[r] = other[r]
  PROVE  Apply(c, seen) = Apply(c, other)
<1>1. Failure(c, seen) = Failure(c, other)
  BY FailureAlike
<1>2. \A r \in Elements(c)[1].reads : seen[r] = other[r]
  BY ReadsFacts
<1>3. Element(c, 1, seen) = Element(c, 1, other)
  BY <1>2, ElementAlike
<1> QED BY <1>1, <1>3 DEF Apply

-----------------------------------------------------------------------------
(* The results of a calculation.  The state is as it is at any time: the   *)
(* memo holds results of formulas only, and what is not supported there    *)
(* rests on a formula that is not supported.                               *)
Sourced(results) ==
  (\E c \in Cell : results[c] = Unsupported) => \E d \in Cell : HasFormula(d) /\ ~formula[d].supported

StateOK ==
  /\ FormulasOK
  /\ value \in [Cell -> Stored] /\ draws \in [Cell -> Number] /\ memo \in [Cell -> Outcome]
  /\ \A c \in Cell : ~HasFormula(c) => memo[c] = NoResult
  /\ Sourced(memo)

(* What has a result has the one of the memo, or the one that follows from *)
(* the results of what it reads.                                            *)
Right(results, cut) ==
  /\ results \in [Cell -> Outcome]
  /\ Sourced(results)
  /\ \A c \in Cell :
       /\ memo[c] # NoResult => results[c] = memo[c]
       /\ memo[c] = NoResult /\ results[c] # NoResult =>
            /\ \A r \in Reads(c) : <<c, r>> \in cut \/ results[r] # NoResult
            /\ results[c] = ResultOf(c, results, cut)

LEMMA SeenFacts ==
  ASSUME NEW cut, NEW c, NEW results, NEW r \in Cell
  PROVE  Seen(cut, c, results)[r] = IF <<c, r>> \in cut THEN value[r] ELSE results[r]
BY DEF Seen

LEMMA ResultFacts ==
  ASSUME StateOK, NEW results \in [Cell -> Outcome], NEW cut, NEW c \in Cell,
         \A r \in Reads(c) : <<c, r>> \in cut \/ results[r] # NoResult
  PROVE  /\ ResultOf(c, results, cut) \in Stored \cup Failures
         /\ ResultOf(c, results, cut) = Unsupported =>
              \/ HasFormula(c) /\ ~formula[c].supported
              \/ \E r \in Cell : results[r] = Unsupported
<1>1. CASE HasFormula(c)
  <2> DEFINE seen == Seen(cut, c, results)
  <2>1. \A r \in Reads(c) : r \in Cell /\ seen[r] \in Stored \cup Failures /\ value[r] \in Stored
                            /\ (seen[r] = value[r] \/ seen[r] = results[r])
    <3> TAKE r \in Reads(c)
    <3>1. r \in Cell
      BY ReadsFacts DEF StateOK
    <3>2. value[r] \in Stored /\ results[r] \in Outcome
      BY <3>1 DEF StateOK
    <3>3. seen[r] = IF <<c, r>> \in cut THEN value[r] ELSE results[r]
      BY <3>1, SeenFacts
    <3> HIDE DEF seen
    <3> QED BY <3>1, <3>2, <3>3, OutcomeFacts
  <2>2. ResultOf(c, results, cut) = Apply(c, seen)
    BY <1>1 DEF ResultOf
  <2> HIDE DEF seen
  <2>3. FormulasOK /\ draws \in [Cell -> Number]
    BY DEF StateOK
  <2>4. /\ Apply(c, seen) \in Stored \cup Failures
        /\ Apply(c, seen) = Unsupported =>
              ~formula[c].supported \/ \E r \in Reads(c) : seen[r] = Unsupported
    BY <1>1, <2>1, <2>3, ApplyFacts
  <2>5. \A r \in Reads(c) : seen[r] = Unsupported => results[r] = Unsupported
    BY <2>1, OutcomeFacts
  <2> QED BY <1>1, <2>1, <2>2, <2>4, <2>5
<1>2. CASE ~HasFormula(c)
  <2>1. ResultOf(c, results, cut) = value[c] /\ value[c] \in Stored
    BY <1>2 DEF ResultOf, StateOK
  <2> QED BY <2>1, OutcomeFacts
<1> QED BY <1>1, <1>2

(* A result stays what it is when more cells have one.                     *)
LEMMA ResultAlike ==
  ASSUME FormulasOK, NEW results, NEW more, NEW cut, NEW c \in Cell,
         \A r \in Reads(c) : <<c, r>> \in cut \/ results[r] = more[r]
  PROVE  ResultOf(c, results, cut) = ResultOf(c, more, cut)
<1>1. \A r \in Reads(c) : Seen(cut, c, results)[r] = Seen(cut, c, more)[r]
  <2> TAKE r \in Reads(c)
  <2>1. r \in Cell /\ (<<c, r>> \in cut \/ results[r] = more[r])
    BY ReadsFacts
  <2> QED BY <2>1 DEF Seen
<1>2. HasFormula(c) => Apply(c, Seen(cut, c, results)) = Apply(c, Seen(cut, c, more))
  BY <1>1, ApplyAlike
<1> QED BY <1>2 DEF ResultOf

LEMMA LookFacts ==
  ASSUME StateOK, NEW results, NEW cut, Right(results, cut)
  PROVE  /\ Right(Look(results, cut), cut)
         /\ Ready(results, cut) = {} => Look(results, cut) = results
         /\ Ready(results, cut) # {} =>
              \E c \in Cell : results[c] = NoResult
                /\ {d \in Cell : Look(results, cut)[d] # NoResult} = {d \in Cell : results[d] # NoResult} \cup {c}
<1> DEFINE next == Look(results, cut)
           c == Min(Ready(results, cut))
           out == ResultOf(c, results, cut)
<1>1. CASE Ready(results, cut) = {}
  BY <1>1 DEF Look
<1>2. CASE Ready(results, cut) # {}
  <2>1. c \in Ready(results, cut)
    <3>1. Ready(results, cut) \subseteq Nat
      BY CellFacts DEF Ready
    <3> QED BY <1>2, <3>1, MinIsLeast
  <2>2. next = [results EXCEPT ![c] = out]
    BY <1>2 DEF Look
  <2> HIDE DEF next, c, out
  <2>3. /\ c \in Cell /\ results[c] = NoResult /\ results \in [Cell -> Outcome]
        /\ \A r \in Reads(c) : <<c, r>> \in cut \/ results[r] # NoResult
    BY <2>1 DEF Ready, Right
  <2>4. /\ out \in Stored \cup Failures
        /\ out = Unsupported => \/ HasFormula(c) /\ ~formula[c].supported
                                \/ \E r \in Cell : results[r] = Unsupported
    BY <2>3, ResultFacts DEF out
  <2>5. /\ next \in [Cell -> Outcome] /\ next[c] = out
        /\ \A d \in Cell : d # c => next[d] = results[d]
    BY <2>2, <2>3, <2>4, OutcomeFacts
  <2>6. out # NoResult
    BY <2>4, OutcomeFacts
  <2>7. \A d \in Cell : results[d] # NoResult => next[d] = results[d]
    BY <2>3, <2>5
  <2>8. Sourced(next)
    <3> SUFFICES ASSUME NEW d \in Cell, next[d] = Unsupported
                 PROVE  \E x \in Cell : HasFormula(x) /\ ~formula[x].supported
      BY DEF Sourced
    <3>1. Sourced(results)
      BY DEF Right
    <3>2. CASE \E r \in Cell : results[r] = Unsupported
      BY <3>1, <3>2 DEF Sourced
    <3>3. CASE ~ \E r \in Cell : results[r] = Unsupported
      <4>1. d = c /\ out = Unsupported
        BY <2>5, <3>3
      <4> QED BY <2>3, <2>4, <3>3, <4>1
    <3> QED BY <3>2, <3>3
  <2>9. ASSUME NEW d \in Cell
        PROVE  /\ memo[d] # NoResult => next[d] = memo[d]
               /\ memo[d] = NoResult /\ next[d] # NoResult =>
                    /\ \A r \in Reads(d) : <<d, r>> \in cut \/ next[r] # NoResult
                    /\ next[d] = ResultOf(d, next, cut)
    <3>1. /\ memo[d] # NoResult => results[d] = memo[d]
          /\ memo[d] = NoResult /\ results[d] # NoResult =>
               /\ \A r \in Reads(d) : <<d, r>> \in cut \/ results[r] # NoResult
               /\ results[d] = ResultOf(d, results, cut)
      BY DEF Right
    <3>2. Reads(d) \subseteq Cell /\ FormulasOK
      BY ReadsFacts DEF StateOK
    <3>3. ASSUME memo[d] = NoResult, next[d] # NoResult
          PROVE  /\ \A r \in Reads(d) : <<d, r>> \in cut \/ results[r] # NoResult
                 /\ next[d] = ResultOf(d, results, cut)
      <4>1. CASE d = c
        BY <2>3, <2>5, <4>1 DEF out
      <4>2. CASE d # c
        BY <2>5, <3>1, <3>3, <4>2
      <4> QED BY <4>1, <4>2
    <3>4. ASSUME memo[d] = NoResult, next[d] # NoResult
          PROVE  /\ \A r \in Reads(d) : <<d, r>> \in cut \/ next[r] # NoResult
                 /\ next[d] = ResultOf(d, next, cut)
      <4>1. \A r \in Reads(d) : <<d, r>> \in cut \/ results[r] = next[r]
        BY <2>7, <3>2, <3>3, <3>4
      <4>2. ResultOf(d, results, cut) = ResultOf(d, next, cut)
        BY <3>2, <4>1, ResultAlike
      <4> QED BY <3>3, <3>4, <4>1, <4>2
    <3>5. memo[d] # NoResult => next[d] = memo[d]
      BY <2>7, <3>1
    <3> QED BY <3>4, <3>5
  <2>10. Right(next, cut)
    BY <2>5, <2>8, <2>9 DEF Right
  <2>11. {d \in Cell : next[d] # NoResult} = {d \in Cell : results[d] # NoResult} \cup {c}
    BY <2>3, <2>5, <2>6
  <2> QED BY <1>2, <2>3, <2>10, <2>11 DEF next
<1> QED BY <1>1, <1>2

(* After as many looks as there are cells, no cell is left whose reads have *)
(* results: each look but an idle one gives one more.                       *)
LEMMA ResultsFacts ==
  ASSUME StateOK, NEW cut
  PROVE  \E last : /\ Right(last, cut) /\ Ready(last, cut) = {}
                   /\ Results(cut) = [c \in Cell |-> IF last[c] = NoResult THEN Circular ELSE last[c]]
<1> DEFINE N == Cardinality(Cell)
           Eq(f) == f = [n \in 0..N |-> IF n = 0 THEN memo ELSE Look(f[n - 1], cut)]
           looked == CHOOSE f : Eq(f)
           V == {x \in [Cell -> Outcome] : Right(x, cut)}
           G == [x \in V |-> Look(x, cut)]
           Known(x) == {d \in Cell : x[d] # NoResult}
<1>1. Results(cut) = [c \in Cell |-> IF looked[N][c] = NoResult THEN Circular ELSE looked[N][c]]
  BY DEF Results
<1> HIDE DEF looked
<1>2. N \in Nat /\ IsFiniteSet(Cell)
  BY CellFacts
<1>3. memo \in V
  BY DEF Right, StateOK
<1>4. \A x \in V : Look(x, cut) \in V
  BY LookFacts DEF Right
<1>5. PICK f \in [0..N -> V] : f[0] = memo /\ \A k \in 1..N : f[k] = G[f[k - 1]]
  <2>1. G \in [V -> V]
    BY <1>4
  <2>2. N \in Nat /\ memo \in V
    BY <1>2, <1>3
  <2> HIDE DEF V, G, N
  <2>3. Steps(V, N, memo, G)
    BY <2>1, <2>2, StepsExist
  <2> QED BY <2>3 DEF Steps
<1>6. Eq(f)
  <2>1. f = [n \in 0..N |-> f[n]]
    OBVIOUS
  <2>2. \A n \in 0..N : f[n] = IF n = 0 THEN memo ELSE Look(f[n - 1], cut)
    <3> TAKE n \in 0..N
    <3>1. CASE n = 0
      BY <1>5, <3>1
    <3>2. CASE n # 0
      <4>1. n \in 1..N /\ n - 1 \in 0..N
        BY <1>2, <3>2
      <4>2. f[n - 1] \in V /\ f[n] = G[f[n - 1]]
        BY <1>5, <4>1
      <4> QED BY <3>2, <4>2
    <3> QED BY <3>1, <3>2
  <2> HIDE DEF V, G, N
  <2> QED BY <2>1, <2>2
<1>7. Eq(looked)
  <2> HIDE DEF Eq
  <2> QED BY <1>6 DEF looked
<1>8. looked[0] = memo /\ \A n \in Nat : n + 1 <= N => looked[n + 1] = Look(looked[n], cut)
  <2>1. \A n \in 0..N : looked[n] = IF n = 0 THEN memo ELSE Look(looked[n - 1], cut)
    BY <1>7
  <2>2. 0 \in 0..N /\ \A n \in Nat : n + 1 <= N => n + 1 \in 0..N /\ n + 1 # 0 /\ (n + 1) - 1 = n
    BY <1>2
  <2> HIDE DEF N
  <2> QED BY <2>1, <2>2
<1> DEFINE Fine(n) == /\ looked[n] \in V
                      /\ \/ Ready(looked[n], cut) = {}
                         \/ Cardinality(Known(looked[n])) >= n
           R == {n \in Nat : n <= N => Fine(n)}
<1>9. \A x : IsFiniteSet(Known(x)) /\ Cardinality(Known(x)) \in Nat /\ Cardinality(Known(x)) <= N
  <2> TAKE x
  <2>1. Known(x) \subseteq Cell
    OBVIOUS
  <2> HIDE DEF Known
  <2> QED BY <1>2, <2>1, FS_Subset, FS_CardinalityType
<1>10. Fine(0)
  <2> HIDE DEF V, Known
  <2> QED BY <1>3, <1>8, <1>9
<1>11. ASSUME NEW n \in Nat, n + 1 <= N, Fine(n) PROVE Fine(n + 1)
  <2> DEFINE x == looked[n]
             y == looked[n + 1]
  <2>1. y = Look(x, cut) /\ x \in V /\ y \in V
    BY <1>4, <1>8, <1>11
  <2>2. Right(x, cut)
    BY <2>1
  <2>3. Ready(x, cut) = {} \/ Cardinality(Known(x)) >= n
    BY <1>11
  <2> HIDE DEF x, y
  <2>4. CASE Ready(x, cut) = {}
    BY <2>1, <2>2, <2>4, LookFacts DEF x, y
  <2>5. CASE Ready(x, cut) # {}
    <3>1. PICK c \in Cell : x[c] = NoResult /\ Known(y) = Known(x) \cup {c}
      BY <2>1, <2>2, <2>5, LookFacts
    <3>2. c \notin Known(x)
      BY <3>1
    <3> HIDE DEF Known
    <3>3. Cardinality(Known(y)) = Cardinality(Known(x)) + 1
      BY <1>9, <3>1, <3>2, FS_AddElement
    <3> HIDE DEF V
    <3> QED BY <1>9, <2>1, <2>3, <2>5, <3>3 DEF x, y
  <2> QED BY <2>4, <2>5
<1> HIDE DEF Fine
<1>12. Fine(N)
  <2>1. 0 \in R
    BY <1>10
  <2>2. \A n \in Nat : n \in R => n + 1 \in R
    <3> SUFFICES ASSUME NEW n \in Nat, n \in R, n + 1 <= N PROVE Fine(n + 1)
      OBVIOUS
    <3>1. n <= N
      BY <1>2
    <3> HIDE DEF N
    <3> QED BY <1>11, <3>1
  <2>3. N \in R
    <3> HIDE DEF R, N
    <3> QED BY <1>2, <2>1, <2>2, NatInduct
  <2> QED BY <1>2, <2>3
<1> DEFINE last == looked[N]
<1>13. last \in V /\ (Ready(last, cut) = {} \/ Cardinality(Known(last)) >= N)
  BY <1>12 DEF Fine
<1> HIDE DEF last
<1>14. Ready(last, cut) = {}
  <2> SUFFICES ASSUME Cardinality(Known(last)) >= N PROVE Ready(last, cut) = {}
    BY <1>13
  <2>1. Cardinality(Known(last)) = Cardinality(Cell)
    <3> HIDE DEF Known
    <3> QED BY <1>2, <1>9
  <2>2. Known(last) = Cell
    <3>1. Known(last) \subseteq Cell
      OBVIOUS
    <3> HIDE DEF Known
    <3> QED BY <1>2, <2>1, <3>1, FS_Subset
  <2> QED BY <2>2 DEF Ready
<1>15. Right(last, cut)
  BY <1>13
<1> QED BY <1>1, <1>14, <1>15 DEF last

(* What a batch of formulas is given.                                       *)
EvaluationOK(e) ==
  /\ e.results \in [Cell -> Stored \cup Failures]
  /\ Sourced(e.results)
  /\ e.cut \subseteq CycleReferences /\ (~work.iterative => e.cut = {})
  /\ work.iterative => \A c \in Cell : e.results[c] # Circular
  /\ \A c \in Cell :
       /\ memo[c] # NoResult => e.results[c] = memo[c]
       /\ ~HasFormula(c) => e.results[c] = value[c]
       /\ memo[c] = NoResult /\ HasFormula(c) =>
            /\ e.results[c] \in Stored =>
                 Failure(c, Sees(e, c)) = NoResult /\ e.results[c] = Element(c, 1, Sees(e, c))
            /\ e.results[c] \in Failures =>
                 /\ Failure(c, Sees(e, c)) \in Failures
                 /\ ~formula[c].supported \/ \E r \in Reads(c) : Sees(e, c)[r] \in Failures

LEMMA EvaluationFacts ==
  ASSUME StateOK, NEW e \in Evaluations
  PROVE  EvaluationOK(e)
<1>1. PICK cut \in (IF work.iterative THEN SUBSET CycleReferences ELSE {{}}) :
        e = [cut |-> cut, results |-> Results(cut)]
  BY DEF Evaluations
<1>2. e.cut = cut /\ e.results = Results(cut) /\ (work.iterative => \A c \in Cell : e.results[c] # Circular)
  BY <1>1 DEF Evaluations
<1>3. cut \subseteq CycleReferences /\ (~work.iterative => cut = {})
  BY <1>1
<1>4. PICK last : /\ Right(last, cut) /\ Ready(last, cut) = {}
                  /\ Results(cut) = [c \in Cell |-> IF last[c] = NoResult THEN Circular ELSE last[c]]
  BY ResultsFacts
<1> DEFINE results == Results(cut)
<1>5. /\ \A c \in Cell : results[c] = IF last[c] = NoResult THEN Circular ELSE last[c]
      /\ DOMAIN results = Cell /\ results = [c \in Cell |-> results[c]]
  BY <1>4
<1> HIDE DEF results
<1>6. last \in [Cell -> Outcome] /\ Sourced(last) /\ FormulasOK /\ draws \in [Cell -> Number]
  BY <1>4 DEF Right, StateOK
<1>7. \A c \in Cell : last[c] \in Outcome
  BY <1>6
<1>8. results \in [Cell -> Stored \cup Failures]
  <2>1. \A c \in Cell : results[c] \in Stored \cup Failures
    BY <1>5, <1>7, OutcomeFacts
  <2> QED BY <1>5, <2>1
<1>9. Sourced(results)
  <2>1. \A c \in Cell : results[c] = Unsupported => last[c] = Unsupported
    BY <1>5, OutcomeFacts
  <2> QED BY <1>6, <2>1 DEF Sourced
<1>10. ASSUME NEW c \in Cell
       PROVE  /\ memo[c] # NoResult => last[c] = memo[c]
              /\ memo[c] = NoResult /\ last[c] # NoResult =>
                   /\ \A r \in Reads(c) : <<c, r>> \in cut \/ last[r] # NoResult
                   /\ last[c] = ResultOf(c, last, cut)
  BY <1>4 DEF Right
<1>11. ASSUME NEW c \in Cell
       PROVE  last[c] = NoResult => \E r \in Reads(c) : <<c, r>> \notin cut /\ last[r] = NoResult
  BY <1>4 DEF Ready
<1>12. ASSUME NEW c \in Cell, memo[c] # NoResult PROVE results[c] = memo[c]
  BY <1>5, <1>10, <1>12
<1>13. ASSUME NEW c \in Cell, ~HasFormula(c) PROVE results[c] = value[c]
  <2>1. memo[c] = NoResult /\ Reads(c) = {} /\ value[c] \in Stored
    BY <1>13, ReadsFacts DEF StateOK
  <2>2. last[c] # NoResult
    BY <1>11, <2>1
  <2>3. last[c] = value[c]
    BY <1>10, <1>13, <2>1, <2>2 DEF ResultOf
  <2> QED BY <1>5, <2>2, <2>3
<1>14. ASSUME NEW c \in Cell, HasFormula(c), memo[c] = NoResult
       PROVE  /\ results[c] \in Stored =>
                   Failure(c, Sees(e, c)) = NoResult /\ results[c] = Element(c, 1, Sees(e, c))
              /\ results[c] \in Failures =>
                   /\ Failure(c, Sees(e, c)) \in Failures
                   /\ ~formula[c].supported \/ \E r \in Reads(c) : Sees(e, c)[r] \in Failures
  <2> DEFINE seen == Sees(e, c)
  <2>1. \A r \in Cell : seen[r] = IF <<c, r>> \in cut THEN value[r] ELSE results[r]
    BY <1>2 DEF Sees, Seen, results
  <2> HIDE DEF seen
  <2>2. Reads(c) \subseteq Cell /\ \A r \in Cell : value[r] \in Stored
    BY <1>6, ReadsFacts DEF StateOK
  <2>3. \A r \in Reads(c) : seen[r] \in Stored \cup Failures
    BY <1>8, <2>1, <2>2
  <2>4. CASE last[c] = NoResult
    <3>1. PICK r \in Reads(c) : <<c, r>> \notin cut /\ last[r] = NoResult
      BY <1>11, <2>4
    <3>2. seen[r] = Circular /\ seen[r] \in Failures /\ results[c] = Circular
      BY <1>5, <2>1, <2>2, <2>4, <3>1, OutcomeFacts
    <3>3. Failure(c, seen) # NoResult
      BY <1>6, <3>2, FailureFacts
    <3>4. Failure(c, seen) \in Failures /\ results[c] \notin Stored
      BY <1>6, <3>2, <3>3, FailureFacts, OutcomeFacts
    <3> QED BY <3>2, <3>4 DEF seen
  <2>5. CASE last[c] # NoResult
    <3>1. \A r \in Reads(c) : <<c, r>> \in cut \/ last[r] # NoResult
      BY <1>10, <1>14, <2>5
    <3>2. last[c] = Apply(c, Seen(cut, c, last)) /\ results[c] = last[c]
      BY <1>5, <1>10, <1>14, <2>5 DEF ResultOf
    <3>3. \A r \in Reads(c) : Seen(cut, c, last)[r] = seen[r]
      <4> TAKE r \in Reads(c)
      <4>1. Seen(cut, c, last)[r] = IF <<c, r>> \in cut THEN value[r] ELSE last[r]
        BY <2>2 DEF Seen
      <4>2. r \in Cell /\ (<<c, r>> \in cut \/ last[r] # NoResult)
        BY <2>2, <3>1
      <4> QED BY <1>5, <2>1, <4>1, <4>2
    <3>4. results[c] = Apply(c, seen)
      BY <1>6, <1>14, <3>2, <3>3, ApplyAlike
    <3>5. /\ Apply(c, seen) \in Stored => Failure(c, seen) = NoResult /\ Apply(c, seen) = Element(c, 1, seen)
          /\ Apply(c, seen) \in Failures =>
                 /\ Failure(c, seen) = Apply(c, seen)
                 /\ ~formula[c].supported \/ \E r \in Reads(c) : seen[r] = Apply(c, seen)
      BY <1>6, <1>14, <2>3, ApplyFacts
    <3> QED BY <3>4, <3>5 DEF seen
  <2> QED BY <2>4, <2>5
<1>15. e.results = results
  BY <1>2 DEF results
<1> QED BY <1>2, <1>3, <1>8, <1>9, <1>12, <1>13, <1>14, <1>15 DEF EvaluationOK

(* What the memo holds after a batch is as good as what it held before.     *)
MemoOK(m) ==
  /\ m \in [Cell -> Outcome]
  /\ \A c \in Cell : ~HasFormula(c) => m[c] = NoResult
  /\ Sourced(m)

LEMMA RememberedFacts ==
  ASSUME StateOK, NEW e, EvaluationOK(e), NEW roots
  PROVE  MemoOK(Remembered(e, roots))
<1> DEFINE m == Remembered(e, roots)
<1>1. /\ m = [c \in Cell |-> m[c]]
      /\ \A c \in Cell : (HasFormula(c) /\ m[c] = e.results[c]) \/ m[c] = memo[c]
  BY DEF Remembered
<1> HIDE DEF m
<1>2. \A c \in Cell : /\ e.results[c] \in Outcome /\ memo[c] \in Outcome
                      /\ ~HasFormula(c) => memo[c] = NoResult
  BY OutcomeFacts DEF EvaluationOK, StateOK
<1>3. m \in [Cell -> Outcome]
  BY <1>1, <1>2
<1>4. Sourced(m)
  <2>1. Sourced(memo) /\ Sourced(e.results)
    BY DEF EvaluationOK, StateOK
  <2> QED BY <1>1, <2>1 DEF Sourced
<1> QED BY <1>1, <1>2, <1>3, <1>4 DEF MemoOK, m

LEMMA EmptyFacts ==
  /\ MemoOK(Empty) /\ Draws \subseteq [Cell -> Number] /\ [c \in Cell |-> 0] \in [Cell -> Number]
  /\ \A c \in Cell : Empty[c] = NoResult
<1>1. Empty \in [Cell -> Outcome] /\ (\A c \in Cell : Empty[c] = NoResult) /\ Sourced(Empty)
  BY OutcomeFacts DEF Empty, Sourced
<1> QED BY <1>1, OutcomeFacts DEF MemoOK, Draws

LEMMA SeesFacts ==
  ASSUME StateOK, NEW e, EvaluationOK(e), NEW c \in Cell
  PROVE  /\ Sees(e, c) \in [Cell -> Stored \cup Failures]
         /\ \A r \in Cell : Sees(e, c)[r] = IF <<c, r>> \in e.cut THEN value[r] ELSE e.results[r]
<1>1. /\ Sees(e, c) = [r \in Cell |-> Sees(e, c)[r]]
      /\ \A r \in Cell : Sees(e, c)[r] = IF <<c, r>> \in e.cut THEN value[r] ELSE e.results[r]
  BY DEF Sees, Seen
<1>2. \A r \in Cell : value[r] \in Stored /\ e.results[r] \in Stored \cup Failures
  BY DEF StateOK, EvaluationOK
<1>3. \A r \in Cell : Sees(e, c)[r] \in Stored \cup Failures
  BY <1>1, <1>2
<1> QED BY <1>1, <1>3

-----------------------------------------------------------------------------
(* What the calculations write.                                             *)
LEMMA WrittenFacts ==
  ASSUME StateOK, NEW e, EvaluationOK(e), work.sheet \in Sheet, NEW p \in Cell, NEW c \in Owner(p)
  PROVE  Written(e, c, p) \in Stored
<1> DEFINE i == p - c + 1
           seen == Sees(e, c)
<1>1. c \in Cell /\ p \in c..(c + Len(Elements(c)) - 1)
  BY CellFacts DEF Owner, ArraysOf, FormulasOf
<1>2. FormulasOK /\ draws \in [Cell -> Number] /\ value[p] \in Stored
  BY DEF StateOK
<1>3. DOMAIN Elements(c) = 1..Len(Elements(c)) /\ Len(Elements(c)) \in Nat
  <2>1. formula[c] \in Formula
    BY <1>1, <1>2 DEF FormulasOK
  <2> QED BY <2>1 DEF Formula, Elements
<1>4. i \in DOMAIN Elements(c)
  <2>1. c \in Nat /\ p \in Nat
    BY <1>1, CellFacts
  <2> QED BY <1>1, <1>3, <2>1
<1> HIDE DEF i
<1>5. ASSUME Failure(c, seen) \notin Failures PROVE Element(c, i, seen) \in Stored
  <2>1. \A r \in Reads(c) : seen[r] \notin Failures
    BY <1>1, <1>2, <1>5, FailureFacts
  <2>2. \A r \in Elements(c)[i].reads : r \in Cell /\ r \in Reads(c)
    BY <1>1, <1>2, <1>4, ReadsFacts
  <2>3. \A r \in Cell : seen[r] \in Stored \cup Failures
    BY <1>1, SeesFacts
  <2>4. \A r \in Elements(c)[i].reads : seen[r] \in Stored
    BY <2>1, <2>2, <2>3
  <2> HIDE DEF seen
  <2> QED BY <1>1, <1>2, <1>4, <2>4, ElementFacts
<1>6. Calc \in Stored /\ 0 \in Stored
  BY OutcomeFacts
<1>7. CASE Failure(c, seen) \in Failures
  BY <1>2, <1>6, <1>7, OutcomeFacts DEF Written
<1>8. CASE Failure(c, seen) \notin Failures
  BY <1>5, <1>8, OutcomeFacts DEF Written, i
<1> QED BY <1>7, <1>8

LEMMA ShownFacts ==
  ASSUME StateOK, NEW e, EvaluationOK(e), NEW c \in Cell
  PROVE  /\ Shown(e, c) \in Stored
         /\ e.results[c] \in Stored => Shown(e, c) = e.results[c]
         /\ e.results[c] = Unsupported => Shown(e, c) = value[c]
<1>1. value[c] \in Stored /\ e.results[c] \in Stored \cup Failures
  BY DEF StateOK, EvaluationOK
<1> QED BY <1>1, OutcomeFacts DEF Shown

-----------------------------------------------------------------------------
(* The type invariant.                                                      *)
Snapshots == [state : {"Full", "Partial"}, digest : [Cell -> Stored], settled : BOOLEAN]
Files == [shows : BOOLEAN, settled : BOOLEAN, state : {"Full", "Required"}]
Works == [on : SUBSET Sheet, sheet : Sheet \cup {0}, stage : {"Idle", "Arrays", "Scalars", "EndOfPass"},
          pass : 0..MaxIterations, before : [Cell -> Stored \cup {NoResult}],
          unresolved : SUBSET Cell, iterative : BOOLEAN, whole : BOOLEAN]

WorkOK ==
  /\ work \in Works
  /\ work.sheet \in work.on \cup {0}
  /\ work.stage # "Idle" => work.sheet \in work.on
  /\ work.stage # "Idle" /\ work.whole => work.on = Sheet
  /\ work.iterative => work.whole

SnapshotOK == snapshot \subseteq Snapshots /\ \E x : snapshot \subseteq {x}

TypeInv ==
  /\ formula \in Books /\ iterate \in BOOLEAN /\ sheetsDirty \in BOOLEAN
  /\ FormulasOK
  /\ value \in [Cell -> Stored] /\ draws \in [Cell -> Number]
  /\ MemoOK(memo)
  /\ WorkOK /\ SnapshotOK /\ disk \in Files

LEMMA TypeInvFacts ==
  ASSUME TypeInv
  PROVE  TypeOK /\ StateOK
<1>1. StateOK
  BY DEF TypeInv, StateOK, MemoOK
<1>2. snapshot \subseteq Snapshots /\ Cardinality(snapshot) <= 1
  <2>1. PICK x : snapshot \subseteq {x}
    BY DEF TypeInv, SnapshotOK
  <2>2. CASE snapshot = {}
    <3>1. Cardinality(snapshot) = 0
      BY <2>2, FS_EmptySet
    <3> QED BY <3>1 DEF TypeInv, SnapshotOK
  <2>3. CASE snapshot = {x}
    <3>1. Cardinality(snapshot) = 1
      BY <2>3, FS_Singleton
    <3> QED BY <3>1 DEF TypeInv, SnapshotOK
  <2> QED BY <2>1, <2>2, <2>3
<1>3. /\ work.stage \in {"Idle", "Arrays", "Scalars", "EndOfPass"}
      /\ work.sheet \in work.on \cup {0} /\ work.pass \in 0..MaxIterations
  BY DEF TypeInv, WorkOK, Works
<1>4. formula \in [Cell -> Formula] /\ memo \in [Cell -> Outcome]
  BY DEF TypeInv, FormulasOK, MemoOK
<1> QED BY <1>1, <1>2, <1>3, <1>4 DEF TypeInv, TypeOK, Snapshots, Files

LEMMA IdleFacts ==
  /\ Idle \in Works /\ Idle.stage = "Idle" /\ Idle.sheet = 0 /\ ~Idle.iterative
  /\ Idle.on = {} /\ ~Idle.whole
<1>1. MaxIterations \in Nat
  BY SettingsAreValid
<1> QED BY <1>1 DEF Idle, Works

LEMMA FileFacts ==
  ASSUME NEW state, NEW shown, NEW settled \in BOOLEAN
  PROVE  File(state, shown, settled) \in Files
<1>1. Settled(shown) \in BOOLEAN
  BY DEF Settled
<1> QED BY <1>1 DEF File, Files

LEMMA InitHasTypes ==
  ASSUME Init
  PROVE  TypeInv
<1>1. FormulasOK
  BY BooksHaveFormulas DEF Init, FormulasOK
<1>2. value \in [Cell -> Stored] /\ draws \in [Cell -> Number]
  BY OutcomeFacts DEF Init
<1>3. MemoOK(memo)
  BY EmptyFacts DEF Init
<1>4. WorkOK
  BY IdleFacts DEF Init, WorkOK
<1>5. SnapshotOK
  BY DEF Init, SnapshotOK
<1>6. disk \in Files
  BY FileFacts DEF Init
<1> QED BY <1>1, <1>2, <1>3, <1>4, <1>5, <1>6 DEF Init, TypeInv

LEMMA BeginTypes ==
  ASSUME TypeInv, NEW on \in SUBSET Sheet, on # {}, NEW whole \in BOOLEAN, whole => on = Sheet,
         Begin(on, whole)
  PROVE  WorkOK' /\ work'.stage = "Arrays" /\ work'.sheet = Min(on) /\ work'.on = on
         /\ work'.whole = whole /\ work'.unresolved = {} /\ work'.before = value
<1>1. Min(on) \in on
  BY SheetFacts
<1>2. 1 \in 0..MaxIterations
  BY SettingsAreValid
<1>3. value \in [Cell -> Stored \cup {NoResult}]
  BY DEF TypeInv
<1>4. work' = [Idle EXCEPT !.on = on, !.sheet = Min(on), !.stage = "Arrays", !.pass = 1,
                          !.before = value, !.whole = whole, !.iterative = whole /\ iterate]
  BY DEF Begin
<1>5. work' = [on |-> on, sheet |-> Min(on), stage |-> "Arrays", pass |-> 1, before |-> value,
               unresolved |-> {}, iterative |-> whole /\ iterate, whole |-> whole]
  BY <1>4 DEF Idle
<1>6. (whole /\ iterate) \in BOOLEAN
  OBVIOUS
<1>7. work' \in Works
  BY <1>1, <1>2, <1>3, <1>5, <1>6 DEF Works
<1> QED BY <1>1, <1>5, <1>7 DEF WorkOK

LEMMA NextSheetFacts ==
  ASSUME WorkOK, work.stage # "Idle", NEW w \in Works, w.on = work.on, w.sheet = work.sheet,
         w.iterative = work.iterative, w.whole = work.whole
  PROVE  /\ AfterSheet(w) \in Works /\ AfterSheet(w).sheet \in work.on
         /\ AfterSheet(w).on = work.on /\ AfterSheet(w).iterative = work.iterative
         /\ AfterSheet(w).whole = work.whole /\ AfterSheet(w).before = w.before
         /\ AfterSheet(w).unresolved = w.unresolved
         /\ AfterSheet(w).stage \in {"Arrays", "EndOfPass"}
         /\ AfterSheet(w).stage = "EndOfPass" => NextSheet = {}
         /\ AfterSheet(w).stage = "Arrays" =>
               AfterSheet(w).sheet \in NextSheet /\ \A s \in NextSheet : AfterSheet(w).sheet <= s
<1>1. work.on \subseteq Sheet /\ NextSheet \subseteq work.on /\ work.sheet \in work.on
  BY DEF WorkOK, Works, NextSheet
<1>2. NextSheet # {} => Min(NextSheet) \in NextSheet /\ \A s \in NextSheet : Min(NextSheet) <= s
  BY <1>1, SheetFacts
<1>3. CASE NextSheet = {}
  <2>1. AfterSheet(w) = [w EXCEPT !.stage = "EndOfPass"]
    BY <1>3 DEF AfterSheet
  <2> QED BY <1>1, <1>3, <2>1 DEF Works
<1>4. CASE NextSheet # {}
  <2> DEFINE s == Min(NextSheet)
  <2>1. AfterSheet(w) = [w EXCEPT !.stage = "Arrays", !.sheet = s]
    BY <1>4 DEF AfterSheet
  <2>2. s \in Sheet /\ s \in work.on /\ s \in NextSheet /\ \A x \in NextSheet : s <= x
    BY <1>1, <1>2, <1>4
  <2> HIDE DEF s
  <2> QED BY <2>1, <2>2 DEF Works
<1> QED BY <1>3, <1>4

(* What the formulas are does not change, nor what rests on it.             *)
LEMMA SameFormulas ==
  ASSUME UNCHANGED formula, NEW m, MemoOK(m), memo' = m
  PROVE  /\ FormulasOK => FormulasOK'
         /\ MemoOK(memo)'
<1>1. FormulasOK => FormulasOK'
  BY DEF FormulasOK
<1>2. Sourced(memo)'
  BY DEF MemoOK, Sourced, HasFormula
<1>3. \A c \in Cell : ~HasFormula(c)' => memo'[c] = NoResult
  BY DEF MemoOK, HasFormula
<1> QED BY <1>1, <1>2, <1>3 DEF MemoOK

LEMMA ForgetFacts ==
  ASSUME Forget, UNCHANGED formula
  PROVE  MemoOK(memo)' /\ draws' \in [Cell -> Number] /\ memo' = Empty
BY EmptyFacts, SameFormulas DEF Forget

LEMMA ArraysTypes ==
  ASSUME TypeInv, CalculateArrays
  PROVE  TypeInv'
<1>1. PICK e \in Evaluations :
       LET arrays == ArraysOf(work.sheet)
           writes == arrays \ Fails(e, arrays, {Unsupported}) # {}
       IN /\ value' = [p \in Cell |-> IF Owner(p) = {} THEN value[p]
                                      ELSE Written(e, CHOOSE c \in Owner(p) : TRUE, p)]
          /\ work' = [work EXCEPT !.stage = "Scalars", !.unresolved = @ \cup Unresolved(e, arrays)]
          /\ IF writes THEN Forget
             ELSE memo' = Remembered(e, UNION {Reads(c) : c \in arrays}) /\ UNCHANGED draws
          /\ sheetsDirty' = (sheetsDirty \/ writes)
  BY DEF CalculateArrays
<1>2. StateOK /\ EvaluationOK(e) /\ UNCHANGED <<book, snapshot, disk>> /\ work.stage = "Arrays"
  BY TypeInvFacts, EvaluationFacts DEF CalculateArrays
<1>3. work.sheet \in Sheet /\ work \in Works
  BY <1>2 DEF TypeInv, WorkOK, Works
<1>4. value' \in [Cell -> Stored]
  <2>1. \A p \in Cell : value[p] \in Stored
    BY DEF TypeInv
  <2>2. \A p \in Cell : Owner(p) # {} => Written(e, CHOOSE c \in Owner(p) : TRUE, p) \in Stored
    BY <1>2, <1>3, WrittenFacts
  <2> QED BY <1>1, <2>1, <2>2
<1>5. MemoOK(memo)' /\ draws' \in [Cell -> Number]
  <2>1. CASE Forget
    BY <1>2, <2>1, ForgetFacts DEF book
  <2>2. CASE memo' = Remembered(e, UNION {Reads(c) : c \in ArraysOf(work.sheet)}) /\ UNCHANGED draws
    <3>1. MemoOK(Remembered(e, UNION {Reads(c) : c \in ArraysOf(work.sheet)}))
      BY <1>2, RememberedFacts
    <3> QED BY <1>2, <2>2, <3>1, SameFormulas DEF book, TypeInv
  <2> QED BY <1>1, <2>1, <2>2
<1>6. WorkOK'
  <2> DEFINE u == work.unresolved \cup Unresolved(e, ArraysOf(work.sheet))
  <2>1. u \subseteq Cell
    <3>1. ArraysOf(work.sheet) \subseteq Cell /\ work.unresolved \subseteq Cell
      BY <1>3, CellFacts DEF ArraysOf, FormulasOf, Works
    <3> QED BY <3>1 DEF Unresolved, Fails
  <2>2. work' = [work EXCEPT !.stage = "Scalars", !.unresolved = u]
    BY <1>1
  <2> HIDE DEF u
  <2>3. /\ work' \in Works /\ work'.sheet = work.sheet /\ work'.on = work.on
        /\ work'.whole = work.whole /\ work'.iterative = work.iterative
    BY <1>3, <2>1, <2>2 DEF Works
  <2> QED BY <1>2, <2>3 DEF TypeInv, WorkOK
<1>7. sheetsDirty' \in BOOLEAN
  BY <1>1 DEF TypeInv
<1>8. FormulasOK'
  BY <1>2 DEF TypeInv, FormulasOK, book
<1>9. SnapshotOK'
  BY <1>2 DEF TypeInv, SnapshotOK
<1> QED BY <1>2, <1>4, <1>5, <1>6, <1>7, <1>8, <1>9 DEF TypeInv, book

LEMMA ScalarsTypes ==
  ASSUME TypeInv, CalculateScalars
  PROVE  TypeInv'
<1>1. PICK e \in Evaluations :
       LET scalars == FormulasOf(work.sheet) \ ArraysOf(work.sheet) IN
       /\ value' = [c \in Cell |-> IF c \in scalars THEN Shown(e, c) ELSE value[c]]
       /\ work' = AfterSheet([work EXCEPT !.unresolved = @ \cup Unresolved(e, scalars)])
       /\ memo' = ScalarMemo(e, scalars)
       /\ draws' \in (IF memo' = Empty THEN Draws ELSE {draws})
  BY DEF CalculateScalars
<1> DEFINE scalars == FormulasOf(work.sheet) \ ArraysOf(work.sheet)
           u == work.unresolved \cup Unresolved(e, scalars)
           w == [work EXCEPT !.unresolved = u]
<1>2. StateOK /\ EvaluationOK(e) /\ UNCHANGED <<book, snapshot, disk>> /\ work.stage = "Scalars"
  BY TypeInvFacts, EvaluationFacts DEF CalculateScalars
<1>3. work.sheet \in Sheet /\ work \in Works
  BY <1>2 DEF TypeInv, WorkOK, Works
<1>4. value' \in [Cell -> Stored]
  <2>1. \A c \in Cell : value[c] \in Stored /\ Shown(e, c) \in Stored
    BY <1>2, ShownFacts DEF TypeInv
  <2> QED BY <1>1, <2>1
<1>5. MemoOK(memo)' /\ draws' \in [Cell -> Number]
  <2>1. MemoOK(Remembered(e, scalars))
    BY <1>2, RememberedFacts
  <2>2. MemoOK(memo)'
    BY <1>1, <1>2, <2>1, SameFormulas DEF book, ScalarMemo
  <2>3. draws' \in Draws \/ draws' = draws
    BY <1>1
  <2> QED BY <2>2, <2>3, EmptyFacts DEF TypeInv
<1>6. WorkOK'
  <2>1. u \subseteq Cell
    <3>1. scalars \subseteq Cell /\ work.unresolved \subseteq Cell
      BY <1>3, CellFacts DEF FormulasOf, Works
    <3> HIDE DEF scalars
    <3> QED BY <3>1 DEF Unresolved, Fails
  <2>2. work' = AfterSheet(w)
    BY <1>1
  <2> HIDE DEF u
  <2>3. /\ w \in Works /\ w.on = work.on /\ w.sheet = work.sheet
        /\ w.iterative = work.iterative /\ w.whole = work.whole
    BY <1>3, <2>1 DEF Works
  <2>4. WorkOK /\ work.stage # "Idle"
    BY <1>2 DEF TypeInv
  <2> HIDE DEF w
  <2>5. /\ AfterSheet(w) \in Works /\ AfterSheet(w).sheet \in work.on
        /\ AfterSheet(w).on = work.on /\ AfterSheet(w).iterative = work.iterative
        /\ AfterSheet(w).whole = work.whole
    BY <2>3, <2>4, NextSheetFacts
  <2> QED BY <2>2, <2>4, <2>5 DEF WorkOK
<1>7. sheetsDirty' \in BOOLEAN
  <2>1. sheetsDirty' = (sheetsDirty \/ value' # value)
    BY DEF CalculateScalars
  <2> QED BY <2>1
<1>8. FormulasOK'
  BY <1>2 DEF TypeInv, FormulasOK, book
<1>9. SnapshotOK'
  BY <1>2 DEF TypeInv, SnapshotOK
<1> QED BY <1>2, <1>4, <1>5, <1>6, <1>7, <1>8, <1>9 DEF TypeInv, book

LEMMA NextPassFacts ==
  ASSUME TypeInv, StartPass
  PROVE  /\ WorkOK' /\ work'.stage = "Arrays" /\ work'.sheet = Min(work.on) /\ work'.on = work.on
         /\ work'.whole = work.whole /\ work'.iterative = work.iterative
         /\ work'.unresolved = {} /\ work'.before = value
<1>1. work' = NextPass /\ work.stage = "EndOfPass" /\ work.pass < MaxIterations
  BY DEF StartPass, AnotherPass
<1>2. work \in Works /\ work.sheet \in work.on /\ WorkOK
  BY <1>1 DEF TypeInv, WorkOK
<1>3. work.on \in SUBSET Sheet /\ Min(work.on) \in work.on
  <2>1. work.on \in SUBSET Sheet /\ work.on # {}
    BY <1>2 DEF Works
  <2> QED BY <2>1, SheetFacts
<1>4. work.pass + 1 \in 0..MaxIterations
  BY <1>1, <1>2, SettingsAreValid DEF Works
<1>5. value \in [Cell -> Stored \cup {NoResult}]
  BY DEF TypeInv
<1> DEFINE first == Min(work.on)
           n == work.pass + 1
<1>6. work' = [work EXCEPT !.stage = "Arrays", !.sheet = first, !.pass = n,
                         !.before = value, !.unresolved = {}]
  BY <1>1 DEF NextPass
<1>7. first \in work.on /\ first \in Sheet /\ n \in 0..MaxIterations
  BY <1>3, <1>4
<1> HIDE DEF n, first
<1>8. /\ work' \in Works /\ work'.stage = "Arrays" /\ work'.sheet = first /\ work'.on = work.on
      /\ work'.whole = work.whole /\ work'.iterative = work.iterative
      /\ work'.unresolved = {} /\ work'.before = value
  BY <1>2, <1>5, <1>6, <1>7 DEF Works
<1>9. WorkOK'
  BY <1>1, <1>2, <1>7, <1>8 DEF WorkOK
<1> QED BY <1>8, <1>9 DEF first

LEMMA BeginKeepsTypes ==
  ASSUME TypeInv, NEW on \in SUBSET Sheet, on # {}, NEW whole \in BOOLEAN, whole => on = Sheet,
         Begin(on, whole)
  PROVE  TypeInv'
<1>1. WorkOK'
  BY BeginTypes
<1>2. Forget /\ UNCHANGED <<book, value, sheetsDirty, snapshot, disk>>
  BY DEF Begin
<1>3. MemoOK(memo)' /\ draws' \in [Cell -> Number]
  BY <1>2, ForgetFacts DEF book
<1>4. FormulasOK' /\ SnapshotOK'
  BY <1>2 DEF TypeInv, FormulasOK, SnapshotOK, book
<1> QED BY <1>1, <1>2, <1>3, <1>4 DEF TypeInv, book

LEMMA StartPassKeepsTypes ==
  ASSUME TypeInv, StartPass
  PROVE  TypeInv'
<1>1. WorkOK'
  BY NextPassFacts
<1>2. Forget /\ UNCHANGED <<book, value, sheetsDirty, snapshot, disk>>
  BY DEF StartPass
<1>3. MemoOK(memo)' /\ draws' \in [Cell -> Number]
  BY <1>2, ForgetFacts DEF book
<1>4. FormulasOK' /\ SnapshotOK'
  BY <1>2 DEF TypeInv, FormulasOK, SnapshotOK, book
<1> QED BY <1>1, <1>2, <1>3, <1>4 DEF TypeInv, book

LEMMA EndKeepsTypes ==
  ASSUME TypeInv, EndCalculation
  PROVE  TypeInv'
<1>1. /\ snapshot' = {EndSnapshot} /\ work' = Idle /\ memo' = Empty /\ draws' = [c \in Cell |-> 0]
      /\ UNCHANGED <<book, value, sheetsDirty, disk>>
  BY DEF EndCalculation
<1>2. WorkOK'
  BY <1>1, IdleFacts DEF WorkOK
<1>3. SnapshotOK'
  <2>1. (work.iterative => Converged) \in BOOLEAN
    OBVIOUS
  <2>2. EndSnapshot \in Snapshots
    BY <2>1 DEF EndSnapshot, Snapshots, TypeInv
  <2> QED BY <1>1, <2>2 DEF SnapshotOK
<1>4. MemoOK(memo)' /\ draws' \in [Cell -> Number] /\ FormulasOK'
  BY <1>1, EmptyFacts, SameFormulas DEF book, TypeInv
<1> QED BY <1>1, <1>2, <1>3, <1>4 DEF TypeInv, book

LEMMA EditKeepsTypes ==
  ASSUME TypeInv, NEW p \in Cell, NEW n \in Typed, Edit(p, n)
  PROVE  TypeInv'
<1>1. /\ value' = [value EXCEPT ![p] = n] /\ sheetsDirty' = TRUE
      /\ UNCHANGED <<book, snapshot, disk, work, memo, draws>>
  BY DEF Edit
<1>2. n \in Stored
  BY TypedAreNumbers, OutcomeFacts
<1>3. value' \in [Cell -> Stored]
  BY <1>1, <1>2 DEF TypeInv
<1>4. WorkOK' /\ SnapshotOK'
  BY <1>1 DEF TypeInv, WorkOK, SnapshotOK
<1>5. MemoOK(memo)' /\ FormulasOK'
  BY <1>1, SameFormulas DEF TypeInv, book
<1> QED BY <1>1, <1>3, <1>4, <1>5 DEF TypeInv, book

LEMMA RestKeepsTypes ==
  ASSUME TypeInv, SetIteration \/ UNCHANGED vars
  PROVE  TypeInv'
<1>1. /\ UNCHANGED <<formula, value, sheetsDirty, snapshot, disk, work, memo, draws>>
      /\ iterate' \in BOOLEAN
  BY DEF SetIteration, vars, book, TypeInv
<1>2. WorkOK' /\ SnapshotOK'
  BY <1>1 DEF TypeInv, WorkOK, SnapshotOK
<1>3. MemoOK(memo)' /\ FormulasOK'
  BY <1>1, SameFormulas DEF TypeInv
<1> QED BY <1>1, <1>2, <1>3 DEF TypeInv

LEMMA SaveKeepsTypes ==
  ASSUME TypeInv, Save
  PROVE  TypeInv'
<1>1. /\ sheetsDirty' = FALSE /\ snapshot' = {}
      /\ UNCHANGED <<book, value, work, memo, draws>>
  BY DEF Save
<1>2. PICK s \in SavedState : disk' = File(s.state, value, s.settled)
  BY DEF Save
<1>3. s.settled \in BOOLEAN
  <2>1. \/ s \in snapshot \/ s = [state |-> "Required", settled |-> FALSE] \/ s = disk
    BY <1>2 DEF SavedState, Trusted
  <2>2. CASE s \in snapshot
    <3>1. s \in Snapshots
      BY <2>2 DEF TypeInv, SnapshotOK
    <3> QED BY <3>1 DEF Snapshots
  <2>3. CASE s = [state |-> "Required", settled |-> FALSE]
    BY <2>3
  <2>4. CASE s = disk
    <3>1. s \in Files
      BY <2>4 DEF TypeInv
    <3> QED BY <3>1 DEF Files
  <2> QED BY <2>1, <2>2, <2>3, <2>4
<1>4. disk' \in Files
  BY <1>2, <1>3, FileFacts
<1>5. WorkOK' /\ SnapshotOK'
  BY <1>1 DEF TypeInv, WorkOK, SnapshotOK
<1>6. MemoOK(memo)' /\ FormulasOK'
  BY <1>1, SameFormulas DEF TypeInv, book
<1> QED BY <1>1, <1>4, <1>5, <1>6 DEF TypeInv, book

LEMMA StepHasTypes ==
  ASSUME TypeInv, [Next]_vars
  PROVE  TypeInv'
<1>1. CASE CalculateWorkbook
  <2>1. Sheet \in SUBSET Sheet /\ Sheet # {} /\ TRUE \in BOOLEAN /\ Begin(Sheet, TRUE)
    BY <1>1, SheetFacts DEF CalculateWorkbook
  <2> QED BY <2>1, BeginKeepsTypes
<1>2. ASSUME NEW s \in Sheet, CalculateSheet(s) PROVE TypeInv'
  <2>1. {s} \in SUBSET Sheet /\ {s} # {} /\ FALSE \in BOOLEAN /\ Begin({s}, FALSE)
    BY <1>2 DEF CalculateSheet
  <2> QED BY <2>1, BeginKeepsTypes
<1>3. CASE \E p \in Cell, n \in Typed : Edit(p, n)
  BY <1>3, EditKeepsTypes
<1>4. CASE SetIteration \/ UNCHANGED vars
  BY <1>4, RestKeepsTypes
<1>5. CASE Save
  BY <1>5, SaveKeepsTypes
<1>6. CASE Step
  BY <1>6, ArraysTypes, ScalarsTypes, StartPassKeepsTypes, EndKeepsTypes DEF Step
<1> QED BY <1>1, <1>2, <1>3, <1>4, <1>5, <1>6 DEF Next

LEMMA TypesAlwaysHold == Spec => []TypeInv
<1>1. Init => TypeInv
  BY InitHasTypes
<1>2. TypeInv /\ [Next]_vars => TypeInv'
  BY StepHasTypes
<1> QED BY <1>1, <1>2, PTL DEF Spec

(* Whatever the formulas, and however often they are calculated, edited and *)
(* saved, no variable leaves its values: no failure gets into a cell, a     *)
(* calculation stays on the sheets it was called for, within its passes.    *)
THEOREM TypesHold == Spec => []TypeOK
<1>1. TypeInv => TypeOK
  BY TypeInvFacts
<1> QED BY <1>1, TypesAlwaysHold, PTL

-----------------------------------------------------------------------------
(* Workbooks without array formulas.  While one is calculated, the memo    *)
(* holds of each formula that has its turn behind it, and of all that these *)
(* read, what the formula gives; and the cell shows it.                     *)
ScalarsOnly == \A b \in Books : \A c \in Cell : ~b[c].array

(* A result follows from those of what the formula reads, or, around a      *)
(* cycle, from the values of the pass before.                               *)
Grounded(m, c) ==
  m[c] \in Stored =>
    \E seen \in [Cell -> Stored \cup Failures] :
      /\ \A r \in Reads(c) :
           \/ seen[r] = IF HasFormula(r) THEN m[r] ELSE value[r]
           \/ work.iterative /\ <<c, r>> \in CycleReferences /\ seen[r] = work.before[r]
      /\ m[c] = Element(c, 1, seen)

(* A failure is the formula's own, or that of one it reads.                 *)
Blamed(m, c) ==
  m[c] \in Failures => ~formula[c].supported \/ \E r \in Reads(c) : HasFormula(r) /\ m[r] \in Failures

Closed(m) ==
  \A c \in Cell : m[c] # NoResult => \A r \in Reads(c) : HasFormula(r) => m[r] # NoResult

Done(c) ==
  HasFormula(c) /\ (work.stage = "EndOfPass" \/ \E s \in Sheet : s < work.sheet /\ c \in SheetCells[s])

Finished(c) ==
  /\ memo[c] # NoResult /\ (memo[c] \in Stored => value[c] = memo[c])
  /\ ~formula[c].supported => c \in work.unresolved
  /\ ~work.iterative /\ memo[c] \in Failures => c \in work.unresolved

Iterated(c) ==
  /\ memo[c] # Circular
  /\ value[c] = work.before[c] \/ (HasFormula(c) /\ value[c] = memo[c])

PassOK ==
  /\ Closed(memo)
  /\ \A c \in Cell : Grounded(memo, c) /\ Blamed(memo, c)
  /\ \A c \in Cell : Done(c) => Finished(c)
  /\ work.iterative => \A c \in Cell : Iterated(c)
PassInv == work.stage # "Idle" /\ work.whole => PassOK

LEMMA ReachedFacts ==
  ASSUME FormulasOK, NEW c \in Cell
  PROVE  /\ Reads(c) \subseteq Reached(c) /\ Reached(c) \subseteq Cell
         /\ \A d \in Reached(c) : Reads(d) \subseteq Reached(c)
         /\ Reads(c) = {} => Reached(c) = {}
<1>1. Reads(c) \subseteq Cell /\ \A d \in Cell : Reads(d) \subseteq Cell
  BY ReadsFacts
<1>2. Reads(c) \subseteq Reached(c) /\ Reached(c) \subseteq Cell
  BY <1>1 DEF Reached
<1>3. ASSUME NEW d \in Reached(c), NEW r \in Reads(d) PROVE r \in Reached(c)
  <2>1. r \in Cell
    BY <1>1, <1>2
  <2>2. ASSUME NEW S \in SUBSET Cell, Reads(c) \subseteq S, \A x \in S : Reads(x) \subseteq S
        PROVE  r \in S
    <3>1. d \in S
      BY <2>2 DEF Reached
    <3> QED BY <2>2, <3>1
  <2> QED BY <2>1, <2>2 DEF Reached
<1>4. ASSUME Reads(c) = {} PROVE Reached(c) = {}
  <2>1. {} \in SUBSET Cell /\ Reads(c) \subseteq {} /\ \A x \in {} : Reads(x) \subseteq {}
    BY <1>4
  <2>2. \A d \in Reached(c) : d \in {}
    BY <2>1 DEF Reached
  <2> QED BY <2>2
<1> QED BY <1>2, <1>3, <1>4

(* What a batch of scalar formulas leaves in the memo.                      *)
LEMMA MemoFacts ==
  ASSUME StateOK, NEW e, EvaluationOK(e), NEW roots \in SUBSET Cell,
         \A c \in roots : HasFormula(c)
  PROVE  LET m == Remembered(e, roots) IN
         /\ \A c \in Cell : m[c] # NoResult => HasFormula(c) /\ m[c] = e.results[c]
         /\ \A c \in Cell : memo[c] # NoResult => m[c] = memo[c]
         /\ \A c \in roots : m[c] = e.results[c] /\ m[c] # NoResult
         /\ Closed(memo) => Closed(m)
<1> DEFINE m == Remembered(e, roots)
           met == roots \cup UNION {Reached(d) : d \in roots}
<1>1. FormulasOK /\ \A c \in Cell : /\ ~HasFormula(c) => memo[c] = NoResult
                                    /\ memo[c] # NoResult => e.results[c] = memo[c]
                                    /\ e.results[c] # NoResult
  <2>1. \A c \in Cell : e.results[c] \in Stored \cup Failures
    BY DEF EvaluationOK
  <2> QED BY <2>1, OutcomeFacts DEF StateOK, EvaluationOK
<1>2. \A c \in Cell : m[c] = IF HasFormula(c) /\ c \in met THEN e.results[c] ELSE memo[c]
  BY DEF Remembered
<1>3. \A c \in roots : c \in met /\ c \in Cell
  OBVIOUS
<1>4. \A c \in Cell : c \in met => Reads(c) \subseteq met
  <2> SUFFICES ASSUME NEW c \in Cell, c \in met PROVE Reads(c) \subseteq met
    OBVIOUS
  <2>1. CASE c \in roots
    <3>1. Reads(c) \subseteq Reached(c)
      BY <1>1, ReachedFacts
    <3> QED BY <2>1, <3>1
  <2>2. CASE \E d \in roots : c \in Reached(d)
    <3>1. PICK d \in roots : c \in Reached(d)
      BY <2>2
    <3>2. Reads(c) \subseteq Reached(d)
      BY <1>1, <3>1, ReachedFacts
    <3> QED BY <3>2
  <2> QED BY <2>1, <2>2
<1> HIDE DEF m, met
<1>5. \A c \in Cell : m[c] # NoResult => HasFormula(c) /\ m[c] = e.results[c]
  BY <1>1, <1>2
<1>6. \A c \in Cell : memo[c] # NoResult => m[c] = memo[c]
  BY <1>1, <1>2
<1>7. \A c \in roots : m[c] = e.results[c] /\ m[c] # NoResult
  BY <1>1, <1>2, <1>3
<1>8. ASSUME Closed(memo), NEW c \in Cell, m[c] # NoResult, NEW r \in Reads(c), HasFormula(r)
      PROVE  m[r] # NoResult
  <2>1. r \in Cell
    BY <1>1, ReadsFacts
  <2>2. CASE c \in met
    BY <1>1, <1>2, <1>4, <1>8, <2>1, <2>2
  <2>3. CASE c \notin met
    <3>1. memo[c] # NoResult
      BY <1>2, <1>8, <2>3
    <3>2. memo[r] # NoResult
      BY <1>8, <3>1 DEF Closed
    <3> QED BY <1>6, <2>1, <3>2
  <2> QED BY <2>2, <2>3
<1> QED BY <1>5, <1>6, <1>7, <1>8 DEF Closed, m

LEMMA GroundedFacts ==
  ASSUME StateOK, NEW e, EvaluationOK(e), NEW roots \in SUBSET Cell,
         \A c \in roots : HasFormula(c), PassOK, NEW c \in Cell
  PROVE  Grounded(Remembered(e, roots), c) /\ Blamed(Remembered(e, roots), c)
<1> DEFINE m == Remembered(e, roots)
<1>1. /\ \A d \in Cell : m[d] # NoResult => HasFormula(d) /\ m[d] = e.results[d]
      /\ \A d \in Cell : memo[d] # NoResult => m[d] = memo[d]
      /\ Closed(m) /\ Closed(memo)
  <2>1. Closed(memo)
    BY DEF PassOK
  <2> QED BY <2>1, MemoFacts
<1> HIDE DEF m
<1>2. FormulasOK /\ \A r \in Reads(c) : r \in Cell
  BY ReadsFacts DEF StateOK
<1>3. CASE m[c] = NoResult
  BY <1>3, OutcomeFacts DEF Grounded, Blamed, m
<1>4. CASE memo[c] # NoResult
  <2>1. m[c] = memo[c] /\ \A r \in Reads(c) : HasFormula(r) => m[r] = memo[r]
    BY <1>1, <1>2, <1>4 DEF Closed
  <2>2. Grounded(memo, c) /\ Blamed(memo, c)
    BY DEF PassOK
  <2>3. Grounded(m, c)
    <3> SUFFICES ASSUME m[c] \in Stored
                 PROVE  \E seen \in [Cell -> Stored \cup Failures] :
                          /\ \A r \in Reads(c) :
                               \/ seen[r] = IF HasFormula(r) THEN m[r] ELSE value[r]
                               \/ /\ work.iterative /\ <<c, r>> \in CycleReferences
                                  /\ seen[r] = work.before[r]
                          /\ m[c] = Element(c, 1, seen)
      BY DEF Grounded
    <3>1. PICK seen \in [Cell -> Stored \cup Failures] :
            /\ \A r \in Reads(c) :
                 \/ seen[r] = IF HasFormula(r) THEN memo[r] ELSE value[r]
                 \/ work.iterative /\ <<c, r>> \in CycleReferences /\ seen[r] = work.before[r]
            /\ memo[c] = Element(c, 1, seen)
      BY <2>1, <2>2 DEF Grounded
    <3>2. \A r \in Reads(c) :
                 \/ seen[r] = IF HasFormula(r) THEN m[r] ELSE value[r]
                 \/ work.iterative /\ <<c, r>> \in CycleReferences /\ seen[r] = work.before[r]
      BY <2>1, <3>1
    <3> QED BY <2>1, <3>1, <3>2
  <2>4. Blamed(m, c)
    BY <2>1, <2>2 DEF Blamed
  <2> QED BY <2>3, <2>4 DEF m
<1>5. CASE memo[c] = NoResult /\ m[c] # NoResult
  <2> DEFINE seen == Sees(e, c)
  <2>1. /\ HasFormula(c) /\ m[c] = e.results[c]
        /\ e.results[c] \in Stored =>
                 Failure(c, seen) = NoResult /\ e.results[c] = Element(c, 1, seen)
        /\ e.results[c] \in Failures => ~formula[c].supported \/ \E r \in Reads(c) : seen[r] \in Failures
    <3>1. HasFormula(c) /\ m[c] = e.results[c]
      BY <1>1, <1>5
    <3> QED BY <1>5, <3>1 DEF EvaluationOK
  <2>2. /\ seen \in [Cell -> Stored \cup Failures]
        /\ \A r \in Cell : seen[r] = IF <<c, r>> \in e.cut THEN value[r] ELSE e.results[r]
    BY SeesFacts
  <2> HIDE DEF seen
  <2>3. ASSUME NEW r \in Reads(c)
        PROVE  IF HasFormula(r) THEN m[r] # NoResult /\ e.results[r] = m[r] ELSE e.results[r] = value[r]
    <3>1. HasFormula(r) => m[r] # NoResult /\ e.results[r] = m[r]
      BY <1>1, <1>2, <1>5 DEF Closed
    <3>2. ~HasFormula(r) => e.results[r] = value[r]
      BY <1>2 DEF EvaluationOK
    <3> QED BY <3>1, <3>2
  <2>4. ASSUME NEW r \in Reads(c)
        PROVE  \/ seen[r] = IF HasFormula(r) THEN m[r] ELSE value[r]
               \/ work.iterative /\ <<c, r>> \in CycleReferences /\ seen[r] = work.before[r]
    <3>1. CASE <<c, r>> \notin e.cut
      BY <1>2, <2>2, <2>3, <3>1
    <3>2. CASE <<c, r>> \in e.cut
      <4>1. work.iterative /\ <<c, r>> \in CycleReferences
        BY <3>2 DEF EvaluationOK
      <4>2. seen[r] = value[r] /\ value[r] \in Stored
        BY <1>2, <2>2, <3>2 DEF StateOK
      <4>3. value[r] = work.before[r] \/ (HasFormula(r) /\ value[r] = memo[r])
        BY <1>2, <4>1 DEF PassOK, Iterated
      <4>4. HasFormula(r) /\ value[r] = memo[r] => m[r] = value[r]
        BY <1>1, <1>2, <4>2, OutcomeFacts
      <4> QED BY <4>1, <4>2, <4>3, <4>4
    <3> QED BY <3>1, <3>2
  <2>5. Grounded(m, c)
    BY <2>1, <2>2, <2>4 DEF Grounded
  <2>6. Blamed(m, c)
    <3> SUFFICES ASSUME NEW r \in Reads(c), seen[r] \in Failures
                 PROVE  HasFormula(r) /\ m[r] \in Failures
      BY <2>1 DEF Blamed
    <3>1. r \in Cell /\ value[r] \in Stored
      BY <1>2 DEF StateOK
    <3>2. seen[r] = e.results[r] /\ e.results[r] # value[r]
      BY <2>2, <3>1, OutcomeFacts
    <3> QED BY <2>3, <3>2
  <2> QED BY <2>5, <2>6 DEF m
<1> QED BY <1>3, <1>4, <1>5

(* A formula that fails is counted.                                         *)
LEMMA CountedFacts ==
  ASSUME StateOK, NEW e, EvaluationOK(e), PassOK, NEW c \in Cell, HasFormula(c)
  PROVE  /\ ~formula[c].supported => Failure(c, Sees(e, c)) \in Failures
         /\ ~work.iterative /\ e.results[c] \in Failures => Failure(c, Sees(e, c)) \in Failures
<1>1. FormulasOK
  BY DEF StateOK
<1>2. ~formula[c].supported => Failure(c, Sees(e, c)) \in Failures
  BY OutcomeFacts DEF Failure
<1>3. ASSUME ~work.iterative, e.results[c] \in Failures, memo[c] # NoResult, formula[c].supported
      PROVE  Failure(c, Sees(e, c)) \in Failures
  <2>1. memo[c] \in Failures /\ Blamed(memo, c) /\ e.cut = {}
    BY <1>3 DEF EvaluationOK, PassOK
  <2>2. PICK r \in Reads(c) : HasFormula(r) /\ memo[r] \in Failures
    BY <1>3, <2>1 DEF Blamed
  <2>3. r \in Cell /\ memo[r] # NoResult
    BY <1>1, <2>2, ReadsFacts, OutcomeFacts
  <2>4. e.results[r] = memo[r]
    BY <2>3 DEF EvaluationOK
  <2>5. Sees(e, c)[r] \in Failures
    BY <2>1, <2>2, <2>3, <2>4, SeesFacts
  <2> QED BY <1>1, <2>2, <2>5, FailureFacts
<1>4. ASSUME e.results[c] \in Failures, memo[c] = NoResult
      PROVE  Failure(c, Sees(e, c)) \in Failures
  BY <1>4 DEF EvaluationOK
<1> QED BY <1>2, <1>3, <1>4

LEMMA SameReading ==
  ASSUME UNCHANGED formula
  PROVE  /\ CycleReferences' = CycleReferences
         /\ \A c : /\ HasFormula(c)' <=> HasFormula(c)
                   /\ Reads(c)' = Reads(c)
                   /\ UNCHANGED draws => \A i, seen : Element(c, i, seen)' = Element(c, i, seen)
<1>1. \A c : Elements(c)' = Elements(c) /\ (HasFormula(c)' <=> HasFormula(c))
  BY DEF Elements, HasFormula
<1>2. \A c : Reads(c)' = Reads(c)
  BY <1>1 DEF Reads
<1>3. \A c : Reached(c)' = Reached(c)
  BY <1>2 DEF Reached
<1>4. CycleReferences' = CycleReferences
  BY <1>2, <1>3 DEF CycleReferences
<1>5. ASSUME UNCHANGED draws PROVE \A c, i, seen : Element(c, i, seen)' = Element(c, i, seen)
  BY <1>1, <1>5 DEF Element
<1> QED BY <1>1, <1>2, <1>4, <1>5

(* The facts on the memo outlast a step that writes formula cells only.     *)
LEMMA MemoStays ==
  ASSUME FormulasOK, UNCHANGED formula, UNCHANGED draws \/ memo' = Empty,
         work'.iterative = work.iterative, work'.before = work.before,
         \A c \in Cell : ~HasFormula(c) => value'[c] = value[c],
         NEW m, memo' = m, Closed(m), \A c \in Cell : Grounded(m, c) /\ Blamed(m, c)
  PROVE  Closed(memo)' /\ \A c \in Cell : Grounded(memo, c)' /\ Blamed(memo, c)'
<1>1. /\ CycleReferences' = CycleReferences
      /\ \A c \in Cell : (HasFormula(c)' <=> HasFormula(c)) /\ Reads(c)' = Reads(c)
  BY SameReading
<1>2. Closed(memo)'
  <2>1. \A c \in Cell : Reads(c) \subseteq Cell
    BY ReadsFacts
  <2> QED BY <1>1, <2>1 DEF Closed
<1>3. ASSUME NEW c \in Cell PROVE Grounded(memo, c)'
  <2>1. CASE memo' = Empty
    <3>1. memo'[c] \notin Stored
      BY <2>1, EmptyFacts, OutcomeFacts
    <3> QED BY <3>1 DEF Grounded
  <2>2. CASE UNCHANGED draws
    <3> SUFFICES ASSUME memo'[c] \in Stored
                 PROVE  \E seen \in [Cell -> Stored \cup Failures] :
                          /\ \A r \in Reads(c)' :
                               \/ seen[r] = IF HasFormula(r)' THEN memo'[r] ELSE value'[r]
                               \/ /\ work'.iterative /\ <<c, r>> \in CycleReferences'
                                  /\ seen[r] = work'.before[r]
                          /\ memo'[c] = Element(c, 1, seen)'
      BY DEF Grounded
    <3>1. PICK seen \in [Cell -> Stored \cup Failures] :
            /\ \A r \in Reads(c) :
                 \/ seen[r] = IF HasFormula(r) THEN m[r] ELSE value[r]
                 \/ work.iterative /\ <<c, r>> \in CycleReferences /\ seen[r] = work.before[r]
            /\ m[c] = Element(c, 1, seen)
      BY DEF Grounded
    <3>2. Element(c, 1, seen)' = Element(c, 1, seen)
      BY <2>2, SameReading
    <3>3. \A r \in Reads(c)' :
             \/ seen[r] = IF HasFormula(r)' THEN memo'[r] ELSE value'[r]
             \/ work'.iterative /\ <<c, r>> \in CycleReferences' /\ seen[r] = work'.before[r]
      <4> TAKE r \in Reads(c)'
      <4>1. r \in Reads(c) /\ r \in Cell
        BY <1>1, ReadsFacts
      <4> QED BY <1>1, <3>1, <4>1
    <3> QED BY <3>1, <3>2, <3>3
  <2> QED BY <2>1, <2>2
<1>4. ASSUME NEW c \in Cell PROVE Blamed(memo, c)'
  <2>1. Blamed(m, c) /\ Reads(c) \subseteq Cell
    BY ReadsFacts
  <2> QED BY <1>1, <2>1 DEF Blamed
<1> QED BY <1>2, <1>3, <1>4

LEMMA PassStarts ==
  ASSUME UNCHANGED formula, memo' = Empty, work'.stage = "Arrays", work'.on = Sheet,
         work'.sheet = Min(Sheet), work'.before = value'
  PROVE  PassOK'
<1>1. \A c \in Cell : memo'[c] = NoResult
  BY EmptyFacts
<1>2. Closed(memo)' /\ \A c \in Cell : Grounded(memo, c)' /\ Blamed(memo, c)'
  BY <1>1, OutcomeFacts DEF Closed, Grounded, Blamed
<1>3. \A c \in Cell : ~Done(c)'
  <2>1. \A s \in Sheet : ~(s < work'.sheet)
    <3>1. Sheet \in SUBSET Sheet /\ Sheet # {} /\ Sheet \subseteq Nat
      BY SheetFacts
    <3>2. Min(Sheet) \in Nat /\ \A s \in Sheet : s \in Nat /\ Min(Sheet) <= s
      BY <3>1, SheetFacts
    <3> QED BY <3>2
  <2> QED BY <2>1 DEF Done
<1>4. \A c \in Cell : Iterated(c)'
  BY <1>1, OutcomeFacts DEF Iterated
<1> QED BY <1>2, <1>3, <1>4 DEF PassOK

LEMMA ScalarsFacts ==
  ASSUME ScalarsOnly, TypeInv
  PROVE  /\ \A c \in Cell : ~formula[c].array
         /\ \A s \in Sheet : ArraysOf(s) = {}
<1>1. \A c \in Cell : ~formula[c].array
  BY DEF ScalarsOnly, TypeInv
<1> QED BY <1>1, CellFacts DEF ArraysOf, FormulasOf

LEMMA ArraysKeepPass ==
  ASSUME ScalarsOnly, TypeInv, PassInv, CalculateArrays
  PROVE  PassInv' /\ value' = value /\ sheetsDirty' = sheetsDirty
<1>1. PICK e \in Evaluations :
       LET arrays == ArraysOf(work.sheet)
           writes == arrays \ Fails(e, arrays, {Unsupported}) # {}
       IN /\ value' = [p \in Cell |-> IF Owner(p) = {} THEN value[p]
                                      ELSE Written(e, CHOOSE c \in Owner(p) : TRUE, p)]
          /\ work' = [work EXCEPT !.stage = "Scalars", !.unresolved = @ \cup Unresolved(e, arrays)]
          /\ IF writes THEN Forget
             ELSE memo' = Remembered(e, UNION {Reads(c) : c \in arrays}) /\ UNCHANGED draws
          /\ sheetsDirty' = (sheetsDirty \/ writes)
  BY DEF CalculateArrays
<1>2. UNCHANGED formula /\ work.stage = "Arrays" /\ StateOK /\ work \in Works /\ work.sheet \in Sheet
  BY TypeInvFacts DEF CalculateArrays, book, TypeInv, WorkOK, Works
<1>3. ArraysOf(work.sheet) = {}
  BY <1>2, ScalarsFacts
<1>4. \A p \in Cell : Owner(p) = {}
  BY <1>3 DEF Owner
<1>5. value' = value
  BY <1>1, <1>2, <1>4 DEF StateOK
<1>6. Unresolved(e, {}) = {}
  BY DEF Unresolved, Fails
<1>7. /\ work'.stage = "Scalars" /\ work'.unresolved = work.unresolved /\ work'.sheet = work.sheet
      /\ work'.iterative = work.iterative /\ work'.before = work.before /\ work'.whole = work.whole
  BY <1>1, <1>2, <1>3, <1>6 DEF Works
<1>8. memo' = Remembered(e, {}) /\ draws' = draws /\ sheetsDirty' = sheetsDirty
  <2>1. UNION {Reads(c) : c \in {}} = {}
    OBVIOUS
  <2> QED BY <1>1, <1>3, <2>1 DEF TypeInv
<1>9. memo' = memo
  <2>1. memo = [c \in Cell |-> memo[c]]
    BY <1>2 DEF StateOK
  <2>2. Remembered(e, {}) = [c \in Cell |-> memo[c]]
    BY DEF Remembered
  <2> QED BY <1>8, <2>1, <2>2
<1>10. ASSUME work'.stage # "Idle", work'.whole PROVE PassOK'
  <2>1. PassOK
    BY <1>2, <1>7, <1>10 DEF PassInv
  <2>2. Closed(memo)' /\ \A c \in Cell : Grounded(memo, c)' /\ Blamed(memo, c)'
    BY <1>2, <1>5, <1>7, <1>8, <1>9, <2>1, MemoStays DEF PassOK, StateOK
  <2>3. \A c \in Cell : HasFormula(c)' <=> HasFormula(c)
    BY <1>2, SameReading
  <2>4. \A c \in Cell : Done(c)' => Finished(c)'
    <3>1. \A c \in Cell : Done(c)' <=> Done(c)
      BY <1>2, <1>7, <2>3 DEF Done
    <3>2. \A c \in Cell : Finished(c)' <=> Finished(c)
      BY <1>2, <1>5, <1>7, <1>9 DEF Finished
    <3> QED BY <2>1, <3>1, <3>2 DEF PassOK
  <2>5. work'.iterative => \A c \in Cell : Iterated(c)'
    <3>1. \A c \in Cell : Iterated(c)' <=> Iterated(c)
      BY <1>5, <1>7, <1>9, <2>3 DEF Iterated
    <3> QED BY <1>7, <2>1, <3>1 DEF PassOK
  <2> QED BY <2>2, <2>4, <2>5 DEF PassOK
<1> QED BY <1>5, <1>8, <1>10 DEF PassInv

LEMMA SheetsBehind ==
  ASSUME work.on = Sheet, work.sheet \in Sheet, NEW s \in Sheet
  PROVE  s \in NextSheet \/ s = work.sheet \/ s < work.sheet
<1>1. s \in Nat /\ work.sheet \in Nat
  BY SheetFacts
<1>2. s > work.sheet => s \in NextSheet
  BY DEF NextSheet
<1> QED BY <1>1, <1>2

LEMMA ScalarsKeepPass ==
  ASSUME ScalarsOnly, TypeInv, PassInv, CalculateScalars
  PROVE  PassInv'
<1>1. PICK e \in Evaluations :
       LET scalars == FormulasOf(work.sheet) \ ArraysOf(work.sheet) IN
       /\ value' = [c \in Cell |-> IF c \in scalars THEN Shown(e, c) ELSE value[c]]
       /\ work' = AfterSheet([work EXCEPT !.unresolved = @ \cup Unresolved(e, scalars)])
       /\ memo' = ScalarMemo(e, scalars)
       /\ draws' \in (IF memo' = Empty THEN Draws ELSE {draws})
  BY DEF CalculateScalars
<1> DEFINE scalars == FormulasOf(work.sheet)
           u == work.unresolved \cup Unresolved(e, scalars)
           w == [work EXCEPT !.unresolved = u]
           m == Remembered(e, scalars)
<1>2. /\ StateOK /\ EvaluationOK(e) /\ UNCHANGED formula /\ work.stage = "Scalars"
      /\ FormulasOK
  BY TypeInvFacts, EvaluationFacts DEF CalculateScalars, book, StateOK
<1>3. work.sheet \in Sheet /\ work \in Works /\ WorkOK
  BY <1>2 DEF TypeInv, WorkOK, Works
<1>4. ArraysOf(work.sheet) = {}
  BY <1>3, ScalarsFacts
<1>5. scalars \in SUBSET Cell /\ (\A c \in scalars : HasFormula(c))
      /\ \A c \in Cell : c \in scalars <=> c \in SheetCells[work.sheet] /\ HasFormula(c)
  BY <1>3, CellFacts DEF FormulasOf
<1>6. /\ \A c \in Cell : value'[c] = IF c \in scalars THEN Shown(e, c) ELSE value[c]
      /\ memo' = m /\ (UNCHANGED draws \/ memo' = Empty)
      /\ work' = AfterSheet(w)
  BY <1>1, <1>4 DEF ScalarMemo
<1>7. u \subseteq Cell
  BY <1>3, <1>5 DEF Works, Unresolved, Fails
<1> HIDE DEF scalars, m
<1>8. \A c \in scalars : Failure(c, Sees(e, c)) \in Failures => c \in u
  BY DEF Unresolved, Fails, Failures
<1>9. work.unresolved \subseteq u
  OBVIOUS
<1> HIDE DEF u
<1>10. /\ w \in Works /\ w.on = work.on /\ w.sheet = work.sheet /\ w.iterative = work.iterative
       /\ w.whole = work.whole /\ w.before = work.before /\ w.unresolved = u
  BY <1>3, <1>7 DEF Works
<1> HIDE DEF w
<1>11. /\ work'.on = work.on /\ work'.iterative = work.iterative /\ work'.whole = work.whole
       /\ work'.before = work.before /\ work'.unresolved = u
       /\ work'.stage \in {"Arrays", "EndOfPass"}
       /\ work'.stage = "EndOfPass" => NextSheet = {}
       /\ work'.stage = "Arrays" => work'.sheet \in NextSheet /\ \A s \in NextSheet : work'.sheet <= s
  BY <1>2, <1>3, <1>6, <1>10, NextSheetFacts
<1>12. ASSUME work'.whole PROVE PassOK'
  <2>1. PassOK /\ work.on = Sheet
    BY <1>2, <1>3, <1>11, <1>12 DEF PassInv, WorkOK
  <2>2. /\ \A c \in Cell : m[c] # NoResult => HasFormula(c) /\ m[c] = e.results[c]
        /\ \A c \in Cell : memo[c] # NoResult => m[c] = memo[c] /\ e.results[c] = memo[c]
        /\ \A c \in scalars : m[c] = e.results[c] /\ m[c] # NoResult
        /\ Closed(m)
    <3>1. Closed(memo) /\ \A c \in Cell : memo[c] # NoResult => e.results[c] = memo[c]
      BY <1>2, <2>1 DEF PassOK, EvaluationOK
    <3> QED BY <1>2, <1>5, <3>1, MemoFacts DEF m
  <2>3. \A c \in Cell : Grounded(m, c) /\ Blamed(m, c)
    BY <1>2, <1>5, <2>1, GroundedFacts DEF m
  <2>4. Closed(memo)' /\ \A c \in Cell : Grounded(memo, c)' /\ Blamed(memo, c)'
    BY <1>2, <1>5, <1>6, <1>11, <2>2, <2>3, MemoStays
  <2>5. \A c \in Cell : HasFormula(c)' <=> HasFormula(c)
    BY <1>2, SameReading
  <2>6. \A c \in Cell : /\ value[c] \in Stored /\ e.results[c] \in Stored \cup Failures
                        /\ Shown(e, c) \in Stored
                        /\ e.results[c] \in Stored => Shown(e, c) = e.results[c]
                        /\ e.results[c] = Unsupported => Shown(e, c) = value[c]
    BY <1>2, ShownFacts DEF StateOK, EvaluationOK
  <2>7. ASSUME NEW c \in Cell, Done(c)' PROVE Done(c) \/ c \in scalars
    <3>1. HasFormula(c)
      BY <2>5, <2>7 DEF Done
    <3>2. \A s \in Sheet : s \in NextSheet \/ s = work.sheet \/ s < work.sheet
      BY <1>3, <2>1, SheetsBehind
    <3>3. \E s \in Sheet : s \notin NextSheet /\ c \in SheetCells[s]
      <4>1. CASE work'.stage = "EndOfPass"
        BY <1>11, <4>1 DEF Cell
      <4>2. CASE work'.stage = "Arrays"
        <5>1. PICK s \in Sheet : s < work'.sheet /\ c \in SheetCells[s]
          BY <2>7, <4>2 DEF Done
        <5>2. work'.sheet \in Sheet
          BY <1>11, <2>1, <4>2 DEF NextSheet
        <5>3. s \in Nat /\ work'.sheet \in Nat
          BY <5>2, SheetFacts
        <5>4. ~(work'.sheet <= s)
          BY <5>1, <5>3
        <5> QED BY <1>11, <4>2, <5>1, <5>4
      <4> QED BY <1>11, <4>1, <4>2
    <3> QED BY <1>5, <3>1, <3>2, <3>3 DEF Done
  <2>8. ASSUME NEW c \in Cell, Done(c)' PROVE Finished(c)'
    <3>1. CASE c \in scalars
      <4>1. memo'[c] = e.results[c] /\ memo'[c] # NoResult /\ value'[c] = Shown(e, c)
        BY <1>6, <2>2, <3>1
      <4>2. /\ ~formula[c].supported => c \in u
            /\ ~work.iterative /\ e.results[c] \in Failures => c \in u
        BY <1>2, <1>5, <1>8, <2>1, <3>1, CountedFacts
      <4>3. formula' = formula /\ work'.iterative = work.iterative /\ work'.unresolved = u
        BY <1>2, <1>11
      <4> QED BY <2>6, <4>1, <4>2, <4>3 DEF Finished
    <3>2. CASE c \notin scalars
      <4>1. Finished(c)
        BY <2>1, <2>7, <2>8, <3>2 DEF PassOK
      <4>2. memo'[c] = memo[c] /\ value'[c] = value[c]
        BY <1>6, <2>2, <3>2, <4>1 DEF Finished
      <4>3. formula' = formula /\ work'.iterative = work.iterative /\ work'.unresolved = u
        BY <1>2, <1>11
      <4> QED BY <1>9, <4>1, <4>2, <4>3 DEF Finished
    <3> QED BY <3>1, <3>2
  <2>9. ASSUME work.iterative, NEW c \in Cell PROVE Iterated(c)'
    <3>1. Iterated(c) /\ e.results[c] # Circular
      BY <1>2, <2>1, <2>9 DEF PassOK, EvaluationOK
    <3>2. memo'[c] # Circular
      BY <1>6, <2>2, <3>1, OutcomeFacts DEF Iterated
    <3>3. value[c] = memo[c] => memo'[c] = value[c] /\ e.results[c] = value[c]
      BY <1>6, <2>2, <2>6, OutcomeFacts
    <3>4. value'[c] = work.before[c] \/ (HasFormula(c) /\ value'[c] = memo'[c])
      <4>1. CASE c \notin scalars
        BY <1>6, <3>1, <3>3, <4>1 DEF Iterated
      <4>2. CASE c \in scalars /\ e.results[c] \in Stored
        BY <1>5, <1>6, <2>2, <2>6, <4>2
      <4>3. CASE c \in scalars /\ e.results[c] = Unsupported
        <5>1. value'[c] = value[c] /\ value[c] # memo[c]
          BY <1>6, <2>6, <3>3, <4>3, OutcomeFacts
        <5> QED BY <3>1, <5>1 DEF Iterated
      <4> QED BY <2>6, <3>1, <4>1, <4>2, <4>3, OutcomeFacts
    <3> QED BY <1>11, <2>5, <3>2, <3>4 DEF Iterated
  <2> QED BY <1>11, <2>4, <2>8, <2>9 DEF PassOK
<1> QED BY <1>12 DEF PassInv

-----------------------------------------------------------------------------
(* What a pass that resolved all and moved nothing leaves.                  *)
LEMMA ConvergedFacts ==
  ASSUME MaxChange = 0, TypeInv, Converged, NEW c \in Cell, HasFormula(c)
  PROVE  work.before[c] = value[c]
<1> DEFINE was == work.before[c]
           now == value[c]
<1>1. ~Moved(c)
  BY DEF Converged
<1>2. CASE was \in Number /\ now \in Number
  <2>1. was \in Nat /\ now \in Nat
    BY <1>2, CellFacts DEF Number
  <2>2. ~((IF was > now THEN was - now ELSE now - was) > 0)
    BY <1>1, <1>2 DEF Moved
  <2> HIDE DEF was, now
  <2>3. was = now
    BY <2>1, <2>2
  <2> QED BY <2>3 DEF was, now
<1>3. CASE ~(was \in Number /\ now \in Number)
  BY <1>1, <1>3 DEF Moved
<1> QED BY <1>2, <1>3

LEMMA PassEnds ==
  ASSUME ScalarsOnly, MaxChange = 0, TypeInv, PassInv, work.stage = "EndOfPass", work.whole,
         work.unresolved = {}, work.iterative => Converged
  PROVE  Settled(value)
<1>1. PassOK /\ StateOK /\ FormulasOK
  BY TypeInvFacts DEF PassInv, TypeInv
<1>2. ASSUME NEW c \in Cell, HasFormula(c)
      PROVE  /\ formula[c].supported /\ memo[c] # NoResult /\ (memo[c] \in Stored => value[c] = memo[c])
             /\ ~work.iterative => memo[c] \notin Failures
  <2>1. Finished(c)
    BY <1>1, <1>2 DEF PassOK, Done
  <2> QED BY <2>1 DEF Finished
<1>3. ASSUME NEW c \in Cell, HasFormula(c) PROVE memo[c] \in Stored /\ value[c] = memo[c]
  <2>1. memo[c] # Unsupported
    <3>1. \A d \in Cell : HasFormula(d) => formula[d].supported
      BY <1>2
    <3>2. Sourced(memo)
      BY <1>1 DEF StateOK
    <3> QED BY <3>1, <3>2 DEF Sourced
  <2>2. memo[c] # Circular
    <3>1. CASE work.iterative
      BY <1>1, <3>1 DEF PassOK, Iterated
    <3>2. CASE ~work.iterative
      BY <1>2, <1>3, <3>2, OutcomeFacts
    <3> QED BY <3>1, <3>2
  <2>3. memo[c] \in Outcome
    BY <1>1 DEF StateOK
  <2> QED BY <1>2, <1>3, <2>1, <2>2, <2>3, OutcomeFacts
<1>4. ASSUME NEW c \in Cell, HasFormula(c) PROVE value[c] = Element(c, 1, value)
  <2>1. Grounded(memo, c) /\ memo[c] \in Stored /\ value[c] = memo[c]
    BY <1>1, <1>3, <1>4 DEF PassOK
  <2>2. PICK seen \in [Cell -> Stored \cup Failures] :
      /\ \A r \in Reads(c) :
           \/ seen[r] = IF HasFormula(r) THEN memo[r] ELSE value[r]
           \/ work.iterative /\ <<c, r>> \in CycleReferences /\ seen[r] = work.before[r]
      /\ memo[c] = Element(c, 1, seen)
    BY <2>1 DEF Grounded
  <2>3. ASSUME NEW r \in Reads(c) PROVE seen[r] = value[r]
    <3>1. r \in Cell
      BY <1>1, ReadsFacts
    <3>2. HasFormula(r) => memo[r] = value[r]
      BY <1>3, <3>1
    <3>3. work.iterative /\ HasFormula(r) => work.before[r] = value[r]
      BY <3>1, ConvergedFacts
    <3>4. work.iterative /\ ~HasFormula(r) => work.before[r] = value[r]
      BY <1>1, <3>1 DEF PassOK, Iterated
    <3> QED BY <2>2, <3>2, <3>3, <3>4
  <2>4. Elements(c)[1].reads \subseteq Reads(c)
    BY <1>1, <1>4, ReadsFacts
  <2>5. \A r \in Elements(c)[1].reads : seen[r] = value[r]
    BY <2>3, <2>4
  <2>6. Element(c, 1, seen) = Element(c, 1, value)
    BY <2>5, ElementAlike
  <2> QED BY <2>1, <2>2, <2>6
<1>5. ASSUME NEW c \in Cell, HasFormula(c) PROVE ShowsItsFormula(c, value)
  <2>1. DOMAIN Elements(c) = {1}
    BY <1>1, <1>5, ScalarsFacts, ReadsFacts
  <2>2. c + 1 - 1 = c
    BY CellFacts
  <2>3. \A i \in DOMAIN Elements(c) : value[c + i - 1] = Element(c, i, value)
    BY <1>4, <1>5, <2>1, <2>2
  <2> QED BY <1>2, <1>5, <2>3 DEF ShowsItsFormula
<1> QED BY <1>5 DEF Settled

LEMMA SameSettled ==
  ASSUME UNCHANGED formula
  PROVE  /\ \A x : Settled(x) => Settled(x)'
         /\ UNCHANGED value /\ Settled(value) => Settled(value)'
<1>1. \A c : Elements(c)' = Elements(c) /\ (HasFormula(c)' <=> HasFormula(c))
  BY DEF Elements, HasFormula
<1>2. ASSUME NEW c, ~formula[c].volatile, NEW i, NEW seen
      PROVE  Element(c, i, seen)' = Element(c, i, seen)
  BY <1>1, <1>2 DEF Element
<1>3. ASSUME NEW x, Settled(x) PROVE Settled(x)'
  <2> SUFFICES ASSUME NEW c \in Cell, HasFormula(c)', ~formula'[c].volatile
               PROVE  ShowsItsFormula(c, x)'
    BY DEF Settled
  <2>1. ShowsItsFormula(c, x) /\ ~formula[c].volatile
    BY <1>1, <1>3 DEF Settled
  <2>2. \A i \in DOMAIN Elements(c)' : x[c + i - 1] = Element(c, i, x)'
    BY <1>1, <1>2, <2>1 DEF ShowsItsFormula
  <2> QED BY <2>1, <2>2 DEF ShowsItsFormula
<1>4. ASSUME UNCHANGED value, Settled(value) PROVE Settled(value)'
  <2> SUFFICES ASSUME NEW c \in Cell, HasFormula(c)', ~formula'[c].volatile
               PROVE  ShowsItsFormula(c, value)'
    BY DEF Settled
  <2>1. ShowsItsFormula(c, value) /\ ~formula[c].volatile
    BY <1>1, <1>4 DEF Settled
  <2>2. \A i \in DOMAIN Elements(c)' : value[c + i - 1] = Element(c, i, value)'
    <3> TAKE i \in DOMAIN Elements(c)'
    <3>1. value[c + i - 1] = Element(c, i, value)
      BY <1>1, <2>1 DEF ShowsItsFormula
    <3>2. Element(c, i, value)' = Element(c, i, value)
      BY <1>1, <1>4, <2>1 DEF Element
    <3> QED BY <3>1, <3>2
  <2> QED BY <1>4, <2>1, <2>2 DEF ShowsItsFormula
<1> QED BY <1>3, <1>4

-----------------------------------------------------------------------------
(* The facts on the memo hold through every pass.                           *)
LEMMA BeginKeepsPass ==
  ASSUME TypeInv, NEW on \in SUBSET Sheet, on # {}, NEW whole \in BOOLEAN, whole => on = Sheet,
         Begin(on, whole)
  PROVE  PassInv'
<1>1. /\ work'.stage = "Arrays" /\ work'.sheet = Min(on) /\ work'.on = on
      /\ work'.whole = whole /\ work'.unresolved = {} /\ work'.before = value
  BY BeginTypes
<1>2. Forget /\ UNCHANGED <<book, value, sheetsDirty, snapshot, disk>>
  BY DEF Begin
<1>3. ASSUME work'.whole PROVE PassOK'
  BY <1>1, <1>2, <1>3, PassStarts DEF Forget, book
<1> QED BY <1>3 DEF PassInv

LEMMA StartPassKeepsPass ==
  ASSUME TypeInv, StartPass
  PROVE  PassInv'
<1>1. /\ work'.stage = "Arrays" /\ work'.sheet = Min(work.on) /\ work'.on = work.on
      /\ work'.whole = work.whole /\ work'.before = value
  BY NextPassFacts
<1>2. Forget /\ UNCHANGED <<book, value, sheetsDirty, snapshot, disk>> /\ work.stage = "EndOfPass"
  BY DEF StartPass
<1>3. ASSUME work'.whole PROVE PassOK'
  <2>1. work.on = Sheet
    BY <1>1, <1>2, <1>3 DEF TypeInv, WorkOK
  <2> QED BY <1>1, <1>2, <2>1, PassStarts DEF Forget, book
<1> QED BY <1>3 DEF PassInv

LEMMA NothingKeepsPass ==
  ASSUME TypeInv, PassInv, UNCHANGED vars
  PROVE  PassInv'
<1>1. UNCHANGED <<formula, value, work, memo, draws>>
  BY DEF vars, book
<1>2. ASSUME PassOK PROVE PassOK'
  <2>1. Closed(memo)' /\ \A c \in Cell : Grounded(memo, c)' /\ Blamed(memo, c)'
    BY <1>1, <1>2, MemoStays DEF PassOK, TypeInv
  <2>2. \A c \in Cell : HasFormula(c)' <=> HasFormula(c)
    BY <1>1, SameReading
  <2>3. \A c \in Cell : /\ (Done(c)' <=> Done(c)) /\ (Finished(c)' <=> Finished(c))
                        /\ (Iterated(c)' <=> Iterated(c))
    BY <1>1, <2>2 DEF Done, Finished, Iterated
  <2> QED BY <1>1, <1>2, <2>1, <2>3 DEF PassOK
<1> QED BY <1>1, <1>2 DEF PassInv

LEMMA StepKeepsPass ==
  ASSUME ScalarsOnly, TypeInv, PassInv, [Next]_vars
  PROVE  PassInv'
<1>1. CASE CalculateWorkbook
  <2>1. Sheet \in SUBSET Sheet /\ Sheet # {} /\ TRUE \in BOOLEAN /\ Begin(Sheet, TRUE)
    BY <1>1, SheetFacts DEF CalculateWorkbook
  <2> QED BY <2>1, BeginKeepsPass
<1>2. ASSUME NEW s \in Sheet, CalculateSheet(s) PROVE PassInv'
  <2>1. {s} \in SUBSET Sheet /\ {s} # {} /\ FALSE \in BOOLEAN /\ Begin({s}, FALSE)
    BY <1>2 DEF CalculateSheet
  <2> QED BY <2>1, BeginKeepsPass
<1>3. CASE (\E p \in Cell, n \in Typed : Edit(p, n)) \/ SetIteration \/ Save
  <2>1. work.stage = "Idle" /\ work' = work
    BY <1>3 DEF Edit, SetIteration, Save
  <2> QED BY <2>1 DEF PassInv
<1>4. CASE EndCalculation
  BY <1>4, IdleFacts DEF EndCalculation, PassInv
<1>5. CASE CalculateArrays \/ CalculateScalars \/ StartPass \/ UNCHANGED vars
  BY <1>5, ArraysKeepPass, ScalarsKeepPass, StartPassKeepsPass, NothingKeepsPass
<1> QED BY <1>1, <1>2, <1>3, <1>4, <1>5 DEF Next, Step

LEMMA PassesAlwaysHold ==
  ASSUME ScalarsOnly
  PROVE  Spec => [](TypeInv /\ PassInv)
<1>1. Init => TypeInv /\ PassInv
  <2>1. Init => work.stage = "Idle"
    BY IdleFacts DEF Init
  <2> QED BY <2>1, InitHasTypes DEF PassInv
<1>2. TypeInv /\ PassInv /\ [Next]_vars => TypeInv' /\ PassInv'
  BY StepHasTypes, StepKeepsPass
<1> QED BY <1>1, <1>2, PTL DEF Spec

-----------------------------------------------------------------------------
(* What a snapshot promises of its digest, and a clean file of the cells.   *)
SnapshotHolds == \A x \in snapshot : x.state = "Full" /\ x.settled => Settled(x.digest)
FileHolds ==
  disk.state = "Full" /\ disk.settled => disk.shows /\ (~sheetsDirty => Settled(value))

LEMMA InitPromises ==
  ASSUME Init
  PROVE  SnapshotHolds /\ FileHolds
<1>1. disk.state = "Required"
  BY DEF Init, File
<1> QED BY <1>1 DEF Init, SnapshotHolds, FileHolds

(* A step that leaves the files, and the values unless it says so.          *)
LEMMA PromisesStay ==
  ASSUME SnapshotHolds, FileHolds, UNCHANGED <<formula, disk>>,
         snapshot' \subseteq snapshot, sheetsDirty' \/ (UNCHANGED <<value, sheetsDirty>>)
  PROVE  SnapshotHolds' /\ FileHolds'
<1>1. \A x \in snapshot' : x.state = "Full" /\ x.settled => Settled(x.digest)'
  BY SameSettled DEF SnapshotHolds
<1>2. SnapshotHolds'
  BY <1>1 DEF SnapshotHolds
<1>3. ~sheetsDirty' /\ disk.state = "Full" /\ disk.settled => Settled(value)'
  BY SameSettled DEF FileHolds
<1>4. FileHolds'
  BY <1>3 DEF FileHolds
<1> QED BY <1>2, <1>4

LEMMA EndKeepsPromises ==
  ASSUME ScalarsOnly, MaxChange = 0, TypeInv, PassInv, FileHolds, EndCalculation
  PROVE  SnapshotHolds' /\ FileHolds'
<1>1. /\ snapshot' = {EndSnapshot} /\ work' = Idle /\ work.stage = "EndOfPass"
      /\ UNCHANGED <<book, value, sheetsDirty, disk>>
  BY DEF EndCalculation
<1>3. ASSUME EndSnapshot.state = "Full", EndSnapshot.settled PROVE Settled(value)
  <2>1. work.unresolved = {} /\ work.whole /\ (work.iterative => Converged)
    BY <1>3 DEF EndSnapshot
  <2> QED BY <1>1, <2>1, PassEnds
<1>4. EndSnapshot.digest = value /\ UNCHANGED formula
  BY <1>1 DEF EndSnapshot, book
<1>5. SnapshotHolds'
  <2>1. ASSUME NEW x \in snapshot', x.state = "Full", x.settled PROVE Settled(x.digest)'
    <3>1. x = EndSnapshot
      BY <1>1, <2>1
    <3>2. Settled(x.digest)
      BY <1>3, <1>4, <2>1, <3>1
    <3> QED BY <1>4, <3>2, SameSettled
  <2> QED BY <2>1 DEF SnapshotHolds
<1>6. FileHolds'
  BY <1>1, <1>4, SameSettled DEF FileHolds
<1> QED BY <1>5, <1>6

LEMMA SaveKeepsPromises ==
  ASSUME SnapshotHolds, FileHolds, Save
  PROVE  SnapshotHolds' /\ FileHolds'
<1>1. /\ work.stage = "Idle" /\ snapshot' = {} /\ UNCHANGED <<book, value, work, memo, draws>>
  BY DEF Save
<1>2. PICK s \in SavedState : disk' = File(s.state, value, s.settled)
  BY DEF Save
<1>3. SnapshotHolds'
  BY <1>1 DEF SnapshotHolds
<1>4. ASSUME s.state = "Full", s.settled PROVE Settled(value)
  <2>1. \/ s \in snapshot /\ s.digest = value
        \/ s = [state |-> "Required", settled |-> FALSE]
        \/ s = disk /\ ~sheetsDirty
    BY <1>2 DEF SavedState, Trusted
  <2>2. CASE s \in snapshot /\ s.digest = value
    <3>1. Settled(s.digest)
      BY <1>4, <2>2 DEF SnapshotHolds
    <3> QED BY <2>2, <3>1
  <2>3. CASE s = [state |-> "Required", settled |-> FALSE]
    BY <1>4, <2>3
  <2>4. CASE s = disk /\ ~sheetsDirty
    BY <1>4, <2>4 DEF FileHolds
  <2> QED BY <2>1, <2>2, <2>3, <2>4
<1>5. ASSUME disk'.state = "Full", disk'.settled PROVE disk'.shows /\ Settled(value)
  <2>1. s.state = "Full"
    BY <1>2, <1>5 DEF File
  <2>2. disk' = [state |-> "Full", shows |-> Settled(value), settled |-> s.settled]
    BY <1>2, <2>1 DEF File
  <2>3. s.settled
    BY <1>5, <2>2
  <2>4. disk'.shows = Settled(value)
    BY <2>2
  <2>5. Settled(value)
    BY <1>4, <2>1, <2>3
  <2> QED BY <2>4, <2>5
<1>6. FileHolds'
  <2>1. Settled(value) => Settled(value)'
    BY <1>1, SameSettled DEF book
  <2> QED BY <1>5, <2>1 DEF FileHolds
<1> QED BY <1>3, <1>6

LEMMA StepKeepsPromises ==
  ASSUME ScalarsOnly, MaxChange = 0, TypeInv, PassInv, SnapshotHolds, FileHolds, [Next]_vars
  PROVE  SnapshotHolds' /\ FileHolds'
<1>1. CASE CalculateWorkbook \/ (\E s \in Sheet : CalculateSheet(s)) \/ StartPass
  <2>1. UNCHANGED <<book, value, sheetsDirty, snapshot, disk>>
    <3>1. \A on, whole : Begin(on, whole) => UNCHANGED <<book, value, sheetsDirty, snapshot, disk>>
      BY DEF Begin
    <3>2. CASE CalculateWorkbook
      BY <3>1, <3>2 DEF CalculateWorkbook
    <3>3. CASE \E s \in Sheet : CalculateSheet(s)
      BY <3>1, <3>3 DEF CalculateSheet
    <3>4. CASE StartPass
      BY <3>4 DEF StartPass
    <3> QED BY <1>1, <3>2, <3>3, <3>4
  <2>2. UNCHANGED <<formula, value, sheetsDirty, snapshot, disk>>
    BY <2>1 DEF book
  <2> QED BY <2>2, PromisesStay
<1>2. CASE (\E p \in Cell, n \in Typed : Edit(p, n)) \/ SetIteration
  <2>1. /\ UNCHANGED <<formula, snapshot, disk>>
        /\ sheetsDirty' \/ (UNCHANGED <<value, sheetsDirty>>)
    BY <1>2 DEF Edit, SetIteration, book
  <2> QED BY <2>1, PromisesStay
<1>3. CASE UNCHANGED vars
  <2>1. UNCHANGED <<formula, value, sheetsDirty, snapshot, disk>>
    BY <1>3 DEF vars, book
  <2> QED BY <2>1, PromisesStay
<1>4. CASE Save
  BY <1>4, SaveKeepsPromises
<1>5. CASE CalculateArrays
  <2>1. value' = value /\ sheetsDirty' = sheetsDirty
    BY <1>5, ArraysKeepPass
  <2> QED BY <1>5, <2>1, PromisesStay DEF CalculateArrays, book
<1>6. CASE CalculateScalars
  <2>1. sheetsDirty' = (sheetsDirty \/ value' # value) /\ UNCHANGED <<book, snapshot, disk>>
    BY <1>6 DEF CalculateScalars
  <2>2. sheetsDirty' \/ (UNCHANGED <<value, sheetsDirty>>)
    BY <2>1 DEF TypeInv
  <2> QED BY <2>1, <2>2, PromisesStay DEF book
<1>7. CASE EndCalculation
  BY <1>7, EndKeepsPromises
<1> QED BY <1>1, <1>2, <1>3, <1>4, <1>5, <1>6, <1>7 DEF Next, Step

(* The calculation state in a file is not a promise the code can break.  A  *)
(* workbook without array formulas, whose iterations end when no cell moves *)
(* any more, never leaves a file that is marked as fully calculated and has *)
(* a formula that shows anything but what it gives for the cells it reads,  *)
(* unless the passes ran out: however calculations of the workbook and of   *)
(* single sheets, edits, switches of iteration and saves follow each other. *)
THEOREM FullFilesShowTheirFormulas ==
  ASSUME ScalarsOnly, MaxChange = 0
  PROVE  Spec => []FullFilesAreSettled
<1>1. Init => SnapshotHolds /\ FileHolds
  BY InitPromises
<1>2. TypeInv /\ PassInv /\ SnapshotHolds /\ FileHolds /\ [Next]_vars => SnapshotHolds' /\ FileHolds'
  BY StepKeepsPromises
<1>3. FileHolds => FullFilesAreSettled
  BY DEF FileHolds, FullFilesAreSettled
<1> QED BY <1>1, <1>2, <1>3, PassesAlwaysHold, PTL DEF Spec

-----------------------------------------------------------------------------
(* RAND() and its like are scalar, supported and read nothing.              *)
DrawsReadNothing ==
  \A b \in Books : \A c \in Cell :
    b[c].volatile =>
      b[c].supported /\ ~b[c].array /\ \A i \in DOMAIN b[c].elements : b[c].elements[i].reads = {}

(* No array formula has its turn between a volatile formula and one that    *)
(* refers to it: when it has, both are calculated or neither is.            *)
Before(c, s) == \E x \in Sheet : x < s /\ c \in SheetCells[x]
ArraysComeApart ==
  \A b \in Books : \A c, r \in Cell : b[c] = RefersTo(r) /\ b[r].volatile =>
    \A s \in Sheet : \A a \in SheetCells[s] : b[a].array => (Before(c, s) <=> Before(r, s))

(* A cell that refers to another gives what it sees there.                  *)
LEMMA ReferenceFacts ==
  ASSUME NEW c \in Cell, NEW r \in Cell, formula[c] = RefersTo(r)
  PROVE  /\ HasFormula(c) /\ formula[c].supported /\ Reads(c) = {r}
         /\ \A seen : seen[r] \in Stored => Element(c, 1, seen) = seen[r]
<1> DEFINE element == [plus |-> 0, reads |-> {r}, left |-> FALSE]
<1>1. /\ Elements(c) = <<element>> /\ formula[c].supported /\ ~formula[c].volatile
  BY DEF RefersTo, NoFormula, Elements
<1>2. DOMAIN Elements(c) = {1} /\ Elements(c)[1] = element
  BY <1>1
<1>3. Reads(c) = {r}
  BY <1>2 DEF Reads
<1>4. HasFormula(c)
  <2>1. Elements(c) # <<>>
    BY <1>2
  <2> QED BY <2>1 DEF HasFormula, NoFormula, Elements
<1>5. ASSUME NEW seen, seen[r] \in Stored PROVE Element(c, 1, seen) = seen[r]
  <2> DEFINE read == [x \in {r} |-> seen[x]]
             total == 0 + SumFunction(read)
  <2>1. Element(c, 1, seen) = IF Calc \in Range(read) THEN Calc
                              ELSE IF total > Cap THEN Cap ELSE total
    BY <1>1, <1>2 DEF Element
  <2>2. Range(read) = {seen[r]}
    BY DEF Range
  <2>3. CASE seen[r] = Calc
    BY <2>1, <2>2, <2>3
  <2>4. CASE seen[r] # Calc
    <3>1. seen[r] \in Number /\ Cap \in Nat
      BY <1>5, <2>4, CellFacts DEF Stored
    <3>2. seen[r] \in Nat /\ seen[r] <= Cap
      BY <3>1 DEF Number
    <3>3. read \in [{r} -> Nat] /\ IsFiniteSet({r}) /\ read[r] = seen[r]
      BY <3>2, FS_Singleton
    <3> HIDE DEF read
    <3>4. SumFunction(read) = seen[r]
      BY <3>3, SumFacts
    <3> QED BY <2>1, <2>2, <2>4, <3>1, <3>2, <3>4
  <2> QED BY <2>3, <2>4
<1> QED BY <1>1, <1>3, <1>4, <1>5

Pair(c, r) == formula[c] = RefersTo(r) /\ formula[r].volatile

LEMMA PairFacts ==
  ASSUME DrawsReadNothing, TypeInv, NEW c \in Cell, NEW r \in Cell, Pair(c, r)
  PROVE  /\ \A x \in {c, r} : HasFormula(x) /\ formula[x].supported /\ ~formula[x].array
         /\ Reads(r) = {} /\ Reads(c) = {r} /\ <<c, r>> \notin CycleReferences
         /\ \A seen : seen[r] \in Stored => Element(c, 1, seen) = seen[r]
         /\ draws[r] \in Number
<1>1. FormulasOK /\ draws \in [Cell -> Number]
  BY DEF TypeInv
<1>2. /\ HasFormula(c) /\ formula[c].supported /\ Reads(c) = {r}
      /\ \A seen : seen[r] \in Stored => Element(c, 1, seen) = seen[r]
  BY ReferenceFacts DEF Pair
<1>3. ~formula[c].array /\ ~formula[c].volatile
  BY DEF Pair, RefersTo, NoFormula
<1>4. HasFormula(r)
  BY <1>1, ReadsFacts DEF Pair
<1>5. /\ formula[r].supported /\ ~formula[r].array
      /\ \A i \in DOMAIN Elements(r) : Elements(r)[i].reads = {}
  BY DEF DrawsReadNothing, TypeInv, Elements, Pair
<1>6. Reads(r) = {}
  BY <1>5 DEF Reads
<1>7. <<c, r>> \notin CycleReferences
  <2>1. Reached(r) = {} /\ c # r
    BY <1>1, <1>3, <1>6, ReachedFacts DEF Pair
  <2> QED BY <2>1 DEF CycleReferences
<1> QED BY <1>1, <1>2, <1>3, <1>4, <1>5, <1>6, <1>7

LEMMA PairFormulas ==
  ASSUME DrawsReadNothing, TypeInv, NEW c \in Cell, NEW r \in Cell, Pair(c, r)
  PROVE  \A x \in {c, r} : HasFormula(x) /\ ~formula[x].array
<1>1. \A x \in {c, r} : HasFormula(x) /\ formula[x].supported /\ ~formula[x].array
  BY PairFacts, Zenon
<1> QED BY <1>1

(* What is remembered of the two is what was drawn.                         *)
Remembering(r, x) == memo[x] \in {NoResult, draws[r]}

LEMMA PairResults ==
  ASSUME DrawsReadNothing, TypeInv, NEW c \in Cell, NEW r \in Cell, Pair(c, r),
         Remembering(r, r), Remembering(r, c), NEW e, EvaluationOK(e)
  PROVE  \A x \in {c, r} : e.results[x] = draws[r] /\ Shown(e, x) = draws[r]
<1>1. /\ \A x \in {c, r} : HasFormula(x) /\ formula[x].supported
      /\ Reads(r) = {} /\ Reads(c) = {r} /\ <<c, r>> \notin CycleReferences
      /\ \A seen : seen[r] \in Stored => Element(c, 1, seen) = seen[r]
      /\ draws[r] \in Number
  BY PairFacts
<1>2. StateOK /\ FormulasOK /\ draws \in [Cell -> Number]
  BY TypeInvFacts DEF TypeInv
<1>3. draws[r] \in Stored
  BY <1>1, OutcomeFacts
<1>4. \A x \in {c, r} : e.results[x] \in Stored \cup Failures
  BY DEF EvaluationOK
<1>5. e.results[r] = draws[r]
  <2>1. CASE memo[r] # NoResult
    BY <2>1 DEF Remembering, EvaluationOK
  <2>2. CASE memo[r] = NoResult
    <3>1. e.results[r] \notin Failures
      BY <1>1, <2>2 DEF EvaluationOK
    <3>2. e.results[r] = Element(r, 1, Sees(e, r))
      BY <1>1, <1>4, <2>2, <3>1 DEF EvaluationOK
    <3>3. 1 \in DOMAIN Elements(r) /\ Elements(r)[1].reads \subseteq {}
      BY <1>1, <1>2, ReadsFacts
    <3>4. \A x \in Elements(r)[1].reads : Sees(e, r)[x] \in Stored
      BY <3>3
    <3>5. Element(r, 1, Sees(e, r)) = draws[r]
      BY <1>2, <3>3, <3>4, ElementFacts DEF Pair
    <3> QED BY <3>2, <3>5
  <2> QED BY <2>1, <2>2
<1>6. e.results[c] = draws[r]
  <2>1. CASE memo[c] # NoResult
    BY <2>1 DEF Remembering, EvaluationOK
  <2>2. CASE memo[c] = NoResult
    <3>1. Sees(e, c)[r] = draws[r]
      <4>1. <<c, r>> \notin e.cut
        BY <1>1 DEF EvaluationOK
      <4> QED BY <1>2, <1>5, <4>1, SeesFacts
    <3>2. Sees(e, c)[r] \notin Failures
      BY <1>3, <3>1, OutcomeFacts
    <3>3. e.results[c] \notin Failures
      BY <1>1, <2>2, <3>2 DEF EvaluationOK
    <3>4. e.results[c] = Element(c, 1, Sees(e, c))
      BY <1>1, <1>4, <2>2, <3>3 DEF EvaluationOK
    <3> QED BY <1>1, <1>3, <3>1, <3>4
  <2> QED BY <2>1, <2>2
<1>7. \A x \in {c, r} : Shown(e, x) = e.results[x]
  BY <1>2, <1>3, <1>5, <1>6, ShownFacts
<1> QED BY <1>5, <1>6, <1>7

(* The invariant: what is remembered of the two was drawn; when one of them *)
(* is done its result is remembered until the other is, and shown; when     *)
(* both are done they show the same.                                        *)
Shows(r, x) == memo[x] = draws[r] /\ value[x] = draws[r]
Shared(c, r) ==
  /\ Done(c) /\ Done(r) => value[c] = value[r]
  /\ Done(c) /\ ~Done(r) => Shows(r, c)
  /\ Done(r) /\ ~Done(c) => Shows(r, r)
Calculating == work.stage # "Idle" /\ work.whole
DrawOK(c, r) ==
  /\ Remembering(r, r) /\ Remembering(r, c)
  /\ Calculating => Shared(c, r)
DrawInv == \A c, r \in Cell : Pair(c, r) => DrawOK(c, r)

(* An element of an array formula is never on a cell with a scalar formula. *)
LEMMA NoOwner ==
  ASSUME TypeInv, work.sheet \in Sheet, NEW p \in Cell, HasFormula(p), ~formula[p].array
  PROVE  Owner(p) = {}
<1> SUFFICES ASSUME NEW a \in Owner(p) PROVE FALSE
  OBVIOUS
<1>1. /\ a \in SheetCells[work.sheet] /\ formula[a].array /\ a \in Cell
      /\ p \in a..(a + Len(Elements(a)) - 1)
  BY CellFacts DEF Owner, ArraysOf, FormulasOf
<1>2. a \in Nat /\ p \in Nat /\ p # a
  BY <1>1, CellFacts
<1>3. Len(Elements(a)) \in Nat
  <2>1. formula[a] \in Formula
    BY <1>1 DEF TypeInv, FormulasOK
  <2> QED BY <2>1 DEF Formula, Elements
<1>4. p \in (a + 1)..(a + Len(Elements(a)) - 1)
  BY <1>1, <1>2, <1>3
<1>5. formula[p] = NoFormula
  BY <1>1, <1>4, ElementsHaveRoom DEF TypeInv, Elements
<1> QED BY <1>5 DEF HasFormula

(* What a batch leaves in the memo of the two.                              *)
LEMMA PairRemembered ==
  ASSUME DrawsReadNothing, TypeInv, NEW c \in Cell, NEW r \in Cell, Pair(c, r), DrawOK(c, r),
         NEW e, EvaluationOK(e), NEW roots
  PROVE  LET m == Remembered(e, roots) IN
         \A x \in {c, r} : /\ m[x] \in {NoResult, draws[r]}
                           /\ memo[x] = draws[r] => m[x] = draws[r]
                           /\ x \in roots => m[x] = draws[r]
<1>1. \A x \in {c, r} : e.results[x] = draws[r] /\ HasFormula(x) /\ memo[x] \in {NoResult, draws[r]}
  <2>1. \A x \in {c, r} : HasFormula(x)
    BY PairFormulas
  <2>2. Remembering(r, r) /\ Remembering(r, c)
    BY DEF DrawOK
  <2>3. \A x \in {c, r} : e.results[x] = draws[r]
    BY <2>2, PairResults
  <2> QED BY <2>1, <2>2, <2>3 DEF Remembering
<1> QED BY <1>1 DEF Remembered

LEMMA SamePairs ==
  ASSUME UNCHANGED formula, NEW c \in Cell, NEW r \in Cell
  PROVE  (Pair(c, r)' <=> Pair(c, r)) /\ (HasFormula(c)' <=> HasFormula(c))
BY DEF Pair, RefersTo, HasFormula

(* Where the memo is emptied nothing is remembered of any pair.             *)
LEMMA ForgottenPairs ==
  ASSUME memo' = Empty, NEW c \in Cell, NEW r \in Cell
  PROVE  Remembering(r, r)' /\ Remembering(r, c)'
BY EmptyFacts DEF Remembering

LEMMA ArraysKeepDraws ==
  ASSUME DrawsReadNothing, ArraysComeApart, TypeInv, DrawInv, CalculateArrays
  PROVE  DrawInv'
<1>1. PICK e \in Evaluations :
       LET arrays == ArraysOf(work.sheet)
           writes == arrays \ Fails(e, arrays, {Unsupported}) # {}
       IN /\ value' = [p \in Cell |-> IF Owner(p) = {} THEN value[p]
                                      ELSE Written(e, CHOOSE c \in Owner(p) : TRUE, p)]
          /\ work' = [work EXCEPT !.stage = "Scalars", !.unresolved = @ \cup Unresolved(e, arrays)]
          /\ IF writes THEN Forget
             ELSE memo' = Remembered(e, UNION {Reads(c) : c \in arrays}) /\ UNCHANGED draws
          /\ sheetsDirty' = (sheetsDirty \/ writes)
  BY DEF CalculateArrays
<1> DEFINE arrays == ArraysOf(work.sheet)
           writes == arrays \ Fails(e, arrays, {Unsupported}) # {}
           roots == UNION {Reads(x) : x \in arrays}
<1>2. EvaluationOK(e) /\ UNCHANGED formula /\ work.stage = "Arrays"
  BY TypeInvFacts, EvaluationFacts DEF CalculateArrays, book
<1>3. work.sheet \in Sheet /\ work \in Works
  BY <1>2 DEF TypeInv, WorkOK, Works
<1>4. work'.stage = "Scalars" /\ work'.sheet = work.sheet /\ work'.whole = work.whole
  BY <1>1, <1>3 DEF Works
<1>5. writes => memo' = Empty /\ \E a \in SheetCells[work.sheet] : formula[a].array
  BY <1>1, <1>3, CellFacts DEF Forget, ArraysOf, FormulasOf
<1>6. ~writes => memo' = Remembered(e, roots) /\ draws' = draws
  BY <1>1
<1> HIDE DEF writes, roots
<1> SUFFICES ASSUME NEW c \in Cell, NEW r \in Cell, Pair(c, r)
             PROVE  DrawOK(c, r)'
  BY <1>2, SamePairs DEF DrawInv
<1>7. DrawOK(c, r) /\ \A x \in {c, r} : HasFormula(x) /\ ~formula[x].array
  <2>1. \A x \in {c, r} : HasFormula(x) /\ ~formula[x].array
    BY PairFormulas
  <2>2. DrawOK(c, r)
    BY DEF DrawInv
  <2> QED BY <2>1, <2>2
<1>8. \A x \in {c, r} : value'[x] = value[x]
  BY <1>1, <1>3, <1>7, NoOwner
<1>9. \A x \in {c, r} : (Done(x)' <=> Done(x)) /\ (Done(x) <=> Before(x, work.sheet))
  BY <1>2, <1>4, <1>7, SamePairs DEF Done, Before
<1>10. CASE writes
  <2>1. Before(c, work.sheet) <=> Before(r, work.sheet)
    BY <1>3, <1>5, <1>10 DEF ArraysComeApart, TypeInv, Pair
  <2>2. Calculating' => Shared(c, r)'
    BY <1>2, <1>4, <1>7, <1>8, <1>9, <2>1 DEF DrawOK, Calculating, Shared
  <2> QED BY <1>5, <1>10, <2>2, ForgottenPairs DEF DrawOK
<1>11. CASE ~writes
  <2>1. \A x \in {c, r} : /\ memo'[x] \in {NoResult, draws'[r]}
                          /\ memo[x] = draws[r] => memo'[x] = draws'[r]
    BY <1>2, <1>6, <1>7, <1>11, PairRemembered
  <2>2. Calculating' => Shared(c, r)'
    BY <1>2, <1>4, <1>6, <1>7, <1>8, <1>9, <1>11, <2>1 DEF DrawOK, Calculating, Shared, Shows
  <2> QED BY <2>1, <2>2 DEF DrawOK, Remembering
<1> QED BY <1>10, <1>11

LEMMA ScalarsKeepDraws ==
  ASSUME DrawsReadNothing, TypeInv, DrawInv, CalculateScalars
  PROVE  DrawInv'
<1> DEFINE scalars == FormulasOf(work.sheet) \ ArraysOf(work.sheet)
<1>1. PICK e \in Evaluations :
       /\ value' = [c \in Cell |-> IF c \in scalars THEN Shown(e, c) ELSE value[c]]
       /\ work' = AfterSheet([work EXCEPT !.unresolved = @ \cup Unresolved(e, scalars)])
       /\ memo' = Remembered(e, scalars)
       /\ draws' \in (IF memo' = Empty THEN Draws ELSE {draws})
  BY DEF CalculateScalars, ScalarMemo
<1>2. EvaluationOK(e) /\ UNCHANGED formula /\ work.stage = "Scalars"
  BY TypeInvFacts, EvaluationFacts DEF CalculateScalars, book
<1>3. work.sheet \in Sheet /\ work \in Works /\ WorkOK
  BY <1>2 DEF TypeInv, WorkOK, Works
<1>4. memo' = Empty \/ draws' = draws
  BY <1>1
<1>5. \A x \in Cell : x \in scalars <=> x \in SheetCells[work.sheet] /\ HasFormula(x) /\ ~formula[x].array
  BY DEF FormulasOf, ArraysOf
<1>6. /\ work'.on = work.on /\ work'.whole = work.whole
      /\ work'.stage \in {"Arrays", "EndOfPass"}
      /\ work'.stage = "EndOfPass" => NextSheet = {}
      /\ work'.stage = "Arrays" => work'.sheet \in NextSheet /\ \A s \in NextSheet : work'.sheet <= s
  <2> DEFINE u == work.unresolved \cup Unresolved(e, scalars)
             w == [work EXCEPT !.unresolved = u]
  <2>1. u \subseteq Cell
    BY <1>3, CellFacts DEF Works, Unresolved, Fails, FormulasOf
  <2> HIDE DEF u
  <2>2. /\ w \in Works /\ w.on = work.on /\ w.sheet = work.sheet /\ w.iterative = work.iterative
        /\ w.whole = work.whole
    BY <1>3, <2>1 DEF Works
  <2> HIDE DEF w
  <2>3. work' = AfterSheet(w)
    BY <1>1 DEF w, u
  <2> QED BY <1>2, <1>3, <2>2, <2>3, NextSheetFacts
<1> SUFFICES ASSUME NEW c \in Cell, NEW r \in Cell, Pair(c, r)
             PROVE  DrawOK(c, r)'
  BY <1>2, SamePairs DEF DrawInv
<1>7. DrawOK(c, r) /\ \A x \in {c, r} : HasFormula(x) /\ ~formula[x].array
  <2>1. \A x \in {c, r} : HasFormula(x) /\ ~formula[x].array
    BY PairFormulas
  <2>2. DrawOK(c, r)
    BY DEF DrawInv
  <2> QED BY <2>1, <2>2
<1>8. \A x \in {c, r} : /\ memo'[x] \in {NoResult, draws[r]}
                        /\ memo[x] = draws[r] => memo'[x] = draws[r]
                        /\ x \in scalars => memo'[x] = draws[r] /\ value'[x] = draws[r]
                        /\ x \notin scalars => value'[x] = value[x]
  <2>1. \A x \in {c, r} : /\ memo'[x] \in {NoResult, draws[r]}
                          /\ memo[x] = draws[r] => memo'[x] = draws[r]
                          /\ x \in scalars => memo'[x] = draws[r]
    BY <1>1, <1>2, <1>7, PairRemembered
  <2>2. \A x \in {c, r} : Shown(e, x) = draws[r]
    BY <1>2, <1>7, PairResults DEF DrawOK
  <2> QED BY <1>1, <2>1, <2>2
<1>9. \A x \in {c, r} : memo'[x] = draws[r] => draws' = draws
  <2>1. draws[r] # NoResult
    <3>1. draws[r] \in Number
      BY PairFacts
    <3> QED BY <3>1, OutcomeFacts
  <2> QED BY <1>4, <2>1, EmptyFacts
<1>10. Remembering(r, r)' /\ Remembering(r, c)'
  <2>1. CASE memo' = Empty
    BY <2>1, ForgottenPairs
  <2>2. CASE draws' = draws
    BY <1>8, <2>2 DEF Remembering
  <2> QED BY <1>4, <2>1, <2>2
<1>11. ASSUME work'.whole PROVE Shared(c, r)'
  <2>1. Shared(c, r) /\ work.on = Sheet
    BY <1>2, <1>3, <1>6, <1>7, <1>11 DEF DrawOK, Calculating, WorkOK
  <2>2. \A x \in {c, r} : x \in scalars => ~Done(x)
    <3> SUFFICES ASSUME NEW x \in {c, r}, x \in SheetCells[work.sheet],
                        NEW s \in Sheet, s < work.sheet, x \in SheetCells[s]
                 PROVE  FALSE
      BY <1>2, <1>5 DEF Done
    <3>1. s # work.sheet
      BY <1>3, SheetFacts
    <3> QED BY <1>3, <3>1, SheetsAreDisjoint
  <2>3. ASSUME NEW x \in {c, r} PROVE Done(x)' <=> Done(x) \/ x \in scalars
    <3>1. \A s \in Sheet : s \in NextSheet \/ s = work.sheet \/ s < work.sheet
      BY <1>3, <2>1, SheetsBehind
    <3>2. Done(x) <=> \E s \in Sheet : s < work.sheet /\ x \in SheetCells[s]
      BY <1>2, <1>7 DEF Done
    <3>3. x \in scalars <=> x \in SheetCells[work.sheet]
      BY <1>5, <1>7
    <3>4. CASE work'.stage = "EndOfPass"
      <4>1. Done(x)'
        BY <1>2, <1>7, <3>4, SamePairs DEF Done
      <4>2. \E s \in Sheet : x \in SheetCells[s]
        BY DEF Cell
      <4> QED BY <1>6, <3>1, <3>2, <3>3, <3>4, <4>1, <4>2
    <3>5. CASE work'.stage = "Arrays"
      <4>1. Done(x)' <=> \E s \in Sheet : s < work'.sheet /\ x \in SheetCells[s]
        BY <1>2, <1>7, <3>5, SamePairs DEF Done
      <4>2. work'.sheet \in Sheet /\ work'.sheet > work.sheet
        BY <1>6, <2>1, <3>5 DEF NextSheet
      <4>3. \A s \in Sheet : s \in Nat
        BY SheetFacts
      <4>4. \A s \in Sheet : s < work'.sheet <=> s \notin NextSheet
        <5>1. work'.sheet \in Nat /\ work.sheet \in Nat /\ work'.sheet > work.sheet
          BY <1>3, <4>2, <4>3
        <5>2. \A s \in Sheet : s \in NextSheet <=> s > work.sheet
          BY <2>1 DEF NextSheet
        <5>3. \A s \in NextSheet : work'.sheet <= s
          BY <1>6, <3>5
        <5>4. work'.sheet \in NextSheet
          BY <1>6, <3>5
        <5>5. ASSUME NEW s \in Sheet PROVE s < work'.sheet <=> s \notin NextSheet
          <6>1. s \in Nat
            BY <4>3
          <6>2. s \in NextSheet <=> s > work.sheet
            BY <5>2
          <6>3. s \in NextSheet => work'.sheet <= s
            BY <5>3
          <6> QED BY <5>1, <5>4, <6>1, <6>2, <6>3
        <5> QED BY <5>5
      <4>5. \A s \in Sheet : s \in NextSheet => ~(s = work.sheet) /\ ~(s < work.sheet)
        BY <1>3, <4>3 DEF NextSheet
      <4> QED BY <1>3, <3>1, <3>2, <3>3, <4>1, <4>4, <4>5
    <3> QED BY <1>6, <3>4, <3>5
  <2>4. ASSUME NEW x \in {c, r}, NEW y \in {c, r}, Done(x)', ~Done(y)'
        PROVE  Shows(r, x)'
    <3>1. memo'[x] = draws[r] /\ value'[x] = draws[r]
      <4>1. CASE x \in scalars
        BY <1>8, <4>1
      <4>2. CASE x \notin scalars
        <5>1. Done(x) /\ ~Done(y)
          BY <2>3, <2>4, <4>2
        <5>2. Shows(r, x)
          BY <2>1, <5>1 DEF Shared
        <5> QED BY <1>8, <4>2, <5>2 DEF Shows
      <4> QED BY <4>1, <4>2
    <3> QED BY <1>9, <3>1 DEF Shows
  <2>5. ASSUME Done(c)', Done(r)' PROVE value'[c] = value'[r]
    <3>1. CASE c \in scalars /\ r \in scalars
      BY <1>8, <3>1
    <3>2. CASE c \in scalars /\ r \notin scalars
      BY <1>8, <2>1, <2>2, <2>3, <2>5, <3>2 DEF Shared, Shows
    <3>3. CASE c \notin scalars /\ r \in scalars
      BY <1>8, <2>1, <2>2, <2>3, <2>5, <3>3 DEF Shared, Shows
    <3>4. CASE c \notin scalars /\ r \notin scalars
      BY <1>8, <2>1, <2>3, <2>5, <3>4 DEF Shared
    <3> QED BY <3>1, <3>2, <3>3, <3>4
  <2> QED BY <2>4, <2>5 DEF Shared
<1> QED BY <1>10, <1>11 DEF DrawOK, Calculating

(* A pass starts with nothing remembered and nothing done.                  *)
LEMMA NothingDrawn ==
  ASSUME TypeInv, DrawInv, UNCHANGED formula, memo' = Empty,
         work'.stage # "Idle" /\ work'.whole => work'.stage = "Arrays" /\ work'.sheet = Min(Sheet)
  PROVE  DrawInv'
<1> SUFFICES ASSUME NEW c \in Cell, NEW r \in Cell PROVE DrawOK(c, r)'
  BY DEF DrawInv
<1>1. ASSUME Calculating' PROVE ~Done(c)' /\ ~Done(r)'
  <2>1. \A s \in Sheet : ~(s < Min(Sheet))
    <3>1. Min(Sheet) \in Sheet /\ \A s \in Sheet : Min(Sheet) <= s /\ s \in Nat
      BY SheetFacts
    <3> QED BY <3>1
  <2> QED BY <1>1, <2>1 DEF Calculating, Done
<1> QED BY <1>1, ForgottenPairs DEF DrawOK, Shared

LEMMA StepKeepsDraws ==
  ASSUME DrawsReadNothing, ArraysComeApart, TypeInv, DrawInv, [Next]_vars
  PROVE  DrawInv'
<1>1. ASSUME NEW on \in SUBSET Sheet, on # {}, NEW whole \in BOOLEAN, whole => on = Sheet, Begin(on, whole)
      PROVE  DrawInv'
  <2>1. /\ work'.stage = "Arrays" /\ work'.sheet = Min(on) /\ work'.on = on /\ work'.whole = whole
    BY <1>1, BeginTypes
  <2>2. memo' = Empty /\ UNCHANGED formula
    BY <1>1 DEF Begin, Forget, book
  <2> QED BY <1>1, <2>1, <2>2, NothingDrawn
<1>2. CASE CalculateWorkbook
  <2>1. Sheet \in SUBSET Sheet /\ Sheet # {} /\ TRUE \in BOOLEAN /\ Begin(Sheet, TRUE)
    BY <1>2, SheetFacts DEF CalculateWorkbook
  <2> QED BY <1>1, <2>1
<1>3. ASSUME NEW s \in Sheet, CalculateSheet(s) PROVE DrawInv'
  <2>1. {s} \in SUBSET Sheet /\ {s} # {} /\ FALSE \in BOOLEAN /\ Begin({s}, FALSE)
    BY <1>3 DEF CalculateSheet
  <2> QED BY <1>1, <2>1
<1>4. CASE (\E p \in Cell, n \in Typed : Edit(p, n)) \/ SetIteration \/ Save
  <2>1. work.stage = "Idle" /\ UNCHANGED <<formula, work, memo, draws>>
    BY <1>4 DEF Edit, SetIteration, Save, book
  <2>2. \A c, r \in Cell : (Pair(c, r)' <=> Pair(c, r)) /\ (DrawOK(c, r) => DrawOK(c, r)')
    BY <2>1, SamePairs DEF DrawOK, Calculating, Remembering
  <2> QED BY <2>2 DEF DrawInv
<1>5. CASE EndCalculation
  <2>1. memo' = Empty /\ UNCHANGED formula /\ work'.stage = "Idle"
    BY <1>5, IdleFacts DEF EndCalculation, book
  <2> QED BY <2>1, NothingDrawn
<1>6. CASE StartPass
  <2>1. /\ work'.stage = "Arrays" /\ work'.sheet = Min(work.on) /\ work'.whole = work.whole
    BY <1>6, NextPassFacts
  <2>2. memo' = Empty /\ UNCHANGED formula /\ (work.whole => work.on = Sheet)
    BY <1>6 DEF StartPass, Forget, book, TypeInv, WorkOK
  <2> QED BY <2>1, <2>2, NothingDrawn
<1>7. CASE UNCHANGED vars
  <2>1. UNCHANGED <<formula, value, work, memo, draws>>
    BY <1>7 DEF vars, book
  <2>2. \A c, r \in Cell : (Pair(c, r)' <=> Pair(c, r)) /\ (DrawOK(c, r) => DrawOK(c, r)')
    BY <2>1, SamePairs DEF DrawOK, Calculating, Remembering, Shared, Shows, Done
  <2> QED BY <2>2 DEF DrawInv
<1>8. CASE CalculateArrays \/ CalculateScalars
  BY <1>8, ArraysKeepDraws, ScalarsKeepDraws
<1> QED BY <1>2, <1>3, <1>4, <1>5, <1>6, <1>7, <1>8 DEF Next, Step

LEMMA DrawsAreShared ==
  ASSUME DrawsReadNothing, TypeInv, DrawInv
  PROVE  DependentsShareDraws
<1> SUFFICES ASSUME work.stage = "EndOfPass", work.whole, NEW c \in Cell, NEW r \in Cell, Pair(c, r)
             PROVE  value[c] = value[r]
  BY DEF DependentsShareDraws, Pair
<1>1. HasFormula(c) /\ HasFormula(r) /\ Shared(c, r)
  BY PairFacts DEF DrawInv, DrawOK, Calculating
<1> QED BY <1>1 DEF Shared, Done

(* One draw for all: as long as no array formula has its turn between the   *)
(* two, a cell that refers to a volatile formula shows its value after      *)
(* every calculation of the workbook, whether it iterates or not and        *)
(* whatever array formulas empty the memo before, after or on the sheet of  *)
(* both.  Volatile formulas are scalar and read nothing, as RAND() does.    *)
(* An array formula in between breaks it (Recalculation_draws.cfg).         *)
THEOREM DependentsSeeOneDraw ==
  ASSUME DrawsReadNothing, ArraysComeApart
  PROVE  Spec => []DependentsShareDraws
<1>1. Init => TypeInv /\ DrawInv
  <2> SUFFICES ASSUME Init PROVE TypeInv /\ DrawInv
    OBVIOUS
  <2>1. work.stage = "Idle" /\ memo = Empty
    BY IdleFacts DEF Init
  <2> QED BY <2>1, InitHasTypes, EmptyFacts DEF DrawInv, DrawOK, Remembering, Calculating
<1>2. TypeInv /\ DrawInv /\ [Next]_vars => TypeInv' /\ DrawInv'
  BY StepHasTypes, StepKeepsDraws
<1>3. TypeInv /\ DrawInv => DependentsShareDraws
  BY DrawsAreShared
<1> QED BY <1>1, <1>2, <1>3, PTL DEF Spec
=============================================================================
