---------------------------- MODULE SheetsProofs ----------------------------
(* Proofs about Sheets.tla: whatever is opened, added, deleted, copied,     *)
(* moved, hidden and closed, there is a sheet to see, the handles denote    *)
(* what they were made for, what fails is undone, and only deleting and     *)
(* closing lose what is on a sheet.                                         *)
(*                                                                         *)
(* First what the operators on a list of sheets do, then what each          *)
(* operation does to a session that is in order (Good), then the steps.     *)
EXTENDS Sheets, ListFacts

-----------------------------------------------------------------------------
(* Lists of sheets.                                                        *)
Distinct(L) == \A i, j \in DOMAIN L : L[i].id = L[j].id => i = j
Listed(L) == L \in Seq(SheetRecord) /\ Distinct(L) /\ ShownIn(L) # {}

LEMMA RecordFacts ==
  ASSUME NEW x \in SheetRecord
  PROVE  /\ x.id \in Nat /\ x.id # 0 /\ x.id >= 1
         /\ x.kind \in {"grid", "chart"} /\ x.shown \in BOOLEAN /\ x.data \in Nat
BY DEF SheetRecord

LEMMA ElementFacts ==
  ASSUME NEW L \in Seq(SheetRecord)
  PROVE  /\ Len(L) \in Nat /\ DOMAIN L = 1 .. Len(L)
         /\ \A i \in DOMAIN L : L[i] \in SheetRecord /\ L[i] \in ToSet(L) /\ L[i].id \in Ids(L)
         /\ \A x \in ToSet(L) : x \in SheetRecord /\ x.id \in Ids(L) /\ \E i \in DOMAIN L : x = L[i]
         /\ \A id \in Ids(L) : id \in Nat /\ id # 0 /\ id >= 1
         /\ \A id \in Ids(L) : (\E i \in DOMAIN L : L[i].id = id) /\ (\E x \in ToSet(L) : x.id = id)
<1>1. Len(L) \in Nat /\ DOMAIN L = 1 .. Len(L) /\ \A i \in DOMAIN L : L[i] \in SheetRecord
  OBVIOUS
<1>2. \A i \in DOMAIN L : L[i] \in ToSet(L) /\ L[i].id \in Ids(L)
  BY DEF ToSet, Ids
<1>3. \A x \in ToSet(L) : x \in SheetRecord /\ x.id \in Ids(L) /\ \E i \in DOMAIN L : x = L[i]
  BY <1>1 DEF ToSet, Ids
<1>4. \A id \in Ids(L) : (\E i \in DOMAIN L : L[i].id = id) /\ (\E x \in ToSet(L) : x.id = id)
  BY DEF ToSet, Ids
<1>5. \A id \in Ids(L) : id \in Nat /\ id # 0 /\ id >= 1
  BY <1>1, <1>4, RecordFacts
<1> QED BY <1>1, <1>2, <1>3, <1>4, <1>5

LEMMA IdsAreFinite ==
  ASSUME NEW L \in Seq(SheetRecord)
  PROVE  IsFiniteSet(Ids(L)) /\ Cardinality(Ids(L)) \in Nat /\ Cardinality(Ids(L)) <= Len(L)
<1> DEFINE f == [i \in 1 .. Len(L) |-> L[i].id]
<1>1. Len(L) \in Nat /\ IsFiniteSet(1 .. Len(L)) /\ Cardinality(1 .. Len(L)) = Len(L)
  <2>1. Len(L) \in Nat
    OBVIOUS
  <2>2. /\ IsFiniteSet(1 .. Len(L))
        /\ Cardinality(1 .. Len(L)) = IF 1 > Len(L) THEN 0 ELSE Len(L) - 1 + 1
    BY <2>1, FS_Interval
  <2> QED BY <2>1, <2>2
<1>2. f \in [1 .. Len(L) -> Ids(L)] /\ \A id \in Ids(L) : \E i \in 1 .. Len(L) : f[i] = id
  BY ElementFacts
<1> HIDE DEF f
<1>3. f \in Surjection(1 .. Len(L), Ids(L))
  BY <1>2 DEF Surjection
<1>4. IsFiniteSet(Ids(L)) /\ Cardinality(Ids(L)) <= Len(L)
  BY <1>1, <1>3, FS_Surjection
<1> QED BY <1>4, FS_CardinalityType

(* Ids that are not used twice are as many as the sheets.                  *)
LEMMA DistinctCount ==
  ASSUME NEW L \in Seq(SheetRecord), Distinct(L)
  PROVE  Cardinality(Ids(L)) = Len(L)
<1> DEFINE f == [i \in 1 .. Len(L) |-> L[i].id]
<1>1. Len(L) \in Nat /\ IsFiniteSet(1 .. Len(L)) /\ Cardinality(1 .. Len(L)) = Len(L)
  <2>1. Len(L) \in Nat
    OBVIOUS
  <2>2. /\ IsFiniteSet(1 .. Len(L))
        /\ Cardinality(1 .. Len(L)) = IF 1 > Len(L) THEN 0 ELSE Len(L) - 1 + 1
    BY <2>1, FS_Interval
  <2> QED BY <2>1, <2>2
<1>2. f \in [1 .. Len(L) -> Ids(L)] /\ \A id \in Ids(L) : \E i \in 1 .. Len(L) : f[i] = id
  BY ElementFacts
<1>3. \A i, j \in 1 .. Len(L) : f[i] = f[j] => i = j
  BY ElementFacts DEF Distinct
<1> HIDE DEF f
<1>4. f \in Surjection(1 .. Len(L), Ids(L)) /\ f \in Injection(1 .. Len(L), Ids(L))
  BY <1>2, <1>3 DEF Surjection, Injection, IsInjective
<1> QED BY <1>1, <1>4, FS_Surjection

LEMMA AtFacts ==
  ASSUME NEW L \in Seq(SheetRecord), Distinct(L), NEW id \in Ids(L)
  PROVE  /\ At(L, id) \in DOMAIN L /\ L[At(L, id)].id = id /\ L[At(L, id)] \in ToSet(L)
         /\ \A i \in DOMAIN L : L[i].id = id => i = At(L, id)
         /\ \A x \in ToSet(L) : x.id = id => x = L[At(L, id)]
<1>1. \E i \in DOMAIN L : L[i].id = id
  BY ElementFacts
<1>2. At(L, id) \in DOMAIN L /\ L[At(L, id)].id = id
  BY <1>1 DEF At
<1>3. \A i \in DOMAIN L : L[i].id = id => i = At(L, id)
  BY <1>2 DEF Distinct
<1>4. L[At(L, id)] \in ToSet(L)
  BY <1>2, ElementFacts
<1>5. \A x \in ToSet(L) : x.id = id => x = L[At(L, id)]
  BY <1>3, ElementFacts
<1> QED BY <1>2, <1>3, <1>4, <1>5

LEMMA ShownFacts ==
  ASSUME NEW L \in Seq(SheetRecord)
  PROVE  (ShownIn(L) # {}) <=> \E x \in ToSet(L) : x.shown
BY DEF ShownIn, ToSet

LEMMA FirstShownFacts ==
  ASSUME NEW L \in Seq(SheetRecord), ShownIn(L) # {}
  PROVE  FirstShown(L) \in Ids(L)
<1>1. ShownIn(L) \subseteq DOMAIN L /\ ShownIn(L) \subseteq Nat
  BY ElementFacts DEF ShownIn
<1>2. \E x \in ShownIn(L) : \A y \in ShownIn(L) : x <= y
  BY <1>1, Smallest
<1>3. Min(ShownIn(L)) \in ShownIn(L)
  BY <1>2 DEF Min
<1> QED BY <1>1, <1>3, ElementFacts DEF FirstShown

LEMMA NewIdFacts ==
  ASSUME NEW L \in Seq(SheetRecord), ShownIn(L) # {}
  PROVE  /\ NewId(L) \in Nat \ {0} /\ NewId(L) - 1 \in Ids(L)
         /\ \A id \in Ids(L) : id < NewId(L)
         /\ NewId(L) \notin Ids(L)
<1>1. Ids(L) \subseteq Nat /\ IsFiniteSet(Ids(L)) /\ Ids(L) # {}
  BY ElementFacts, IdsAreFinite, FirstShownFacts
<1>2. \E x \in Ids(L) : \A y \in Ids(L) : x >= y
  BY <1>1, Largest
<1> DEFINE m == Max(Ids(L))
<1>3. m \in Ids(L) /\ \A y \in Ids(L) : m >= y
  BY <1>2 DEF Max
<1>4. NewId(L) = m + 1
  BY DEF NewId
<1> HIDE DEF m
<1> QED BY <1>1, <1>3, <1>4

(* The new id is one more than the largest one.                            *)
LEMMA NewIdIs ==
  ASSUME NEW L \in Seq(SheetRecord), ShownIn(L) # {},
         NEW m \in Ids(L), \A id \in Ids(L) : id <= m
  PROVE  NewId(L) = m + 1
<1>1. /\ NewId(L) \in Nat \ {0} /\ NewId(L) - 1 \in Ids(L)
      /\ \A id \in Ids(L) : id < NewId(L)
  BY NewIdFacts
<1>2. m \in Nat /\ m < NewId(L) /\ NewId(L) - 1 <= m
  BY <1>1, ElementFacts
<1> QED BY <1>1, <1>2

(* Keeping the sheets at some places.                                      *)
LEMMA PickSheets ==
  ASSUME NEW L \in Seq(SheetRecord), Distinct(L), NEW I \in SUBSET DOMAIN L
  PROVE  /\ Picked(L, I) \in Seq(SheetRecord) /\ Distinct(Picked(L, I))
         /\ ToSet(Picked(L, I)) = {L[i] : i \in I}
         /\ Len(Picked(L, I)) = Cardinality(I)
<1>1. /\ Cardinality(I) \in Nat
      /\ Picked(L, I) \in Seq(SheetRecord)
      /\ Len(Picked(L, I)) = Cardinality(I)
      /\ \A k \in 1 .. Cardinality(I) : Nth(I, k) \in I /\ Picked(L, I)[k] = L[Nth(I, k)]
      /\ \A i \in I : Rank(I, i) \in 1 .. Cardinality(I) /\ Picked(L, I)[Rank(I, i)] = L[i]
      /\ \A j, k \in 1 .. Cardinality(I) : Nth(I, j) = Nth(I, k) => j = k
  BY PickedFacts
<1> DEFINE P == Picked(L, I)
<1> HIDE DEF P
<1>2. P \in Seq(SheetRecord) /\ Len(P) = Cardinality(I) /\ DOMAIN P = 1 .. Cardinality(I)
  BY <1>1 DEF P
<1>3. \A k \in 1 .. Cardinality(I) : Nth(I, k) \in I /\ Nth(I, k) \in DOMAIN L /\ P[k] = L[Nth(I, k)]
  BY <1>1 DEF P
<1>4. \A i \in I : \E k \in DOMAIN P : P[k] = L[i]
  BY <1>1, <1>2 DEF P
<1>5. Distinct(P)
  <2> SUFFICES ASSUME NEW j \in DOMAIN P, NEW k \in DOMAIN P, P[j].id = P[k].id PROVE j = k
    BY DEF Distinct
  <2>1. L[Nth(I, j)].id = L[Nth(I, k)].id
    BY <1>2, <1>3
  <2>2. Nth(I, j) = Nth(I, k)
    BY <1>2, <1>3, <2>1 DEF Distinct
  <2> QED BY <1>1, <1>2, <2>2
<1>6. ToSet(P) = {L[i] : i \in I}
  <2>1. \A x \in ToSet(P) : \E k \in DOMAIN P : x = P[k]
    BY DEF ToSet
  <2>2. \A k \in DOMAIN P : P[k] \in ToSet(P)
    BY DEF ToSet
  <2>3. ToSet(P) \subseteq {L[i] : i \in I}
    BY <1>2, <1>3, <2>1
  <2>4. {L[i] : i \in I} \subseteq ToSet(P)
    BY <1>4, <2>2
  <2> QED BY <2>3, <2>4
<1> QED BY <1>2, <1>5, <1>6 DEF P

LEMMA WithoutFacts ==
  ASSUME NEW L \in Seq(SheetRecord), Distinct(L), NEW ids
  PROVE  /\ Without(L, ids) \in Seq(SheetRecord) /\ Distinct(Without(L, ids))
         /\ ToSet(Without(L, ids)) = {x \in ToSet(L) : x.id \notin ids}
         /\ Ids(Without(L, ids)) = Ids(L) \ ids
<1> DEFINE I == DOMAIN L \ PlacesOf(L, ids)
           R == Without(L, ids)
<1>1. I \in SUBSET DOMAIN L /\ R = Picked(L, I)
  BY DEF Without
<1>2. {L[i] : i \in I} = {x \in ToSet(L) : x.id \notin ids}
  BY DEF PlacesOf, ToSet
<1> HIDE DEF I, R
<1>3. R \in Seq(SheetRecord) /\ Distinct(R) /\ ToSet(R) = {x \in ToSet(L) : x.id \notin ids}
  BY <1>1, <1>2, PickSheets
<1>4. Ids(R) = Ids(L) \ ids
  BY <1>3 DEF Ids
<1> QED BY <1>3, <1>4 DEF R

LEMMA InsertAtFacts ==
  ASSUME NEW L \in Seq(SheetRecord), Distinct(L), NEW at \in 1 .. Len(L) + 1,
         NEW new \in SheetRecord, new.id \notin Ids(L)
  PROVE  /\ InsertAt(L, at, new) \in Seq(SheetRecord) /\ Distinct(InsertAt(L, at, new))
         /\ ToSet(InsertAt(L, at, new)) = ToSet(L) \cup {new}
         /\ Ids(InsertAt(L, at, new)) = Ids(L) \cup {new.id}
<1> DEFINE R == InsertAt(L, at, new)
<1>1. R = With(L, at, new)
  BY DEF InsertAt, With
<1> HIDE DEF R
<1>2. /\ R \in Seq(SheetRecord) /\ Len(R) = Len(L) + 1
      /\ \A k \in 1 .. at - 1 : R[k] = L[k]
      /\ R[at] = new
      /\ \A k \in at .. Len(L) : R[k + 1] = L[k]
  BY <1>1, InsertFacts
<1>3. Len(L) \in Nat /\ DOMAIN L = 1 .. Len(L) /\ DOMAIN R = 1 .. Len(L) + 1
  BY <1>2
<1> DEFINE old(k) == IF k < at THEN k ELSE k - 1
<1>4. \A k \in DOMAIN R : k = at \/ (old(k) \in DOMAIN L /\ R[k] = L[old(k)])
  <2> SUFFICES ASSUME NEW k \in DOMAIN R, k # at PROVE old(k) \in DOMAIN L /\ R[k] = L[old(k)]
    OBVIOUS
  <2>1. CASE k < at
    BY <1>2, <1>3, <2>1
  <2>2. CASE k > at
    <3>1. k - 1 \in at .. Len(L) /\ (k - 1) + 1 = k
      BY <1>3, <2>2
    <3>2. R[(k - 1) + 1] = L[k - 1]
      BY <1>2, <3>1
    <3> QED BY <1>3, <2>2, <3>1, <3>2
  <2> QED BY <1>3, <2>1, <2>2
<1>5. \A j, k \in DOMAIN R : j # at /\ k # at /\ old(j) = old(k) => j = k
  BY <1>3
<1>6. \A i \in DOMAIN L : \E k \in DOMAIN R : R[k] = L[i]
  <2> TAKE i \in DOMAIN L
  <2>1. CASE i < at
    BY <1>2, <1>3, <2>1
  <2>2. CASE i >= at
    <3>1. i \in at .. Len(L) /\ i + 1 \in DOMAIN R
      BY <1>3, <2>2
    <3> QED BY <1>2, <3>1
  <2> QED BY <1>3, <2>1, <2>2
<1> HIDE DEF old
<1>7. at \in DOMAIN R
  BY <1>3
<1>8. Distinct(R)
  <2> SUFFICES ASSUME NEW j \in DOMAIN R, NEW k \in DOMAIN R, R[j].id = R[k].id PROVE j = k
    BY DEF Distinct
  <2>1. CASE j = at /\ k # at
    BY <1>2, <1>4, <2>1, ElementFacts
  <2>2. CASE j # at /\ k = at
    BY <1>2, <1>4, <2>2, ElementFacts
  <2>3. CASE j # at /\ k # at
    BY <1>4, <1>5, <2>3 DEF Distinct
  <2> QED BY <2>1, <2>2, <2>3
<1>9. ToSet(R) = ToSet(L) \cup {new}
  <2>1. ToSet(R) \subseteq ToSet(L) \cup {new}
    BY <1>2, <1>4 DEF ToSet
  <2>2. ToSet(L) \subseteq ToSet(R)
    BY <1>6 DEF ToSet
  <2>3. new \in ToSet(R)
    BY <1>2, <1>7 DEF ToSet
  <2> QED BY <2>1, <2>2, <2>3
<1>10. Ids(R) = Ids(L) \cup {new.id}
  BY <1>9 DEF Ids
<1> QED BY <1>2, <1>8, <1>9, <1>10 DEF R

LEMMA ReplaceFacts ==
  ASSUME NEW L \in Seq(SheetRecord), Distinct(L), NEW at \in DOMAIN L,
         NEW new \in SheetRecord, new.id = L[at].id
  PROVE  /\ [L EXCEPT ![at] = new] \in Seq(SheetRecord) /\ Distinct([L EXCEPT ![at] = new])
         /\ ToSet([L EXCEPT ![at] = new]) = (ToSet(L) \ {L[at]}) \cup {new}
         /\ Ids([L EXCEPT ![at] = new]) = Ids(L)
<1> DEFINE R == [L EXCEPT ![at] = new]
<1>1. R \in Seq(SheetRecord) /\ DOMAIN R = DOMAIN L
  OBVIOUS
<1>2. R[at] = new /\ \A k \in DOMAIN L : k # at => R[k] = L[k]
  OBVIOUS
<1> HIDE DEF R
<1>3. \A k \in DOMAIN L : R[k].id = L[k].id
  BY <1>2
<1>4. Distinct(R)
  BY <1>1, <1>3 DEF Distinct
<1>5. Ids(R) = Ids(L)
  <2>1. Ids(R) = {R[k].id : k \in DOMAIN L} /\ Ids(L) = {L[k].id : k \in DOMAIN L}
    BY <1>1 DEF Ids, ToSet
  <2> QED BY <1>3, <2>1
<1>6. ToSet(R) = (ToSet(L) \ {L[at]}) \cup {new}
  <2>1. \A k \in DOMAIN L : k # at => L[k] # L[at]
    BY DEF Distinct
  <2>2. ToSet(R) \subseteq (ToSet(L) \ {L[at]}) \cup {new}
    BY <1>1, <1>2, <2>1 DEF ToSet
  <2>3. (ToSet(L) \ {L[at]}) \cup {new} \subseteq ToSet(R)
    BY <1>1, <1>2 DEF ToSet
  <2> QED BY <2>2, <2>3
<1> QED BY <1>1, <1>4, <1>5, <1>6 DEF R

LEMMA JoinFacts ==
  ASSUME NEW P \in Seq(SheetRecord), NEW Q \in Seq(SheetRecord), Distinct(P), Distinct(Q),
         Ids(P) \cap Ids(Q) = {}
  PROVE  /\ P \o Q \in Seq(SheetRecord) /\ Distinct(P \o Q)
         /\ ToSet(P \o Q) = ToSet(P) \cup ToSet(Q)
         /\ Ids(P \o Q) = Ids(P) \cup Ids(Q)
<1> DEFINE R == P \o Q
<1>1. /\ R \in Seq(SheetRecord) /\ Len(R) = Len(P) + Len(Q)
      /\ \A k \in 1 .. Len(P) + Len(Q) : R[k] = IF k <= Len(P) THEN P[k] ELSE Q[k - Len(P)]
  BY ConcatProperties
<1> HIDE DEF R
<1>2. Len(P) \in Nat /\ Len(Q) \in Nat /\ DOMAIN P = 1 .. Len(P) /\ DOMAIN Q = 1 .. Len(Q)
  OBVIOUS
<1>3. DOMAIN R = 1 .. Len(P) + Len(Q)
  BY <1>1, <1>2
<1>4. \A k \in DOMAIN R : k <= Len(P) => k \in DOMAIN P /\ R[k] = P[k]
  BY <1>1, <1>2, <1>3
<1>5. \A k \in DOMAIN R : ~(k <= Len(P)) => k - Len(P) \in DOMAIN Q /\ R[k] = Q[k - Len(P)]
  BY <1>1, <1>2, <1>3
<1>6. \A k \in DOMAIN P : k \in DOMAIN R /\ R[k] = P[k]
  BY <1>1, <1>2, <1>3
<1>7. \A k \in DOMAIN Q : Len(P) + k \in DOMAIN R /\ R[Len(P) + k] = Q[k]
  <2> TAKE k \in DOMAIN Q
  <2>1. Len(P) + k \in 1 .. Len(P) + Len(Q) /\ ~(Len(P) + k <= Len(P)) /\ (Len(P) + k) - Len(P) = k
    BY <1>2
  <2> QED BY <1>1, <1>3, <2>1
<1>8. ToSet(R) = ToSet(P) \cup ToSet(Q)
  <2>1. ToSet(R) \subseteq ToSet(P) \cup ToSet(Q)
    BY <1>4, <1>5 DEF ToSet
  <2>2. ToSet(P) \subseteq ToSet(R)
    BY <1>6 DEF ToSet
  <2>3. ToSet(Q) \subseteq ToSet(R)
    BY <1>7 DEF ToSet
  <2> QED BY <2>1, <2>2, <2>3
<1>9. Distinct(R)
  <2> SUFFICES ASSUME NEW j \in DOMAIN R, NEW k \in DOMAIN R, R[j].id = R[k].id PROVE j = k
    BY DEF Distinct
  <2>1. CASE j <= Len(P) /\ k <= Len(P)
    BY <1>4, <2>1 DEF Distinct
  <2>2. CASE j <= Len(P) /\ ~(k <= Len(P))
    <3>1. R[j].id \in Ids(P) /\ R[k].id \in Ids(Q)
      BY <1>4, <1>5, <2>2, ElementFacts
    <3> QED BY <3>1
  <2>3. CASE ~(j <= Len(P)) /\ k <= Len(P)
    <3>1. R[k].id \in Ids(P) /\ R[j].id \in Ids(Q)
      BY <1>4, <1>5, <2>3, ElementFacts
    <3> QED BY <3>1
  <2>4. CASE ~(j <= Len(P)) /\ ~(k <= Len(P))
    <3>1. j - Len(P) \in DOMAIN Q /\ k - Len(P) \in DOMAIN Q /\ Q[j - Len(P)].id = Q[k - Len(P)].id
      BY <1>5, <2>4
    <3>2. j - Len(P) = k - Len(P)
      BY <3>1 DEF Distinct
    <3> QED BY <1>2, <1>3, <3>2
  <2> QED BY <2>1, <2>2, <2>3, <2>4
<1>10. Ids(R) = Ids(P) \cup Ids(Q)
  BY <1>8 DEF Ids
<1> QED BY <1>1, <1>8, <1>9, <1>10 DEF R

LEMMA ReorderedFacts ==
  ASSUME NEW L \in Seq(SheetRecord), Distinct(L), NEW ids, NEW i \in 1 .. Len(L) + 1
  PROVE  /\ Reordered(L, ids, i) \in Seq(SheetRecord) /\ Distinct(Reordered(L, ids, i))
         /\ ToSet(Reordered(L, ids, i)) = ToSet(L)
<1> DEFINE moving == PlacesOf(L, ToSet(ids))
           A == (1 .. i - 1) \ moving
           B == moving
           C == (i .. Len(L)) \ moving
<1>1. DOMAIN L = 1 .. Len(L) /\ Len(L) \in Nat
  OBVIOUS
<1>2. /\ A \in SUBSET DOMAIN L /\ B \in SUBSET DOMAIN L /\ C \in SUBSET DOMAIN L
      /\ A \cap B = {} /\ A \cap C = {} /\ B \cap C = {}
      /\ DOMAIN L = A \cup B \cup C
  BY <1>1 DEF PlacesOf
<1>3. Reordered(L, ids, i) = Picked(L, A) \o Picked(L, B) \o Picked(L, C)
  BY DEF Reordered
<1> DEFINE P == Picked(L, A)
           Q == Picked(L, B)
           R == Picked(L, C)
<1> HIDE DEF A, B, C
<1>4. P \in Seq(SheetRecord) /\ Distinct(P) /\ ToSet(P) = {L[k] : k \in A}
  BY <1>2, PickSheets
<1>5. Q \in Seq(SheetRecord) /\ Distinct(Q) /\ ToSet(Q) = {L[k] : k \in B}
  BY <1>2, PickSheets
<1>6. R \in Seq(SheetRecord) /\ Distinct(R) /\ ToSet(R) = {L[k] : k \in C}
  BY <1>2, PickSheets
<1> HIDE DEF P, Q, R
<1>7. Ids(P) \cap Ids(Q) = {} /\ Ids(P) \cap Ids(R) = {} /\ Ids(Q) \cap Ids(R) = {}
  <2>1. \A j, k \in DOMAIN L : j # k => L[j].id # L[k].id
    BY DEF Distinct
  <2>2. Ids(P) = {L[k].id : k \in A} /\ Ids(Q) = {L[k].id : k \in B} /\ Ids(R) = {L[k].id : k \in C}
    BY <1>4, <1>5, <1>6 DEF Ids
  <2>3. \A j \in A, k \in B : L[j].id # L[k].id
    BY <1>2, <2>1
  <2>4. \A j \in A, k \in C : L[j].id # L[k].id
    BY <1>2, <2>1
  <2>5. \A j \in B, k \in C : L[j].id # L[k].id
    BY <1>2, <2>1
  <2> QED BY <2>2, <2>3, <2>4, <2>5
<1>8. /\ P \o Q \in Seq(SheetRecord) /\ Distinct(P \o Q)
      /\ ToSet(P \o Q) = ToSet(P) \cup ToSet(Q) /\ Ids(P \o Q) = Ids(P) \cup Ids(Q)
  BY <1>4, <1>5, <1>7, JoinFacts
<1> DEFINE PQ == P \o Q
<1> HIDE DEF PQ
<1>9. /\ PQ \in Seq(SheetRecord) /\ Distinct(PQ)
      /\ ToSet(PQ) = ToSet(P) \cup ToSet(Q) /\ Ids(PQ) = Ids(P) \cup Ids(Q)
  BY <1>8 DEF PQ
<1>10. /\ PQ \o R \in Seq(SheetRecord) /\ Distinct(PQ \o R)
       /\ ToSet(PQ \o R) = ToSet(PQ) \cup ToSet(R)
  <2>1. Ids(PQ) \cap Ids(R) = {}
    BY <1>7, <1>9
  <2> QED BY <1>6, <1>9, <2>1, JoinFacts
<1>11. ToSet(PQ) \cup ToSet(R) = ToSet(L)
  <2>1. ToSet(L) = {L[k] : k \in DOMAIN L}
    BY DEF ToSet
  <2> QED BY <1>2, <1>4, <1>5, <1>6, <1>9, <2>1
<1>12. Reordered(L, ids, i) = PQ \o R
  BY <1>3 DEF P, Q, R, PQ
<1> QED BY <1>10, <1>11, <1>12

(* The ids of a collection of sheets: each is of one of its sheets, none   *)
(* comes twice.                                                            *)
OfSheets(ids, L) ==
  /\ ids \in Seq(Nat)
  /\ \A n \in DOMAIN ids : ids[n] \in Ids(L)
  /\ \A m, n \in DOMAIN ids : ids[m] = ids[n] => m = n

LEMMA IdSeqFacts ==
  ASSUME NEW L \in Seq(SheetRecord), Distinct(L)
  PROVE  OfSheets(IdSeq(L), L) /\ ToSet(IdSeq(L)) = Ids(L)
<1> DEFINE q == IdSeq(L)
<1>1. Len(L) \in Nat /\ DOMAIN L = 1 .. Len(L) /\ \A i \in DOMAIN L : L[i].id \in Nat
  BY ElementFacts, RecordFacts
<1>2. q \in [1 .. Len(L) -> Nat] /\ DOMAIN q = DOMAIN L /\ \A n \in DOMAIN L : q[n] = L[n].id
  BY <1>1 DEF IdSeq
<1> HIDE DEF q
<1>3. q \in Seq(Nat)
  BY <1>1, <1>2
<1>4. \A n \in DOMAIN q : q[n] \in Ids(L)
  BY <1>2, ElementFacts
<1>5. \A m, n \in DOMAIN q : q[m] = q[n] => m = n
  BY <1>2 DEF Distinct
<1>6. ToSet(q) = Ids(L)
  BY <1>2 DEF ToSet, Ids
<1> QED BY <1>3, <1>4, <1>5, <1>6 DEF OfSheets, q

-----------------------------------------------------------------------------
(* Sessions. A session is in order (Good) when its workbooks are, the       *)
(* selection is on a sheet of the active one, and each handle denotes a     *)
(* sheet that is there. Same and Extends say what an operation on b leaves  *)
(* of the other workbooks.                                                  *)
Book == [sheets : Seq(SheetRecord), readOnly : BOOLEAN]
BookMaps == UNION {[D -> Book] : D \in SUBSET Nat}
Handle == [kind : {"sheet", "range"}, book : Nat, sheet : Nat, gone : BOOLEAN]
Session == [books : BookMaps, next : Nat, live : SUBSET Handle, active : Nat,
            selection : [book : Nat, sheet : Nat]]

BooksGood(s) ==
  /\ DOMAIN s.books \subseteq 1 .. s.next - 1
  /\ \A b \in DOMAIN s.books : Listed(SheetsOf(s, b))

FocusGood(s) ==
  /\ s.active = None <=> DOMAIN s.books = {}
  /\ s.selection.book = s.active
  /\ s.active # None => s.active \in DOMAIN s.books /\ s.selection.sheet \in Ids(SheetsOf(s, s.active))

HandlesGood(s) ==
  \A h \in s.live : ~h.gone /\ h.book \in DOMAIN s.books /\ h.sheet \in Ids(SheetsOf(s, h.book))

Good(s) == s \in Session /\ s.next # 0 /\ BooksGood(s) /\ FocusGood(s) /\ HandlesGood(s)

Extends(s, t, b) ==
  /\ s.next <= t.next /\ DOMAIN s.books \subseteq DOMAIN t.books
  /\ \A c \in DOMAIN s.books : c # b => t.books[c] = s.books[c]

Same(s, t, b) ==
  /\ t.next = s.next /\ DOMAIN t.books = DOMAIN s.books
  /\ \A c \in DOMAIN s.books : c # b => t.books[c] = s.books[c]

LEMMA BookMapFacts ==
  ASSUME NEW f
  PROVE  f \in BookMaps <=> /\ DOMAIN f \subseteq Nat
                            /\ f = [c \in DOMAIN f |-> f[c]]
                            /\ \A c \in DOMAIN f : f[c] \in Book
<1>1. ASSUME f \in BookMaps
      PROVE  /\ DOMAIN f \subseteq Nat
             /\ f = [c \in DOMAIN f |-> f[c]]
             /\ \A c \in DOMAIN f : f[c] \in Book
  <2>1. PICK D \in SUBSET Nat : f \in [D -> Book]
    BY <1>1 DEF BookMaps
  <2> QED BY <2>1
<1>2. ASSUME DOMAIN f \subseteq Nat, f = [c \in DOMAIN f |-> f[c]], \A c \in DOMAIN f : f[c] \in Book
      PROVE  f \in BookMaps
  <2>1. f \in [DOMAIN f -> Book]
    BY <1>2
  <2>2. DOMAIN f \in SUBSET Nat
    BY <1>2
  <2> QED BY <2>1, <2>2 DEF BookMaps
<1> QED BY <1>1, <1>2

LEMMA SessionFacts ==
  ASSUME NEW s \in Session
  PROVE  /\ s.next \in Nat /\ s.live \subseteq Handle /\ s.active \in Nat
         /\ s.selection \in [book : Nat, sheet : Nat]
         /\ s.books \in BookMaps /\ DOMAIN s.books \subseteq Nat
         /\ s.books = [c \in DOMAIN s.books |-> s.books[c]]
         /\ \A c \in DOMAIN s.books : s.books[c] \in Book /\ SheetsOf(s, c) \in Seq(SheetRecord)
                                      /\ s.books[c].readOnly \in BOOLEAN
<1>1. /\ s.next \in Nat /\ s.live \subseteq Handle /\ s.active \in Nat
      /\ s.selection \in [book : Nat, sheet : Nat] /\ s.books \in BookMaps
  BY DEF Session
<1>2. /\ DOMAIN s.books \subseteq Nat /\ s.books = [c \in DOMAIN s.books |-> s.books[c]]
      /\ \A c \in DOMAIN s.books : s.books[c] \in Book
  BY <1>1, BookMapFacts
<1>3. \A c \in DOMAIN s.books : SheetsOf(s, c) \in Seq(SheetRecord) /\ s.books[c].readOnly \in BOOLEAN
  BY <1>2 DEF SheetsOf, Book
<1> QED BY <1>1, <1>2, <1>3

(* What the sheets of a session that is in order are.                      *)
LEMMA GoodSheets ==
  ASSUME NEW s, Good(s), NEW b \in DOMAIN s.books
  PROVE  /\ b \in Nat /\ b # 0 /\ b < s.next
         /\ SheetsOf(s, b) \in Seq(SheetRecord) /\ Distinct(SheetsOf(s, b)) /\ ShownIn(SheetsOf(s, b)) # {}
         /\ Listed(SheetsOf(s, b)) /\ SheetsOf(s, b) # <<>> /\ FirstShown(SheetsOf(s, b)) \in Ids(SheetsOf(s, b))
<1>1. s \in Session /\ b \in 1 .. s.next - 1 /\ Listed(SheetsOf(s, b)) /\ s.next \in Nat
  BY SessionFacts DEF Good, BooksGood
<1>2. SheetsOf(s, b) \in Seq(SheetRecord) /\ Distinct(SheetsOf(s, b)) /\ ShownIn(SheetsOf(s, b)) # {}
  BY <1>1 DEF Listed
<1>3. SheetsOf(s, b) # <<>>
  BY <1>2 DEF ShownIn
<1>4. FirstShown(SheetsOf(s, b)) \in Ids(SheetsOf(s, b))
  BY <1>2, FirstShownFacts
<1> QED BY <1>1, <1>2, <1>3, <1>4

(* Replacing the sheets of a workbook.                                     *)
LEMMA WithSheetsFacts ==
  ASSUME NEW s \in Session, NEW b \in DOMAIN s.books, NEW L \in Seq(SheetRecord)
  PROVE  /\ WithSheets(s, b, L) \in Session
         /\ SheetsOf(WithSheets(s, b, L), b) = L
         /\ WithSheets(s, b, L).books[b].readOnly = s.books[b].readOnly
         /\ Same(s, WithSheets(s, b, L), b)
         /\ WithSheets(s, b, L).live = s.live
         /\ WithSheets(s, b, L).active = s.active
         /\ WithSheets(s, b, L).selection = s.selection
<1> DEFINE t == WithSheets(s, b, L)
           books2 == [s.books EXCEPT ![b] = [s.books[b] EXCEPT !.sheets = L]]
<1>1. /\ t.books = books2 /\ t.next = s.next /\ t.live = s.live /\ t.active = s.active
      /\ t.selection = s.selection
  BY DEF WithSheets, Session
<1>2. s.books[b] \in Book /\ DOMAIN s.books \subseteq Nat
      /\ s.books = [c \in DOMAIN s.books |-> s.books[c]] /\ \A c \in DOMAIN s.books : s.books[c] \in Book
  BY SessionFacts
<1>3. /\ [s.books[b] EXCEPT !.sheets = L] \in Book
      /\ [s.books[b] EXCEPT !.sheets = L].sheets = L
      /\ [s.books[b] EXCEPT !.sheets = L].readOnly = s.books[b].readOnly
  BY <1>2 DEF Book
<1>4. /\ DOMAIN books2 = DOMAIN s.books /\ books2[b] = [s.books[b] EXCEPT !.sheets = L]
      /\ \A c \in DOMAIN s.books : c # b => books2[c] = s.books[c]
      /\ books2 = [c \in DOMAIN books2 |-> books2[c]]
  OBVIOUS
<1> HIDE DEF books2
<1>5. \A c \in DOMAIN books2 : books2[c] \in Book
  BY <1>2, <1>3, <1>4
<1>6. books2 \in BookMaps
  BY <1>2, <1>4, <1>5, BookMapFacts
<1>7. t = [s EXCEPT !.books = books2]
  BY DEF WithSheets, books2, Session
<1>8. t \in Session
  BY <1>6, <1>7 DEF Session
<1> QED BY <1>1, <1>3, <1>4, <1>8 DEF SheetsOf, Same

(* Sheets that keep their ids, or get new ones, leave a session in order.  *)
LEMMA WithSheetsGood ==
  ASSUME NEW s, Good(s), NEW b \in DOMAIN s.books, NEW L,
         Listed(L), Ids(SheetsOf(s, b)) \subseteq Ids(L)
  PROVE  Good(WithSheets(s, b, L))
<1> DEFINE t == WithSheets(s, b, L)
<1>0. s \in Session /\ L \in Seq(SheetRecord)
  BY DEF Good, Listed
<1>1. /\ t \in Session /\ SheetsOf(t, b) = L /\ Same(s, t, b)
      /\ t.live = s.live /\ t.active = s.active /\ t.selection = s.selection
  BY <1>0, WithSheetsFacts
<1> HIDE DEF t
<1>2. /\ DOMAIN t.books = DOMAIN s.books /\ t.next = s.next
      /\ \A c \in DOMAIN s.books : c # b => SheetsOf(t, c) = SheetsOf(s, c)
  BY <1>1 DEF Same, SheetsOf
<1>3. \A c \in DOMAIN s.books : Ids(SheetsOf(s, c)) \subseteq Ids(SheetsOf(t, c)) /\ Listed(SheetsOf(t, c))
  BY <1>1, <1>2 DEF Good, BooksGood
<1>4. BooksGood(t)
  BY <1>2, <1>3 DEF Good, BooksGood
<1>5. FocusGood(t)
  BY <1>1, <1>2, <1>3 DEF Good, FocusGood
<1>6. HandlesGood(t)
  BY <1>1, <1>2, <1>3 DEF Good, HandlesGood
<1> QED BY <1>1, <1>2, <1>4, <1>5, <1>6 DEF Good, t

LEMMA SelectGood ==
  ASSUME NEW s, Good(s), NEW b \in DOMAIN s.books, NEW id \in Ids(SheetsOf(s, b))
  PROVE  /\ Good(Select(s, b, id))
         /\ Select(s, b, id).books = s.books /\ Select(s, b, id).next = s.next
         /\ Select(s, b, id).live = s.live
<1> DEFINE t == Select(s, b, id)
<1>1. s \in Session /\ b \in Nat /\ id \in Nat /\ b # 0
  BY GoodSheets, ElementFacts DEF Good
<1>2. /\ t \in Session /\ t.books = s.books /\ t.next = s.next /\ t.live = s.live
      /\ t.active = b /\ t.selection = [book |-> b, sheet |-> id]
  BY <1>1 DEF Select, Session
<1> HIDE DEF t
<1>3. BooksGood(t) /\ HandlesGood(t)
  BY <1>2 DEF Good, BooksGood, HandlesGood, SheetsOf
<1>4. FocusGood(t)
  BY <1>1, <1>2 DEF FocusGood, SheetsOf, None
<1> QED BY <1>2, <1>3, <1>4 DEF Good, t

LEMMA OpenGood ==
  ASSUME NEW s, Good(s), NEW book \in Book, Listed(book.sheets)
  PROVE  /\ Good(OpenWorkbook(s, book))
         /\ OpenWorkbook(s, book).next = s.next + 1
         /\ DOMAIN OpenWorkbook(s, book).books = DOMAIN s.books \cup {s.next}
         /\ SheetsOf(OpenWorkbook(s, book), s.next) = book.sheets
         /\ OpenWorkbook(s, book).books[s.next] = book
         /\ \A c \in DOMAIN s.books : c # s.next /\ OpenWorkbook(s, book).books[c] = s.books[c]
<1> DEFINE t == OpenWorkbook(s, book)
           n == s.next
           books2 == [c \in {n} \cup DOMAIN s.books |-> IF c = n THEN book ELSE s.books[c]]
<1>1. s \in Session /\ n \in Nat /\ n # 0 /\ DOMAIN s.books \subseteq 1 .. n - 1
  BY SessionFacts DEF Good, BooksGood
<1>2. \A c \in DOMAIN s.books : c # n /\ c \in Nat /\ s.books[c] \in Book
  <2>1. \A c \in 1 .. n - 1 : c # n /\ c \in Nat
    BY <1>1
  <2>2. \A c \in DOMAIN s.books : s.books[c] \in Book
    BY <1>1, SessionFacts
  <2> QED BY <1>1, <2>1, <2>2
<1>3. /\ DOMAIN books2 = DOMAIN s.books \cup {n} /\ books2[n] = book
      /\ \A c \in DOMAIN s.books : books2[c] = s.books[c]
      /\ books2 = [c \in DOMAIN books2 |-> books2[c]]
  BY <1>2
<1>4. books2 \in BookMaps
  <2>1. DOMAIN books2 \subseteq Nat /\ \A c \in DOMAIN books2 : books2[c] \in Book
    BY <1>1, <1>2, <1>3
  <2> HIDE DEF books2
  <2> QED BY <1>3, <2>1, BookMapFacts
<1>5. book.sheets \in Seq(SheetRecord) /\ FirstShown(book.sheets) \in Ids(book.sheets)
      /\ FirstShown(book.sheets) \in Nat
  BY FirstShownFacts, ElementFacts DEF Listed
<1>6. /\ t.books = books2 /\ t.next = n + 1 /\ t.live = s.live /\ t.active = n
      /\ t.selection = [book |-> n, sheet |-> FirstShown(book.sheets)]
  BY <1>1 DEF OpenWorkbook, Session
<1>7. t = [s EXCEPT !.books = books2, !.next = n + 1, !.active = n,
                    !.selection = [book |-> n, sheet |-> FirstShown(book.sheets)]]
  BY DEF OpenWorkbook
<1> HIDE DEF books2
<1>8. t \in Session
  <2>1. n + 1 \in Nat /\ [book |-> n, sheet |-> FirstShown(book.sheets)] \in [book : Nat, sheet : Nat]
    BY <1>1, <1>5
  <2> QED BY <1>1, <1>4, <1>7, <2>1 DEF Session
<1> HIDE DEF t
<1>9. SheetsOf(t, n) = book.sheets /\ \A c \in DOMAIN s.books : SheetsOf(t, c) = SheetsOf(s, c)
  BY <1>3, <1>6 DEF SheetsOf
<1>10. BooksGood(t)
  <2>1. DOMAIN t.books \subseteq 1 .. t.next - 1
    BY <1>1, <1>3, <1>6
  <2>2. \A c \in DOMAIN t.books : Listed(SheetsOf(t, c))
    BY <1>3, <1>6, <1>9 DEF Good, BooksGood
  <2> QED BY <2>1, <2>2 DEF BooksGood
<1>11. FocusGood(t)
  <2>1. t.active \in DOMAIN t.books /\ t.active # 0 /\ t.selection.book = t.active
    BY <1>1, <1>3, <1>6
  <2>2. t.selection.sheet \in Ids(SheetsOf(t, t.active))
    BY <1>5, <1>6, <1>9
  <2> QED BY <2>1, <2>2 DEF FocusGood, None
<1>12. HandlesGood(t)
  BY <1>3, <1>6, <1>9 DEF HandlesGood, Good
<1>13. t.next # 0
  BY <1>1, <1>6
<1> DEFINE u == t
<1> QED BY <1>1, <1>2, <1>3, <1>6, <1>8, <1>9, <1>10, <1>11, <1>12, <1>13 DEF Good, t

(* The handles of the sheets ids of b are retired with the sheets.         *)
LEMMA GoneFacts ==
  ASSUME NEW s \in Session, NEW b, NEW ids
  PROVE  /\ Gone(s, b, ids) \in Session /\ Gone(s, b, ids).books = s.books
         /\ Gone(s, b, ids).next = s.next /\ Gone(s, b, ids).active = s.active
         /\ Gone(s, b, ids).selection = s.selection
         /\ \A h \in Gone(s, b, ids).live : h \in s.live \/ (h.book = b /\ h.sheet \in ids)
<1> DEFINE live2 == {IF h.book = b /\ h.sheet \in ids THEN [h EXCEPT !.gone = TRUE] ELSE h : h \in s.live}
<1>1. s.live \subseteq Handle
  BY DEF Session
<1>2. live2 \subseteq Handle
  BY <1>1 DEF Handle
<1>3. \A h \in live2 : h \in s.live \/ (h.book = b /\ h.sheet \in ids)
  BY <1>1 DEF Handle
<1>4. Gone(s, b, ids) = [s EXCEPT !.live = live2]
  BY DEF Gone
<1> HIDE DEF live2
<1>5. /\ [s EXCEPT !.live = live2] \in Session /\ [s EXCEPT !.live = live2].live = live2
      /\ [s EXCEPT !.live = live2].books = s.books
      /\ [s EXCEPT !.live = live2].next = s.next /\ [s EXCEPT !.live = live2].active = s.active
      /\ [s EXCEPT !.live = live2].selection = s.selection
  BY <1>2 DEF Session
<1> QED BY <1>3, <1>4, <1>5

LEMMA RetireFacts ==
  ASSUME NEW s \in Session, NEW hs
  PROVE  /\ Retire(s, hs) \in Session /\ Retire(s, hs).books = s.books
         /\ Retire(s, hs).next = s.next /\ Retire(s, hs).active = s.active
         /\ Retire(s, hs).selection = s.selection /\ Retire(s, hs).live = s.live \ hs
BY DEF Retire, Session

(* Closing a workbook takes its handles with it and moves the selection.   *)
LEMMA CloseGood ==
  ASSUME NEW s, Good(s), NEW b \in DOMAIN s.books
  PROVE  /\ Good(CloseWorkbook(s, b))
         /\ CloseWorkbook(s, b).next = s.next
         /\ DOMAIN CloseWorkbook(s, b).books = DOMAIN s.books \ {b}
         /\ \A c \in DOMAIN s.books \ {b} : CloseWorkbook(s, b).books[c] = s.books[c]
<1> DEFINE books2 == [c \in DOMAIN s.books \ {b} |-> s.books[c]]
           rest == [s EXCEPT !.books = books2]
           gone == Gone(rest, b, Ids(SheetsOf(s, b)))
           t == Closed(s, b)
<1>1. s \in Session /\ s.books \in BookMaps /\ DOMAIN s.books \subseteq Nat
      /\ \A c \in DOMAIN s.books : s.books[c] \in Book
  BY SessionFacts DEF Good
<1>2. /\ DOMAIN books2 = DOMAIN s.books \ {b} /\ \A c \in DOMAIN books2 : books2[c] = s.books[c]
      /\ books2 = [c \in DOMAIN books2 |-> books2[c]]
  OBVIOUS
<1>3. books2 \in BookMaps
  <2>1. DOMAIN books2 \subseteq Nat /\ \A c \in DOMAIN books2 : books2[c] \in Book
    BY <1>1, <1>2
  <2> HIDE DEF books2
  <2> QED BY <1>2, <2>1, BookMapFacts
<1> HIDE DEF books2
<1>4. /\ rest \in Session /\ rest.books = books2 /\ rest.next = s.next /\ rest.live = s.live
      /\ rest.active = s.active /\ rest.selection = s.selection
  BY <1>1, <1>3 DEF Session
<1>5. t = Retire(gone, OwnedBy(gone, b))
  BY DEF Closed, books2
<1> HIDE DEF rest
<1>6. /\ gone \in Session /\ gone.books = books2 /\ gone.next = s.next /\ gone.active = s.active
      /\ gone.selection = s.selection
      /\ \A h \in gone.live : h \in s.live \/ h.book = b
  BY <1>4, GoneFacts
<1> HIDE DEF gone
<1>7. /\ t \in Session /\ t.books = books2 /\ t.next = s.next /\ t.active = s.active
      /\ t.selection = s.selection
      /\ \A h \in t.live : h \in s.live /\ h.book # b
  <2>1. /\ t \in Session /\ t.books = books2 /\ t.next = s.next /\ t.active = s.active
        /\ t.selection = s.selection /\ t.live = gone.live \ OwnedBy(gone, b)
    BY <1>5, <1>6, RetireFacts
  <2> HIDE DEF t
  <2>2. \A h \in t.live : h \in s.live /\ h.book # b
    BY <1>6, <2>1 DEF OwnedBy
  <2> QED BY <2>1, <2>2
<1> DEFINE last == IF DOMAIN t.books = {} THEN None ELSE Max(DOMAIN t.books)
           a == IF t.active # b THEN t.active ELSE last
           sel == IF t.selection.book # b THEN t.selection
                  ELSE IF a = None THEN NoSelection ELSE DefaultSelection(t, a)
           u == CloseWorkbook(s, b)
<1>8. u = [t EXCEPT !.active = a, !.selection = sel]
  BY DEF CloseWorkbook
<1> HIDE DEF t
<1>9. FocusGood(s) /\ BooksGood(s) /\ HandlesGood(s) /\ s.next # 0
  BY DEF Good
<1>10. b # 0 /\ b \in Nat /\ \A c \in DOMAIN s.books : c # 0
  BY GoodSheets
<1>11. \A c \in DOMAIN t.books : Listed(SheetsOf(t, c)) /\ SheetsOf(t, c) = SheetsOf(s, c) /\ c \in DOMAIN s.books
  BY <1>2, <1>7, <1>9 DEF SheetsOf, BooksGood
<1>12. /\ a \in Nat /\ (a = 0 <=> DOMAIN t.books = {}) /\ (a # 0 => a \in DOMAIN t.books)
       /\ sel \in [book : Nat, sheet : Nat] /\ sel.book = a
       /\ a # 0 => sel.sheet \in Ids(SheetsOf(t, a))
  <2>1. CASE s.active # b
    <3>1. a = s.active
      BY <1>7, <2>1
    <3> HIDE DEF a
    <3>2. s.active # 0 => s.active \in DOMAIN t.books
      BY <1>2, <1>7, <1>9, <2>1 DEF FocusGood, None
    <3>3. s.active # 0
      BY <1>9 DEF FocusGood, None
    <3>4. sel = s.selection
      BY <1>7, <1>9, <2>1 DEF FocusGood
    <3>5. s.selection.book = s.active /\ s.selection.sheet \in Ids(SheetsOf(s, s.active))
      BY <1>9, <3>3 DEF FocusGood, None
    <3>6. SheetsOf(t, s.active) = SheetsOf(s, s.active)
      BY <1>11, <3>2, <3>3
    <3>7. s.active \in Nat /\ s.selection \in [book : Nat, sheet : Nat]
      BY <1>1, SessionFacts
    <3> HIDE DEF sel
    <3> QED BY <3>1, <3>2, <3>3, <3>4, <3>5, <3>6, <3>7
  <2>2. CASE s.active = b /\ DOMAIN t.books = {}
    <3>1. a = 0
      BY <1>7, <2>2 DEF None
    <3> HIDE DEF a
    <3>2. sel = [book |-> 0, sheet |-> 0]
      BY <1>7, <1>9, <2>2, <3>1 DEF FocusGood, NoSelection, None
    <3> HIDE DEF sel
    <3> QED BY <2>2, <3>1, <3>2
  <2>3. CASE s.active = b /\ DOMAIN t.books # {}
    <3>1. a = Max(DOMAIN t.books)
      BY <1>7, <2>3
    <3>2. IsFiniteSet(DOMAIN t.books) /\ DOMAIN t.books \subseteq Nat
      <4>1. DOMAIN t.books \subseteq 1 .. s.next - 1 /\ s.next \in Nat
        BY <1>1, <1>9, <1>11, SessionFacts DEF BooksGood
      <4>2. IsFiniteSet(1 .. s.next - 1)
        BY <4>1, FS_Interval
      <4> QED BY <4>1, <4>2, FS_Subset
    <3>3. \E x \in DOMAIN t.books : \A y \in DOMAIN t.books : x >= y
      BY <2>3, <3>2, Largest
    <3>4. a \in DOMAIN t.books
      BY <3>1, <3>3 DEF Max
    <3> HIDE DEF a
    <3>5. a # 0 /\ a \in Nat
      BY <1>10, <1>11, <3>2, <3>4
    <3>6. sel = DefaultSelection(t, a)
      BY <1>7, <1>9, <2>3, <3>5 DEF FocusGood, None
    <3> HIDE DEF sel
    <3>7. sel = [book |-> a, sheet |-> FirstShown(SheetsOf(t, a))]
      BY <3>6 DEF DefaultSelection
    <3>8. FirstShown(SheetsOf(t, a)) \in Ids(SheetsOf(t, a)) /\ FirstShown(SheetsOf(t, a)) \in Nat
      BY <1>11, <3>4, FirstShownFacts, ElementFacts DEF Listed
    <3> QED BY <2>3, <3>4, <3>5, <3>7, <3>8
  <2> QED BY <2>1, <2>2, <2>3
<1> HIDE DEF a, sel
<1>13. /\ u \in Session /\ u.books = t.books /\ u.next = s.next /\ u.live = t.live
       /\ u.active = a /\ u.selection = sel
  BY <1>7, <1>8, <1>12 DEF Session
<1> HIDE DEF u
<1>14. BooksGood(u)
  BY <1>9, <1>11, <1>13 DEF BooksGood, SheetsOf
<1>15. FocusGood(u)
  BY <1>12, <1>13 DEF FocusGood, SheetsOf, None
<1>16. HandlesGood(u)
  <2> SUFFICES ASSUME NEW h \in u.live
               PROVE  ~h.gone /\ h.book \in DOMAIN u.books /\ h.sheet \in Ids(SheetsOf(u, h.book))
    BY DEF HandlesGood
  <2>1. h \in s.live /\ h.book # b
    BY <1>7, <1>13
  <2>2. ~h.gone /\ h.book \in DOMAIN s.books /\ h.sheet \in Ids(SheetsOf(s, h.book))
    BY <1>9, <2>1 DEF HandlesGood
  <2>3. h.book \in DOMAIN t.books /\ SheetsOf(u, h.book) = SheetsOf(s, h.book)
    BY <1>2, <1>7, <1>11, <1>13, <2>1, <2>2 DEF SheetsOf
  <2> QED BY <1>13, <2>2, <2>3
<1>17. Good(u)
  BY <1>9, <1>13, <1>14, <1>15, <1>16 DEF Good
<1> QED BY <1>2, <1>7, <1>13, <1>17 DEF u

-----------------------------------------------------------------------------
(* Putting back.                                                           *)
LEMMA RollbackFacts ==
  ASSUME NEW s \in Session, NEW b \in DOMAIN s.books, NEW t, Extends(s, t, b)
  PROVE  Rollback(s, t, b) = s
<1> DEFINE books2 == [c \in DOMAIN s.books \cap (DOMAIN t.books \cup {b}) |->
                        IF c = b THEN s.books[b] ELSE t.books[c]]
<1>1. s.books = [c \in DOMAIN s.books |-> s.books[c]]
  BY SessionFacts
<1>2. /\ DOMAIN s.books \cap (DOMAIN t.books \cup {b}) = DOMAIN s.books
      /\ \A c \in DOMAIN s.books : c # b => t.books[c] = s.books[c]
  BY DEF Extends
<1>3. books2 = s.books
  <2>1. books2 = [c \in DOMAIN s.books |-> IF c = b THEN s.books[b] ELSE t.books[c]]
    BY <1>2
  <2>2. \A c \in DOMAIN s.books : (IF c = b THEN s.books[b] ELSE t.books[c]) = s.books[c]
    BY <1>2
  <2> QED BY <1>1, <2>1, <2>2
<1>4. Rollback(s, t, b) = [s EXCEPT !.books = books2]
  BY DEF Rollback
<1> HIDE DEF books2
<1>5. Rollback(s, t, b) = [s EXCEPT !.books = s.books]
  BY <1>3, <1>4
<1> QED BY <1>5 DEF Session

LEMMA UndoneFacts ==
  ASSUME NEW s \in Session, NEW b \in DOMAIN s.books, NEW outcomes,
         \A p \in outcomes : p.ok \in BOOLEAN /\ (~p.ok => Extends(s, p.s, b))
  PROVE  \A o \in Undone(s, outcomes, b) :
           o.ok \in BOOLEAN /\ (o.ok => o \in outcomes) /\ (~o.ok => o.s = s)
<1> SUFFICES ASSUME NEW o \in Undone(s, outcomes, b)
             PROVE  o.ok \in BOOLEAN /\ (o.ok => o \in outcomes) /\ (~o.ok => o.s = s)
  OBVIOUS
<1>1. PICK p \in outcomes : o = IF p.ok THEN p ELSE Fails(Rollback(s, p.s, b))
  BY DEF Undone
<1>2. CASE p.ok
  BY <1>1, <1>2
<1>3. CASE ~p.ok
  <2>1. Rollback(s, p.s, b) = s
    BY <1>3, RollbackFacts
  <2>2. o = Fails(s)
    BY <1>1, <1>3, <2>1
  <2> QED BY <2>2 DEF Fails
<1> QED BY <1>2, <1>3

LEMMA SameFacts ==
  ASSUME NEW s, NEW t, NEW b, Same(s, t, b)
  PROVE  /\ \A c \in DOMAIN s.books : c # b => SheetsOf(t, c) = SheetsOf(s, c)
         /\ s.next \in Nat => Extends(s, t, b)
BY DEF Same, Extends, SheetsOf

LEMMA SameTwice ==
  ASSUME NEW s, NEW t, NEW b, NEW u, Same(s, t, b), Same(t, u, b)
  PROVE  Same(s, u, b)
BY DEF Same

LEMMA ExtendsSheets ==
  ASSUME NEW s, NEW t, NEW b, Extends(s, t, b)
  PROVE  \A c \in DOMAIN s.books : c \in DOMAIN t.books /\ (c # b => SheetsOf(t, c) = SheetsOf(s, c))
BY DEF Extends, SheetsOf

LEMMA OutcomeFacts ==
  ASSUME NEW s
  PROVE  Succeeds(s).s = s /\ Succeeds(s).ok = TRUE /\ Fails(s).s = s /\ Fails(s).ok = FALSE
BY DEF Succeeds, Fails

LEMMA ExtendsTwice ==
  ASSUME NEW s, NEW t, NEW b, NEW u, s.next \in Nat, t.next \in Nat, u.next \in Nat,
         Extends(s, t, b), Extends(t, u, b)
  PROVE  Extends(s, u, b)
BY DEF Extends

-----------------------------------------------------------------------------
(* Deleting a sheet.                                                       *)

(* What is left of a workbook when a sheet of it can be deleted.           *)
LEMMA LeftFacts ==
  ASSUME NEW s, Good(s), NEW b \in DOMAIN s.books, NEW id \in Ids(SheetsOf(s, b)), CanDelete(s, b, id)
  PROVE  Listed(Without(SheetsOf(s, b), {id}))
<1> DEFINE L == SheetsOf(s, b)
           at == At(L, id)
           R == Without(L, {id})
<1>1. L \in Seq(SheetRecord) /\ Distinct(L) /\ ShownIn(L) # {}
  BY GoodSheets
<1>2. L[at].shown => Cardinality(ShownIn(L)) > 1
  BY DEF CanDelete, SheetOf
<1> HIDE DEF L
<1>3. at \in DOMAIN L /\ L[at].id = id /\ \A i \in DOMAIN L : L[i].id = id => i = at
  BY <1>1, AtFacts DEF L
<1> HIDE DEF at
<1>4. PICK i \in ShownIn(L) : i # at
  <2>1. CASE L[at].shown
    <3>1. SUFFICES ASSUME ShownIn(L) \subseteq {at} PROVE FALSE
      OBVIOUS
    <3>2. IsFiniteSet({at}) /\ Cardinality({at}) = 1
      BY FS_Singleton
    <3>3. Cardinality(ShownIn(L)) <= 1 /\ Cardinality(ShownIn(L)) \in Nat
      BY <3>1, <3>2, FS_Subset, FS_CardinalityType
    <3> QED BY <1>2, <2>1, <3>3
  <2>2. CASE ~L[at].shown
    BY <1>1, <2>2 DEF ShownIn
  <2> QED BY <2>1, <2>2
<1>5. i \in DOMAIN L /\ L[i].shown /\ L[i].id # id
  BY <1>3, <1>4 DEF ShownIn
<1>6. R \in Seq(SheetRecord) /\ Distinct(R) /\ ToSet(R) = {x \in ToSet(L) : x.id \notin {id}}
  BY <1>1, WithoutFacts
<1>7. L[i] \in ToSet(L)
  BY <1>1, <1>5, ElementFacts
<1> HIDE DEF R
<1>8. ShownIn(R) # {}
  BY <1>5, <1>6, <1>7, ShownFacts
<1> QED BY <1>6, <1>8 DEF Listed, R, L

LEMMA DeleteFacts ==
  ASSUME NEW s, Good(s), NEW b \in DOMAIN s.books, NEW id \in Ids(SheetsOf(s, b)),
         NEW o \in DeleteSheet(s, b, id)
  PROVE  /\ o.ok \in BOOLEAN /\ Good(o.s) /\ (~o.ok => o.s = s)
         /\ o.ok => Same(s, o.s, b) /\ SheetsOf(o.s, b) = Without(SheetsOf(s, b), {id})
<1>1. CASE ~CanDelete(s, b, id)
  <2>1. o = Fails(s)
    BY <1>1 DEF DeleteSheet
  <2> QED BY <2>1 DEF Fails
<1>2. CASE CanDelete(s, b, id)
  <2> DEFINE L == SheetsOf(s, b)
             R == Without(L, {id})
             gone == Gone(s, b, {id})
             removed == Removed(s, b, id)
             hs == HandlesTo(removed, b, id)
             retired == Retire(removed, hs)
             active == s.active = b /\ s.selection = [book |-> b, sheet |-> id]
             left == IF active THEN Select(retired, b, FirstShown(SheetsOf(removed, b))) ELSE retired
  <2>1. s \in Session /\ Listed(R) /\ L \in Seq(SheetRecord) /\ Distinct(L)
    BY <1>2, LeftFacts, GoodSheets DEF Good
  <2>2. R \in Seq(SheetRecord) /\ Ids(R) = Ids(L) \ {id}
    BY <2>1, WithoutFacts
  <2>3. /\ gone \in Session /\ gone.books = s.books /\ gone.next = s.next /\ gone.active = s.active
        /\ gone.selection = s.selection
        /\ \A h \in gone.live : h \in s.live \/ (h.book = b /\ h.sheet = id)
    <3>1. /\ gone \in Session /\ gone.books = s.books
          /\ gone.next = s.next /\ gone.active = s.active /\ gone.selection = s.selection
          /\ \A h \in gone.live : h \in s.live \/ (h.book = b /\ h.sheet \in {id})
      BY <2>1, GoneFacts
    <3> HIDE DEF gone
    <3> QED BY <3>1
  <2> HIDE DEF L
  <2>4. removed = WithSheets(gone, b, R)
    BY DEF Removed, L
  <2> HIDE DEF gone, R, removed
  <2>5. /\ removed \in Session /\ SheetsOf(removed, b) = R /\ Same(gone, removed, b)
        /\ removed.live = gone.live /\ removed.active = s.active /\ removed.selection = s.selection
    BY <2>2, <2>3, <2>4, WithSheetsFacts
  <2>6. Same(s, removed, b)
    BY <2>3, <2>5 DEF Same
  <2> HIDE DEF hs
  <2>7. /\ retired \in Session /\ retired.books = removed.books
        /\ retired.next = s.next /\ retired.active = s.active
        /\ retired.selection = s.selection /\ retired.live = removed.live \ hs
    BY <2>5, <2>6, RetireFacts DEF Same
  <2> HIDE DEF retired
  <2>8. SheetsOf(retired, b) = R /\ Same(s, retired, b)
    BY <2>5, <2>6, <2>7 DEF SheetsOf, Same
  <2>9. BooksGood(retired) /\ retired.next # 0
    <3>1. \A c \in DOMAIN s.books : c # b => SheetsOf(retired, c) = SheetsOf(s, c)
      BY <2>8, SameFacts
    <3>2. \A c \in DOMAIN s.books : Listed(SheetsOf(retired, c))
      BY <2>1, <2>8, <3>1 DEF Good, BooksGood
    <3> QED BY <2>8, <3>2 DEF Good, BooksGood, Same
  <2>10. HandlesGood(retired)
    <3> SUFFICES ASSUME NEW h \in retired.live
                 PROVE  ~h.gone /\ h.book \in DOMAIN retired.books /\ h.sheet \in Ids(SheetsOf(retired, h.book))
      BY DEF HandlesGood
    <3>1. h \in removed.live /\ ~(h.book = b /\ h.sheet = id)
      BY <2>7 DEF hs, HandlesTo, OwnedBy
    <3>2. h \in s.live
      BY <2>3, <2>5, <3>1
    <3>3. ~h.gone /\ h.book \in DOMAIN s.books /\ h.sheet \in Ids(SheetsOf(s, h.book))
      BY <3>2 DEF Good, HandlesGood
    <3>4. h.book \in DOMAIN retired.books
      BY <2>8, <3>3 DEF Same
    <3>5. CASE h.book = b
      BY <2>2, <2>8, <3>1, <3>3, <3>4, <3>5 DEF L
    <3>6. CASE h.book # b
      BY <2>8, <3>3, <3>4, <3>6, SameFacts
    <3> QED BY <3>5, <3>6
  <2>11. left \in Session /\ Good(left) /\ left.books = retired.books /\ left.next = retired.next
    <3>1. FirstShown(R) \in Ids(R)
      BY <2>1, FirstShownFacts DEF Listed
    <3>2. b \in DOMAIN retired.books
      BY <2>8 DEF Same
    <3>3. FocusGood(s) /\ b # 0 /\ b \in Nat
      BY GoodSheets DEF Good
    <3>4. CASE active
      <4> DEFINE f == FirstShown(R)
      <4>1. left = Select(retired, b, f)
        BY <2>5, <3>4
      <4>2. f \in Ids(R) /\ f \in Nat
        BY <2>2, <3>1, ElementFacts
      <4> HIDE DEF f
      <4>3. /\ left \in Session /\ left.books = retired.books /\ left.next = retired.next
            /\ left.live = retired.live
            /\ left.active = b /\ left.selection = [book |-> b, sheet |-> f]
        BY <2>7, <3>3, <4>1, <4>2 DEF Select, Session
      <4> HIDE DEF left
      <4>4. FocusGood(left)
        BY <2>8, <3>2, <3>3, <4>2, <4>3 DEF FocusGood, None, SheetsOf
      <4>5. BooksGood(left) /\ HandlesGood(left)
        BY <2>9, <2>10, <4>3 DEF BooksGood, HandlesGood, SheetsOf
      <4> QED BY <2>9, <4>3, <4>4, <4>5 DEF Good
    <3>5. CASE ~active
      <4>1. left = retired
        BY <3>5
      <4>2. s.active # 0 /\ s.active \in DOMAIN s.books /\ s.selection.book = s.active
            /\ s.selection.sheet \in Ids(SheetsOf(s, s.active))
        BY <3>3 DEF FocusGood, None
      <4>3. s.selection.sheet \in Ids(SheetsOf(retired, s.active))
        <5>1. CASE s.active = b
          <6>1. s.selection = [book |-> s.selection.book, sheet |-> s.selection.sheet]
            BY <2>1, SessionFacts
          <6>2. s.selection.sheet # id
            BY <3>5, <4>2, <5>1, <6>1
          <6> QED BY <2>2, <2>8, <4>2, <5>1, <6>2 DEF L
        <5>2. CASE s.active # b
          BY <2>8, <4>2, <5>2, SameFacts
        <5> QED BY <5>1, <5>2
      <4>4. FocusGood(retired)
        BY <2>7, <2>8, <4>2, <4>3 DEF FocusGood, None, Same
      <4> QED BY <2>7, <2>9, <2>10, <4>1, <4>4 DEF Good
    <3> QED BY <3>4, <3>5
  <2>12. o \in Undone(s, {Fails(removed), Succeeds(left)}, b)
    BY <1>2 DEF DeleteSheet, removed, retired, hs, left
  <2> HIDE DEF left
  <2> DEFINE outcomes == {Fails(removed), Succeeds(left)}
  <2>13. \A p \in outcomes : p.ok \in BOOLEAN /\ (~p.ok => Extends(s, p.s, b))
    <3>1. Extends(s, removed, b)
      BY <2>1, <2>6, SameFacts, SessionFacts
    <3>2. \A p \in outcomes : p = Fails(removed) \/ p = Succeeds(left)
      OBVIOUS
    <3> QED BY <3>1, <3>2, OutcomeFacts
  <2>14. o.ok \in BOOLEAN /\ (o.ok => o \in outcomes) /\ (~o.ok => o.s = s)
    <3> HIDE DEF outcomes
    <3> QED BY <2>1, <2>12, <2>13, UndoneFacts DEF outcomes
  <2>15. CASE o.ok
    <3>1. o = Succeeds(left)
      BY <2>14, <2>15 DEF Fails, Succeeds
    <3>2. o.s = left
      BY <3>1 DEF Succeeds
    <3>3. Same(s, left, b) /\ SheetsOf(left, b) = R
      BY <2>8, <2>11 DEF Same, SheetsOf
    <3> QED BY <2>11, <2>14, <2>15, <3>2, <3>3 DEF R, L
  <2> QED BY <2>14, <2>15
<1> QED BY <1>1, <1>2

-----------------------------------------------------------------------------
(* Deleting one sheet after the other. The recursive function of Each       *)
(* exists: from one for n steps there is one for n + 1.                     *)
DeleteStep(X, b, id) == UNION {IF o.ok THEN DeleteSheet(o.s, b, id) ELSE {o} : o \in X}

DeleteRun(f, s, b, q) ==
  /\ f[0] = {Succeeds(s)}
  /\ \A n \in 1 .. Len(q) : f[n] = DeleteStep(f[n - 1], b, q[n])
  /\ DeleteEach(s, b, q) = f[Len(q)]

LEMMA DeleteEachRuns ==
  ASSUME NEW s, NEW b, NEW q, Len(q) \in Nat
  PROVE  \E f : DeleteRun(f, s, b, q)
<1> DEFINE Step(X, n) == DeleteStep(X, b, q[n])
           Eq(N, g) == g = [n \in 0 .. N |-> IF n = 0 THEN {Succeeds(s)} ELSE Step(g[n - 1], n)]
           G == {N \in Nat : \E g : Eq(N, g)}
           h == CHOOSE g : Eq(Len(q), g)
<1>1. DeleteEach(s, b, q) = h[Len(q)]
  BY DEF DeleteEach, Each, DeleteStep
<1> HIDE DEF Step
<1>2. 0 \in G
  <2>1. Eq(0, [n \in 0 .. 0 |-> {Succeeds(s)}])
    OBVIOUS
  <2> QED BY <2>1
<1>3. ASSUME NEW N \in Nat, NEW g, Eq(N, g) PROVE \E k : Eq(N + 1, k)
  <2> DEFINE k == [n \in 0 .. N + 1 |-> IF n = N + 1 THEN Step(g[N], N + 1) ELSE g[n]]
  <2>1. \A n \in 0 .. N : k[n] = g[n] /\ g[n] = (IF n = 0 THEN {Succeeds(s)} ELSE Step(g[n - 1], n))
    <3>1. \A n \in 0 .. N : n \in 0 .. N + 1 /\ n # N + 1
      OBVIOUS
    <3>2. \A n \in 0 .. N : g[n] = (IF n = 0 THEN {Succeeds(s)} ELSE Step(g[n - 1], n))
      BY <1>3
    <3> QED BY <3>1, <3>2
  <2>2. \A n \in 0 .. N + 1 : k[n] = (IF n = 0 THEN {Succeeds(s)} ELSE Step(k[n - 1], n))
    <3> TAKE n \in 0 .. N + 1
    <3>1. CASE n = N + 1
      <4>1. n # 0 /\ n - 1 = N /\ N \in 0 .. N
        BY <3>1
      <4>2. k[n] = Step(g[N], N + 1) /\ k[N] = g[N]
        BY <3>1, <4>1, <2>1
      <4> HIDE DEF k
      <4> QED BY <3>1, <4>1, <4>2
    <3>2. CASE n # N + 1 /\ n # 0
      <4>1. n \in 0 .. N /\ n - 1 \in 0 .. N
        BY <3>2
      <4>2. k[n] = g[n] /\ k[n - 1] = g[n - 1] /\ g[n] = Step(g[n - 1], n)
        BY <2>1, <3>2, <4>1
      <4> HIDE DEF k
      <4> QED BY <3>2, <4>2
    <3>3. CASE n = 0
      <4>1. 0 \in 0 .. N
        OBVIOUS
      <4> QED BY <2>1, <3>3, <4>1
    <3> QED BY <3>1, <3>2, <3>3
  <2>3. k = [n \in 0 .. N + 1 |-> k[n]]
    OBVIOUS
  <2> HIDE DEF k
  <2>4. Eq(N + 1, k)
    BY <2>2, <2>3
  <2> QED BY <2>4
<1>4. Len(q) \in G
  <2>1. \A N \in Nat : N \in G => N + 1 \in G
    <3> HIDE DEF Eq
    <3> QED BY <1>3
  <2> HIDE DEF G
  <2> QED BY <1>2, <2>1, NatInduct
<1>5. Eq(Len(q), h)
  <2>1. \E g : Eq(Len(q), g)
    BY <1>4
  <2> QED BY <2>1
<1> HIDE DEF h
<1>6. h[0] = {Succeeds(s)} /\ \A n \in 1 .. Len(q) : h[n] = Step(h[n - 1], n)
  <2>1. \A n \in 0 .. Len(q) : h[n] = (IF n = 0 THEN {Succeeds(s)} ELSE Step(h[n - 1], n))
    BY <1>5
  <2>2. 0 \in 0 .. Len(q) /\ \A n \in 1 .. Len(q) : n \in 0 .. Len(q) /\ n # 0
    OBVIOUS
  <2> QED BY <2>1, <2>2
<1> QED BY <1>1, <1>6 DEF Step, DeleteRun

LEMMA DeleteEachFacts ==
  ASSUME NEW s, Good(s), NEW b \in DOMAIN s.books, NEW q, OfSheets(q, SheetsOf(s, b)),
         NEW o \in DeleteEach(s, b, q)
  PROVE  /\ o.ok \in BOOLEAN /\ Good(o.s) /\ Same(s, o.s, b)
         /\ ToSet(SheetsOf(o.s, b)) \subseteq ToSet(SheetsOf(s, b))
         /\ \A x \in ToSet(SheetsOf(s, b)) : x.id \notin ToSet(q) => x \in ToSet(SheetsOf(o.s, b))
         /\ o.ok => \A x \in ToSet(SheetsOf(o.s, b)) : x.id \notin ToSet(q)
<1> DEFINE L == SheetsOf(s, b)
           N == Len(q)
           D(n) == {q[m] : m \in 1 .. n}
           Fine(p, n) == /\ p.ok \in BOOLEAN /\ Good(p.s) /\ Same(s, p.s, b)
                         /\ ToSet(SheetsOf(p.s, b)) \subseteq ToSet(L)
                         /\ \A x \in ToSet(L) : x.id \notin D(n) => x \in ToSet(SheetsOf(p.s, b))
                         /\ p.ok => \A x \in ToSet(SheetsOf(p.s, b)) : x.id \notin D(n)
<1>1. /\ N \in Nat /\ DOMAIN q = 1 .. N /\ \A n \in 1 .. N : q[n] \in Ids(L)
      /\ \A m, n \in 1 .. N : q[m] = q[n] => m = n
  BY DEF OfSheets
<1>2. L \in Seq(SheetRecord) /\ Distinct(L)
  BY GoodSheets
<1>2a. PICK f : DeleteRun(f, s, b, q)
  BY <1>1, DeleteEachRuns
<1>3. /\ f[0] = {Succeeds(s)}
      /\ \A n \in 1 .. N : f[n] = DeleteStep(f[n - 1], b, q[n])
      /\ DeleteEach(s, b, q) = f[N]
  BY <1>2a DEF DeleteRun
<1>4. \A n \in 1 .. N : D(n) = D(n - 1) \cup {q[n]} /\ q[n] \notin D(n - 1)
  <2> SUFFICES ASSUME NEW n \in 1 .. N PROVE D(n) = D(n - 1) \cup {q[n]} /\ q[n] \notin D(n - 1)
    OBVIOUS
  <2>1. 1 .. n = 1 .. n - 1 \cup {n} /\ n \notin 1 .. n - 1 /\ 1 .. n - 1 \subseteq 1 .. N
    BY <1>1
  <2> QED BY <1>1, <2>1
<1>5. D(0) = {} /\ D(N) = ToSet(q)
  <2>1. 1 .. 0 = {}
    OBVIOUS
  <2> QED BY <1>1, <2>1 DEF ToSet
<1> HIDE DEF D, N
<1>6. \A p \in f[0] : Fine(p, 0)
  <2>1. Same(s, s, b) /\ SheetsOf(s, b) = L
    BY DEF Same
  <2> HIDE DEF L
  <2> QED BY <1>3, <1>5, <2>1, OutcomeFacts
<1>7. ASSUME NEW n \in 1 .. N, \A p \in f[n - 1] : Fine(p, n - 1), NEW r \in f[n]
      PROVE  Fine(r, n)
  <2>1. PICK p \in f[n - 1] : r \in IF p.ok THEN DeleteSheet(p.s, b, q[n]) ELSE {p}
    BY <1>3, <1>7 DEF DeleteStep
  <2>2. /\ p.ok \in BOOLEAN /\ Good(p.s) /\ Same(s, p.s, b)
        /\ ToSet(SheetsOf(p.s, b)) \subseteq ToSet(L)
        /\ \A x \in ToSet(L) : x.id \notin D(n - 1) => x \in ToSet(SheetsOf(p.s, b))
        /\ p.ok => \A x \in ToSet(SheetsOf(p.s, b)) : x.id \notin D(n - 1)
    BY <1>7
  <2>3. D(n) = D(n - 1) \cup {q[n]} /\ q[n] \notin D(n - 1)
    BY <1>4
  <2>4. CASE ~p.ok
    <3>1. r = p
      BY <2>1, <2>4
    <3> HIDE DEF L
    <3> QED BY <2>2, <2>3, <2>4, <3>1
  <2>5. CASE p.ok
    <3>1. q[n] \in Ids(SheetsOf(p.s, b))
      <4>1. PICK x \in ToSet(L) : x.id = q[n]
        BY <1>1, <1>2, ElementFacts
      <4>2. x \in ToSet(SheetsOf(p.s, b))
        BY <2>2, <2>3, <4>1
      <4> QED BY <4>1, <4>2 DEF Ids
    <3>2. b \in DOMAIN p.s.books
      BY <2>2 DEF Same
    <3>3. r \in DeleteSheet(p.s, b, q[n])
      BY <2>1, <2>5
    <3>4. /\ r.ok \in BOOLEAN /\ Good(r.s) /\ (~r.ok => r.s = p.s)
          /\ r.ok => Same(p.s, r.s, b) /\ SheetsOf(r.s, b) = Without(SheetsOf(p.s, b), {q[n]})
      <4> DEFINE u == p.s
                 id == q[n]
      <4>1. Good(u) /\ b \in DOMAIN u.books /\ id \in Ids(SheetsOf(u, b)) /\ r \in DeleteSheet(u, b, id)
        BY <2>2, <3>1, <3>2, <3>3
      <4> HIDE DEF u, id
      <4>2. /\ r.ok \in BOOLEAN /\ Good(r.s) /\ (~r.ok => r.s = u)
            /\ r.ok => Same(u, r.s, b) /\ SheetsOf(r.s, b) = Without(SheetsOf(u, b), {id})
        BY <4>1, DeleteFacts
      <4> QED BY <4>2 DEF u, id
    <3> HIDE DEF L
    <3>5. CASE ~r.ok
      BY <2>2, <2>3, <3>4, <3>5
    <3>6. CASE r.ok
      <4>1. Same(s, r.s, b)
        BY <2>2, <3>4, <3>6, SameTwice
      <4>2. SheetsOf(p.s, b) \in Seq(SheetRecord) /\ Distinct(SheetsOf(p.s, b))
        BY <2>2, <3>2, GoodSheets
      <4>3. ToSet(SheetsOf(r.s, b)) = {x \in ToSet(SheetsOf(p.s, b)) : x.id \notin {q[n]}}
        BY <3>4, <3>6, <4>2, WithoutFacts
      <4> QED BY <2>2, <2>3, <2>5, <3>4, <3>6, <4>1, <4>3
    <3> QED BY <3>4, <3>5, <3>6
  <2> QED BY <2>2, <2>4, <2>5
<1> HIDE DEF Fine
<1> DEFINE G == {n \in Nat : n <= N => \A p \in f[n] : Fine(p, n)}
<1>8. N \in G
  <2>1. 0 \in G
    BY <1>6
  <2>2. \A n \in Nat : n \in G => n + 1 \in G
    <3> SUFFICES ASSUME NEW n \in Nat, n \in G, n + 1 <= N PROVE \A p \in f[n + 1] : Fine(p, n + 1)
      OBVIOUS
    <3>1. n + 1 \in 1 .. N /\ (n + 1) - 1 = n /\ n <= N
      BY <1>1 DEF N
    <3>2. \A p \in f[(n + 1) - 1] : Fine(p, (n + 1) - 1)
      BY <3>1
    <3> HIDE DEF G
    <3> QED BY <1>7, <3>1, <3>2
  <2>3. N \in Nat
    BY <1>1 DEF N
  <2> HIDE DEF G
  <2> QED BY <2>1, <2>2, <2>3, NatInduct
<1>9. Fine(o, N)
  <2>1. N \in Nat
    BY <1>1 DEF N
  <2> QED BY <1>3, <1>8, <2>1
<1> QED BY <1>5, <1>9 DEF Fine

LEMMA DeleteBlockFacts ==
  ASSUME NEW s, Good(s), NEW b \in DOMAIN s.books, NEW q, OfSheets(q, SheetsOf(s, b)),
         NEW o \in DeleteBlock(s, b, q)
  PROVE  o.ok \in BOOLEAN /\ Good(o.s) /\ (~o.ok => o.s = s)
<1>1. CASE ~CanDeleteBlock(s, b, q)
  <2>1. o = Fails(s)
    BY <1>1 DEF DeleteBlock
  <2> QED BY <2>1, OutcomeFacts
<1>2. CASE CanDeleteBlock(s, b, q)
  <2> DEFINE outcomes == DeleteEach(s, b, q)
  <2>1. o \in Undone(s, outcomes, b)
    BY <1>2 DEF DeleteBlock
  <2>2. s \in Session /\ s.next \in Nat
    BY SessionFacts DEF Good
  <2>3. \A p \in outcomes : p.ok \in BOOLEAN /\ Good(p.s) /\ Same(s, p.s, b)
    BY DeleteEachFacts
  <2> HIDE DEF outcomes
  <2>4. \A p \in outcomes : p.ok \in BOOLEAN /\ (~p.ok => Extends(s, p.s, b))
    BY <2>2, <2>3, SameFacts
  <2>5. o.ok \in BOOLEAN /\ (o.ok => o \in outcomes) /\ (~o.ok => o.s = s)
    BY <2>1, <2>2, <2>4, UndoneFacts
  <2> QED BY <2>3, <2>5
<1> QED BY <1>1, <1>2

-----------------------------------------------------------------------------
(* Adding sheets. What a workbook had stays, and the new ids follow the     *)
(* largest one.                                                             *)
LEMMA InsertGood ==
  ASSUME NEW s, Good(s), NEW b \in DOMAIN s.books, NEW i \in Nat \ {0},
         NEW sheet, sheet.kind \in {"grid", "chart"}, sheet.shown \in BOOLEAN, sheet.data \in Nat
  PROVE  /\ Good(Insert(s, b, i, sheet)) /\ Same(s, Insert(s, b, i, sheet), b)
         /\ ToSet(SheetsOf(s, b)) \subseteq ToSet(SheetsOf(Insert(s, b, i, sheet), b))
         /\ Ids(SheetsOf(Insert(s, b, i, sheet), b)) = Ids(SheetsOf(s, b)) \cup {NewId(SheetsOf(s, b))}
<1> DEFINE L == SheetsOf(s, b)
           at == IF i <= Len(L) THEN i ELSE NextPlace(L)
           new == [id |-> NewId(L), kind |-> sheet.kind, shown |-> sheet.shown, data |-> sheet.data]
           R == InsertAt(L, at, new)
           t == Insert(s, b, i, sheet)
<1>1. L \in Seq(SheetRecord) /\ Distinct(L) /\ ShownIn(L) # {} /\ s \in Session
  BY GoodSheets DEF Good
<1>2. NewId(L) \in Nat \ {0} /\ NewId(L) \notin Ids(L)
  BY <1>1, NewIdFacts
<1>3. t = WithSheets(s, b, R)
  BY DEF Insert
<1> HIDE DEF L
<1>4. new \in SheetRecord /\ new.id = NewId(L)
  BY <1>2 DEF SheetRecord
<1>5. at \in 1 .. Len(L) + 1
  <2>1. Len(L) \in Nat
    BY <1>1
  <2> QED BY <2>1 DEF NextPlace
<1> HIDE DEF new, at
<1>6. /\ R \in Seq(SheetRecord) /\ Distinct(R) /\ ToSet(R) = ToSet(L) \cup {new}
      /\ Ids(R) = Ids(L) \cup {NewId(L)}
  BY <1>1, <1>2, <1>4, <1>5, InsertAtFacts
<1> HIDE DEF R, t
<1>7. ShownIn(R) # {}
  BY <1>1, <1>6, ShownFacts
<1>8. Listed(R) /\ Ids(L) \subseteq Ids(R)
  BY <1>6, <1>7 DEF Listed
<1>9. Good(t) /\ SheetsOf(t, b) = R /\ Same(s, t, b)
  BY <1>1, <1>3, <1>6, <1>8, WithSheetsGood, WithSheetsFacts DEF L
<1> QED BY <1>6, <1>9 DEF L, t

(* One more sheet: the ids grow by the new one.                            *)
Grown(s, t, b, n) ==
  /\ ToSet(SheetsOf(s, b)) \subseteq ToSet(SheetsOf(t, b))
  /\ Ids(SheetsOf(t, b)) = Ids(SheetsOf(s, b)) \cup (NewId(SheetsOf(s, b)) .. NewId(SheetsOf(s, b)) + n - 1)

LEMMA GrownFacts ==
  ASSUME NEW s, Good(s), NEW t, Good(t), NEW b \in DOMAIN s.books, b \in DOMAIN t.books,
         NEW n \in Nat, Grown(s, t, b, n)
  PROVE  NewId(SheetsOf(t, b)) = NewId(SheetsOf(s, b)) + n
<1> DEFINE L == SheetsOf(s, b)
           R == SheetsOf(t, b)
           k == NewId(L)
<1>1. L \in Seq(SheetRecord) /\ ShownIn(L) # {} /\ R \in Seq(SheetRecord) /\ ShownIn(R) # {}
  BY GoodSheets
<1>2. Ids(R) = Ids(L) \cup (k .. k + n - 1)
  BY DEF Grown
<1> HIDE DEF L, R
<1>3. k \in Nat \ {0} /\ k - 1 \in Ids(L) /\ \A id \in Ids(L) : id < k /\ id \in Nat
  BY <1>1, NewIdFacts, ElementFacts
<1> HIDE DEF k
<1> DEFINE m == k + n - 1
<1>4. m \in Ids(R)
  <2>1. CASE n = 0
    BY <1>2, <1>3, <2>1
  <2>2. CASE n # 0
    BY <1>2, <1>3, <2>2
  <2> QED BY <2>1, <2>2
<1>5. \A id \in Ids(R) : id <= m
  BY <1>2, <1>3
<1>6. m + 1 = k + n
  BY <1>3
<1> HIDE DEF m
<1>7. NewId(R) = m + 1
  BY <1>1, <1>4, <1>5, NewIdIs
<1> QED BY <1>6, <1>7 DEF k, L, R

LEMMA GrownTwice ==
  ASSUME NEW s, Good(s), NEW t, Good(t), NEW u, NEW b \in DOMAIN s.books, b \in DOMAIN t.books,
         NEW n \in Nat, Grown(s, t, b, n), NEW m \in Nat, Grown(t, u, b, m)
  PROVE  Grown(s, u, b, n + m)
<1> DEFINE k == NewId(SheetsOf(s, b))
<1>1. NewId(SheetsOf(t, b)) = k + n
  BY GrownFacts
<1>2. k \in Nat
  BY GoodSheets, NewIdFacts
<1>3. Ids(SheetsOf(u, b)) = Ids(SheetsOf(s, b)) \cup (k .. k + n - 1) \cup (k + n .. (k + n) + m - 1)
  BY <1>1 DEF Grown
<1>4. ToSet(SheetsOf(s, b)) \subseteq ToSet(SheetsOf(u, b))
  BY DEF Grown
<1> HIDE DEF k
<1>5. (k .. k + n - 1) \cup (k + n .. (k + n) + m - 1) = k .. k + (n + m) - 1
  BY <1>2
<1>6. Ids(SheetsOf(u, b)) = Ids(SheetsOf(s, b)) \cup (k .. k + (n + m) - 1)
  BY <1>3, <1>5
<1> QED BY <1>4, <1>6 DEF Grown, k

LEMMA NotGrown ==
  ASSUME NEW s, Good(s), NEW b \in DOMAIN s.books
  PROVE  Grown(s, s, b, 0) /\ Same(s, s, b) /\ Extends(s, s, b) /\ s.next \in Nat
<1>1. NewId(SheetsOf(s, b)) \in Nat /\ s.next \in Nat
  BY GoodSheets, NewIdFacts, SessionFacts DEF Good
<1>2. NewId(SheetsOf(s, b)) .. NewId(SheetsOf(s, b)) + 0 - 1 = {}
  BY <1>1
<1> QED BY <1>1, <1>2 DEF Grown, Same, Extends

LEMMA AddOneFacts ==
  ASSUME NEW s, Good(s), NEW b \in DOMAIN s.books, NEW i \in Nat \ {0},
         NEW kind \in {"grid", "chart"}, NEW o \in AddOne(s, b, i, kind)
  PROVE  /\ o.ok \in BOOLEAN /\ Good(o.s) /\ Same(s, o.s, b) /\ (~o.ok => o.s = s)
         /\ o.ok => Grown(s, o.s, b, 1)
<1> DEFINE t == Insert(s, b, i, NewSheet(kind))
<1>1. /\ NewSheet(kind).kind \in {"grid", "chart"} /\ NewSheet(kind).shown \in BOOLEAN
      /\ NewSheet(kind).data \in Nat
  BY DEF NewSheet, Blank
<1>2. /\ Good(t) /\ Same(s, t, b)
      /\ ToSet(SheetsOf(s, b)) \subseteq ToSet(SheetsOf(t, b))
      /\ Ids(SheetsOf(t, b)) = Ids(SheetsOf(s, b)) \cup {NewId(SheetsOf(s, b))}
  BY <1>1, InsertGood
<1>3. o = Fails(s) \/ o = Succeeds(t)
  BY DEF AddOne
<1> HIDE DEF t
<1>4. NewId(SheetsOf(s, b)) .. NewId(SheetsOf(s, b)) + 1 - 1 = {NewId(SheetsOf(s, b))}
  <2>1. NewId(SheetsOf(s, b)) \in Nat
    BY GoodSheets, NewIdFacts
  <2> QED BY <2>1
<1>5. Grown(s, t, b, 1)
  BY <1>2, <1>4 DEF Grown
<1> QED BY ZenonT(60), <1>2, <1>3, <1>5, NotGrown, OutcomeFacts

(* Adding one after the other: as DeleteEachRuns.                          *)
AddStep(X, b, i, kind) == UNION {IF o.ok THEN AddOne(o.s, b, i, kind) ELSE {o} : o \in X}
AddFinish(X, b) ==
  UNION {IF o.ok THEN {Fails(o.s), Succeeds(Select(o.s, b, LastAdded(o.s, b)))} ELSE {o} : o \in X}

AddRun(f, s, b, i, kind, count) ==
  /\ f[0] = {Succeeds(s)}
  /\ \A n \in 1 .. count : f[n] = AddStep(f[n - 1], b, i + n - 1, kind)
  /\ AddSheets(s, b, i, kind, count) = Undone(s, AddFinish(f[count], b), b)

LEMMA AddSheetsRuns ==
  ASSUME NEW s, NEW b, NEW i, NEW kind, NEW count \in Nat
  PROVE  \E f : AddRun(f, s, b, i, kind, count)
<1> DEFINE items == [n \in 1 .. count |-> n]
           Step(X, n) == AddStep(X, b, i + items[n] - 1, kind)
           Eq(N, g) == g = [n \in 0 .. N |-> IF n = 0 THEN {Succeeds(s)} ELSE Step(g[n - 1], n)]
           G == {N \in Nat : \E g : Eq(N, g)}
           h == CHOOSE g : Eq(count, g)
<1>1. AddSheets(s, b, i, kind, count) = Undone(s, AddFinish(h[count], b), b)
  <2>1. Len(items) = count
    OBVIOUS
  <2> HIDE DEF items
  <2>2. AddSheets(s, b, i, kind, count) =
          Undone(s, AddFinish(Each(s, items, LAMBDA t, n : AddOne(t, b, i + n - 1, kind)), b), b)
    BY DEF AddSheets, AddFinish, items
  <2>3. Each(s, items, LAMBDA t, n : AddOne(t, b, i + n - 1, kind)) = h[count]
    BY <2>1 DEF Each, AddStep
  <2> QED BY <2>2, <2>3
<1> HIDE DEF Step
<1>2. 0 \in G
  <2>1. Eq(0, [n \in 0 .. 0 |-> {Succeeds(s)}])
    OBVIOUS
  <2> QED BY <2>1
<1>3. ASSUME NEW N \in Nat, NEW g, Eq(N, g) PROVE \E k : Eq(N + 1, k)
  <2> DEFINE k == [n \in 0 .. N + 1 |-> IF n = N + 1 THEN Step(g[N], N + 1) ELSE g[n]]
  <2>1. \A n \in 0 .. N : k[n] = g[n] /\ g[n] = (IF n = 0 THEN {Succeeds(s)} ELSE Step(g[n - 1], n))
    <3>1. \A n \in 0 .. N : n \in 0 .. N + 1 /\ n # N + 1
      OBVIOUS
    <3>2. \A n \in 0 .. N : g[n] = (IF n = 0 THEN {Succeeds(s)} ELSE Step(g[n - 1], n))
      BY <1>3
    <3> QED BY <3>1, <3>2
  <2>2. \A n \in 0 .. N + 1 : k[n] = (IF n = 0 THEN {Succeeds(s)} ELSE Step(k[n - 1], n))
    <3> TAKE n \in 0 .. N + 1
    <3>1. CASE n = N + 1
      <4>1. n # 0 /\ n - 1 = N /\ N \in 0 .. N
        BY <3>1
      <4>2. k[n] = Step(g[N], N + 1) /\ k[N] = g[N]
        BY <3>1, <4>1, <2>1
      <4> HIDE DEF k
      <4> QED BY <3>1, <4>1, <4>2
    <3>2. CASE n # N + 1 /\ n # 0
      <4>1. n \in 0 .. N /\ n - 1 \in 0 .. N
        BY <3>2
      <4>2. k[n] = g[n] /\ k[n - 1] = g[n - 1] /\ g[n] = Step(g[n - 1], n)
        BY <2>1, <3>2, <4>1
      <4> HIDE DEF k
      <4> QED BY <3>2, <4>2
    <3>3. CASE n = 0
      <4>1. 0 \in 0 .. N
        OBVIOUS
      <4> QED BY <2>1, <3>3, <4>1
    <3> QED BY <3>1, <3>2, <3>3
  <2>3. k = [n \in 0 .. N + 1 |-> k[n]]
    OBVIOUS
  <2> HIDE DEF k
  <2>4. Eq(N + 1, k)
    BY <2>2, <2>3
  <2> QED BY <2>4
<1>4. count \in G
  <2>1. \A N \in Nat : N \in G => N + 1 \in G
    <3> HIDE DEF Eq
    <3> QED BY <1>3
  <2> HIDE DEF G
  <2> QED BY <1>2, <2>1, NatInduct
<1>5. Eq(count, h)
  <2>1. \E g : Eq(count, g)
    BY <1>4
  <2> QED BY <2>1
<1> HIDE DEF h
<1>6. h[0] = {Succeeds(s)} /\ \A n \in 1 .. count : h[n] = Step(h[n - 1], n)
  <2>1. \A n \in 0 .. count : h[n] = (IF n = 0 THEN {Succeeds(s)} ELSE Step(h[n - 1], n))
    BY <1>5
  <2>2. 0 \in 0 .. count /\ \A n \in 1 .. count : n \in 0 .. count /\ n # 0
    OBVIOUS
  <2> QED BY <2>1, <2>2
<1>7. \A n \in 1 .. count : h[n] = AddStep(h[n - 1], b, i + n - 1, kind)
  <2>1. \A n \in 1 .. count : items[n] = n
    OBVIOUS
  <2> HIDE DEF items
  <2> QED BY <1>6, <2>1 DEF Step
<1> QED BY <1>1, <1>6, <1>7 DEF AddRun

LEMMA AddSheetsFacts ==
  ASSUME NEW s, Good(s), NEW b \in DOMAIN s.books, NEW i \in Nat \ {0},
         NEW kind \in {"grid", "chart"}, NEW count \in Nat, NEW o \in AddSheets(s, b, i, kind, count)
  PROVE  /\ o.ok \in BOOLEAN /\ Good(o.s) /\ Same(s, o.s, b) /\ (~o.ok => o.s = s)
         /\ o.ok => Grown(s, o.s, b, count)
<1> DEFINE Fine(p, n) == /\ p.ok \in BOOLEAN /\ Good(p.s) /\ Same(s, p.s, b)
                         /\ p.ok => Grown(s, p.s, b, n)
<1>0. s \in Session /\ s.next \in Nat
  BY SessionFacts DEF Good
<1>1. PICK f : AddRun(f, s, b, i, kind, count)
  BY AddSheetsRuns
<1>2. /\ f[0] = {Succeeds(s)}
      /\ \A n \in 1 .. count : f[n] = AddStep(f[n - 1], b, i + n - 1, kind)
      /\ AddSheets(s, b, i, kind, count) = Undone(s, AddFinish(f[count], b), b)
  BY <1>1 DEF AddRun
<1>3. \A p \in f[0] : Fine(p, 0)
  BY ZenonT(60), <1>2, NotGrown, OutcomeFacts
<1>4. ASSUME NEW n \in 1 .. count, \A p \in f[n - 1] : Fine(p, n - 1), NEW r \in f[n]
      PROVE  Fine(r, n)
  <2>1. PICK p \in f[n - 1] : r \in IF p.ok THEN AddOne(p.s, b, i + n - 1, kind) ELSE {p}
    BY <1>2, <1>4 DEF AddStep
  <2>2. p.ok \in BOOLEAN /\ Good(p.s) /\ Same(s, p.s, b) /\ (p.ok => Grown(s, p.s, b, n - 1))
    BY <1>4
  <2>3. CASE ~p.ok
    BY <2>1, <2>2, <2>3
  <2>4. CASE p.ok
    <3> DEFINE u == p.s
               k == i + n - 1
    <3>1. /\ Good(u) /\ b \in DOMAIN u.books /\ k \in Nat \ {0} /\ r \in AddOne(u, b, k, kind)
          /\ Same(s, u, b) /\ Grown(s, u, b, n - 1)
      BY <2>1, <2>2, <2>4 DEF Same
    <3> HIDE DEF u, k
    <3>2. /\ r.ok \in BOOLEAN /\ Good(r.s) /\ Same(u, r.s, b) /\ (~r.ok => r.s = u)
          /\ r.ok => Grown(u, r.s, b, 1)
      BY <3>1, AddOneFacts
    <3>3. Same(s, r.s, b)
      BY <3>1, <3>2, SameTwice
    <3>4. ASSUME r.ok PROVE Grown(s, r.s, b, n)
      <4>1. n - 1 \in Nat /\ (n - 1) + 1 = n /\ 1 \in Nat
        OBVIOUS
      <4>2. Grown(s, r.s, b, (n - 1) + 1)
        BY <3>1, <3>2, <3>4, <4>1, GrownTwice
      <4> QED BY <4>1, <4>2
    <3> QED BY <3>2, <3>3, <3>4
  <2> QED BY <2>2, <2>3, <2>4
<1> HIDE DEF Fine
<1> DEFINE G == {n \in Nat : n <= count => \A p \in f[n] : Fine(p, n)}
<1>5. count \in G
  <2>1. 0 \in G
    BY <1>3
  <2>2. \A n \in Nat : n \in G => n + 1 \in G
    <3> SUFFICES ASSUME NEW n \in Nat, n \in G, n + 1 <= count PROVE \A p \in f[n + 1] : Fine(p, n + 1)
      OBVIOUS
    <3>1. n + 1 \in 1 .. count /\ (n + 1) - 1 = n /\ n <= count
      OBVIOUS
    <3>2. \A p \in f[(n + 1) - 1] : Fine(p, (n + 1) - 1)
      BY <3>1
    <3> HIDE DEF G
    <3> QED BY <1>4, <3>1, <3>2
  <2> HIDE DEF G
  <2> QED BY <2>1, <2>2, NatInduct
<1>6. \A p \in f[count] : Fine(p, count)
  BY <1>5
<1> DEFINE outcomes == AddFinish(f[count], b)
<1>7. ASSUME NEW r \in outcomes PROVE Fine(r, count)
  <2>1. PICK p \in f[count] : r \in IF p.ok THEN {Fails(p.s), Succeeds(Select(p.s, b, LastAdded(p.s, b)))} ELSE {p}
    BY <1>7 DEF AddFinish
  <2>2. p.ok \in BOOLEAN /\ Good(p.s) /\ Same(s, p.s, b) /\ (p.ok => Grown(s, p.s, b, count))
    BY <1>6 DEF Fine
  <2>3. CASE ~p.ok
    BY <1>6, <2>1, <2>3
  <2>4. CASE p.ok
    <3> DEFINE u == p.s
               t == Select(u, b, LastAdded(u, b))
    <3>1. r = Fails(u) \/ r = Succeeds(t)
      BY <2>1, <2>4
    <3>2. Good(u) /\ Same(s, u, b) /\ Grown(s, u, b, count) /\ b \in DOMAIN u.books
      BY <2>2, <2>4 DEF Same
    <3> HIDE DEF u
    <3>3. LastAdded(u, b) \in Ids(SheetsOf(u, b))
      BY <3>2, GoodSheets, NewIdFacts DEF LastAdded
    <3>4. Good(t) /\ t.books = u.books /\ t.next = u.next
      BY <3>2, <3>3, SelectGood
    <3> HIDE DEF t
    <3>5. Same(s, t, b) /\ Grown(s, t, b, count)
      BY <3>2, <3>4 DEF Same, Grown, SheetsOf
    <3>6. (r.s = u /\ r.ok = FALSE) \/ (r.s = t /\ r.ok = TRUE)
      BY <3>1, OutcomeFacts
    <3> QED BY <3>2, <3>4, <3>5, <3>6 DEF Fine
  <2> QED BY <2>2, <2>3, <2>4
<1> HIDE DEF outcomes
<1>8. \A p \in outcomes : p.ok \in BOOLEAN /\ (~p.ok => Extends(s, p.s, b))
  BY <1>0, <1>7, SameFacts DEF Fine
<1>9. o.ok \in BOOLEAN /\ (o.ok => o \in outcomes) /\ (~o.ok => o.s = s)
  BY <1>0, <1>2, <1>8, UndoneFacts DEF outcomes
<1> QED BY <1>7, <1>9, NotGrown DEF Fine

-----------------------------------------------------------------------------
(* Copying a sheet.                                                        *)
LEMMA SheetOfFacts ==
  ASSUME NEW s, Good(s), NEW b \in DOMAIN s.books, NEW id \in Ids(SheetsOf(s, b))
  PROVE  /\ SheetOf(s, b, id) \in ToSet(SheetsOf(s, b)) /\ SheetOf(s, b, id) \in SheetRecord
         /\ SheetOf(s, b, id).id = id
         /\ \A x \in ToSet(SheetsOf(s, b)) : x.id = id => x = SheetOf(s, b, id)
<1> DEFINE L == SheetsOf(s, b)
<1>1. L \in Seq(SheetRecord) /\ Distinct(L) /\ id \in Ids(L)
  BY GoodSheets
<1>2. SheetOf(s, b, id) = L[At(L, id)]
  BY DEF SheetOf
<1> HIDE DEF L
<1>3. /\ L[At(L, id)].id = id /\ L[At(L, id)] \in ToSet(L)
      /\ \A x \in ToSet(L) : x.id = id => x = L[At(L, id)]
  BY <1>1, AtFacts
<1>4. L[At(L, id)] \in SheetRecord
  BY <1>1, <1>3, ElementFacts
<1> QED BY <1>2, <1>3, <1>4 DEF L

LEMMA SheetOfKept ==
  ASSUME NEW s, Good(s), NEW b \in DOMAIN s.books, NEW id \in Ids(SheetsOf(s, b)),
         NEW t, Good(t), b \in DOMAIN t.books, ToSet(SheetsOf(s, b)) \subseteq ToSet(SheetsOf(t, b))
  PROVE  id \in Ids(SheetsOf(t, b)) /\ SheetOf(t, b, id) = SheetOf(s, b, id)
<1> DEFINE x == SheetOf(s, b, id)
<1>1. x \in ToSet(SheetsOf(s, b)) /\ x.id = id
  BY SheetOfFacts
<1> HIDE DEF x
<1>2. x \in ToSet(SheetsOf(t, b))
  BY <1>1
<1>3. id \in Ids(SheetsOf(t, b))
  BY <1>1, <1>2 DEF Ids
<1>4. SheetOf(t, b, id) = x
  BY <1>1, <1>2, <1>3, SheetOfFacts
<1> QED BY <1>3, <1>4 DEF x

LEMMA EmptyRange == ASSUME NEW s, Good(s) PROVE None \notin DOMAIN s.books
BY GoodSheets DEF None

(* A workbook of its own for a sheet: nothing else changes.                *)
LEMMA SpawnFacts ==
  ASSUME NEW s, Good(s), NEW b \in DOMAIN s.books, NEW id \in Ids(SheetsOf(s, b)),
         NEW o \in Spawn(s, b, id)
  PROVE  /\ o.ok \in BOOLEAN /\ Good(o.s)
         /\ s.next <= o.s.next /\ \A c \in DOMAIN s.books : c \in DOMAIN o.s.books /\ o.s.books[c] = s.books[c]
         /\ o.ok => /\ s.next \in DOMAIN o.s.books /\ s.next \notin DOMAIN s.books
                    /\ ToSet(SheetsOf(o.s, s.next)) = {SheetOf(s, b, id)}
<1> DEFINE L == SheetsOf(s, b)
           book == Reopened(s, b)
           n == s.next
           t == OpenWorkbook(s, book)
           R == Without(L, {id})
           q == IdSeq(R)
<1>1. s \in Session /\ n \in Nat /\ s.books[b] \in Book
  BY SessionFacts DEF Good
<1>2. L \in Seq(SheetRecord) /\ Distinct(L) /\ Listed(L) /\ id \in Ids(L)
  BY GoodSheets
<1>3. book \in Book /\ book.sheets = L
  BY <1>1 DEF Book, Reopened, SheetsOf
<1> HIDE DEF book
<1>4. /\ Good(t) /\ t.next = n + 1 /\ DOMAIN t.books = DOMAIN s.books \cup {n}
      /\ SheetsOf(t, n) = L
      /\ \A c \in DOMAIN s.books : c # n /\ t.books[c] = s.books[c]
  BY <1>2, <1>3, OpenGood
<1> HIDE DEF t
<1>5. R \in Seq(SheetRecord) /\ Distinct(R) /\ Ids(R) = Ids(L) \ {id}
  BY <1>2, WithoutFacts
<1> HIDE DEF R
<1>6. OfSheets(q, R) /\ ToSet(q) = Ids(L) \ {id}
  BY <1>5, IdSeqFacts
<1>7. OfSheets(q, SheetsOf(t, n))
  BY <1>4, <1>5, <1>6 DEF OfSheets
<1>8. PICK p : \/ p \in DeleteEach(t, n, q) /\ o = IF p.ok THEN Succeeds(Select(p.s, n, id)) ELSE p
               \/ o = Fails(s)
  BY DEF Spawn, q, R, t, book, L
<1> HIDE DEF q, L
<1>9. CASE o = Fails(s)
  <2>1. o.s = s /\ o.ok = FALSE
    BY <1>9, OutcomeFacts
  <2>2. s.next <= o.s.next
    BY <1>1, <2>1
  <2>3. \A c \in DOMAIN s.books : c \in DOMAIN o.s.books /\ o.s.books[c] = s.books[c]
    BY <2>1
  <2>4. Good(o.s) /\ o.ok \in BOOLEAN /\ ~o.ok
    BY <2>1
  <2> QED BY <2>2, <2>3, <2>4
<1>10. CASE p \in DeleteEach(t, n, q) /\ o = IF p.ok THEN Succeeds(Select(p.s, n, id)) ELSE p
  <2>1. n \in DOMAIN t.books
    BY <1>4
  <2>2. /\ p.ok \in BOOLEAN /\ Good(p.s) /\ Same(t, p.s, n)
        /\ ToSet(SheetsOf(p.s, n)) \subseteq ToSet(L)
        /\ \A x \in ToSet(L) : x.id \notin ToSet(q) => x \in ToSet(SheetsOf(p.s, n))
        /\ p.ok => \A x \in ToSet(SheetsOf(p.s, n)) : x.id \notin ToSet(q)
    BY <1>4, <1>7, <1>10, <2>1, DeleteEachFacts
  <2> DEFINE u == p.s
  <2>3. /\ n \in DOMAIN u.books /\ u.next = n + 1
        /\ \A c \in DOMAIN s.books : c \in DOMAIN u.books /\ u.books[c] = s.books[c]
    BY <1>4, <2>1, <2>2 DEF Same
  <2>4. CASE ~p.ok
    BY <1>1, <1>10, <2>2, <2>3, <2>4
  <2>5. CASE p.ok
    <3> DEFINE x == SheetOf(s, b, id)
               v == Select(u, n, id)
    <3>1. x \in ToSet(L) /\ x.id = id /\ \A y \in ToSet(L) : y.id = id => y = x
      BY SheetOfFacts DEF L
    <3>2. ToSet(SheetsOf(u, n)) = {x}
      <4> HIDE DEF x
      <4>1. x \in ToSet(SheetsOf(u, n))
        BY <1>6, <2>2, <3>1
      <4>2. \A y \in ToSet(SheetsOf(u, n)) : y = x
        <5> TAKE y \in ToSet(SheetsOf(u, n))
        <5>1. y \in ToSet(L) /\ y.id \notin Ids(L) \ {id}
          BY <1>6, <2>2, <2>5
        <5>2. y.id \in Ids(L)
          BY <5>1 DEF Ids
        <5> QED BY <3>1, <5>1, <5>2
      <4> QED BY <4>1, <4>2
    <3>3. id \in Ids(SheetsOf(u, n))
      BY <3>1, <3>2 DEF Ids
    <3>4. Good(v) /\ v.books = u.books /\ v.next = u.next
      BY <2>2, <2>3, <3>3, SelectGood
    <3>5. o.s = v /\ o.ok = TRUE
      BY <1>10, <2>5, OutcomeFacts
    <3> HIDE DEF v, u, x
    <3>6. n <= o.s.next /\ n \in DOMAIN o.s.books
      BY <1>1, <2>3, <3>4, <3>5
    <3>7. ToSet(SheetsOf(o.s, n)) = {x}
      BY <3>2, <3>4, <3>5 DEF SheetsOf
    <3>8. n \notin DOMAIN s.books
      BY <1>4
    <3> QED BY <2>3, <3>4, <3>5, <3>6, <3>7, <3>8 DEF x
  <2> QED BY <2>2, <2>4, <2>5
<1> QED BY <1>8, <1>9, <1>10

(* Giving the sheet id what its source shows, where another one is shown.   *)
CopyOf(u, b, id, source) == [SheetOf(u, b, id) EXCEPT !.shown = source.shown, !.data = source.data]
Given(u, b, id, source) ==
  WithSheets(u, b, [SheetsOf(u, b) EXCEPT ![At(SheetsOf(u, b), CopyOf(u, b, id, source).id)] =
                      CopyOf(u, b, id, source)])

LEMMA GivenFacts ==
  ASSUME NEW u, Good(u), NEW b \in DOMAIN u.books, NEW id \in Ids(SheetsOf(u, b)),
         NEW source \in SheetRecord, NEW y \in ToSet(SheetsOf(u, b)), y.shown, y.id # id
  PROVE  /\ Good(Given(u, b, id, source)) /\ Same(u, Given(u, b, id, source), b)
         /\ CopyOf(u, b, id, source).id = id /\ CopyOf(u, b, id, source).data = source.data
         /\ Ids(SheetsOf(Given(u, b, id, source), b)) = Ids(SheetsOf(u, b))
         /\ ToSet(SheetsOf(Given(u, b, id, source), b)) =
              (ToSet(SheetsOf(u, b)) \ {SheetOf(u, b, id)}) \cup {CopyOf(u, b, id, source)}
<1> DEFINE L == SheetsOf(u, b)
           x == SheetOf(u, b, id)
           at == At(L, id)
           copy == CopyOf(u, b, id, source)
           kept == Given(u, b, id, source)
           R == [L EXCEPT ![at] = copy]
<1>1. L \in Seq(SheetRecord) /\ Distinct(L) /\ u \in Session /\ id \in Ids(L)
  BY GoodSheets DEF Good
<1>2. x = L[at]
  BY DEF SheetOf
<1>3. x \in SheetRecord /\ x.id = id /\ source.shown \in BOOLEAN /\ source.data \in Nat
  BY SheetOfFacts, RecordFacts
<1>4. copy \in SheetRecord /\ copy.id = id /\ copy.data = source.data
  <2> HIDE DEF x
  <2>1. copy = [x EXCEPT !.shown = source.shown, !.data = source.data]
    BY DEF x, CopyOf
  <2> QED BY <1>3, <2>1 DEF SheetRecord
<1>5. kept = WithSheets(u, b, R)
  BY <1>4 DEF Given
<1> HIDE DEF L, copy, kept
<1>6. at \in DOMAIN L /\ L[at].id = id
  BY <1>1, AtFacts
<1> HIDE DEF at
<1>7. copy.id = L[at].id
  BY <1>4, <1>6
<1>8. /\ R \in Seq(SheetRecord) /\ Distinct(R) /\ ToSet(R) = (ToSet(L) \ {L[at]}) \cup {copy}
      /\ Ids(R) = Ids(L)
  BY <1>1, <1>4, <1>6, <1>7, ReplaceFacts
<1> HIDE DEF R
<1>9. y \in ToSet(R)
  <2>1. y \in ToSet(L)
    BY DEF L
  <2> QED BY <1>2, <1>3, <1>8, <2>1
<1>10. Listed(R)
  BY <1>8, <1>9, ShownFacts DEF Listed
<1>11. Good(kept)
  BY <1>5, <1>8, <1>10, WithSheetsGood DEF L
<1>12. SheetsOf(kept, b) = R /\ Same(u, kept, b)
  BY <1>1, <1>5, <1>8, WithSheetsFacts
<1> QED BY <1>2, <1>4, <1>8, <1>11, <1>12 DEF L, x, copy, kept

CopiedAs(t, b, data, id) == \E x \in ToSet(SheetsOf(t, b)) : x.id = id /\ x.data = data

LEMMA AddCopyFacts ==
  ASSUME NEW s, Good(s), NEW b \in DOMAIN s.books, NEW i \in Nat \ {0},
         NEW source \in SheetRecord, NEW r \in AddCopy(s, b, i, source)
  PROVE  /\ r.ok \in BOOLEAN /\ Good(r.s) /\ Same(s, r.s, b)
         /\ ToSet(SheetsOf(s, b)) \subseteq ToSet(SheetsOf(r.s, b))
         /\ r.ok => Grown(s, r.s, b, 1) /\ CopiedAs(r.s, b, source.data, NewId(SheetsOf(s, b)))
<1>1. source.kind \in {"grid", "chart"} /\ 1 \in Nat
  BY RecordFacts
<1> DEFINE New(u) == Given(u, b, LastAdded(u, b), source)
<1>2. PICK o \in AddSheets(s, b, i, source.kind, 1) :
        r \in IF o.ok THEN {Fails(o.s), Fails(New(o.s)), Succeeds(New(o.s))} ELSE {o}
  BY DEF AddCopy, Given, CopyOf
<1> HIDE DEF New
<1>3. /\ o.ok \in BOOLEAN /\ Good(o.s) /\ Same(s, o.s, b) /\ (~o.ok => o.s = s)
      /\ o.ok => Grown(s, o.s, b, 1)
  BY <1>1, AddSheetsFacts
<1>4. CASE ~o.ok
  BY <1>2, <1>3, <1>4
<1>5. CASE o.ok
  <2> DEFINE u == o.s
             k == NewId(SheetsOf(s, b))
             L == SheetsOf(s, b)
             kept == Given(u, b, k, source)
             copy == CopyOf(u, b, k, source)
             M == SheetsOf(u, b)
  <2>2. L \in Seq(SheetRecord) /\ ShownIn(L) # {}
    BY GoodSheets
  <2>3. k \in Nat /\ k \notin Ids(L)
    BY <2>2, NewIdFacts
  <2>4. Good(u) /\ Same(s, u, b) /\ b \in DOMAIN u.books /\ Grown(s, u, b, 1)
    BY <1>3, <1>5 DEF Same
  <2>1. r = Fails(u) \/ r = Fails(New(u)) \/ r = Succeeds(New(u))
    BY <1>2, <1>5
  <2> HIDE DEF u
  <2>5. NewId(M) = k + 1
    BY <1>1, <2>4, GrownFacts
  <2>6. LastAdded(u, b) = k
    BY <2>3, <2>5 DEF LastAdded
  <2>7. ToSet(L) \subseteq ToSet(M) /\ k \in Ids(M)
    BY <2>3, <2>4 DEF Grown
  <2>8. PICK y \in ToSet(L) : y.shown
    BY <2>2, ShownFacts
  <2>9. \A x \in ToSet(L) : x.id # k
    BY <2>2, <2>3, ElementFacts
  <2>10. y \in ToSet(M) /\ y.id # k
    BY <2>7, <2>8, <2>9
  <2>11. /\ Good(kept) /\ Same(u, kept, b) /\ copy.id = k /\ copy.data = source.data
         /\ Ids(SheetsOf(kept, b)) = Ids(M)
         /\ ToSet(SheetsOf(kept, b)) = (ToSet(M) \ {SheetOf(u, b, k)}) \cup {copy}
    <3>1. Good(u) /\ b \in DOMAIN u.books /\ k \in Ids(M) /\ source \in SheetRecord /\ y \in ToSet(M) /\ y.shown /\ y.id # k
      BY <2>4, <2>7, <2>8, <2>10
    <3> HIDE DEF k
    <3> QED BY <3>1, GivenFacts
  <2>12. r = Fails(u) \/ r = Fails(kept) \/ r = Succeeds(kept)
    BY <2>1, <2>6 DEF New
  <2>13. SheetOf(u, b, k).id = k
    BY <2>4, <2>7, SheetOfFacts
  <2> HIDE DEF copy, kept, k, L, M
  <2>14. ToSet(L) \subseteq ToSet(SheetsOf(kept, b))
    BY <2>7, <2>9, <2>11, <2>13
  <2>15. Same(s, kept, b)
    BY <2>4, <2>11, SameTwice
  <2>16. Grown(s, kept, b, 1)
    BY <2>4, <2>11, <2>14 DEF Grown, L, M
  <2>17. CopiedAs(kept, b, source.data, k)
    BY <2>11 DEF CopiedAs
  <2>18. (r.s = u /\ r.ok = FALSE) \/ (r.s = kept /\ r.ok \in BOOLEAN)
    BY <2>12, OutcomeFacts
  <2>19. CASE r.s = u /\ r.ok = FALSE
    BY <2>4, <2>7, <2>19 DEF L, M
  <2>20. CASE r.s = kept /\ r.ok \in BOOLEAN
    BY <2>11, <2>14, <2>15, <2>16, <2>17, <2>20 DEF L, k
  <2> QED BY <2>18, <2>19, <2>20
<1> QED BY <1>3, <1>4, <1>5

(* What was copied into b is there, with what its source holds.            *)
Copied(s, t, b, data) == Grown(s, t, b, 1) /\ CopiedAs(t, b, data, NewId(SheetsOf(s, b)))

LEMMA CopySheetFacts ==
  ASSUME NEW s, Good(s), NEW b \in DOMAIN s.books, NEW id \in Ids(SheetsOf(s, b)),
         NEW target \in DOMAIN s.books, NEW i \in Nat \ {0}, NEW r \in CopySheet(s, b, id, target, i)
  PROVE  /\ r.ok \in BOOLEAN /\ Good(r.s) /\ Extends(s, r.s, target)
         /\ ToSet(SheetsOf(s, target)) \subseteq ToSet(SheetsOf(r.s, target))
         /\ r.ok => Copied(s, r.s, target, SheetOf(s, b, id).data)
<1> DEFINE x == SheetOf(s, b, id)
           n == s.next
           T == SheetsOf(s, target)
<1>1. x \in SheetRecord
  BY SheetOfFacts
<1>2. n \in Nat
  BY SessionFacts DEF Good
<1>3. Extends(s, s, target)
  BY <1>2 DEF Extends
<1>4. \/ x.kind = "chart" /\ r \in {Fails(s)} \cup AddCopy(s, target, i, x)
      \/ \E o \in Spawn(s, b, id) :
           \/ ~o.ok /\ r = o
           \/ /\ o.ok
              /\ \E c \in {Fails(o.s)} \cup AddCopy(o.s, target, i, x) :
                   r = [s |-> CloseWorkbook(c.s, n), ok |-> c.ok]
  BY DEF CopySheet
<1> HIDE DEF x, n, T
<1>5. CASE x.kind = "chart" /\ r \in {Fails(s)} \cup AddCopy(s, target, i, x)
  <2>1. CASE r = Fails(s)
    BY <1>3, <2>1, OutcomeFacts
  <2>2. CASE r \in AddCopy(s, target, i, x)
    <3>1. /\ r.ok \in BOOLEAN /\ Good(r.s) /\ Same(s, r.s, target)
          /\ ToSet(SheetsOf(s, target)) \subseteq ToSet(SheetsOf(r.s, target))
          /\ r.ok => Grown(s, r.s, target, 1) /\ CopiedAs(r.s, target, x.data, NewId(SheetsOf(s, target)))
      BY <1>1, <2>2, AddCopyFacts
    <3> QED BY <1>2, <3>1, SameFacts DEF Copied, x, n
  <2> QED BY <1>5, <2>1, <2>2
<1>6. ASSUME NEW o \in Spawn(s, b, id), ~o.ok, r = o
      PROVE  r.ok \in BOOLEAN /\ Good(r.s) /\ Extends(s, r.s, target) /\ ~r.ok /\ T \in {SheetsOf(r.s, target)}
  <2>1. /\ o.ok \in BOOLEAN /\ Good(o.s) /\ s.next <= o.s.next
        /\ \A c \in DOMAIN s.books : c \in DOMAIN o.s.books /\ o.s.books[c] = s.books[c]
    BY <1>6, SpawnFacts
  <2> QED BY <1>6, <2>1 DEF Extends, T, SheetsOf
<1>7. ASSUME NEW o \in Spawn(s, b, id), o.ok, NEW c \in {Fails(o.s)} \cup AddCopy(o.s, target, i, x),
             r = [s |-> CloseWorkbook(c.s, n), ok |-> c.ok]
      PROVE  /\ r.ok \in BOOLEAN /\ Good(r.s) /\ Extends(s, r.s, target)
             /\ ToSet(T) \subseteq ToSet(SheetsOf(r.s, target))
             /\ r.ok => Copied(s, r.s, target, x.data)
  <2> DEFINE u == o.s
             v == c.s
             w == CloseWorkbook(v, n)
  <2>1. /\ Good(u) /\ n <= u.next /\ n \in DOMAIN u.books /\ n \notin DOMAIN s.books
        /\ \A d \in DOMAIN s.books : d \in DOMAIN u.books /\ u.books[d] = s.books[d]
    BY <1>7, SpawnFacts DEF n
  <2>2. r.s = w /\ r.ok = c.ok
    BY <1>7
  <2>3. c = Fails(u) \/ c \in AddCopy(u, target, i, x)
    BY <1>7
  <2>4. target \in DOMAIN u.books /\ SheetsOf(u, target) = T /\ u.next \in Nat
    BY <2>1, SessionFacts DEF T, SheetsOf, Good
  <2> HIDE DEF u
  <2>5. /\ c.ok \in BOOLEAN /\ Good(v) /\ Same(u, v, target)
        /\ ToSet(T) \subseteq ToSet(SheetsOf(v, target))
        /\ c.ok => Grown(u, v, target, 1) /\ CopiedAs(v, target, x.data, NewId(T))
    <3>1. CASE c = Fails(u)
      BY ZenonT(60), <2>1, <2>4, <3>1, OutcomeFacts DEF Same
    <3>2. CASE c \in AddCopy(u, target, i, x)
      BY <1>1, <2>1, <2>4, <3>2, AddCopyFacts
    <3> QED BY <2>3, <3>1, <3>2
  <2> HIDE DEF v
  <2>6. n \in DOMAIN v.books
    BY <2>1, <2>5 DEF Same
  <2>7. /\ Good(w) /\ w.next = v.next /\ DOMAIN w.books = DOMAIN v.books \ {n}
        /\ \A d \in DOMAIN v.books \ {n} : w.books[d] = v.books[d]
    BY <2>5, <2>6, CloseGood
  <2> HIDE DEF w
  <2>8. Extends(s, w, target)
    BY <2>1, <2>4, <2>5, <2>7 DEF Extends, Same, n
  <2>9. SheetsOf(w, target) = SheetsOf(v, target)
    BY <2>1, <2>4, <2>5, <2>7 DEF SheetsOf, Same
  <2>10. ASSUME c.ok PROVE Copied(s, w, target, x.data)
    BY <2>4, <2>5, <2>9, <2>10 DEF Copied, Grown, CopiedAs, T
  <2> QED BY <2>2, <2>5, <2>7, <2>8, <2>9, <2>10
<1> QED BY <1>4, <1>5, <1>6, <1>7 DEF x, T

(* Copying one after the other: as DeleteEachRuns.                         *)
CopyStep(X, b, id, target, i) == UNION {IF o.ok THEN CopySheet(o.s, b, id, target, i) ELSE {o} : o \in X}

CopyRun(f, s, b, ids, target, i) ==
  /\ f[0] = {Succeeds(s)}
  /\ \A n \in 1 .. Len(ids) : f[n] = CopyStep(f[n - 1], b, ids[n], target, i + n - 1)
  /\ CopyBlock(s, b, ids, target, i) = Undone(s, f[Len(ids)], target)

LEMMA CopyBlockRuns ==
  ASSUME NEW s, NEW b, NEW ids \in Seq(Nat), NEW target, NEW i
  PROVE  \E f : CopyRun(f, s, b, ids, target, i)
<1> DEFINE items == [n \in DOMAIN ids |-> n]
           count == Len(ids)
           Step(X, n) == CopyStep(X, b, ids[items[n]], target, i + items[n] - 1)
           Eq(N, g) == g = [n \in 0 .. N |-> IF n = 0 THEN {Succeeds(s)} ELSE Step(g[n - 1], n)]
           G == {N \in Nat : \E g : Eq(N, g)}
           h == CHOOSE g : Eq(count, g)
<1>1. CopyBlock(s, b, ids, target, i) = Undone(s, h[count], target) /\ count \in Nat /\ DOMAIN ids = 1 .. count
  <2>1. Len(items) = count /\ count \in Nat /\ DOMAIN ids = 1 .. count
    OBVIOUS
  <2> HIDE DEF items, count
  <2>2. CopyBlock(s, b, ids, target, i) =
          Undone(s, Each(s, items, LAMBDA t, n : CopySheet(t, b, ids[n], target, i + n - 1)), target)
    BY DEF CopyBlock, items
  <2>3. Each(s, items, LAMBDA t, n : CopySheet(t, b, ids[n], target, i + n - 1)) = h[count]
    BY <2>1 DEF Each, CopyStep
  <2> QED BY <2>1, <2>2, <2>3
<1> HIDE DEF Step, count
<1>2. 0 \in G
  <2>1. Eq(0, [n \in 0 .. 0 |-> {Succeeds(s)}])
    OBVIOUS
  <2> QED BY <2>1
<1>3. ASSUME NEW N \in Nat, NEW g, Eq(N, g) PROVE \E k : Eq(N + 1, k)
  <2> DEFINE k == [n \in 0 .. N + 1 |-> IF n = N + 1 THEN Step(g[N], N + 1) ELSE g[n]]
  <2>1. \A n \in 0 .. N : k[n] = g[n] /\ g[n] = (IF n = 0 THEN {Succeeds(s)} ELSE Step(g[n - 1], n))
    <3>1. \A n \in 0 .. N : n \in 0 .. N + 1 /\ n # N + 1
      OBVIOUS
    <3>2. \A n \in 0 .. N : g[n] = (IF n = 0 THEN {Succeeds(s)} ELSE Step(g[n - 1], n))
      BY <1>3
    <3> QED BY <3>1, <3>2
  <2>2. \A n \in 0 .. N + 1 : k[n] = (IF n = 0 THEN {Succeeds(s)} ELSE Step(k[n - 1], n))
    <3> TAKE n \in 0 .. N + 1
    <3>1. CASE n = N + 1
      <4>1. n # 0 /\ n - 1 = N /\ N \in 0 .. N
        BY <3>1
      <4>2. k[n] = Step(g[N], N + 1) /\ k[N] = g[N]
        BY <3>1, <4>1, <2>1
      <4> HIDE DEF k
      <4> QED BY <3>1, <4>1, <4>2
    <3>2. CASE n # N + 1 /\ n # 0
      <4>1. n \in 0 .. N /\ n - 1 \in 0 .. N
        BY <3>2
      <4>2. k[n] = g[n] /\ k[n - 1] = g[n - 1] /\ g[n] = Step(g[n - 1], n)
        BY <2>1, <3>2, <4>1
      <4> HIDE DEF k
      <4> QED BY <3>2, <4>2
    <3>3. CASE n = 0
      <4>1. 0 \in 0 .. N
        OBVIOUS
      <4> QED BY <2>1, <3>3, <4>1
    <3> QED BY <3>1, <3>2, <3>3
  <2>3. k = [n \in 0 .. N + 1 |-> k[n]]
    OBVIOUS
  <2> HIDE DEF k
  <2>4. Eq(N + 1, k)
    BY <2>2, <2>3
  <2> QED BY <2>4
<1>4. count \in G
  <2>1. \A N \in Nat : N \in G => N + 1 \in G
    <3> HIDE DEF Eq
    <3> QED BY <1>3
  <2> HIDE DEF G
  <2> QED BY <1>1, <1>2, <2>1, NatInduct
<1>5. Eq(count, h)
  <2>1. \E g : Eq(count, g)
    BY <1>4
  <2> QED BY <2>1
<1> HIDE DEF h
<1>6. h[0] = {Succeeds(s)} /\ \A n \in 1 .. count : h[n] = Step(h[n - 1], n)
  <2>1. \A n \in 0 .. count : h[n] = (IF n = 0 THEN {Succeeds(s)} ELSE Step(h[n - 1], n))
    BY <1>5
  <2>2. 0 \in 0 .. count /\ \A n \in 1 .. count : n \in 0 .. count /\ n # 0
    BY <1>1
  <2> QED BY <2>1, <2>2
<1>7. \A n \in 1 .. count : h[n] = CopyStep(h[n - 1], b, ids[n], target, i + n - 1)
  <2>1. \A n \in 1 .. count : items[n] = n
    BY <1>1
  <2> HIDE DEF items
  <2> QED BY <1>6, <2>1 DEF Step
<1> QED BY <1>1, <1>6, <1>7 DEF CopyRun, count

(* A new sheet of b holds what was copied.                                 *)
HasCopy(s, t, b, data) == \E x \in ToSet(SheetsOf(t, b)) : x.id \notin Ids(SheetsOf(s, b)) /\ x.data = data
Copies(s, t, b, q, target, n) ==
  Grown(s, t, target, n) /\ \A m \in 1 .. n : HasCopy(s, t, target, SheetOf(s, b, q[m]).data)

LEMMA CopyBlockFacts ==
  ASSUME NEW s, Good(s), NEW b \in DOMAIN s.books, NEW q, OfSheets(q, SheetsOf(s, b)),
         NEW target \in DOMAIN s.books, NEW i \in Nat \ {0}, NEW o \in CopyBlock(s, b, q, target, i)
  PROVE  /\ o.ok \in BOOLEAN /\ Good(o.s) /\ Extends(s, o.s, target) /\ (~o.ok => o.s = s)
         /\ o.ok => Copies(s, o.s, b, q, target, Len(q))
<1> DEFINE N == Len(q)
           L == SheetsOf(s, b)
           T == SheetsOf(s, target)
           Fine(p, n) == /\ p.ok \in BOOLEAN /\ Good(p.s) /\ Extends(s, p.s, target)
                         /\ ToSet(T) \subseteq ToSet(SheetsOf(p.s, target))
                         /\ p.ok => Copies(s, p.s, b, q, target, n)
<1>0. s \in Session /\ s.next \in Nat
  BY SessionFacts DEF Good
<1>1. q \in Seq(Nat) /\ N \in Nat /\ DOMAIN q = 1 .. N /\ \A n \in 1 .. N : q[n] \in Ids(L)
  BY DEF OfSheets
<1>2. PICK f : CopyRun(f, s, b, q, target, i)
  BY <1>1, CopyBlockRuns
<1>3. /\ f[0] = {Succeeds(s)}
      /\ \A n \in 1 .. N : f[n] = CopyStep(f[n - 1], b, q[n], target, i + n - 1)
      /\ CopyBlock(s, b, q, target, i) = Undone(s, f[N], target)
  BY <1>2 DEF CopyRun
<1> HIDE DEF N
<1>4. \A p \in f[0] : Fine(p, 0)
  <2>1. Copies(s, s, b, q, target, 0)
    BY NotGrown DEF Copies
  <2>2. Extends(s, s, target)
    BY NotGrown
  <2> QED BY <1>3, <2>1, <2>2, OutcomeFacts
<1>5. ASSUME NEW n \in 1 .. N, \A p \in f[n - 1] : Fine(p, n - 1), NEW r \in f[n]
      PROVE  Fine(r, n)
  <2>1. PICK p \in f[n - 1] : r \in IF p.ok THEN CopySheet(p.s, b, q[n], target, i + n - 1) ELSE {p}
    BY <1>3, <1>5 DEF CopyStep
  <2>2. Fine(p, n - 1)
    BY <1>5
  <2>3. CASE ~p.ok
    <3>1. r = p
      BY <2>1, <2>3
    <3> QED BY <2>2, <2>3, <3>1
  <2>4. CASE p.ok
    <3> DEFINE u == p.s
               v == r.s
               k == i + n - 1
               id == q[n]
               x == SheetOf(s, b, id)
    <3>1. /\ Good(u) /\ Extends(s, u, target) /\ ToSet(T) \subseteq ToSet(SheetsOf(u, target))
          /\ Copies(s, u, b, q, target, n - 1)
      BY <2>2, <2>4
    <3>2. k \in Nat \ {0} /\ id \in Ids(L) /\ r \in CopySheet(u, b, id, target, k) /\ n - 1 \in Nat
      BY <1>1, <2>1, <2>4
    <3> HIDE DEF u, k
    <3>3. b \in DOMAIN u.books /\ target \in DOMAIN u.books /\ u.next \in Nat
      BY <3>1, SessionFacts DEF Extends, Good
    <3>4. ToSet(L) \subseteq ToSet(SheetsOf(u, b))
      BY <3>1 DEF Extends, SheetsOf
    <3> HIDE DEF id
    <3>5. id \in Ids(SheetsOf(u, b)) /\ SheetOf(u, b, id) = x
      BY <3>1, <3>2, <3>3, <3>4, SheetOfKept
    <3>6. /\ r.ok \in BOOLEAN /\ Good(v) /\ Extends(u, v, target)
          /\ ToSet(SheetsOf(u, target)) \subseteq ToSet(SheetsOf(v, target))
          /\ r.ok => Copied(u, v, target, x.data)
      <4>1. Good(u) /\ b \in DOMAIN u.books /\ id \in Ids(SheetsOf(u, b)) /\ target \in DOMAIN u.books
            /\ k \in Nat \ {0} /\ r \in CopySheet(u, b, id, target, k)
        BY <3>1, <3>2, <3>3, <3>5
      <4>2. /\ r.ok \in BOOLEAN /\ Good(r.s) /\ Extends(u, r.s, target)
            /\ ToSet(SheetsOf(u, target)) \subseteq ToSet(SheetsOf(r.s, target))
            /\ r.ok => Copied(u, r.s, target, SheetOf(u, b, id).data)
        BY <4>1, CopySheetFacts
      <4> QED BY <3>5, <4>2
    <3>7. x.data = SheetOf(s, b, q[n]).data
      BY DEF id
    <3> HIDE DEF x, v
    <3>8. Extends(s, v, target)
      <4>1. v.next \in Nat
        BY <3>6, SessionFacts DEF Good
      <4> QED BY <1>0, <3>1, <3>3, <3>6, <4>1, ExtendsTwice
    <3>9. ToSet(T) \subseteq ToSet(SheetsOf(v, target))
      BY <3>1, <3>6
    <3>10. ASSUME r.ok PROVE Copies(s, v, b, q, target, n)
      <4>1. Grown(s, u, target, n - 1) /\ Grown(u, v, target, 1) /\ 1 \in Nat
        BY <3>1, <3>6, <3>10 DEF Copies, Copied
      <4>2. Grown(s, v, target, (n - 1) + 1)
        BY <3>1, <3>2, <3>3, <4>1, GrownTwice
      <4>3. (n - 1) + 1 = n /\ 1 .. n = (1 .. n - 1) \cup {n}
        BY <3>2
      <4>4. \A m \in 1 .. n - 1 : HasCopy(s, v, target, SheetOf(s, b, q[m]).data)
        BY <3>1, <3>6 DEF Copies, HasCopy
      <4>5. HasCopy(s, v, target, x.data)
        <5>1. PICK y \in ToSet(SheetsOf(v, target)) : y.id = NewId(SheetsOf(u, target)) /\ y.data = x.data
          BY <3>6, <3>10 DEF Copied, CopiedAs
        <5>2. NewId(SheetsOf(u, target)) \notin Ids(SheetsOf(u, target))
          <6>1. SheetsOf(u, target) \in Seq(SheetRecord) /\ ShownIn(SheetsOf(u, target)) # {}
            BY <3>1, <3>3, GoodSheets
          <6> QED BY <6>1, NewIdFacts
        <5>3. Ids(T) \subseteq Ids(SheetsOf(u, target))
          BY <3>1 DEF Ids
        <5> QED BY <5>1, <5>2, <5>3 DEF HasCopy
      <4> QED BY <3>7, <4>2, <4>3, <4>4, <4>5 DEF Copies
    <3> QED BY <3>6, <3>8, <3>9, <3>10 DEF v
  <2> QED BY <2>2, <2>3, <2>4
<1> HIDE DEF Fine
<1> DEFINE G == {n \in Nat : n <= N => \A p \in f[n] : Fine(p, n)}
<1>6. N \in G
  <2>1. 0 \in G
    BY <1>4
  <2>2. \A n \in Nat : n \in G => n + 1 \in G
    <3> SUFFICES ASSUME NEW n \in Nat, n \in G, n + 1 <= N PROVE \A p \in f[n + 1] : Fine(p, n + 1)
      OBVIOUS
    <3>1. n + 1 \in 1 .. N /\ (n + 1) - 1 = n /\ n <= N
      BY <1>1
    <3>2. \A p \in f[(n + 1) - 1] : Fine(p, (n + 1) - 1)
      BY <3>1
    <3> HIDE DEF G
    <3> QED BY <1>5, <3>1, <3>2
  <2> HIDE DEF G
  <2> QED BY <1>1, <2>1, <2>2, NatInduct
<1>7. \A p \in f[N] : Fine(p, N)
  BY <1>1, <1>6
<1>8. \A p \in f[N] : p.ok \in BOOLEAN /\ (~p.ok => Extends(s, p.s, target))
  BY <1>7 DEF Fine
<1>9. o.ok \in BOOLEAN /\ (o.ok => o \in f[N]) /\ (~o.ok => o.s = s)
  BY <1>0, <1>3, <1>8, UndoneFacts
<1>10. Extends(s, s, target)
  BY NotGrown
<1> QED BY <1>7, <1>9, <1>10 DEF Fine, N

-----------------------------------------------------------------------------
(* Copying a collection, into a workbook or to one of its own.             *)
LEMMA FirstCopyFacts ==
  ASSUME NEW s, Good(s), NEW t, Good(t), NEW b, NEW q, NEW target \in DOMAIN s.books,
         target \in DOMAIN t.books, Len(q) \in Nat \ {0}, Copies(s, t, b, q, target, Len(q))
  PROVE  FirstCopy(t, target, q) \in Ids(SheetsOf(t, target))
<1> DEFINE k == NewId(SheetsOf(s, target))
           N == Len(q)
<1>1. Grown(s, t, target, N) /\ N \in Nat \ {0}
  BY DEF Copies
<1> HIDE DEF N
<1>2. NewId(SheetsOf(t, target)) = k + N
  BY <1>1, GrownFacts
<1>3. k \in Nat
  BY GoodSheets, NewIdFacts
<1>4. FirstCopy(t, target, q) = k
  BY <1>1, <1>2, <1>3 DEF FirstCopy, N
<1> HIDE DEF k
<1>5. k \in k .. k + N - 1
  BY <1>1, <1>3
<1> QED BY <1>1, <1>4, <1>5 DEF Grown, k

LEMMA CopyCollectionFacts ==
  ASSUME NEW s, Good(s), NEW b \in DOMAIN s.books, NEW q, OfSheets(q, SheetsOf(s, b)), q # <<>>,
         NEW target \in DOMAIN s.books, NEW i \in Nat \ {0}, NEW r \in CopyCollection(s, b, q, target, i)
  PROVE  r.ok \in BOOLEAN /\ Good(r.s) /\ Extends(s, r.s, target) /\ (~r.ok => r.s = s)
<1>1. PICK o \in CopyBlock(s, b, q, target, i) :
        r = IF o.ok THEN Succeeds(Select(o.s, target, FirstCopy(o.s, target, q))) ELSE o
  BY DEF CopyCollection
<1>2. /\ o.ok \in BOOLEAN /\ Good(o.s) /\ Extends(s, o.s, target) /\ (~o.ok => o.s = s)
      /\ o.ok => Copies(s, o.s, b, q, target, Len(q))
  BY CopyBlockFacts
<1>3. CASE ~o.ok
  BY <1>1, <1>2, <1>3
<1>4. CASE o.ok
  <2> DEFINE u == o.s
             id == FirstCopy(u, target, q)
             v == Select(u, target, id)
  <2>1. r.s = v /\ r.ok = TRUE
    BY <1>1, <1>4, OutcomeFacts
  <2>2. Good(u) /\ Extends(s, u, target) /\ Copies(s, u, b, q, target, Len(q))
    BY <1>2, <1>4
  <2> HIDE DEF u
  <2>3. Len(q) \in Nat \ {0}
    BY DEF OfSheets
  <2>4. target \in DOMAIN u.books
    BY <2>2 DEF Extends
  <2>5. id \in Ids(SheetsOf(u, target))
    BY <2>2, <2>3, <2>4, FirstCopyFacts
  <2> HIDE DEF id
  <2>6. Good(v) /\ v.books = u.books /\ v.next = u.next
    BY <2>2, <2>4, <2>5, SelectGood
  <2> HIDE DEF v
  <2>7. Extends(s, v, target)
    BY <2>2, <2>6 DEF Extends
  <2> QED BY <2>1, <2>6, <2>7
<1> QED BY <1>2, <1>3, <1>4

(* The workbooks of s are there as they were.                              *)
Adds(s, t) == s.next <= t.next /\ \A c \in DOMAIN s.books : c \in DOMAIN t.books /\ t.books[c] = s.books[c]

HasData(t, b, data) == \E x \in ToSet(SheetsOf(t, b)) : x.data = data

LEMMA NewWorkbookFacts ==
  /\ NewWorkbook \in Book /\ Listed(NewWorkbook.sheets)
  /\ Ids(NewWorkbook.sheets) = {1} /\ NewId(NewWorkbook.sheets) = 2
<1> DEFINE x == [id |-> 1, kind |-> "grid", shown |-> TRUE, data |-> Blank]
           L == <<x>>
<1>1. NewWorkbook = [sheets |-> L, readOnly |-> FALSE]
  BY DEF NewWorkbook
<1>2. x \in SheetRecord /\ x.id = 1 /\ x.shown
  BY DEF SheetRecord, Blank
<1> HIDE DEF x
<1>3. L \in Seq(SheetRecord) /\ Len(L) = 1 /\ DOMAIN L = {1} /\ L[1] = x /\ ToSet(L) = {x}
  BY <1>2 DEF ToSet
<1> HIDE DEF L
<1>4. Distinct(L) /\ Ids(L) = {1}
  BY <1>2, <1>3 DEF Distinct, Ids
<1>5. ShownIn(L) # {}
  BY <1>2, <1>3, ShownFacts
<1>6. NewId(L) = 2
  <2>1. 1 \in Ids(L) /\ \A id \in Ids(L) : id <= 1
    BY <1>4
  <2> QED BY <1>3, <1>5, <2>1, NewIdIs
<1>7. NewWorkbook \in Book /\ NewWorkbook.sheets = L
  BY <1>1, <1>3 DEF Book
<1> QED BY <1>3, <1>4, <1>5, <1>6, <1>7 DEF Listed

LEMMA CreateFacts ==
  ASSUME NEW s, Good(s), NEW b \in DOMAIN s.books, NEW q, OfSheets(q, SheetsOf(s, b)), q # <<>>,
         NEW r \in CreateFromBlock(s, b, q)
  PROVE  /\ r.ok \in BOOLEAN /\ Good(r.s) /\ Adds(s, r.s) /\ s.next \notin DOMAIN s.books
         /\ r.ok => /\ s.next \in DOMAIN r.s.books /\ 2 \in Ids(SheetsOf(r.s, s.next))
                    /\ \A m \in 1 .. Len(q) : HasData(r.s, s.next, SheetOf(s, b, q[m]).data)
<1> DEFINE n == s.next
           t == OpenWorkbook(s, NewWorkbook)
           one == SheetsOf(t, n)
           N == Len(q)
<1>1. q \in Seq(Nat) /\ N \in Nat \ {0}
  BY DEF OfSheets
<1>2. s \in Session /\ n \in Nat
  BY SessionFacts DEF Good
<1>3. n \notin DOMAIN s.books
  BY <1>2, GoodSheets
<1> DEFINE P == CopyBlock(t, b, q, n, 2)
<1>4. \/ r = Fails(s)
      \/ \E c \in P : \E p \in IF c.ok THEN DeleteSheet(c.s, n, 1) ELSE {c} :
           r \in IF p.ok THEN {Fails(p.s), Succeeds(Select(p.s, n, 2))} ELSE {p}
  BY DEF CreateFromBlock
<1>5. /\ NewWorkbook \in Book /\ Listed(NewWorkbook.sheets)
      /\ Ids(NewWorkbook.sheets) = {1} /\ NewId(NewWorkbook.sheets) = 2
  BY NewWorkbookFacts
<1>6. /\ Good(t) /\ t.next = n + 1 /\ DOMAIN t.books = DOMAIN s.books \cup {n} /\ one = NewWorkbook.sheets
      /\ \A c \in DOMAIN s.books : c # n /\ t.books[c] = s.books[c]
  BY <1>5, OpenGood
<1> HIDE DEF t, n
<1>7. /\ Good(t) /\ b \in DOMAIN t.books /\ OfSheets(q, SheetsOf(t, b)) /\ n \in DOMAIN t.books
      /\ SheetsOf(t, b) = SheetsOf(s, b)
  BY <1>6 DEF SheetsOf
<1>8. \A m \in 1 .. N : SheetOf(t, b, q[m]) = SheetOf(s, b, q[m])
  BY <1>7 DEF SheetOf
<1>9. Adds(s, s)
  BY <1>2 DEF Adds, n
<1>10. CASE r = Fails(s)
  BY <1>3, <1>9, <1>10, OutcomeFacts DEF n
<1>11. ASSUME NEW c \in P, NEW p \in (IF c.ok THEN DeleteSheet(c.s, n, 1) ELSE {c}),
              r \in IF p.ok THEN {Fails(p.s), Succeeds(Select(p.s, n, 2))} ELSE {p}
       PROVE  /\ r.ok \in BOOLEAN /\ Good(r.s) /\ Adds(s, r.s)
              /\ r.ok => /\ n \in DOMAIN r.s.books /\ 2 \in Ids(SheetsOf(r.s, n))
                         /\ \A m \in 1 .. N : HasData(r.s, n, SheetOf(s, b, q[m]).data)
  <2> DEFINE u == c.s
             v == p.s
             w == Select(v, n, 2)
  <2>1. /\ c.ok \in BOOLEAN /\ Good(u) /\ Extends(t, u, n)
        /\ c.ok => Copies(t, u, b, q, n, N)
    <3>1. 2 \in Nat \ {0}
      OBVIOUS
    <3> QED BY <1>7, <3>1, CopyBlockFacts
  <2>2. u.next \in Nat /\ n <= u.next
    <3>1. u.next \in Nat
      BY <2>1, SessionFacts DEF Good
    <3>2. n + 1 <= u.next
      BY <1>6, <2>1 DEF Extends
    <3> HIDE DEF u
    <3> QED BY <1>2, <3>1, <3>2
  <2>3. n \in DOMAIN u.books /\ Adds(s, u)
    BY <1>6, <2>1, <2>2 DEF Extends, Adds, n
  <2>4. CASE ~c.ok
    <3>1. p = c /\ r = c
      BY <1>11, <2>4
    <3> QED BY <2>1, <2>3, <2>4, <3>1
  <2>5. CASE c.ok
    <3>1. p \in DeleteSheet(u, n, 1)
      BY <1>11, <2>5
    <3>2. Good(u) /\ Copies(t, u, b, q, n, N)
      BY <2>1, <2>5
    <3> HIDE DEF u
    <3>3. Ids(SheetsOf(u, n)) = {1} \cup (2 .. 2 + N - 1) /\ ToSet(one) \subseteq ToSet(SheetsOf(u, n))
      BY <1>5, <1>6, <3>2 DEF Copies, Grown
    <3>4. 1 \in Ids(SheetsOf(u, n)) /\ 2 \in Ids(SheetsOf(u, n)) \ {1}
      BY <1>1, <3>3
    <3>5. /\ p.ok \in BOOLEAN /\ Good(v) /\ (~p.ok => v = u)
          /\ p.ok => Same(u, v, n) /\ SheetsOf(v, n) = Without(SheetsOf(u, n), {1})
      BY <2>3, <3>1, <3>2, <3>4, DeleteFacts
    <3>6. CASE ~p.ok
      <4>1. r = p
        BY <1>11, <3>6
      <4> QED BY <2>3, <3>5, <3>6, <4>1
    <3>7. CASE p.ok
      <4> HIDE DEF v
      <4>1. n \in DOMAIN v.books /\ Adds(s, v)
        BY <1>3, <2>3, <3>5, <3>7 DEF Same, Adds, n
      <4>2. SheetsOf(u, n) \in Seq(SheetRecord) /\ Distinct(SheetsOf(u, n))
        BY <2>3, <3>2, GoodSheets
      <4>3. /\ ToSet(SheetsOf(v, n)) = {x \in ToSet(SheetsOf(u, n)) : x.id \notin {1}}
            /\ Ids(SheetsOf(v, n)) = Ids(SheetsOf(u, n)) \ {1}
        BY <3>5, <3>7, <4>2, WithoutFacts
      <4>4. 2 \in Ids(SheetsOf(v, n))
        BY <3>4, <4>3
      <4>5. Good(w) /\ w.books = v.books /\ w.next = v.next
        BY <3>5, <4>1, <4>4, SelectGood
      <4> HIDE DEF w
      <4>6. n \in DOMAIN w.books /\ Adds(s, w) /\ 2 \in Ids(SheetsOf(w, n))
        BY <4>1, <4>4, <4>5 DEF Adds, SheetsOf
      <4>7. ASSUME NEW m \in 1 .. N PROVE HasData(w, n, SheetOf(s, b, q[m]).data)
        <5>1. HasCopy(t, u, n, SheetOf(s, b, q[m]).data)
          BY <1>8, <3>2 DEF Copies
        <5>2. PICK x \in ToSet(SheetsOf(u, n)) : x.id \notin {1} /\ x.data = SheetOf(s, b, q[m]).data
          BY <1>5, <1>6, <5>1 DEF HasCopy
        <5>3. SheetsOf(w, n) = SheetsOf(v, n)
          BY <4>5 DEF SheetsOf
        <5> QED BY <4>3, <5>2, <5>3 DEF HasData
      <4>8. r = Fails(v) \/ r = Succeeds(w)
        BY <1>11, <3>7 DEF w, v
      <4>9. CASE r = Fails(v)
        BY <3>5, <4>1, <4>9, OutcomeFacts
      <4>10. CASE r = Succeeds(w)
        BY <4>5, <4>6, <4>7, <4>10, OutcomeFacts
      <4> QED BY <4>8, <4>9, <4>10
    <3> QED BY <3>5, <3>6, <3>7
  <2> QED BY <2>1, <2>4, <2>5
<1> QED BY <1>3, <1>4, <1>10, <1>11 DEF n

LEMMA CopyOutFacts ==
  ASSUME NEW s, Good(s), NEW b \in DOMAIN s.books, NEW q, OfSheets(q, SheetsOf(s, b)), q # <<>>,
         NEW r \in CopyCollectionOut(s, b, q)
  PROVE  r.ok \in BOOLEAN /\ Good(r.s) /\ Adds(s, r.s) /\ (~r.ok => r.s = s)
<1> DEFINE outcomes == CreateFromBlock(s, b, q)
<1>1. r \in Undone(s, outcomes, b)
  BY DEF CopyCollectionOut
<1>2. \A p \in outcomes : p.ok \in BOOLEAN /\ Good(p.s) /\ Adds(s, p.s)
  BY CreateFacts
<1> HIDE DEF outcomes
<1>3. s \in Session /\ s.next \in Nat
  BY SessionFacts DEF Good
<1>4. \A p \in outcomes : p.ok \in BOOLEAN /\ (~p.ok => Extends(s, p.s, b))
  BY <1>2 DEF Adds, Extends
<1>5. r.ok \in BOOLEAN /\ (r.ok => r \in outcomes) /\ (~r.ok => r.s = s)
  BY <1>1, <1>3, <1>4, UndoneFacts
<1>6. Adds(s, s)
  BY <1>3 DEF Adds
<1> QED BY <1>2, <1>5, <1>6

-----------------------------------------------------------------------------
(* What is on the sheets. Keeps: no sheet of s is gone from t, and only b   *)
(* has changed.                                                            *)
Keeps(s, t, b) ==
  /\ s.next <= t.next
  /\ \A c \in DOMAIN s.books : /\ c \in DOMAIN t.books /\ (c # b => t.books[c] = s.books[c])
                               /\ ToSet(SheetsOf(s, c)) \subseteq ToSet(SheetsOf(t, c))

LEMMA DataFacts ==
  ASSUME NEW s
  PROVE  /\ \A b \in DOMAIN s.books : \A x \in ToSet(SheetsOf(s, b)) : <<x.data>> \in Data(s)
         /\ \A d \in Data(s) : \E b \in DOMAIN s.books : \E x \in ToSet(SheetsOf(s, b)) : d = <<x.data>>
BY DEF Data

LEMMA KeepsData ==
  ASSUME NEW s, NEW t, NEW b, Keeps(s, t, b)
  PROVE  Data(s) \subseteq Data(t)
<1>1. \A c \in DOMAIN s.books : c \in DOMAIN t.books /\ ToSet(SheetsOf(s, c)) \subseteq ToSet(SheetsOf(t, c))
  BY DEF Keeps
<1> SUFFICES ASSUME NEW d \in Data(s) PROVE d \in Data(t)
  OBVIOUS
<1>2. PICK c \in DOMAIN s.books : \E x \in ToSet(SheetsOf(s, c)) : d = <<x.data>>
  BY DataFacts
<1>3. PICK x \in ToSet(SheetsOf(s, c)) : d = <<x.data>>
  BY <1>2
<1>4. c \in DOMAIN t.books /\ x \in ToSet(SheetsOf(t, c))
  BY <1>1
<1> QED BY <1>3, <1>4, DataFacts

LEMMA AddsKeeps ==
  ASSUME NEW s, NEW t, NEW b, Adds(s, t)
  PROVE  Keeps(s, t, b)
BY DEF Adds, Keeps, SheetsOf

LEMMA ExtendsKeeps ==
  ASSUME NEW s, NEW t, NEW b, Extends(s, t, b), ToSet(SheetsOf(s, b)) \subseteq ToSet(SheetsOf(t, b))
  PROVE  Keeps(s, t, b)
BY DEF Extends, Keeps, SheetsOf

LEMMA SameKeeps ==
  ASSUME NEW s, s.next \in Nat, NEW t, NEW b, Same(s, t, b),
         ToSet(SheetsOf(s, b)) \subseteq ToSet(SheetsOf(t, b))
  PROVE  Keeps(s, t, b)
BY SameFacts, ExtendsKeeps

-----------------------------------------------------------------------------
(* Moving sheets to another workbook: leaving theirs, they are deleted, or  *)
(* it is closed where all of them go.                                      *)
LEMMA LeaveFacts ==
  ASSUME NEW u, Good(u), NEW b \in DOMAIN u.books, NEW q, OfSheets(q, SheetsOf(u, b)),
         NEW o \in Leave(u, b, q, Len(SheetsOf(u, b)))
  PROVE  /\ o.ok \in BOOLEAN /\ Good(o.s)
         /\ \A c \in DOMAIN u.books : c # b => c \in DOMAIN o.s.books /\ o.s.books[c] = u.books[c]
         /\ \A x \in ToSet(SheetsOf(u, b)) :
              x.id \notin ToSet(q) => b \in DOMAIN o.s.books /\ x \in ToSet(SheetsOf(o.s, b))
<1> DEFINE L == SheetsOf(u, b)
           N == Len(q)
<1>1. L \in Seq(SheetRecord) /\ Distinct(L) /\ Len(L) \in Nat
  BY GoodSheets
<1>2. /\ q \in Seq(Nat) /\ N \in Nat /\ DOMAIN q = 1 .. N /\ \A n \in 1 .. N : q[n] \in Ids(L)
      /\ \A m, n \in 1 .. N : q[m] = q[n] => m = n
  BY DEF OfSheets
<1>3. CASE Len(L) > N
  <2>1. o = Fails(u) \/ o \in DeleteEach(u, b, q)
    BY <1>3 DEF Leave
  <2>2. CASE o = Fails(u)
    BY <2>2, OutcomeFacts
  <2>3. CASE o \in DeleteEach(u, b, q)
    <3>1. /\ o.ok \in BOOLEAN /\ Good(o.s) /\ Same(u, o.s, b)
          /\ \A x \in ToSet(SheetsOf(u, b)) : x.id \notin ToSet(q) => x \in ToSet(SheetsOf(o.s, b))
      BY <2>3, DeleteEachFacts
    <3> QED BY <3>1 DEF Same
  <2> QED BY <2>1, <2>2, <2>3
<1>4. CASE ~(Len(L) > N)
  <2>1. o = Succeeds(CloseWorkbook(u, b))
    BY <1>4 DEF Leave
  <2> DEFINE w == CloseWorkbook(u, b)
  <2>2. Good(w) /\ DOMAIN w.books = DOMAIN u.books \ {b} /\ \A c \in DOMAIN u.books \ {b} : w.books[c] = u.books[c]
    BY CloseGood
  <2>3. o.s = w /\ o.ok = TRUE
    BY <2>1, OutcomeFacts
  <2>4. ToSet(q) = Ids(L)
    <3> HIDE DEF L
    <3>1. ToSet(q) \subseteq Ids(L)
      BY <1>2 DEF ToSet
    <3>2. IsFiniteSet(Ids(L)) /\ Cardinality(Ids(L)) = Len(L)
      BY <1>1, IdsAreFinite, DistinctCount
    <3>3. IsFiniteSet(ToSet(q)) /\ Cardinality(ToSet(q)) = N
      <4> HIDE DEF N
      <4>1. IsFiniteSet(1 .. N) /\ Cardinality(1 .. N) = N
        <5>1. IsFiniteSet(1 .. N) /\ Cardinality(1 .. N) = IF 1 > N THEN 0 ELSE N - 1 + 1
          BY <1>2, FS_Interval
        <5> QED BY <1>2, <5>1
      <4> DEFINE f == [n \in 1 .. N |-> q[n]]
      <4>2. /\ f \in [1 .. N -> ToSet(q)] /\ \A id \in ToSet(q) : \E n \in 1 .. N : f[n] = id
            /\ \A m, n \in 1 .. N : f[m] = f[n] => m = n
        BY <1>2 DEF ToSet
      <4> HIDE DEF f
      <4>3. f \in Surjection(1 .. N, ToSet(q)) /\ f \in Injection(1 .. N, ToSet(q))
        BY <4>2 DEF Surjection, Injection, IsInjective
      <4> QED BY <4>1, <4>3, FS_Surjection
    <3>4. Cardinality(ToSet(q)) <= Cardinality(Ids(L))
      BY <3>1, <3>2, FS_Subset
    <3>5. Cardinality(ToSet(q)) = Cardinality(Ids(L))
      BY <1>1, <1>2, <1>4, <3>2, <3>3, <3>4
    <3> QED BY <3>1, <3>2, <3>5, FS_Subset
  <2>5. \A x \in ToSet(L) : x.id \in ToSet(q)
    BY <2>4 DEF Ids
  <2> HIDE DEF w
  <2> QED BY <2>2, <2>3, <2>5
<1> QED BY <1>3, <1>4

(* The sheets q of b, once they are on target: nothing is lost.            *)
Arrived(s, t, b, q, target) ==
  target \in DOMAIN t.books /\ \A m \in 1 .. Len(q) : HasData(t, target, SheetOf(s, b, q[m]).data)

AllArrive(s, copies, b, q, target) ==
  \A p \in copies : /\ p.ok \in BOOLEAN /\ Good(p.s) /\ Keeps(s, p.s, target)
                    /\ (p.ok => Arrived(s, p.s, b, q, target))

OneArrived(t, copies, target) ==
  target \in DOMAIN t.books /\ \E p \in copies : p.ok /\ SheetsOf(t, target) = SheetsOf(p.s, target)

LEMMA MoveAwayFacts ==
  ASSUME NEW s, Good(s), NEW b \in DOMAIN s.books, NEW q, OfSheets(q, SheetsOf(s, b)),
         NEW target, target # b, NEW copies, AllArrive(s, copies, b, q, target),
         NEW o \in MoveAway(s, b, q, copies)
  PROVE  /\ o.ok \in BOOLEAN /\ Good(o.s) /\ Data(s) \subseteq Data(o.s)
         /\ o.ok => OneArrived(o.s, copies, target)
<1> DEFINE L == SheetsOf(s, b)
<1>1. \/ o = Fails(s)
      \/ \E p \in copies : o \in IF p.ok THEN Leave(p.s, b, q, Len(L)) ELSE {p}
  BY DEF MoveAway
<1>2. CASE o = Fails(s)
  BY <1>2, OutcomeFacts
<1>3. ASSUME NEW p \in copies, o \in IF p.ok THEN Leave(p.s, b, q, Len(L)) ELSE {p}
      PROVE  /\ o.ok \in BOOLEAN /\ Good(o.s) /\ Data(s) \subseteq Data(o.s)
             /\ o.ok => /\ target \in DOMAIN o.s.books /\ p.ok
                        /\ SheetsOf(o.s, target) = SheetsOf(p.s, target)
  <2> DEFINE u == p.s
             v == o.s
  <2>1. /\ p.ok \in BOOLEAN /\ Good(u) /\ Keeps(s, u, target)
        /\ (p.ok => Arrived(s, u, b, q, target))
    BY DEF AllArrive
  <2>2. CASE ~p.ok
    <3>1. o = p
      BY <1>3, <2>2
    <3>2. Data(s) \subseteq Data(u)
      BY <2>1, KeepsData
    <3> QED BY <2>1, <2>2, <3>1, <3>2
  <2>3. CASE p.ok
    <3>1. o \in Leave(u, b, q, Len(L)) /\ Arrived(s, u, b, q, target)
      BY <1>3, <2>1, <2>3
    <3> HIDE DEF u
    <3>2. b \in DOMAIN u.books /\ SheetsOf(u, b) = L
      BY <2>1 DEF Keeps, SheetsOf
    <3>3. /\ o.ok \in BOOLEAN /\ Good(v)
          /\ \A c \in DOMAIN u.books : c # b => c \in DOMAIN v.books /\ v.books[c] = u.books[c]
          /\ \A x \in ToSet(L) : x.id \notin ToSet(q) => b \in DOMAIN v.books /\ x \in ToSet(SheetsOf(v, b))
      BY <2>1, <3>1, <3>2, LeaveFacts
    <3> HIDE DEF v
    <3>4. target \in DOMAIN v.books /\ SheetsOf(v, target) = SheetsOf(u, target)
      BY <3>1, <3>3 DEF Arrived, SheetsOf
    <3>5. ASSUME NEW d \in Data(s) PROVE d \in Data(v)
      <4>1. PICK c \in DOMAIN s.books : \E x \in ToSet(SheetsOf(s, c)) : d = <<x.data>>
        BY DataFacts
      <4>2. PICK x \in ToSet(SheetsOf(s, c)) : d = <<x.data>>
        BY <4>1
      <4>3. CASE c # b
        <5>1. c \in DOMAIN u.books /\ x \in ToSet(SheetsOf(u, c))
          BY <2>1 DEF Keeps
        <5>2. c \in DOMAIN v.books /\ x \in ToSet(SheetsOf(v, c))
          BY <3>3, <4>3, <5>1 DEF SheetsOf
        <5> QED BY <4>2, <5>2, DataFacts
      <4>4. CASE c = b /\ x.id \notin ToSet(q)
        <5>1. b \in DOMAIN v.books /\ x \in ToSet(SheetsOf(v, b))
          BY <3>3, <4>4
        <5> QED BY <4>2, <5>1, DataFacts
      <4>5. CASE c = b /\ x.id \in ToSet(q)
        <5>1. q \in Seq(Nat)
          BY DEF OfSheets
        <5>2. PICK m \in 1 .. Len(q) : q[m] = x.id
          BY <4>5, <5>1 DEF ToSet
        <5>3. x.id \in Ids(L)
          BY <4>5 DEF Ids
        <5>4. x = SheetOf(s, b, x.id)
          BY <4>5, <5>3, SheetOfFacts
        <5>5. PICK y \in ToSet(SheetsOf(u, target)) : y.data = x.data
          BY <3>1, <5>2, <5>4 DEF Arrived, HasData
        <5>6. d = <<y.data>> /\ y \in ToSet(SheetsOf(v, target))
          BY <3>4, <4>2, <5>5
        <5> QED BY <3>4, <5>6, DataFacts
      <4> QED BY <4>3, <4>4, <4>5
    <3> QED BY <2>3, <3>3, <3>4, <3>5 DEF u, v
  <2> QED BY <2>1, <2>2, <2>3
<1> QED BY <1>1, <1>2, <1>3 DEF OneArrived

LEMMA OneSheet ==
  ASSUME NEW s, Good(s), NEW b \in DOMAIN s.books, NEW id \in Ids(SheetsOf(s, b))
  PROVE  OfSheets(<<id>>, SheetsOf(s, b)) /\ <<id>> # <<>> /\ Len(<<id>>) = 1 /\ <<id>>[1] = id
<1>1. id \in Nat
  BY GoodSheets, ElementFacts
<1> QED BY <1>1 DEF OfSheets

LEMMA MoveSheetFacts ==
  ASSUME NEW s, Good(s), NEW b \in DOMAIN s.books, NEW id \in Ids(SheetsOf(s, b)),
         NEW target \in DOMAIN s.books, target # b, NEW i \in Nat \ {0},
         NEW o \in MoveSheet(s, b, id, target, i)
  PROVE  Good(o.s) /\ Data(s) \subseteq Data(o.s)
<1> DEFINE copies == CopySheet(s, b, id, target, i)
           q == <<id>>
<1>1. o \in MoveAway(s, b, q, copies)
  BY DEF MoveSheet
<1>2. OfSheets(q, SheetsOf(s, b)) /\ Len(q) = 1 /\ q[1] = id
  BY OneSheet
<1>3. ASSUME NEW p \in copies
      PROVE  /\ p.ok \in BOOLEAN /\ Good(p.s) /\ Keeps(s, p.s, target)
             /\ (p.ok => Arrived(s, p.s, b, q, target))
  <2>1. /\ p.ok \in BOOLEAN /\ Good(p.s) /\ Extends(s, p.s, target)
        /\ ToSet(SheetsOf(s, target)) \subseteq ToSet(SheetsOf(p.s, target))
        /\ p.ok => Copied(s, p.s, target, SheetOf(s, b, id).data)
    BY CopySheetFacts
  <2>2. Keeps(s, p.s, target)
    BY <2>1, ExtendsKeeps
  <2> HIDE DEF q
  <2>3. ASSUME p.ok PROVE Arrived(s, p.s, b, q, target)
    <3>1. HasData(p.s, target, SheetOf(s, b, id).data)
      BY <2>1, <2>3 DEF Copied, CopiedAs, HasData
    <3>2. target \in DOMAIN p.s.books
      BY <2>1 DEF Extends
    <3>3. \A m \in 1 .. Len(q) : q[m] = id
      BY <1>2
    <3> QED BY <3>1, <3>2, <3>3 DEF Arrived
  <2> QED BY <2>1, <2>2, <2>3
<1>4. AllArrive(s, copies, b, q, target)
  BY <1>3 DEF AllArrive
<1> HIDE DEF copies, q
<1> QED BY <1>1, <1>2, <1>4, MoveAwayFacts

LEMMA MoveSheetOutFacts ==
  ASSUME NEW s, Good(s), NEW b \in DOMAIN s.books, NEW id \in Ids(SheetsOf(s, b)),
         NEW o \in MoveSheetOut(s, b, id)
  PROVE  Good(o.s) /\ Data(s) \subseteq Data(o.s)
<1> DEFINE copies == Spawn(s, b, id)
           q == <<id>>
           n == s.next
<1>1. o \in MoveAway(s, b, q, copies)
  BY DEF MoveSheetOut
<1>2. OfSheets(q, SheetsOf(s, b)) /\ Len(q) = 1 /\ q[1] = id
  BY OneSheet
<1>3. n # b
  BY GoodSheets
<1>4. ASSUME NEW p \in copies
      PROVE  /\ p.ok \in BOOLEAN /\ Good(p.s) /\ Keeps(s, p.s, n)
             /\ (p.ok => Arrived(s, p.s, b, q, n))
  <2>1. /\ p.ok \in BOOLEAN /\ Good(p.s)
        /\ s.next <= p.s.next /\ \A c \in DOMAIN s.books : c \in DOMAIN p.s.books /\ p.s.books[c] = s.books[c]
        /\ p.ok => /\ s.next \in DOMAIN p.s.books /\ s.next \notin DOMAIN s.books
                   /\ ToSet(SheetsOf(p.s, s.next)) = {SheetOf(s, b, id)}
    BY SpawnFacts
  <2>2. Keeps(s, p.s, n)
    BY <2>1, AddsKeeps DEF Adds
  <2> HIDE DEF q
  <2>3. ASSUME p.ok PROVE Arrived(s, p.s, b, q, n)
    <3>1. HasData(p.s, n, SheetOf(s, b, id).data)
      BY <2>1, <2>3 DEF HasData
    <3>2. \A m \in 1 .. Len(q) : q[m] = id
      BY <1>2
    <3> QED BY <2>1, <2>3, <3>1, <3>2 DEF Arrived
  <2> QED BY <2>1, <2>2, <2>3
<1>5. AllArrive(s, copies, b, q, n)
  BY <1>4 DEF AllArrive
<1> HIDE DEF copies, q, n
<1> QED BY <1>1, <1>2, <1>3, <1>5, MoveAwayFacts

LEMMA MoveBlockFacts ==
  ASSUME NEW s, Good(s), NEW b \in DOMAIN s.books, NEW q, OfSheets(q, SheetsOf(s, b)), q # <<>>,
         NEW target \in DOMAIN s.books, target # b, NEW i \in Nat \ {0},
         NEW o \in MoveBlock(s, b, q, target, i)
  PROVE  Good(o.s) /\ Data(s) \subseteq Data(o.s)
<1> DEFINE copies == CopyBlock(s, b, q, target, i)
<1>1. PICK r \in MoveAway(s, b, q, copies) :
        o = IF r.ok THEN Succeeds(Select(r.s, target, FirstCopy(r.s, target, q))) ELSE r
  BY DEF MoveBlock
<1>2. ASSUME NEW p \in copies
      PROVE  /\ p.ok \in BOOLEAN /\ Good(p.s) /\ Keeps(s, p.s, target) /\ target \in DOMAIN p.s.books
             /\ (p.ok => Copies(s, p.s, b, q, target, Len(q)))
             /\ (p.ok => Arrived(s, p.s, b, q, target))
  <2>1. /\ p.ok \in BOOLEAN /\ Good(p.s) /\ Extends(s, p.s, target) /\ (~p.ok => p.s = s)
        /\ p.ok => Copies(s, p.s, b, q, target, Len(q))
    BY CopyBlockFacts
  <2>2. ToSet(SheetsOf(s, target)) \subseteq ToSet(SheetsOf(p.s, target))
    BY <2>1 DEF Copies, Grown
  <2>3. Keeps(s, p.s, target) /\ target \in DOMAIN p.s.books
    BY <2>1, <2>2, ExtendsKeeps DEF Extends
  <2>4. ASSUME p.ok PROVE Arrived(s, p.s, b, q, target)
    BY <2>1, <2>3, <2>4 DEF Copies, HasCopy, HasData, Arrived
  <2> QED BY <2>1, <2>3, <2>4
<1> HIDE DEF copies
<1>3. /\ r.ok \in BOOLEAN /\ Good(r.s) /\ Data(s) \subseteq Data(r.s)
      /\ r.ok => OneArrived(r.s, copies, target)
  <2>1. AllArrive(s, copies, b, q, target)
    BY <1>2 DEF AllArrive
  <2>2. r \in MoveAway(s, b, q, copies)
    BY <1>1
  <2> QED BY <2>1, <2>2, MoveAwayFacts
<1>4. CASE ~r.ok
  BY <1>1, <1>3, <1>4
<1>5. CASE r.ok
  <2>1. PICK p \in copies : p.ok /\ SheetsOf(r.s, target) = SheetsOf(p.s, target)
    BY <1>3, <1>5 DEF OneArrived
  <2> DEFINE u == p.s
             v == r.s
             id == FirstCopy(v, target, q)
             w == Select(v, target, id)
  <2>2. Good(u) /\ target \in DOMAIN u.books /\ Copies(s, u, b, q, target, Len(q))
    BY <1>2, <2>1
  <2>3. FirstCopy(u, target, q) \in Ids(SheetsOf(u, target))
    <3>1. Len(q) \in Nat \ {0}
      BY DEF OfSheets
    <3> HIDE DEF u
    <3> QED BY <2>2, <3>1, FirstCopyFacts
  <2>4. id = FirstCopy(u, target, q) /\ SheetsOf(v, target) = SheetsOf(u, target)
    BY <2>1 DEF FirstCopy
  <2>5. Good(v) /\ Data(s) \subseteq Data(v) /\ target \in DOMAIN v.books
    BY <1>3, <1>5 DEF OneArrived
  <2>6. o.s = w
    BY <1>1, <1>5, OutcomeFacts
  <2> HIDE DEF u, v, id
  <2>7. Good(w) /\ w.books = v.books
    BY <2>3, <2>4, <2>5, SelectGood
  <2> HIDE DEF w
  <2>8. Data(w) = Data(v)
    BY <2>7 DEF Data, SheetsOf
  <2> QED BY <2>5, <2>6, <2>7, <2>8
<1> QED BY <1>3, <1>4, <1>5

LEMMA MoveBlockOutFacts ==
  ASSUME NEW s, Good(s), NEW b \in DOMAIN s.books, NEW q, OfSheets(q, SheetsOf(s, b)), q # <<>>,
         NEW o \in MoveBlockOut(s, b, q)
  PROVE  Good(o.s) /\ Data(s) \subseteq Data(o.s)
<1> DEFINE copies == CreateFromBlock(s, b, q)
           n == s.next
<1>1. PICK r \in MoveAway(s, b, q, copies) : o = IF r.ok THEN Succeeds(Select(r.s, n, 2)) ELSE r
  BY DEF MoveBlockOut
<1>2. n # b
  BY GoodSheets
<1>3. ASSUME NEW p \in copies
      PROVE  /\ p.ok \in BOOLEAN /\ Good(p.s) /\ Keeps(s, p.s, n)
             /\ (p.ok => 2 \in Ids(SheetsOf(p.s, n)))
             /\ (p.ok => Arrived(s, p.s, b, q, n))
  <2>1. /\ p.ok \in BOOLEAN /\ Good(p.s) /\ Adds(s, p.s)
        /\ p.ok => /\ n \in DOMAIN p.s.books /\ 2 \in Ids(SheetsOf(p.s, n))
                   /\ \A m \in 1 .. Len(q) : HasData(p.s, n, SheetOf(s, b, q[m]).data)
    BY CreateFacts
  <2> QED BY <2>1, AddsKeeps DEF Arrived
<1> HIDE DEF copies, n
<1>4. /\ r.ok \in BOOLEAN /\ Good(r.s) /\ Data(s) \subseteq Data(r.s)
      /\ r.ok => OneArrived(r.s, copies, n)
  <2>1. AllArrive(s, copies, b, q, n)
    BY <1>3 DEF AllArrive
  <2>2. r \in MoveAway(s, b, q, copies)
    BY <1>1
  <2> QED BY <1>2, <2>1, <2>2, MoveAwayFacts
<1>5. CASE ~r.ok
  BY <1>1, <1>4, <1>5
<1>6. CASE r.ok
  <2> DEFINE v == r.s
             w == Select(v, n, 2)
  <2>1. Good(v) /\ Data(s) \subseteq Data(v) /\ n \in DOMAIN v.books /\ 2 \in Ids(SheetsOf(v, n))
    BY <1>3, <1>4, <1>6 DEF OneArrived
  <2>2. o.s = w
    BY <1>1, <1>6, OutcomeFacts
  <2> HIDE DEF v
  <2>3. Good(w) /\ w.books = v.books
    BY <2>1, SelectGood
  <2> HIDE DEF w
  <2>4. Data(w) = Data(v)
    BY <2>3 DEF Data, SheetsOf
  <2> QED BY <2>1, <2>2, <2>3, <2>4
<1> QED BY <1>4, <1>5, <1>6

-----------------------------------------------------------------------------
(* Changing places, hiding and selecting.                                  *)
LEMMA ReorderFacts ==
  ASSUME NEW s, Good(s), NEW b \in DOMAIN s.books, NEW ids,
         NEW i \in 1 .. Len(SheetsOf(s, b)) + 1, NEW o \in Reorder(s, b, ids, i)
  PROVE  /\ Good(o.s) /\ Keeps(s, o.s, b) /\ Ids(SheetsOf(o.s, b)) = Ids(SheetsOf(s, b))
<1> DEFINE L == SheetsOf(s, b)
           R == Reordered(L, ids, i)
           t == WithSheets(s, b, R)
<1>1. L \in Seq(SheetRecord) /\ Distinct(L) /\ ShownIn(L) # {} /\ s \in Session /\ s.next \in Nat
  BY GoodSheets, SessionFacts DEF Good
<1>2. o = Fails(s) \/ o = Succeeds(t)
  BY DEF Reorder
<1> HIDE DEF L
<1>3. R \in Seq(SheetRecord) /\ Distinct(R) /\ ToSet(R) = ToSet(L)
  BY <1>1, ReorderedFacts DEF L
<1> HIDE DEF R, t
<1>4. Ids(R) = Ids(L)
  BY <1>3 DEF Ids
<1>5. Listed(R)
  BY <1>1, <1>3, ShownFacts DEF Listed
<1>6. Good(t) /\ SheetsOf(t, b) = R /\ Same(s, t, b)
  BY <1>1, <1>3, <1>4, <1>5, WithSheetsGood, WithSheetsFacts DEF L, t
<1>7. Keeps(s, t, b)
  BY <1>1, <1>3, <1>6, SameKeeps DEF L
<1>8. Keeps(s, s, b)
  BY <1>1 DEF Keeps
<1>9. o.s = s \/ o.s = t
  BY <1>2, OutcomeFacts
<1> QED BY <1>4, <1>6, <1>7, <1>8, <1>9 DEF L

LEMMA SelectData ==
  ASSUME NEW s, NEW b, NEW id
  PROVE  Data(Select(s, b, id)) = Data(s)
<1>1. Select(s, b, id).books = s.books
  BY DEF Select
<1> QED BY <1>1 DEF Data, SheetsOf

LEMMA ReorderBlockFacts ==
  ASSUME NEW s, Good(s), NEW b \in DOMAIN s.books, NEW q, OfSheets(q, SheetsOf(s, b)), q # <<>>,
         NEW i \in 1 .. Len(SheetsOf(s, b)) + 1, NEW o \in ReorderBlock(s, b, q, i)
  PROVE  Good(o.s) /\ Data(s) \subseteq Data(o.s)
<1>1. PICK r \in Reorder(s, b, q, i) : o = IF r.ok THEN Succeeds(Select(r.s, b, q[1])) ELSE r
  BY DEF ReorderBlock
<1> DEFINE u == r.s
           id == q[1]
           w == Select(u, b, id)
<1>2. Good(u) /\ Keeps(s, u, b) /\ Ids(SheetsOf(u, b)) = Ids(SheetsOf(s, b))
  BY ReorderFacts
<1>3. id \in Ids(SheetsOf(s, b))
  BY DEF OfSheets
<1>4. o.s = u \/ o.s = w
  BY <1>1, OutcomeFacts
<1> HIDE DEF u, id
<1>5. b \in DOMAIN u.books /\ id \in Ids(SheetsOf(u, b))
  BY <1>2, <1>3 DEF Keeps
<1>6. Good(w) /\ Data(w) = Data(u)
  BY <1>2, <1>5, SelectGood, SelectData
<1>7. Data(s) \subseteq Data(u)
  BY <1>2, KeepsData
<1> QED BY <1>2, <1>4, <1>6, <1>7

LEMMA VisibleFacts ==
  ASSUME NEW s, Good(s), NEW b \in DOMAIN s.books, NEW id \in Ids(SheetsOf(s, b)),
         NEW shown \in BOOLEAN, NEW o \in SetVisible(s, b, id, shown)
  PROVE  Good(o.s) /\ Data(s) \subseteq Data(o.s)
<1> DEFINE L == SheetsOf(s, b)
           x == SheetOf(s, b, id)
           at == At(L, id)
           new == [L[at] EXCEPT !.shown = shown]
           R == [L EXCEPT ![at] = new]
           t == WithSheets(s, b, R)
           first == FirstShown(SheetsOf(t, b))
           w == Select(t, b, first)
           others == ShownIn(Without(L, {id}))
<1>1. L \in Seq(SheetRecord) /\ Distinct(L) /\ ShownIn(L) # {} /\ s \in Session /\ id \in Ids(L)
  BY GoodSheets DEF Good
<1>2. \/ o = Fails(s)
      \/ /\ ~(~shown /\ x.shown /\ others = {})
         /\ o = Succeeds(t) \/ o = Succeeds(w)
  BY DEF SetVisible
<1>3. x = L[at] /\ x \in SheetRecord /\ x.id = id /\ x \in ToSet(L)
  BY SheetOfFacts DEF SheetOf
<1> HIDE DEF x
<1>4. at \in DOMAIN L
  BY <1>1, AtFacts
<1> HIDE DEF at, L
<1>5. new \in SheetRecord /\ new.id = id /\ new.shown = shown /\ new.data = x.data
  BY <1>3 DEF SheetRecord
<1> HIDE DEF new
<1>6. /\ R \in Seq(SheetRecord) /\ Distinct(R) /\ ToSet(R) = (ToSet(L) \ {x}) \cup {new}
      /\ Ids(R) = Ids(L)
  <2>1. new.id = L[at].id
    BY <1>3, <1>5
  <2>2. ToSet([L EXCEPT ![at] = new]) = (ToSet(L) \ {L[at]}) \cup {new}
    BY <1>1, <1>4, <1>5, <2>1, ReplaceFacts
  <2> QED BY <1>1, <1>3, <1>4, <1>5, <2>1, <2>2, ReplaceFacts
<1> HIDE DEF R, t, first, w
<1>7. CASE o = Fails(s)
  BY <1>7, OutcomeFacts
<1>8. CASE ~(~shown /\ x.shown /\ others = {}) /\ (o = Succeeds(t) \/ o = Succeeds(w))
  <2>1. \E y \in ToSet(R) : y.shown
    <3>1. CASE shown
      BY <1>5, <1>6, <3>1
    <3>2. CASE ~shown /\ ~x.shown
      <4>1. PICK y \in ToSet(L) : y.shown
        BY <1>1, ShownFacts
      <4> QED BY <1>6, <3>2, <4>1
    <3>3. CASE others # {}
      <4>1. /\ Without(L, {id}) \in Seq(SheetRecord)
            /\ ToSet(Without(L, {id})) = {y \in ToSet(L) : y.id \notin {id}}
        BY <1>1, WithoutFacts
      <4>2. PICK y \in ToSet(Without(L, {id})) : y.shown
        BY <3>3, <4>1, ShownFacts
      <4> QED BY <1>3, <1>6, <4>1, <4>2
    <3> QED BY <1>8, <3>1, <3>2, <3>3
  <2>2. Listed(R)
    BY <1>6, <2>1, ShownFacts DEF Listed
  <2>3. Good(t) /\ SheetsOf(t, b) = R /\ Same(s, t, b)
    BY <1>1, <1>6, <2>2, WithSheetsGood, WithSheetsFacts DEF L, t
  <2>4. b \in DOMAIN t.books
    BY <2>3 DEF Same
  <2>5. first \in Ids(SheetsOf(t, b))
    BY <2>3, <2>4, GoodSheets DEF first
  <2>6. Good(w) /\ Data(w) = Data(t)
    BY <2>3, <2>4, <2>5, SelectGood, SelectData DEF w
  <2>7. ASSUME NEW d \in Data(s) PROVE d \in Data(t)
    <3>1. PICK c \in DOMAIN s.books : \E y \in ToSet(SheetsOf(s, c)) : d = <<y.data>>
      BY DataFacts
    <3>2. PICK y \in ToSet(SheetsOf(s, c)) : d = <<y.data>>
      BY <3>1
    <3>3. c \in DOMAIN t.books
      BY <2>3 DEF Same
    <3>4. CASE c # b
      <4>1. y \in ToSet(SheetsOf(t, c))
        BY <2>3, <3>4, SameFacts
      <4> QED BY <3>2, <3>3, <4>1, DataFacts
    <3>5. CASE c = b
      <4>1. \E z \in ToSet(SheetsOf(t, b)) : z.data = y.data
        BY <1>5, <1>6, <2>3, <3>5 DEF L
      <4> QED BY <2>4, <3>2, <4>1, DataFacts
    <3> QED BY <3>4, <3>5
  <2>8. o.s = t \/ o.s = w
    BY <1>8, OutcomeFacts
  <2> QED BY <2>3, <2>6, <2>7, <2>8
<1> QED BY <1>2, <1>7, <1>8

LEMMA ActivateFacts ==
  ASSUME NEW s, Good(s), NEW b \in DOMAIN s.books, NEW id \in Ids(SheetsOf(s, b)),
         NEW o \in ActivateWorkbook(s, b) \cup ActivateSheet(s, b, id) \cup SelectRange(s, b, id)
  PROVE  Good(o.s) /\ Data(o.s) = Data(s)
<1> DEFINE first == FirstShown(SheetsOf(s, b))
<1>1. o = Fails(s) \/ o = Succeeds(Select(s, b, first)) \/ o = Succeeds(Select(s, b, id))
  <2>1. DefaultSelection(s, b).sheet = first
    BY DEF DefaultSelection
  <2> HIDE DEF first
  <2> QED BY <2>1 DEF ActivateWorkbook, ActivateSheet, SelectRange
<1>2. first \in Ids(SheetsOf(s, b))
  BY GoodSheets
<1> HIDE DEF first
<1>3. /\ Good(Select(s, b, first)) /\ Data(Select(s, b, first)) = Data(s)
      /\ Good(Select(s, b, id)) /\ Data(Select(s, b, id)) = Data(s)
  BY <1>2, SelectGood, SelectData
<1> QED BY <1>1, <1>3, OutcomeFacts

LEMMA RegisterFacts ==
  ASSUME NEW s, Good(s), NEW b \in DOMAIN s.books, NEW id \in Ids(SheetsOf(s, b)),
         NEW kind \in {"sheet", "range"}
  PROVE  Good(Register(s, kind, b, id)) /\ Data(Register(s, kind, b, id)) = Data(s)
<1> DEFINE h == [kind |-> kind, book |-> b, sheet |-> id, gone |-> FALSE]
           t == Register(s, kind, b, id)
<1>1. b \in Nat /\ id \in Nat /\ s \in Session /\ s.live \subseteq Handle
  BY GoodSheets, ElementFacts, SessionFacts DEF Good
<1>2. h \in Handle /\ ~h.gone /\ h.book = b /\ h.sheet = id
  BY <1>1 DEF Handle
<1>3. t = [s EXCEPT !.live = s.live \cup {h}]
  BY DEF Register
<1> HIDE DEF h, t
<1>4. /\ t \in Session /\ t.books = s.books /\ t.next = s.next /\ t.active = s.active
      /\ t.selection = s.selection /\ t.live = s.live \cup {h}
  BY <1>1, <1>2, <1>3 DEF Session
<1>5. BooksGood(t) /\ FocusGood(t) /\ t.next # 0
  BY <1>4 DEF Good, BooksGood, FocusGood, SheetsOf
<1>6. HandlesGood(t)
  BY <1>2, <1>4 DEF Good, HandlesGood, SheetsOf
<1>7. Data(t) = Data(s)
  BY <1>4 DEF Data, SheetsOf
<1> QED BY <1>4, <1>5, <1>6, <1>7 DEF Good, t

-----------------------------------------------------------------------------
(* Numbering the workbooks from 1 changes nothing else.                    *)
Bounded(s) ==
  /\ DOMAIN s.books = 1 .. s.next - 1 /\ s.next <= MaxBooks + 1
  /\ \A b \in DOMAIN s.books : \A id \in Ids(SheetsOf(s, b)) : id <= MaxId

LEMMA WithinFacts ==
  ASSUME NEW s, Good(s), Within(s), NEW b \in DOMAIN s.books, NEW id \in Ids(SheetsOf(s, b))
  PROVE  id <= MaxId
<1> DEFINE I == Ids(SheetsOf(s, b))
<1>1. I \subseteq Nat /\ IsFiniteSet(I) /\ I # {}
  BY GoodSheets, ElementFacts, IdsAreFinite
<1>2. Max(I) <= MaxId /\ MaxId \in Nat
  BY BoundsAssumption DEF Within
<1> HIDE DEF I
<1>3. \E x \in I : \A y \in I : x >= y
  BY <1>1, Largest
<1> DEFINE m == Max(I)
<1>4. m \in I /\ \A y \in I : m >= y
  BY <1>3 DEF Max
<1>5. id \in I
  BY DEF I
<1>6. m <= MaxId
  BY <1>2
<1> HIDE DEF m
<1>7. m \in Nat /\ id \in Nat /\ m >= id
  BY <1>1, <1>4, <1>5
<1> QED BY <1>2, <1>6, <1>7

LEMMA NumberedFacts ==
  ASSUME NEW s, Good(s), Within(s)
  PROVE  Good(Numbered(s)) /\ Bounded(Numbered(s)) /\ Data(Numbered(s)) = Data(s)
<1> DEFINE D == DOMAIN s.books
           N == Cardinality(D)
           r(b) == Rank(D, b)
           t == Numbered(s)
           renumbered == {[h EXCEPT !.book = r(h.book)] : h \in s.live}
<1>1. /\ s \in Session /\ s.next \in Nat /\ s.live \subseteq Handle /\ s.active \in Nat
      /\ s.selection \in [book : Nat, sheet : Nat] /\ D \subseteq Nat /\ D \subseteq 1 .. s.next - 1
      /\ \A c \in D : s.books[c] \in Book
  BY SessionFacts DEF Good, BooksGood
<1>2. IsFiniteSet(D)
  <2>1. IsFiniteSet(1 .. s.next - 1)
    <3>1. 1 \in Int /\ s.next - 1 \in Int
      BY <1>1
    <3> QED BY <3>1, FS_Interval
  <2>2. D \subseteq 1 .. s.next - 1
    BY <1>1
  <2> HIDE DEF D
  <2> QED BY <2>1, <2>2, FS_Subset
<1>3. N <= MaxBooks
  BY DEF Within
<1>4. /\ t.books = Picked(s.books, D) /\ t.next = N + 1 /\ t.live = renumbered
      /\ t.active = r(s.active) /\ t.selection = [book |-> r(s.selection.book), sheet |-> s.selection.sheet]
      /\ t = [books |-> t.books, next |-> t.next, live |-> t.live, active |-> t.active,
              selection |-> t.selection]
  <2>1. s = [books |-> s.books, next |-> s.next, live |-> s.live, active |-> s.active,
             selection |-> s.selection]
    BY <1>1 DEF Session
  <2>2. s.selection = [book |-> s.selection.book, sheet |-> s.selection.sheet]
    BY <1>1
  <2>3. t = [s EXCEPT !.books = Picked(@, D), !.next = N + 1, !.live = renumbered,
                      !.active = r(s.active), !.selection.book = r(s.selection.book)]
    BY DEF Numbered
  <2> HIDE DEF D, N, t, renumbered, r
  <2> QED BY <2>1, <2>2, <2>3
<1>5. t.books = [k \in 1 .. N |-> s.books[Nth(D, k)]]
  BY <1>4 DEF Picked
<1> HIDE DEF t
<1>6. /\ N \in Nat /\ \A b \in D : r(b) \in 1 .. N /\ Nth(D, r(b)) = b
      /\ \A k \in 1 .. N : Nth(D, k) \in D /\ r(Nth(D, k)) = k
  BY <1>1, <1>2, RankFacts, NthFacts
<1>7. r(0) = 0
  <2>1. {j \in D : j <= 0} = {}
    BY <1>1
  <2> QED BY <2>1, FS_EmptySet DEF Rank
<1>8. D = {} <=> N = 0
  BY <1>2, FS_EmptySet
<1> HIDE DEF D, N, r
<1>9. /\ DOMAIN t.books = 1 .. N
      /\ \A k \in 1 .. N : t.books[k] = s.books[Nth(D, k)]
      /\ \A b \in D : SheetsOf(t, r(b)) = SheetsOf(s, b)
      /\ \A k \in 1 .. N : SheetsOf(t, k) = SheetsOf(s, Nth(D, k))
  BY <1>5, <1>6 DEF SheetsOf
<1>10. t.books \in BookMaps
  <2>1. \A k \in DOMAIN t.books : t.books[k] \in Book
    BY <1>1, <1>6, <1>9
  <2>2. DOMAIN t.books \subseteq Nat
    BY <1>9
  <2>3. t.books = [k \in DOMAIN t.books |-> t.books[k]]
    BY <1>5
  <2> QED BY <2>1, <2>2, <2>3, BookMapFacts
<1>11. \A b \in D : r(b) \in Nat /\ r(b) # 0
  BY <1>6
<1>12. s.active = 0 \/ s.active \in D
  BY DEF Good, FocusGood, None, D
<1>13. r(s.active) \in Nat /\ (r(s.active) = 0 <=> s.active = 0)
  BY <1>7, <1>11, <1>12
<1>14. s.selection.book = s.active
  BY DEF Good, FocusGood
<1>15. ASSUME NEW g \in t.live
       PROVE  g \in Handle /\ ~g.gone /\ g.book \in 1 .. N /\ g.sheet \in Ids(SheetsOf(t, g.book))
  <2>1. PICK h \in s.live : g = [h EXCEPT !.book = r(h.book)]
    BY <1>4, <1>15
  <2>2. h \in Handle /\ ~h.gone /\ h.book \in D /\ h.sheet \in Ids(SheetsOf(s, h.book))
    BY <1>1 DEF Good, HandlesGood, D
  <2>3. g \in Handle /\ g.gone = h.gone /\ g.book = r(h.book) /\ g.sheet = h.sheet
    BY <1>11, <2>1, <2>2 DEF Handle
  <2> QED BY <1>6, <1>9, <2>2, <2>3
<1>16. t \in Session
  <2>1. t.live \subseteq Handle
    BY <1>15
  <2>2. t.selection \in [book : Nat, sheet : Nat] /\ t.active \in Nat /\ t.next \in Nat
    BY <1>1, <1>4, <1>6, <1>13, <1>14
  <2> QED BY <1>4, <1>10, <2>1, <2>2 DEF Session
<1>17. \A b \in D : Listed(SheetsOf(s, b))
  BY GoodSheets DEF D
<1>18. BooksGood(t)
  <2>1. DOMAIN t.books \subseteq 1 .. t.next - 1
    BY <1>4, <1>6, <1>9
  <2>2. \A k \in DOMAIN t.books : Listed(SheetsOf(t, k))
    BY <1>6, <1>9, <1>17
  <2> QED BY <2>1, <2>2 DEF BooksGood
<1>19. FocusGood(t)
  <2>1. s.active = 0 <=> D = {}
    BY DEF Good, FocusGood, None, D
  <2>2. t.active = 0 <=> DOMAIN t.books = {}
    BY <1>4, <1>6, <1>8, <1>9, <1>13, <2>1
  <2>3. t.selection.book = t.active /\ t.selection.sheet = s.selection.sheet
    BY <1>4, <1>14
  <2>4. ASSUME t.active # 0 PROVE t.active \in DOMAIN t.books /\ t.selection.sheet \in Ids(SheetsOf(t, t.active))
    <3>1. s.active # 0 /\ s.active \in D /\ t.active = r(s.active)
      BY <1>4, <1>12, <1>13, <2>4
    <3>2. s.selection.sheet \in Ids(SheetsOf(s, s.active))
      BY <3>1 DEF Good, FocusGood, None
    <3> QED BY <1>6, <1>9, <2>3, <3>1, <3>2
  <2> QED BY <2>2, <2>3, <2>4 DEF FocusGood, None
<1>20. HandlesGood(t)
  BY <1>9, <1>15 DEF HandlesGood
<1>21. Good(t)
  BY <1>4, <1>6, <1>16, <1>18, <1>19, <1>20 DEF Good
<1>22. Bounded(t)
  <2>1. MaxBooks \in Nat
    BY BoundsAssumption
  <2>2. DOMAIN t.books = 1 .. t.next - 1 /\ t.next <= MaxBooks + 1
    BY <1>3, <1>4, <1>6, <1>9, <2>1 DEF N, D
  <2>3. \A b \in D : \A id \in Ids(SheetsOf(s, b)) : id <= MaxId
    BY WithinFacts DEF D
  <2>4. \A k \in DOMAIN t.books : \A id \in Ids(SheetsOf(t, k)) : id <= MaxId
    BY <1>6, <1>9, <2>3
  <2> QED BY <2>2, <2>4 DEF Bounded
<1>23. Data(t) = Data(s)
  <2>1. ASSUME NEW d \in Data(s) PROVE d \in Data(t)
    <3>1. PICK c \in D : \E x \in ToSet(SheetsOf(s, c)) : d = <<x.data>>
      BY DataFacts DEF D
    <3>2. PICK x \in ToSet(SheetsOf(s, c)) : d = <<x.data>>
      BY <3>1
    <3>3. r(c) \in DOMAIN t.books /\ x \in ToSet(SheetsOf(t, r(c)))
      BY <1>6, <1>9
    <3> QED BY <3>2, <3>3, DataFacts
  <2>2. ASSUME NEW d \in Data(t) PROVE d \in Data(s)
    <3>1. PICK k \in DOMAIN t.books : \E x \in ToSet(SheetsOf(t, k)) : d = <<x.data>>
      BY DataFacts
    <3>2. PICK x \in ToSet(SheetsOf(t, k)) : d = <<x.data>>
      BY <3>1
    <3>3. Nth(D, k) \in DOMAIN s.books /\ x \in ToSet(SheetsOf(s, Nth(D, k)))
      BY <1>6, <1>9 DEF D
    <3> QED BY <3>2, <3>3, DataFacts
  <2> QED BY <2>1, <2>2
<1> QED BY <1>21, <1>22, <1>23 DEF t

-----------------------------------------------------------------------------
(* The steps.                                                              *)
Inv == Good(session) /\ Bounded(session)

LEMMA OpenFacts ==
  ASSUME NEW s, Good(s), NEW book \in Book, Listed(book.sheets)
  PROVE  Good(OpenWorkbook(s, book)) /\ Data(s) \subseteq Data(OpenWorkbook(s, book))
<1> DEFINE t == OpenWorkbook(s, book)
<1>1. /\ Good(t) /\ t.next = s.next + 1 /\ DOMAIN t.books = DOMAIN s.books \cup {s.next}
      /\ \A c \in DOMAIN s.books : t.books[c] = s.books[c]
  BY OpenGood
<1>2. s.next \in Nat
  BY SessionFacts DEF Good
<1> HIDE DEF t
<1>3. Adds(s, t)
  BY <1>1, <1>2 DEF Adds
<1>4. Data(s) \subseteq Data(t)
  BY <1>3, AddsKeeps, KeepsData
<1> QED BY <1>1, <1>4 DEF t

LEMMA AddData ==
  ASSUME NEW s, Good(s), NEW b \in DOMAIN s.books, NEW i \in Nat \ {0},
         NEW kind \in Kinds, NEW count \in Nat, NEW o \in AddSheets(s, b, i, kind, count)
  PROVE  o.ok \in BOOLEAN /\ Good(o.s) /\ Data(s) \subseteq Data(o.s) /\ (~o.ok => o.s = s)
<1>1. kind \in {"grid", "chart"}
  BY KindsAssumption
<1>2. /\ o.ok \in BOOLEAN /\ Good(o.s) /\ Same(s, o.s, b) /\ (~o.ok => o.s = s)
      /\ o.ok => Grown(s, o.s, b, count)
  BY <1>1, AddSheetsFacts
<1>3. s.next \in Nat
  BY SessionFacts DEF Good
<1>4. ToSet(SheetsOf(s, b)) \subseteq ToSet(SheetsOf(o.s, b))
  BY <1>2 DEF Grown
<1>5. Data(s) \subseteq Data(o.s)
  BY <1>2, <1>3, <1>4, SameKeeps, KeepsData
<1> QED BY <1>2, <1>5

LEMMA CopySheetData ==
  ASSUME NEW s, Good(s), NEW b \in DOMAIN s.books, NEW id \in Ids(SheetsOf(s, b)),
         NEW target \in DOMAIN s.books, NEW i \in Nat \ {0}, NEW o \in CopySheet(s, b, id, target, i)
  PROVE  Good(o.s) /\ Data(s) \subseteq Data(o.s)
<1>1. /\ o.ok \in BOOLEAN /\ Good(o.s) /\ Extends(s, o.s, target)
      /\ ToSet(SheetsOf(s, target)) \subseteq ToSet(SheetsOf(o.s, target))
      /\ o.ok => Copied(s, o.s, target, SheetOf(s, b, id).data)
  BY CopySheetFacts
<1>2. Data(s) \subseteq Data(o.s)
  BY <1>1, ExtendsKeeps, KeepsData
<1> QED BY <1>1, <1>2

LEMMA SpawnData ==
  ASSUME NEW s, Good(s), NEW b \in DOMAIN s.books, NEW id \in Ids(SheetsOf(s, b)),
         NEW o \in Spawn(s, b, id)
  PROVE  Good(o.s) /\ Data(s) \subseteq Data(o.s)
<1>1. /\ o.ok \in BOOLEAN /\ Good(o.s)
      /\ s.next <= o.s.next /\ \A c \in DOMAIN s.books : c \in DOMAIN o.s.books /\ o.s.books[c] = s.books[c]
      /\ o.ok => /\ s.next \in DOMAIN o.s.books /\ s.next \notin DOMAIN s.books
                 /\ ToSet(SheetsOf(o.s, s.next)) = {SheetOf(s, b, id)}
  BY SpawnFacts
<1>2. Adds(s, o.s)
  BY <1>1 DEF Adds
<1>3. Data(s) \subseteq Data(o.s)
  BY <1>2, AddsKeeps, KeepsData
<1> QED BY <1>1, <1>3

LEMMA CopyCollectionData ==
  ASSUME NEW s, Good(s), NEW b \in DOMAIN s.books, NEW q, OfSheets(q, SheetsOf(s, b)), q # <<>>,
         NEW target \in DOMAIN s.books, NEW i \in Nat \ {0}, NEW o \in CopyCollection(s, b, q, target, i)
  PROVE  Good(o.s) /\ Data(s) \subseteq Data(o.s)
<1>1. PICK r \in CopyBlock(s, b, q, target, i) :
        o = IF r.ok THEN Succeeds(Select(r.s, target, FirstCopy(r.s, target, q))) ELSE r
  BY DEF CopyCollection
<1>2. /\ r.ok \in BOOLEAN /\ Good(r.s) /\ Extends(s, r.s, target) /\ (~r.ok => r.s = s)
      /\ r.ok => Copies(s, r.s, b, q, target, Len(q))
  BY CopyBlockFacts
<1>3. ToSet(SheetsOf(s, target)) \subseteq ToSet(SheetsOf(r.s, target))
  BY <1>2 DEF Copies, Grown
<1>4. Data(s) \subseteq Data(r.s)
  BY <1>2, <1>3, ExtendsKeeps, KeepsData
<1> DEFINE w == Select(r.s, target, FirstCopy(r.s, target, q))
<1>5. Data(o.s) = Data(r.s)
  <2>1. o.s = w \/ o.s = r.s
    BY <1>1, OutcomeFacts
  <2>2. Data(w) = Data(r.s)
    BY SelectData
  <2> HIDE DEF w
  <2> QED BY <2>1, <2>2
<1>6. Good(o.s)
  BY CopyCollectionFacts
<1> QED BY <1>4, <1>5, <1>6

LEMMA CollectionFacts ==
  ASSUME Good(session), NEW b \in Open, NEW kinds
  PROVE  OfSheets(Collection(b, kinds), SheetsOf(session, b))
<1> DEFINE L == SheetsOf(session, b)
           I == {i \in DOMAIN L : L[i].kind \in kinds}
           B == Picked(L, I)
<1>1. L \in Seq(SheetRecord) /\ Distinct(L)
  BY GoodSheets DEF Open
<1>2. Collection(b, kinds) = IdSeq(B)
  BY DEF Collection, BlockOf
<1> HIDE DEF L
<1>3. I \in SUBSET DOMAIN L
  OBVIOUS
<1> HIDE DEF I
<1>4. B \in Seq(SheetRecord) /\ Distinct(B) /\ ToSet(B) = {L[i] : i \in I}
  BY <1>1, <1>3, PickSheets
<1> HIDE DEF B
<1>5. OfSheets(IdSeq(B), B)
  BY <1>4, IdSeqFacts
<1>6. Ids(B) \subseteq Ids(L)
  BY <1>1, <1>3, <1>4, ElementFacts DEF Ids
<1>7. OfSheets(IdSeq(B), L)
  BY <1>5, <1>6 DEF OfSheets
<1> QED BY <1>2, <1>7 DEF L

LEMMA InitInv == Init => Inv
<1> SUFFICES ASSUME Init PROVE Inv
  OBVIOUS
<1> DEFINE f == <<>>
<1>1. /\ session = [books |-> f, next |-> 1, live |-> {}, active |-> 0,
                    selection |-> [book |-> 0, sheet |-> 0]]
      /\ DOMAIN f = {}
  BY DEF Init, NoSelection, None
<1>2. f \in BookMaps
  <2>1. f = [c \in DOMAIN f |-> f[c]]
    OBVIOUS
  <2> HIDE DEF f
  <2> QED BY <1>1, <2>1, BookMapFacts
<1> HIDE DEF f
<1>3. session \in Session
  BY <1>1, <1>2 DEF Session
<1>4. BooksGood(session) /\ FocusGood(session) /\ HandlesGood(session)
  BY <1>1 DEF BooksGood, FocusGood, HandlesGood, None
<1>5. Bounded(session)
  BY <1>1, BoundsAssumption DEF Bounded
<1> QED BY <1>1, <1>3, <1>4, <1>5 DEF Inv, Good

(* One step: the session stays in order, and what it held is there unless   *)
(* something was deleted or closed.                                        *)
LEMMA StepInv ==
  ASSUME Inv, Next
  PROVE  Inv' /\ (Data(session) \subseteq Data(session)' \/ Delete \/ DeleteAll \/ Close)
<1> DEFINE S == session
           Fine(o) == Good(o.s) /\ Within(o.s) /\ session' = Numbered(o.s)
           Kept(o) == Data(S) \subseteq Data(o.s)
<1>1. Good(S)
  BY DEF Inv
<1>2. ASSUME NEW o, Fine(o) PROVE Inv' /\ (Kept(o) => Data(S) \subseteq Data(S)')
  <2> DEFINE t == o.s
  <2>1. Good(t) /\ Within(t) /\ session' = Numbered(t)
    BY <1>2
  <2> HIDE DEF t
  <2>2. Good(session') /\ Bounded(session') /\ Data(session') = Data(t)
    BY <2>1, NumberedFacts
  <2> QED BY <2>2 DEF Inv, t
<1>3. \A b \in Open : b \in DOMAIN S.books
  BY DEF Open
<1>4. \A c \in Open : \A i \in Places(c) : i \in Nat \ {0} /\ i \in 1 .. Len(SheetsOf(S, c)) + 1
  BY DEF Places
<1>5. ASSUME OpenFile \/ Create PROVE \E o : Fine(o) /\ Kept(o)
  <2>1. PICK book \in Book : Listed(book.sheets) /\ Results({Succeeds(OpenWorkbook(S, book))})
    <3>1. CASE Create
      BY <3>1, NewWorkbookFacts DEF Create
    <3>2. CASE OpenFile
      <4>1. PICK sheets \in Files, readOnly \in ReadOnly :
              Results({Succeeds(OpenWorkbook(S, [sheets |-> sheets, readOnly |-> readOnly]))})
        BY <3>2 DEF OpenFile
      <4> DEFINE book == [sheets |-> sheets, readOnly |-> readOnly]
      <4>2. readOnly \in BOOLEAN
        BY KindsAssumption
      <4>3. Listed(sheets)
        BY FilesAssumption DEF Listed, Distinct
      <4>4. book \in Book /\ book.sheets = sheets
        BY <4>2, <4>3 DEF Book, Listed
      <4> HIDE DEF book
      <4>5. Results({Succeeds(OpenWorkbook(S, book))})
        BY <4>1 DEF book
      <4> QED BY <4>3, <4>4, <4>5
    <3> QED BY <1>5, <3>1, <3>2
  <2> DEFINE t == OpenWorkbook(S, book)
             o == Succeeds(t)
  <2>2. Good(t) /\ Data(S) \subseteq Data(t)
    BY <1>1, <2>1, OpenFacts
  <2>3. o.s = t
    BY OutcomeFacts
  <2>4. Within(o.s) /\ session' = Numbered(o.s)
    BY <2>1 DEF Results
  <2> HIDE DEF t, o
  <2> QED BY <2>2, <2>3, <2>4
<1>6. ASSUME Close PROVE \E o : Fine(o)
  <2>1. PICK b \in Open : Results({Succeeds(CloseWorkbook(S, b))})
    BY <1>6 DEF Close
  <2> DEFINE t == CloseWorkbook(S, b)
             o == Succeeds(t)
  <2>2. Good(t)
    BY <1>1, <1>3, CloseGood
  <2>3. o.s = t
    BY OutcomeFacts
  <2>4. Within(o.s) /\ session' = Numbered(o.s)
    BY <2>1 DEF Results
  <2> HIDE DEF t, o
  <2> QED BY <2>2, <2>3, <2>4
<1>7. ASSUME Add PROVE \E o : Fine(o) /\ Kept(o)
  <2>1. PICK b \in Open, kind \in Kinds, count \in 1 .. 2 :
          \E i \in Places(b) : Results(AddSheets(S, b, i, kind, count))
    BY <1>7 DEF Add
  <2>2. PICK i \in Places(b) : Results(AddSheets(S, b, i, kind, count))
    BY <2>1
  <2>3. PICK o \in AddSheets(S, b, i, kind, count) : Within(o.s) /\ session' = Numbered(o.s)
    BY <2>2 DEF Results
  <2>4. Good(o.s) /\ Kept(o)
    <3>1. count \in Nat /\ i \in Nat \ {0} /\ b \in DOMAIN S.books
      BY <1>3, <1>4
    <3> QED BY <1>1, <3>1, AddData
  <2> QED BY <2>3, <2>4
<1>8. ASSUME Delete PROVE \E o : Fine(o)
  <2>1. PICK b \in Open : \E id \in Ids(SheetsOf(S, b)) : Results(DeleteSheet(S, b, id))
    BY <1>8 DEF Delete, Sheet
  <2>2. PICK id \in Ids(SheetsOf(S, b)) : Results(DeleteSheet(S, b, id))
    BY <2>1
  <2>3. PICK o \in DeleteSheet(S, b, id) : Within(o.s) /\ session' = Numbered(o.s)
    BY <2>2 DEF Results
  <2>4. Good(o.s)
    BY <1>1, <1>3, DeleteFacts
  <2> QED BY <2>3, <2>4
<1>9. ASSUME Hide PROVE \E o : Fine(o) /\ Kept(o)
  <2>1. PICK b \in Open : \E id \in Ids(SheetsOf(S, b)) : \E shown \in BOOLEAN :
          Results(SetVisible(S, b, id, shown))
    BY <1>9 DEF Hide, Sheet
  <2>2. PICK id \in Ids(SheetsOf(S, b)), shown \in BOOLEAN : Results(SetVisible(S, b, id, shown))
    BY <2>1
  <2>3. PICK o \in SetVisible(S, b, id, shown) : Within(o.s) /\ session' = Numbered(o.s)
    BY <2>2 DEF Results
  <2>4. Good(o.s) /\ Kept(o)
    BY <1>1, <1>3, VisibleFacts
  <2> QED BY <2>3, <2>4
<1>10. ASSUME Activate \/ PickRange PROVE \E o : Fine(o) /\ Kept(o)
  <2>1. PICK b \in Open : \/ Results(ActivateWorkbook(S, b))
                          \/ \E id \in Ids(SheetsOf(S, b)) : \/ Results(ActivateSheet(S, b, id))
                                                             \/ Results(SelectRange(S, b, id))
    BY <1>10 DEF Activate, PickRange, Sheet
  <2>2. b \in DOMAIN S.books /\ FirstShown(SheetsOf(S, b)) \in Ids(SheetsOf(S, b))
    BY <1>1, <1>3, GoodSheets
  <2>3. PICK id \in Ids(SheetsOf(S, b)) :
          \/ Results(ActivateWorkbook(S, b)) \/ Results(ActivateSheet(S, b, id)) \/ Results(SelectRange(S, b, id))
    BY <2>1, <2>2
  <2>4. PICK o \in ActivateWorkbook(S, b) \cup ActivateSheet(S, b, id) \cup SelectRange(S, b, id) :
          Within(o.s) /\ session' = Numbered(o.s)
    BY <2>3 DEF Results
  <2>5. Good(o.s) /\ Data(o.s) = Data(S)
    BY <1>1, <2>2, ActivateFacts
  <2> QED BY <2>4, <2>5
<1>11. ASSUME Copy PROVE \E o : Fine(o) /\ Kept(o)
  <2>1. PICK b \in Open : \E id \in Ids(SheetsOf(S, b)) :
          \/ Results(Spawn(S, b, id))
          \/ \E c \in Open : \E i \in Places(c) : Results(CopySheet(S, b, id, c, i))
    BY <1>11 DEF Copy, Sheet
  <2>2. PICK id \in Ids(SheetsOf(S, b)) :
          \/ Results(Spawn(S, b, id))
          \/ \E c \in Open : \E i \in Places(c) : Results(CopySheet(S, b, id, c, i))
    BY <2>1
  <2>3. CASE Results(Spawn(S, b, id))
    <3>1. PICK o \in Spawn(S, b, id) : Within(o.s) /\ session' = Numbered(o.s)
      BY <2>3 DEF Results
    <3>2. Good(o.s) /\ Kept(o)
      BY <1>1, <1>3, SpawnData
    <3> QED BY <3>1, <3>2
  <2>4. ASSUME NEW c \in Open, NEW i \in Places(c), Results(CopySheet(S, b, id, c, i))
        PROVE  \E o : Fine(o) /\ Kept(o)
    <3>1. PICK o \in CopySheet(S, b, id, c, i) : Within(o.s) /\ session' = Numbered(o.s)
      BY <2>4 DEF Results
    <3>2. Good(o.s) /\ Kept(o)
      BY <1>1, <1>3, <1>4, CopySheetData
    <3> QED BY <3>1, <3>2
  <2> QED BY <2>2, <2>3, <2>4
<1>12. ASSUME Move PROVE \E o : Fine(o) /\ Kept(o)
  <2>1. PICK b \in Open : \E id \in Ids(SheetsOf(S, b)) :
          \/ Results(MoveSheetOut(S, b, id))
          \/ \E c \in Open : \E i \in Places(c) :
               Results(IF c = b THEN Reorder(S, b, <<id>>, i) ELSE MoveSheet(S, b, id, c, i))
    BY <1>12 DEF Move, Sheet
  <2>2. PICK id \in Ids(SheetsOf(S, b)) :
          \/ Results(MoveSheetOut(S, b, id))
          \/ \E c \in Open : \E i \in Places(c) :
               Results(IF c = b THEN Reorder(S, b, <<id>>, i) ELSE MoveSheet(S, b, id, c, i))
    BY <2>1
  <2>3. CASE Results(MoveSheetOut(S, b, id))
    <3>1. PICK o \in MoveSheetOut(S, b, id) : Within(o.s) /\ session' = Numbered(o.s)
      BY <2>3 DEF Results
    <3>2. Good(o.s) /\ Kept(o)
      BY <1>1, <1>3, MoveSheetOutFacts
    <3> QED BY <3>1, <3>2
  <2>4. ASSUME NEW c \in Open, NEW i \in Places(c),
               Results(IF c = b THEN Reorder(S, b, <<id>>, i) ELSE MoveSheet(S, b, id, c, i))
        PROVE  \E o : Fine(o) /\ Kept(o)
    <3>1. CASE c = b
      <4>1. PICK o \in Reorder(S, b, <<id>>, i) : Within(o.s) /\ session' = Numbered(o.s)
        BY <2>4, <3>1 DEF Results
      <4> DEFINE q == <<id>>
      <4>2. o \in Reorder(S, b, q, i) /\ i \in 1 .. Len(SheetsOf(S, b)) + 1 /\ b \in DOMAIN S.books
        BY <1>3, <1>4, <3>1
      <4> HIDE DEF q
      <4>3. Good(o.s) /\ Keeps(S, o.s, b)
        BY <1>1, <4>2, ReorderFacts
      <4> QED BY <4>1, <4>3, KeepsData
    <3>2. CASE c # b
      <4>1. PICK o \in MoveSheet(S, b, id, c, i) : Within(o.s) /\ session' = Numbered(o.s)
        BY <2>4, <3>2 DEF Results
      <4>2. Good(o.s) /\ Kept(o)
        BY <1>1, <1>3, <1>4, <3>2, MoveSheetFacts
      <4> QED BY <4>1, <4>2
    <3> QED BY <3>1, <3>2
  <2> QED BY <2>2, <2>3, <2>4
<1>13. ASSUME DeleteAll PROVE \E o : Fine(o)
  <2>1. PICK b \in Open, kinds \in Collections : Results(DeleteBlock(S, b, Collection(b, kinds)))
    BY <1>13 DEF DeleteAll, Block
  <2> DEFINE q == Collection(b, kinds)
  <2>2. PICK o \in DeleteBlock(S, b, q) : Within(o.s) /\ session' = Numbered(o.s)
    BY <2>1 DEF Results
  <2>3. OfSheets(q, SheetsOf(S, b))
    BY <1>1, CollectionFacts
  <2> HIDE DEF q
  <2>4. Good(o.s)
    BY <1>1, <1>3, <2>3, DeleteBlockFacts
  <2> QED BY <2>2, <2>4
<1>14. ASSUME CopyAll PROVE \E o : Fine(o) /\ Kept(o)
  <2>1. PICK b \in Open, kinds \in Collections :
          /\ Collection(b, kinds) # <<>>
          /\ \/ Results(CopyCollectionOut(S, b, Collection(b, kinds)))
             \/ \E c \in Open : \E i \in Places(c) : Results(CopyCollection(S, b, Collection(b, kinds), c, i))
    BY <1>14 DEF CopyAll, Block
  <2> DEFINE q == Collection(b, kinds)
  <2>2. OfSheets(q, SheetsOf(S, b)) /\ q # <<>>
    BY <1>1, <2>1, CollectionFacts
  <2>3. \/ Results(CopyCollectionOut(S, b, q))
        \/ \E c \in Open : \E i \in Places(c) : Results(CopyCollection(S, b, q, c, i))
    BY <2>1
  <2> HIDE DEF q
  <2>4. CASE Results(CopyCollectionOut(S, b, q))
    <3>1. PICK o \in CopyCollectionOut(S, b, q) : Within(o.s) /\ session' = Numbered(o.s)
      BY <2>4 DEF Results
    <3>2. Good(o.s) /\ Adds(S, o.s)
      BY <1>1, <1>3, <2>2, CopyOutFacts
    <3>3. Data(S) \subseteq Data(o.s)
      BY <3>2, AddsKeeps, KeepsData
    <3> QED BY <3>1, <3>2, <3>3
  <2>5. ASSUME NEW c \in Open, NEW i \in Places(c), Results(CopyCollection(S, b, q, c, i))
        PROVE  \E o : Fine(o) /\ Kept(o)
    <3>1. PICK o \in CopyCollection(S, b, q, c, i) : Within(o.s) /\ session' = Numbered(o.s)
      BY <2>5 DEF Results
    <3>2. Good(o.s) /\ Kept(o)
      BY <1>1, <1>3, <1>4, <2>2, CopyCollectionData
    <3> QED BY <3>1, <3>2
  <2> QED BY <2>3, <2>4, <2>5
<1>15. ASSUME MoveAll PROVE \E o : Fine(o) /\ Kept(o)
  <2>1. PICK b \in Open, kinds \in Collections :
          /\ Collection(b, kinds) # <<>>
          /\ \/ Results(MoveBlockOut(S, b, Collection(b, kinds)))
             \/ \E c \in Open : \E i \in Places(c) :
                  Results(IF c = b THEN ReorderBlock(S, b, Collection(b, kinds), i)
                          ELSE MoveBlock(S, b, Collection(b, kinds), c, i))
    BY <1>15 DEF MoveAll, Block
  <2> DEFINE q == Collection(b, kinds)
  <2>2. OfSheets(q, SheetsOf(S, b)) /\ q # <<>>
    BY <1>1, <2>1, CollectionFacts
  <2>3. \/ Results(MoveBlockOut(S, b, q))
        \/ \E c \in Open : \E i \in Places(c) :
             Results(IF c = b THEN ReorderBlock(S, b, q, i) ELSE MoveBlock(S, b, q, c, i))
    BY <2>1
  <2> HIDE DEF q
  <2>4. CASE Results(MoveBlockOut(S, b, q))
    <3>1. PICK o \in MoveBlockOut(S, b, q) : Within(o.s) /\ session' = Numbered(o.s)
      BY <2>4 DEF Results
    <3>2. Good(o.s) /\ Kept(o)
      BY <1>1, <1>3, <2>2, MoveBlockOutFacts
    <3> QED BY <3>1, <3>2
  <2>5. ASSUME NEW c \in Open, NEW i \in Places(c),
               Results(IF c = b THEN ReorderBlock(S, b, q, i) ELSE MoveBlock(S, b, q, c, i))
        PROVE  \E o : Fine(o) /\ Kept(o)
    <3>1. CASE c = b
      <4>1. PICK o \in ReorderBlock(S, b, q, i) : Within(o.s) /\ session' = Numbered(o.s)
        BY <2>5, <3>1 DEF Results
      <4>2. i \in 1 .. Len(SheetsOf(S, b)) + 1
        BY <1>4, <3>1
      <4>3. Good(o.s) /\ Kept(o)
        BY <1>1, <1>3, <2>2, <4>2, ReorderBlockFacts
      <4> QED BY <4>1, <4>3
    <3>2. CASE c # b
      <4>1. PICK o \in MoveBlock(S, b, q, c, i) : Within(o.s) /\ session' = Numbered(o.s)
        BY <2>5, <3>2 DEF Results
      <4>2. Good(o.s) /\ Kept(o)
        BY <1>1, <1>3, <1>4, <2>2, <3>2, MoveBlockFacts
      <4> QED BY <4>1, <4>2
    <3> QED BY <3>1, <3>2
  <2> QED BY <2>3, <2>4, <2>5
<1>16. ASSUME Item PROVE \E o : Fine(o) /\ Kept(o)
  <2>1. PICK b \in Open : \E id \in Ids(SheetsOf(S, b)) : \E kind \in {"sheet", "range"} :
          Results({Succeeds(Register(S, kind, b, id))})
    BY <1>16 DEF Item, Sheet
  <2>2. PICK id \in Ids(SheetsOf(S, b)), kind \in {"sheet", "range"} :
          Results({Succeeds(Register(S, kind, b, id))})
    BY <2>1
  <2> DEFINE t == Register(S, kind, b, id)
             o == Succeeds(t)
  <2>3. Good(t) /\ Data(t) = Data(S)
    BY <1>1, <1>3, RegisterFacts
  <2>4. o.s = t
    BY OutcomeFacts
  <2>5. Within(o.s) /\ session' = Numbered(o.s)
    BY <2>2 DEF Results
  <2> HIDE DEF t, o
  <2> QED BY <2>3, <2>4, <2>5
<1> HIDE DEF Fine, Kept
<1> QED BY <1>2, <1>5, <1>6, <1>7, <1>8, <1>9, <1>10, <1>11, <1>12, <1>13, <1>14, <1>15, <1>16 DEF Next

(* A session stays in order.                                               *)
THEOREM InvHolds == Spec => []Inv
<1>1. Inv /\ UNCHANGED session => Inv'
  BY DEF Inv
<1>2. Inv /\ [Next]_session => Inv'
  BY <1>1, StepInv
<1> QED BY InitInv, <1>2, PTL DEF Spec

(* Every workbook keeps an id of its own for each sheet, of a positive      *)
(* number, and the handles and the counters their types.                   *)
THEOREM TypesHold == Spec => []TypeOK
<1>1. Inv => TypeOK
  <2> SUFFICES ASSUME Inv PROVE TypeOK
    OBVIOUS
  <2> DEFINE S == session
  <2>1. Good(S) /\ Bounded(S) /\ MaxId \in Nat
    BY BoundsAssumption DEF Inv
  <2>2. Open = 1 .. S.next - 1 /\ S.next <= MaxBooks + 1
    BY <2>1 DEF Bounded, Open
  <2>3. ASSUME NEW b \in Open
        PROVE  /\ ToSet(SheetsOf(S, b)) \subseteq
                    [id : 1 .. MaxId, kind : {"grid", "chart"}, shown : BOOLEAN, data : Nat]
               /\ Cardinality(Ids(SheetsOf(S, b))) = Len(SheetsOf(S, b))
    <3> DEFINE L == SheetsOf(S, b)
    <3>1. b \in DOMAIN S.books
      BY DEF Open
    <3>2. L \in Seq(SheetRecord) /\ Distinct(L) /\ \A id \in Ids(L) : id <= MaxId
      BY <2>1, <3>1, GoodSheets DEF Bounded
    <3> HIDE DEF L
    <3>3. Cardinality(Ids(L)) = Len(L)
      BY <3>2, DistinctCount
    <3>4. ASSUME NEW x \in ToSet(L)
          PROVE  x \in [id : 1 .. MaxId, kind : {"grid", "chart"}, shown : BOOLEAN, data : Nat]
      <4>1. x \in SheetRecord /\ x.id \in Ids(L) /\ x.id \in Nat /\ x.id >= 1 /\ x.id <= MaxId
        BY <3>2, ElementFacts
      <4> QED BY <2>1, <4>1 DEF SheetRecord
    <3> QED BY <3>3, <3>4 DEF L
  <2>4. ASSUME NEW h \in S.live
        PROVE  h \in [kind : {"sheet", "range"}, book : Nat, sheet : 1 .. MaxId, gone : BOOLEAN]
    <3>1. h \in Handle /\ h.book \in DOMAIN S.books /\ h.sheet \in Ids(SheetsOf(S, h.book))
      BY <2>1, SessionFacts DEF Good, HandlesGood
    <3>2. h.sheet \in 1 .. MaxId
      <4>1. h.sheet \in Nat /\ h.sheet >= 1
        BY <2>1, <3>1, GoodSheets, ElementFacts
      <4>2. h.sheet <= MaxId
        BY <2>1, <3>1 DEF Bounded
      <4> QED BY <2>1, <4>1, <4>2
    <3> QED BY <3>1, <3>2 DEF Handle
  <2> QED BY <2>2, <2>3, <2>4 DEF TypeOK
<1> QED BY InvHolds, <1>1, PTL

(* There is always something to see.                                       *)
THEOREM SomethingStaysShown == Spec => []SomethingIsShown
<1>1. Inv => SomethingIsShown
  <2> SUFFICES ASSUME Inv PROVE SomethingIsShown
    OBVIOUS
  <2>1. Good(session)
    BY DEF Inv
  <2>2. \A b \in Open : ShownIn(SheetsOf(session, b)) # {}
    BY <2>1, GoodSheets DEF Open
  <2>3. FocusGood(session)
    BY <2>1 DEF Good
  <2> QED BY <2>2, <2>3 DEF FocusGood, SomethingIsShown, Open
<1> QED BY InvHolds, <1>1, PTL

(* A handle denotes the sheet it was made for or is stale.                 *)
THEOREM HandlesKeepTheirSheets == Spec => []HandlesDenoteTheirSheets
<1>1. Inv => HandlesDenoteTheirSheets
  BY DEF Inv, Good, HandlesGood, HandlesDenoteTheirSheets, Open
<1> QED BY InvHolds, <1>1, PTL

(* What fails, at whatever of its steps, is undone.                        *)
THEOREM FailuresAreUndone == Spec => []FailuresChangeNothing
<1>1. Inv => FailuresChangeNothing
  <2> SUFFICES ASSUME Inv, NEW b \in Open
               PROVE  /\ \A kind \in Kinds : Whole(AddSheets(session, b, 1, kind, 2))
                      /\ \A id \in Ids(SheetsOf(session, b)) : Whole(DeleteSheet(session, b, id))
                      /\ \A kinds \in Collections : LET ids == Collection(b, kinds) IN
                           ids # <<>> =>
                             /\ Whole(DeleteBlock(session, b, ids))
                             /\ Whole(CopyCollectionOut(session, b, ids))
                             /\ \A c \in Open : Whole(CopyCollection(session, b, ids, c, 1))
    BY DEF FailuresChangeNothing
  <2>1. Good(session) /\ b \in DOMAIN session.books /\ 1 \in Nat \ {0} /\ 2 \in Nat
    BY DEF Inv, Open
  <2>2. ASSUME NEW kind \in Kinds PROVE Whole(AddSheets(session, b, 1, kind, 2))
    <3>1. \A o \in AddSheets(session, b, 1, kind, 2) : ~o.ok => o.s = session
      BY <2>1, AddData
    <3> QED BY <3>1 DEF Whole
  <2>3. ASSUME NEW id \in Ids(SheetsOf(session, b)) PROVE Whole(DeleteSheet(session, b, id))
    <3>1. ASSUME NEW o \in DeleteSheet(session, b, id) PROVE ~o.ok => o.s = session
      <4>1. /\ o.ok \in BOOLEAN /\ Good(o.s) /\ (~o.ok => o.s = session)
            /\ o.ok => /\ Same(session, o.s, b)
                       /\ SheetsOf(o.s, b) = Without(SheetsOf(session, b), {id})
        BY <2>1, DeleteFacts
      <4> QED BY <4>1
    <3> QED BY <3>1 DEF Whole
  <2>4. ASSUME NEW kinds \in Collections, NEW q, q = Collection(b, kinds), q # <<>>
        PROVE  /\ Whole(DeleteBlock(session, b, q))
               /\ Whole(CopyCollectionOut(session, b, q))
               /\ \A c \in Open : Whole(CopyCollection(session, b, q, c, 1))
    <3>1. OfSheets(q, SheetsOf(session, b))
      BY <2>1, <2>4, CollectionFacts
    <3>2. \A o \in DeleteBlock(session, b, q) : ~o.ok => o.s = session
      BY <2>1, <3>1, DeleteBlockFacts
    <3>3. \A o \in CopyCollectionOut(session, b, q) : ~o.ok => o.s = session
      BY <2>1, <2>4, <3>1, CopyOutFacts
    <3>4. ASSUME NEW c \in Open PROVE \A o \in CopyCollection(session, b, q, c, 1) : ~o.ok => o.s = session
      <4>1. c \in DOMAIN session.books
        BY DEF Open
      <4> QED BY <2>1, <2>4, <3>1, <4>1, CopyCollectionFacts
    <3> QED BY <3>2, <3>3, <3>4 DEF Whole
  <2> QED BY <2>2, <2>3, <2>4
<1> QED BY InvHolds, <1>1, PTL

(* Only deleting and closing lose what is on a sheet.                      *)
THEOREM NothingElseLosesData == Spec => OnlyDeletingLosesData
<1>1. Inv /\ [Next]_session => [Data(session) \subseteq Data(session)' \/ Delete \/ DeleteAll \/ Close]_session
  BY StepInv
<1> QED BY InvHolds, <1>1, PTL DEF Spec, OnlyDeletingLosesData

=============================================================================
