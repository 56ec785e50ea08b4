----------------------------- MODULE ListFacts -----------------------------
(***************************************************************************)
(* Facts about sequences and natural numbers that the proofs of several    *)
(* components rest on.                                                     *)
(***************************************************************************)
EXTENDS Picking, Integers, FiniteSetTheorems, SequenceTheorems, WellFoundedInduction, TLAPS

-----------------------------------------------------------------------------
(* Parts of a sequence, a sequence with one more element and one with one   *)
(* less.                                                                    *)
With(s, i, e) == SubSeq(s, 1, i - 1) \o <<e>> \o SubSeq(s, i, Len(s))
Less(s, i) == SubSeq(s, 1, i - 1) \o SubSeq(s, i + 1, Len(s))

LEMMA PartFacts ==
  ASSUME NEW S, NEW s \in Seq(S), NEW a \in Nat \ {0}, NEW b \in Int, b <= Len(s)
  PROVE  /\ SubSeq(s, a, b) \in Seq(S)
         /\ Len(SubSeq(s, a, b)) = IF a <= b THEN b - a + 1 ELSE 0
         /\ \A k \in 1 .. b - a + 1 : SubSeq(s, a, b)[k] = s[a + k - 1]
<1>1. \A i \in a .. b : s[i] \in S
  OBVIOUS
<1> QED BY <1>1, SubSeqProperties

LEMMA FunctionIsList ==
  ASSUME NEW S, NEW n \in Nat, NEW f \in [1 .. n -> S]
  PROVE  f \in Seq(S) /\ Len(f) = n
OBVIOUS

LEMMA InsertFacts ==
  ASSUME NEW S, NEW s \in Seq(S), NEW i \in 1 .. Len(s) + 1, NEW e \in S
  PROVE  /\ With(s, i, e) \in Seq(S) /\ Len(With(s, i, e)) = Len(s) + 1
         /\ \A k \in 1 .. i - 1 : With(s, i, e)[k] = s[k]
         /\ With(s, i, e)[i] = e
         /\ \A k \in i .. Len(s) : With(s, i, e)[k + 1] = s[k]
<1> DEFINE a == SubSeq(s, 1, i - 1)
           b == SubSeq(s, i, Len(s))
           one == <<e>>
<1>0. Len(s) \in Nat /\ i \in Nat \ {0} /\ i - 1 \in Int /\ i - 1 <= Len(s) /\ 1 \in Nat \ {0}
  OBVIOUS
<1>1. /\ a \in Seq(S) /\ Len(a) = i - 1
      /\ \A k \in 1 .. i - 1 : a[k] = s[k]
  <2>1. /\ a \in Seq(S) /\ Len(a) = IF 1 <= i - 1 THEN (i - 1) - 1 + 1 ELSE 0
        /\ \A k \in 1 .. (i - 1) - 1 + 1 : a[k] = s[1 + k - 1]
    BY <1>0, PartFacts
  <2> QED BY <1>0, <2>1
<1>2. /\ b \in Seq(S) /\ Len(b) = Len(s) + 1 - i
      /\ \A k \in 1 .. Len(s) + 1 - i : b[k] = s[i + k - 1]
  <2>1. /\ b \in Seq(S) /\ Len(b) = IF i <= Len(s) THEN Len(s) - i + 1 ELSE 0
        /\ \A k \in 1 .. Len(s) - i + 1 : b[k] = s[i + k - 1]
    BY <1>0, PartFacts
  <2> QED BY <1>0, <2>1
<1>3. one \in Seq(S) /\ Len(one) = 1 /\ one[1] = e
  OBVIOUS
<1> HIDE DEF a, b, one
<1>4. /\ a \o one \in Seq(S) /\ Len(a \o one) = i
      /\ \A k \in 1 .. i - 1 : (a \o one)[k] = s[k]
      /\ (a \o one)[i] = e
  <2>1. /\ a \o one \in Seq(S) /\ Len(a \o one) = Len(a) + Len(one)
        /\ \A k \in 1 .. Len(a) + Len(one) : (a \o one)[k] = IF k <= Len(a) THEN a[k] ELSE one[k - Len(a)]
    BY <1>1, <1>3, ConcatProperties
  <2>2. Len(a \o one) = i /\ \A k \in 1 .. i - 1 : (a \o one)[k] = s[k]
    BY <1>0, <1>1, <1>3, <2>1
  <2>3. (a \o one)[i] = one[1]
    <3>1. i \in 1 .. Len(a) + Len(one) /\ ~(i <= Len(a)) /\ i - Len(a) = 1
      BY <1>0, <1>1, <1>3
    <3> QED BY <2>1, <3>1
  <2>4. a \o one \in Seq(S)
    BY <2>1
  <2> QED BY <1>3, <2>2, <2>3, <2>4
<1> DEFINE c == a \o one
<1> HIDE DEF c
<1>5. /\ c \o b \in Seq(S) /\ Len(c \o b) = Len(c) + Len(b)
      /\ \A k \in 1 .. Len(c) + Len(b) : (c \o b)[k] = IF k <= Len(c) THEN c[k] ELSE b[k - Len(c)]
  <2>1. c \in Seq(S)
    BY <1>4 DEF c
  <2> QED BY <1>2, <2>1, ConcatProperties
<1>6. Len(c) = i /\ \A k \in 1 .. i - 1 : c[k] = s[k]
  BY <1>4 DEF c
<1>7. c[i] = e
  BY <1>4 DEF c
<1>8. Len(c \o b) = Len(s) + 1 /\ \A k \in 1 .. i - 1 : (c \o b)[k] = s[k]
  BY <1>0, <1>2, <1>5, <1>6
<1>9. (c \o b)[i] = e
  BY <1>0, <1>2, <1>5, <1>6, <1>7
<1>10. \A k \in i .. Len(s) : (c \o b)[k + 1] = s[k]
  <2> TAKE k \in i .. Len(s)
  <2>1. k + 1 \in 1 .. Len(c) + Len(b) /\ ~(k + 1 <= Len(c))
    BY <1>0, <1>2, <1>6
  <2>2. (c \o b)[k + 1] = b[k + 1 - i]
    BY <1>5, <1>6, <2>1
  <2>3. b[k + 1 - i] = s[i + (k + 1 - i) - 1]
    BY <1>0, <1>2
  <2> QED BY <1>0, <2>2, <2>3
<1>11. With(s, i, e) = c \o b
  BY DEF With, a, b, c, one
<1> QED BY <1>5, <1>8, <1>9, <1>10, <1>11

LEMMA RemoveFacts ==
  ASSUME NEW S, NEW s \in Seq(S), NEW i \in 1 .. Len(s)
  PROVE  /\ Less(s, i) \in Seq(S) /\ Len(Less(s, i)) = Len(s) - 1
         /\ \A k \in 1 .. i - 1 : Less(s, i)[k] = s[k]
         /\ \A k \in i + 1 .. Len(s) : Less(s, i)[k - 1] = s[k]
<1> DEFINE a == SubSeq(s, 1, i - 1)
           b == SubSeq(s, i + 1, Len(s))
<1>0. /\ Len(s) \in Nat /\ i \in Nat \ {0} /\ i - 1 \in Int /\ i - 1 <= Len(s) /\ 1 \in Nat \ {0}
      /\ i + 1 \in Nat \ {0} /\ i <= Len(s)
  OBVIOUS
<1>1. /\ a \in Seq(S) /\ Len(a) = i - 1
      /\ \A k \in 1 .. i - 1 : a[k] = s[k]
  <2>1. /\ a \in Seq(S) /\ Len(a) = IF 1 <= i - 1 THEN (i - 1) - 1 + 1 ELSE 0
        /\ \A k \in 1 .. (i - 1) - 1 + 1 : a[k] = s[1 + k - 1]
    BY <1>0, PartFacts
  <2> QED BY <1>0, <2>1
<1>2. /\ b \in Seq(S) /\ Len(b) = Len(s) - i
      /\ \A k \in 1 .. Len(s) - i : b[k] = s[i + k]
  <2>1. /\ b \in Seq(S) /\ Len(b) = IF i + 1 <= Len(s) THEN Len(s) - (i + 1) + 1 ELSE 0
        /\ \A k \in 1 .. Len(s) - (i + 1) + 1 : b[k] = s[i + 1 + k - 1]
    BY <1>0, PartFacts
  <2> QED BY <1>0, <2>1
<1> HIDE DEF a, b
<1>3. /\ a \o b \in Seq(S) /\ Len(a \o b) = Len(a) + Len(b)
      /\ \A k \in 1 .. Len(a) + Len(b) : (a \o b)[k] = IF k <= Len(a) THEN a[k] ELSE b[k - Len(a)]
  BY <1>1, <1>2, ConcatProperties
<1>4. Len(a \o b) = Len(s) - 1 /\ \A k \in 1 .. i - 1 : (a \o b)[k] = s[k]
  BY <1>0, <1>1, <1>2, <1>3
<1>5. \A k \in i + 1 .. Len(s) : (a \o b)[k - 1] = s[k]
  <2> TAKE k \in i + 1 .. Len(s)
  <2>1. k - 1 \in 1 .. Len(a) + Len(b) /\ ~(k - 1 <= Len(a))
    BY <1>0, <1>1, <1>2
  <2>2. (a \o b)[k - 1] = b[k - 1 - (i - 1)]
    BY <1>1, <1>3, <2>1
  <2>3. k - 1 - (i - 1) = k - i /\ k - i \in 1 .. Len(s) - i
    BY <1>0
  <2>4. b[k - i] = s[i + (k - i)] /\ i + (k - i) = k
    BY <1>0, <1>2, <2>3
  <2> QED BY <2>2, <2>3, <2>4
<1>6. Less(s, i) = a \o b
  BY DEF Less, a, b
<1> QED BY <1>3, <1>4, <1>5, <1>6

-----------------------------------------------------------------------------
(* Induction, in the form of sets: a set of finite sets has a smallest     *)
(* one, a set of natural numbers a least one, and what has zero and every  *)
(* successor has all of them.                                              *)
LEMMA FinMin ==
  ASSUME NEW S, NEW T, T \subseteq FiniteSubsetsOf(S), T # {}
  PROVE \E x \in T : \A y \in T : ~(y \subseteq x /\ y # x)
<1>1. IsWellFoundedOn(StrictSubsetOrdering(S), FiniteSubsetsOf(S))
  BY FS_StrictSubsetOrderingWellFounded
<1>2. \E x \in T : \A y \in T : ~ (<<y, x>> \in StrictSubsetOrdering(S))
  BY <1>1, WFMin
<1> QED BY <1>2 DEF StrictSubsetOrdering, FiniteSubsetsOf

LEMMA Smallest ==
  ASSUME NEW T, T \subseteq Nat, T # {}
  PROVE \E x \in T : \A y \in T : x <= y
<1> DEFINE U == {0 .. x : x \in T}
<1>0. \A x \in T : x \in Nat
  OBVIOUS
<1>1. U \subseteq FiniteSubsetsOf(Nat)
  <2> SUFFICES ASSUME NEW x \in T PROVE 0 .. x \in FiniteSubsetsOf(Nat)
    OBVIOUS
  <2>1. IsFiniteSet(0 .. x)
    BY FS_Interval, <1>0
  <2>2. 0 .. x \subseteq Nat
    BY <1>0
  <2> QED BY <2>1, <2>2 DEF FiniteSubsetsOf
<1>2. U # {}
  OBVIOUS
<1> DEFINE V == U
<1> HIDE DEF V
<1>3. PICK u \in V : \A y \in V : ~(y \subseteq u /\ y # u)
  <2>1. V \subseteq FiniteSubsetsOf(Nat) /\ V # {}
    BY <1>1, <1>2 DEF V
  <2> QED BY <2>1, FinMin
<1>4. PICK x \in T : u = 0 .. x
  BY DEF V
<1>5. ASSUME NEW y \in T, y < x PROVE FALSE
  <2>1. 0 .. y \in V
    BY DEF V
  <2>2. 0 .. y \subseteq 0 .. x /\ 0 .. y # 0 .. x
    <3>1. x \in 0 .. x /\ x \notin 0 .. y
      BY <1>5, <1>0
    <3> QED BY <1>5, <1>0, <3>1
  <2> QED BY <2>1, <2>2, <1>3, <1>4
<1> QED BY <1>5, <1>0

LEMMA NatInduct ==
  ASSUME NEW G, 0 \in G, \A n \in Nat : n \in G => n + 1 \in G
  PROVE  \A n \in Nat : n \in G
<1> SUFFICES ASSUME NEW n \in Nat, n \notin G PROVE FALSE
  OBVIOUS
<1> DEFINE T == {k \in Nat : k \notin G}
<1>1. PICK x \in T : \A y \in T : x <= y
  <2>1. T \subseteq Nat /\ T # {}
    OBVIOUS
  <2> HIDE DEF T
  <2> QED BY <2>1, Smallest
<1>2. x \in Nat /\ x \notin G /\ x # 0
  OBVIOUS
<1>3. x - 1 \in Nat /\ x - 1 < x
  BY <1>2
<1>4. x - 1 \in G
  BY <1>1, <1>3
<1> QED BY <1>2, <1>3, <1>4

(* A finite set of numbers has a largest one.                              *)
LEMMA Largest ==
  ASSUME NEW T, T \subseteq Nat, IsFiniteSet(T), T # {}
  PROVE \E x \in T : \A y \in T : x >= y
<1> DEFINE U == {{y \in T : y > x} : x \in T}
<1>0. \A y \in T : y \in Nat
  OBVIOUS
<1>1. U \subseteq FiniteSubsetsOf(T)
  <2> SUFFICES ASSUME NEW x \in T PROVE {y \in T : y > x} \in FiniteSubsetsOf(T)
    OBVIOUS
  <2>1. IsFiniteSet({y \in T : y > x})
    BY FS_Subset
  <2> QED BY <2>1 DEF FiniteSubsetsOf
<1>2. U # {}
  OBVIOUS
<1> DEFINE V == U
<1> HIDE DEF V
<1>3. PICK u \in V : \A y \in V : ~(y \subseteq u /\ y # u)
  <2>1. V \subseteq FiniteSubsetsOf(T) /\ V # {}
    BY <1>1, <1>2 DEF V
  <2> QED BY <2>1, FinMin
<1>4. PICK x \in T : u = {y \in T : y > x}
  BY DEF V
<1>5. ASSUME NEW y \in T, y > x PROVE FALSE
  <2>1. {z \in T : z > y} \in V
    BY DEF V
  <2>2. x \in Nat /\ y \in Nat /\ ~(y > y)
    BY <1>0
  <2>3. \A z \in T : z > y => z > x
    <3> TAKE z \in T
    <3> z \in Nat
      BY <1>0
    <3> QED BY <1>5, <2>2
  <2>4. {z \in T : z > y} \subseteq u /\ y \in u /\ y \notin {z \in T : z > y}
    BY <1>4, <1>5, <2>2, <2>3
  <2> QED BY <2>1, <2>4, <1>3
<1> QED BY <1>0, <1>5

-----------------------------------------------------------------------------
(* Picking: Rank numbers the places of a finite set in their order, Nth is  *)
(* its inverse.                                                             *)
LEMMA RankFacts ==
  ASSUME NEW I, I \subseteq Nat, IsFiniteSet(I)
  PROVE  /\ Cardinality(I) \in Nat
         /\ \A i \in I : Rank(I, i) \in 1 .. Cardinality(I)
         /\ \A i, j \in I : i < j => Rank(I, i) < Rank(I, j)
         /\ \A k \in 1 .. Cardinality(I) : \E i \in I : Rank(I, i) = k
<1> DEFINE U(i) == {j \in I : j <= i}
<1>0. \A i \in I : i \in Nat
  OBVIOUS
<1>1. Cardinality(I) \in Nat
  BY FS_CardinalityType
<1>2. \A i \in I : Rank(I, i) \in 1 .. Cardinality(I)
  <2> TAKE i \in I
  <2>1. U(i) \subseteq I /\ i \in U(i)
    BY <1>0
  <2>2. IsFiniteSet(U(i)) /\ Cardinality(U(i)) \in Nat /\ Cardinality(U(i)) <= Cardinality(I)
    BY <2>1, FS_Subset, FS_CardinalityType
  <2>3. Cardinality(U(i)) # 0
    BY <2>1, <2>2, FS_EmptySet
  <2>4. Rank(I, i) = Cardinality(U(i))
    BY DEF Rank
  <2> HIDE DEF U
  <2> QED BY <1>1, <2>2, <2>3, <2>4
<1>3. \A i, j \in I : i < j => Rank(I, i) < Rank(I, j)
  <2> SUFFICES ASSUME NEW i \in I, NEW j \in I, i < j PROVE Rank(I, i) < Rank(I, j)
    OBVIOUS
  <2>0. i \in Nat /\ j \in Nat
    BY <1>0
  <2>1. U(i) \subseteq U(j) /\ j \in U(j) /\ j \notin U(i) /\ U(j) \subseteq I
    <3>1. \A k \in I : k <= i => k <= j
      BY <1>0, <2>0
    <3>2. j <= j /\ ~(j <= i)
      BY <2>0
    <3> QED BY <3>1, <3>2
  <2>2. Rank(I, i) = Cardinality(U(i)) /\ Rank(I, j) = Cardinality(U(j))
    BY DEF Rank
  <2> HIDE DEF U
  <2>3. IsFiniteSet(U(j)) /\ IsFiniteSet(U(i))
    BY <2>1, FS_Subset
  <2>4. Cardinality(U(i)) <= Cardinality(U(j)) /\ Cardinality(U(i)) # Cardinality(U(j))
    BY <2>1, <2>3, FS_Subset
  <2>5. Cardinality(U(i)) \in Nat /\ Cardinality(U(j)) \in Nat
    BY <2>3, FS_CardinalityType
  <2> QED BY <2>2, <2>4, <2>5
<1>4. \A k \in 1 .. Cardinality(I) : \E i \in I : Rank(I, i) = k
  <2> DEFINE f == [i \in I |-> Rank(I, i)]
  <2>1. f \in [I -> 1 .. Cardinality(I)]
    BY <1>2
  <2>2. \A i, j \in I : f[i] = f[j] => i = j
    <3>1. \A i \in I : Rank(I, i) \in Nat
      BY <1>1, <1>2
    <3> SUFFICES ASSUME NEW i \in I, NEW j \in I, f[i] = f[j] PROVE i = j
      OBVIOUS
    <3>2. ~(Rank(I, i) < Rank(I, j)) /\ ~(Rank(I, j) < Rank(I, i))
      BY <3>1
    <3> QED BY <1>0, <1>3, <3>2
  <2> HIDE DEF f
  <2>3. f \in Injection(I, 1 .. Cardinality(I))
    BY <2>1, <2>2 DEF Injection, IsInjective
  <2>4. IsFiniteSet(1 .. Cardinality(I)) /\ Cardinality(1 .. Cardinality(I)) = Cardinality(I)
    <3>1. /\ IsFiniteSet(1 .. Cardinality(I))
          /\ Cardinality(1 .. Cardinality(I)) = IF 1 > Cardinality(I) THEN 0 ELSE Cardinality(I) - 1 + 1
      BY <1>1, FS_Interval
    <3> QED BY <1>1, <3>1
  <2>5. f \in Surjection(I, 1 .. Cardinality(I))
    BY <2>3, <2>4, FS_Injection
  <2>6. \A k \in 1 .. Cardinality(I) : \E i \in I : f[i] = k
    BY <2>5 DEF Surjection
  <2> QED BY <2>6 DEF f
<1> QED BY <1>1, <1>2, <1>3, <1>4

LEMMA NthFacts ==
  ASSUME NEW I, I \subseteq Nat, IsFiniteSet(I)
  PROVE  /\ \A k \in 1 .. Cardinality(I) : Nth(I, k) \in I /\ Rank(I, Nth(I, k)) = k
         /\ \A i \in I : Nth(I, Rank(I, i)) = i
<1>1. \A k \in 1 .. Cardinality(I) : Nth(I, k) \in I /\ Rank(I, Nth(I, k)) = k
  BY RankFacts DEF Nth
<1>2. \A i \in I : Nth(I, Rank(I, i)) = i
  <2>0. /\ Cardinality(I) \in Nat
        /\ \A i \in I : i \in Nat /\ Rank(I, i) \in 1 .. Cardinality(I)
        /\ \A i, j \in I : i < j => Rank(I, i) < Rank(I, j)
    BY RankFacts
  <2> SUFFICES ASSUME NEW i \in I PROVE Nth(I, Rank(I, i)) = i
    OBVIOUS
  <2> DEFINE j == Nth(I, Rank(I, i))
  <2>1. j \in I /\ Rank(I, j) = Rank(I, i)
    BY <1>1, <2>0
  <2> HIDE DEF j
  <2>2. Rank(I, i) \in Nat
    BY <2>0
  <2>3. ~(j < i) /\ ~(i < j)
    BY <2>0, <2>1, <2>2
  <2>4. i \in Nat /\ j \in Nat
    BY <2>0, <2>1
  <2>5. j = i
    BY <2>3, <2>4
  <2> QED BY <2>5 DEF j
<1> QED BY <1>1, <1>2

(* The elements that are picked are those at the places, each once.        *)
LEMMA PickedFacts ==
  ASSUME NEW S, NEW s \in Seq(S), NEW I \in SUBSET DOMAIN s
  PROVE  /\ IsFiniteSet(I) /\ Cardinality(I) \in Nat
         /\ Picked(s, I) \in Seq(S)
         /\ Len(Picked(s, I)) = Cardinality(I)
         /\ \A k \in 1 .. Cardinality(I) : Nth(I, k) \in I /\ Picked(s, I)[k] = s[Nth(I, k)]
         /\ \A i \in I : Rank(I, i) \in 1 .. Cardinality(I) /\ Picked(s, I)[Rank(I, i)] = s[i]
         /\ \A j, k \in 1 .. Cardinality(I) : Nth(I, j) = Nth(I, k) => j = k
<1>0. Len(s) \in Nat /\ DOMAIN s = 1 .. Len(s) /\ \A i \in I : i \in DOMAIN s /\ s[i] \in S
  OBVIOUS
<1>1. IsFiniteSet(I) /\ I \subseteq Nat
  <2>1. IsFiniteSet(1 .. Len(s)) /\ I \subseteq 1 .. Len(s) /\ 1 .. Len(s) \subseteq Nat
    BY SMTT(30), <1>0, FS_Interval
  <2>2. IsFiniteSet(I)
    BY <2>1, FS_Subset
  <2> QED BY <2>1, <2>2
<1>2. Cardinality(I) \in Nat
  BY <1>1, FS_CardinalityType
<1>3. \A k \in 1 .. Cardinality(I) : Nth(I, k) \in I /\ Rank(I, Nth(I, k)) = k
  BY <1>1, NthFacts
<1>4. \A i \in I : Nth(I, Rank(I, i)) = i /\ Rank(I, i) \in 1 .. Cardinality(I)
  BY <1>1, NthFacts, RankFacts
<1>5. Picked(s, I) \in [1 .. Cardinality(I) -> S] /\ \A k \in 1 .. Cardinality(I) : Picked(s, I)[k] = s[Nth(I, k)]
  BY <1>0, <1>3 DEF Picked
<1>6. Picked(s, I) \in Seq(S) /\ Len(Picked(s, I)) = Cardinality(I)
  BY <1>2, <1>5
<1> QED BY <1>1, <1>2, <1>3, <1>4, <1>5, <1>6

-----------------------------------------------------------------------------
(* The values of a list: as many as it is long just in case none is there  *)
(* twice.                                                                  *)
LEMMA ImageFacts ==
  ASSUME NEW n \in Nat, NEW f, DOMAIN f = 1 .. n, f = [i \in 1 .. n |-> f[i]],
         NEW T, T = {f[i] : i \in 1 .. n}
  PROVE  /\ IsFiniteSet(T) /\ Cardinality(T) \in Nat /\ Cardinality(T) <= n
         /\ Cardinality(T) = n <=> \A i, j \in 1 .. n : f[i] = f[j] => i = j
<1>1. IsFiniteSet(1 .. n) /\ Cardinality(1 .. n) = n
  <2>1. IsFiniteSet(1 .. n) /\ Cardinality(1 .. n) = IF 1 > n THEN 0 ELSE n - 1 + 1
    BY FS_Interval
  <2> QED BY <2>1
<1>2. f \in [1 .. n -> T] /\ \A t \in T : \E i \in 1 .. n : f[i] = t
  OBVIOUS
<1>3. f \in Surjection(1 .. n, T)
  BY <1>2 DEF Surjection
<1>4. /\ IsFiniteSet(T) /\ Cardinality(T) <= Cardinality(1 .. n)
      /\ Cardinality(T) = Cardinality(1 .. n) <=> f \in Injection(1 .. n, T)
  BY <1>1, <1>3, FS_Surjection
<1>5. f \in Injection(1 .. n, T) <=> \A i, j \in 1 .. n : f[i] = f[j] => i = j
  BY <1>2 DEF Injection, IsInjective
<1> QED BY <1>1, <1>4, <1>5, FS_CardinalityType

(* Lists in order: a finite set can be listed in any strict order of its   *)
(* elements, as pairs of one and a later one.                              *)
Lists(S, R) == {list \in [1 .. Cardinality(S) -> S] :
                  \A i, j \in 1 .. Cardinality(S) : i < j => <<list[i], list[j]>> \in R}
Orders(S, R) ==
  /\ \A x, y, z \in S : <<x, y>> \in R /\ <<y, z>> \in R => <<x, z>> \in R
  /\ \A x, y \in S : x # y => <<x, y>> \in R \/ <<y, x>> \in R
  /\ \A x \in S : <<x, x>> \notin R

LEMMA LastInOrder ==
  ASSUME NEW S, NEW R, IsFiniteSet(S), S # {}, Orders(S, R)
  PROVE  \E x \in S : \A y \in S : y # x => <<y, x>> \in R
<1> DEFINE Up(x) == {y \in S : <<x, y>> \in R}
           U == {Up(x) : x \in S}
<1>1. U \subseteq FiniteSubsetsOf(S) /\ U # {}
  <2>1. \A x \in S : Up(x) \subseteq S /\ IsFiniteSet(Up(x))
    BY FS_Subset
  <2> QED BY <2>1 DEF FiniteSubsetsOf
<1> DEFINE V == U
<1> HIDE DEF V
<1>2. PICK u \in V : \A y \in V : ~(y \subseteq u /\ y # u)
  <2>1. V \subseteq FiniteSubsetsOf(S) /\ V # {}
    BY <1>1 DEF V
  <2> QED BY <2>1, FinMin
<1>3. PICK x \in S : u = Up(x)
  BY DEF V
<1>4. ASSUME NEW y \in S, <<x, y>> \in R PROVE FALSE
  <2>1. Up(y) \in V
    BY DEF V
  <2>2. Up(y) \subseteq Up(x) /\ y \in Up(x) /\ y \notin Up(y)
    BY <1>4 DEF Orders
  <2> HIDE DEF Up
  <2> QED BY <1>2, <1>3, <2>1, <2>2
<1> QED BY <1>4 DEF Orders

LEMMA CanBeListed ==
  ASSUME NEW S, NEW R, IsFiniteSet(S), Orders(S, R)
  PROVE  Lists(S, R) # {}
<1> DEFINE Bad == {T \in SUBSET S : Lists(T, R) = {}}
<1> SUFFICES ASSUME Bad # {} PROVE FALSE
  <2>1. S \notin Bad => Lists(S, R) # {}
    OBVIOUS
  <2> QED BY <2>1
<1>1. \A T \in SUBSET S : IsFiniteSet(T) /\ Cardinality(T) \in Nat
  BY FS_Subset, FS_CardinalityType
<1>2. Bad \subseteq FiniteSubsetsOf(S)
  BY <1>1 DEF FiniteSubsetsOf
<1>3. PICK T \in Bad : \A W \in Bad : ~(W \subseteq T /\ W # T)
  <2> HIDE DEF Bad
  <2> QED BY <1>2, FinMin
<1>4. T \subseteq S /\ Lists(T, R) = {} /\ IsFiniteSet(T) /\ Cardinality(T) \in Nat
  BY <1>1
<1>5. T # {}
  <2> SUFFICES ASSUME T = {} PROVE FALSE
    OBVIOUS
  <2>1. Cardinality(T) = 0
    BY FS_EmptySet
  <2>2. 1 .. 0 = {}
    OBVIOUS
  <2>3. [i \in 1 .. 0 |-> i] \in Lists(T, R)
    BY <2>1, <2>2 DEF Lists
  <2> QED BY <1>4, <2>3
<1>6. Orders(T, R)
  <2>1. \A x \in T : x \in S
    BY <1>4
  <2> QED BY <2>1 DEF Orders
<1>7. PICK x \in T : \A y \in T : y # x => <<y, x>> \in R
  BY <1>4, <1>5, <1>6, LastInOrder
<1> DEFINE W == T \ {x}
           n == Cardinality(W)
<1>8. IsFiniteSet(W) /\ n \in Nat /\ Cardinality(T) = n + 1
  <2>1. IsFiniteSet(W) /\ n = Cardinality(T) - 1
    BY <1>4, FS_RemoveElement
  <2>2. n \in Nat
    BY <2>1, FS_CardinalityType
  <2> QED BY <1>4, <2>1, <2>2
<1>9. W \subseteq S /\ W \subseteq T /\ W # T
  BY <1>4
<1>10. PICK list \in Lists(W, R) : TRUE
  <2>1. W \notin Bad
    BY <1>3, <1>9
  <2>2. Lists(W, R) # {}
    BY <1>9, <2>1
  <2> QED BY <2>2
<1>11. /\ list \in [1 .. n -> W]
       /\ \A i, j \in 1 .. n : i < j => <<list[i], list[j]>> \in R
  BY <1>10 DEF Lists
<1> DEFINE more == [i \in 1 .. n + 1 |-> IF i <= n THEN list[i] ELSE x]
<1>12. \A i \in 1 .. n + 1 : \/ i \in 1 .. n /\ more[i] = list[i] /\ more[i] \in W
                             \/ i = n + 1 /\ more[i] = x
  <2> HIDE DEF n
  <2> QED BY <1>8, <1>11
<1>13. more \in [1 .. n + 1 -> T]
  <2>1. \A i \in 1 .. n + 1 : more[i] \in T
    BY <1>12
  <2> QED BY <2>1
<1>14. \A i, j \in 1 .. n + 1 : i < j => <<more[i], more[j]>> \in R
  <2> SUFFICES ASSUME NEW i \in 1 .. n + 1, NEW j \in 1 .. n + 1, i < j
               PROVE  <<more[i], more[j]>> \in R
    OBVIOUS
  <2>0. i # n + 1
    <3> HIDE DEF n
    <3> QED BY <1>8
  <2>1. i \in 1 .. n /\ more[i] = list[i] /\ more[i] \in W
    BY <1>12, <2>0
  <2> HIDE DEF n, more
  <2>2. CASE j = n + 1
    <3>1. more[j] = x
      BY <1>8, <1>12, <2>2
    <3> QED BY <1>7, <2>1, <3>1
  <2>3. CASE j # n + 1
    BY <1>11, <1>12, <2>1, <2>3
  <2> QED BY <2>2, <2>3
<1>15. more \in Lists(T, R)
  <2> HIDE DEF n, more
  <2> QED BY <1>8, <1>13, <1>14 DEF Lists
<1> QED BY <1>4, <1>15

(* A list in order has every element, once.                                *)
LEMMA ListedOnce ==
  ASSUME NEW S, NEW R, IsFiniteSet(S), Orders(S, R), NEW list \in Lists(S, R)
  PROVE  /\ \A i, j \in 1 .. Cardinality(S) : list[i] = list[j] => i = j
         /\ \A x \in S : \E i \in 1 .. Cardinality(S) : list[i] = x
<1> DEFINE n == Cardinality(S)
<1>1. n \in Nat /\ list \in [1 .. n -> S]
  BY FS_CardinalityType DEF Lists
<1>2. \A i, j \in 1 .. n : i < j => list[i] # list[j]
  <2> SUFFICES ASSUME NEW i \in 1 .. n, NEW j \in 1 .. n, i < j, list[i] = list[j] PROVE FALSE
    OBVIOUS
  <2>1. <<list[i], list[j]>> \in R /\ list[i] \in S
    BY <1>1 DEF Lists
  <2> QED BY <2>1 DEF Orders
<1>3. \A i, j \in 1 .. n : list[i] = list[j] => i = j
  <2> SUFFICES ASSUME NEW i \in 1 .. n, NEW j \in 1 .. n, list[i] = list[j] PROVE i = j
    OBVIOUS
  <2>1. ~(i < j) /\ ~(j < i) /\ i \in Int /\ j \in Int
    BY <1>2
  <2> QED BY <2>1
<1> HIDE DEF n
<1>4. list \in Injection(1 .. n, S)
  BY <1>1, <1>3 DEF Injection, IsInjective
<1>5. Cardinality(1 .. n) = n
  <2>1. Cardinality(1 .. n) = IF 1 > n THEN 0 ELSE n - 1 + 1
    BY <1>1, FS_Interval
  <2> QED BY <1>1, <2>1
<1>6. list \in Surjection(1 .. n, S)
  BY <1>4, <1>5, FS_Injection DEF n
<1> QED BY <1>3, <1>6 DEF Surjection, n

(* An increasing list of the numbers up to its length is all of them.      *)
LEMMA IncreasingIsIdentity ==
  ASSUME NEW n \in Nat, NEW f \in [1 .. n -> 1 .. n],
         \A i, j \in 1 .. n : i < j => f[i] < f[j]
  PROVE  \A i \in 1 .. n : f[i] = i
<1>0. \A i \in 1 .. n : f[i] \in 1 .. n
  OBVIOUS
<1>1. \A i \in 1 .. n : f[i] >= i
  <2> DEFINE G == {k \in Nat : k \in 1 .. n => f[k] >= k}
  <2>1. 0 \in G
    OBVIOUS
  <2>2. \A k \in Nat : k \in G => k + 1 \in G
    <3> SUFFICES ASSUME NEW k \in Nat, k \in G, k + 1 \in 1 .. n PROVE f[k + 1] >= k + 1
      OBVIOUS
    <3>1. CASE k = 0
      BY <1>0, <3>1
    <3>2. CASE k # 0
      <4>1. k \in 1 .. n /\ k < k + 1 /\ f[k] >= k
        BY <3>2
      <4>2. f[k] < f[k + 1] /\ f[k] \in Int /\ f[k + 1] \in Int
        BY <1>0, <4>1
      <4> QED BY <4>1, <4>2
    <3> QED BY <3>1, <3>2
  <2> HIDE DEF G
  <2>3. \A k \in Nat : k \in G
    BY <2>1, <2>2, NatInduct
  <2> QED BY <2>3 DEF G
<1>2. \A i \in 1 .. n : f[i] <= i
  <2> DEFINE G == {k \in Nat : n - k \in 1 .. n => f[n - k] <= n - k}
  <2>1. 0 \in G
    BY <1>0
  <2>2. \A k \in Nat : k \in G => k + 1 \in G
    <3> SUFFICES ASSUME NEW k \in Nat, k \in G, n - (k + 1) \in 1 .. n
                 PROVE  f[n - (k + 1)] <= n - (k + 1)
      OBVIOUS
    <3> DEFINE a == n - (k + 1)
               b == n - k
    <3>1. a \in 1 .. n /\ b \in 1 .. n /\ a < b /\ b = a + 1
      OBVIOUS
    <3>2. f[b] <= b
      BY <3>1
    <3>3. f[a] < f[b] /\ f[a] \in Int /\ f[b] \in Int
      <4> HIDE DEF a, b
      <4> QED BY <1>0, <3>1
    <3>4. f[a] <= a
      <4> HIDE DEF a, b
      <4> QED BY <3>1, <3>2, <3>3
    <3> QED BY <3>4
  <2> HIDE DEF G
  <2>3. \A k \in Nat : k \in G
    BY <2>1, <2>2, NatInduct
  <2> SUFFICES ASSUME NEW i \in 1 .. n PROVE f[i] <= i
    OBVIOUS
  <2>4. n - i \in Nat /\ n - (n - i) = i
    OBVIOUS
  <2>5. n - (n - i) \in 1 .. n => f[n - (n - i)] <= n - (n - i)
    BY <2>3, <2>4 DEF G
  <2> QED BY <2>4, <2>5
<1> QED BY <1>0, <1>1, <1>2
=============================================================================
