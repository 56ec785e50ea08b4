------------------------- MODULE DefinedNamesProofs -------------------------
(***************************************************************************)
(* What holds of the defined names of every workbook, for every set of      *)
(* texts and titles and every number of sheets: the table's two maps are    *)
(* inverse, and an id never comes to denote another name.  Every operation  *)
(* of the table is shown to keep what IsTable says of it; the operations of *)
(* the workbook then need only say which of them they use.                  *)
(***************************************************************************)
EXTENDS DefinedNames, ListFacts

(* What the parts of a table have to be, and that a table has such parts.   *)
AreParts(next, byId, ids) ==
  /\ next \in Nat \ {0}
  /\ IsFiniteSet(DOMAIN byId)
  /\ byId \in [DOMAIN byId -> Name]
  /\ ids \in [DOMAIN ids -> DOMAIN byId]
  /\ AreInverse(next, byId, ids)

IsTable(t) == AreParts(t.next, t.byId, t.ids) /\ t.dirty \in BOOLEAN

-----------------------------------------------------------------------------
(* The operators that the table is built with.                              *)
LEMMA PutDomain == \A f, x, v : DOMAIN Put(f, x, v) = {x} \cup DOMAIN f
BY DEF Put

LEMMA PutAt == \A f, x, v : Put(f, x, v)[x] = v
BY DEF Put

LEMMA PutElsewhere == \A f, x, v : \A y \in DOMAIN f : y # x => Put(f, x, v)[y] = f[y]
BY DEF Put

LEMMA PutType ==
  ASSUME NEW S, NEW T, NEW f \in [S -> T], NEW x, NEW v \in T
  PROVE  Put(f, x, v) \in [{x} \cup S -> T]
BY DEF Put

LEMMA DropFacts ==
  ASSUME NEW f, NEW x
  PROVE  /\ DOMAIN Drop(f, x) = DOMAIN f \ {x}
         /\ \A y \in DOMAIN f \ {x} : Drop(f, x)[y] = f[y]
BY DEF Drop, Restrict

LEMMA DropType ==
  ASSUME NEW S, NEW T, NEW f \in [S -> T], NEW x
  PROVE  Drop(f, x) \in [S \ {x} -> T]
BY DEF Drop, Restrict

LEMMA KeyFacts ==
  /\ \A n \in Name : KeyOf(n) \in Key
  /\ \A n \in Name, text \in Text : [n EXCEPT !.text = text] \in Name
  /\ \A n \in Name, target \in Target :
       /\ [n EXCEPT !.target = target] \in Name
       /\ KeyOf([n EXCEPT !.target = target]) = KeyOf(n)
  /\ \A n \in Name, hidden \in BOOLEAN :
       /\ [n EXCEPT !.hidden = hidden] \in Name
       /\ KeyOf([n EXCEPT !.hidden = hidden]) = KeyOf(n)
BY CanonicalAssumption DEF KeyOf, Key, Name

-----------------------------------------------------------------------------
LEMMA AddKeepsParts ==
  ASSUME NEW next, NEW byId, NEW ids, AreParts(next, byId, ids),
         NEW n \in Name, KeyOf(n) \notin DOMAIN ids
  PROVE  AreParts(next + 1, Put(byId, next, n), Put(ids, KeyOf(n), next))
<1> DEFINE byId2 == Put(byId, next, n)
           ids2 == Put(ids, KeyOf(n), next)
<1>1. next \in Nat \ {0} /\ next \notin DOMAIN byId
  BY DEF AreParts, AreInverse
<1>2. DOMAIN byId2 = {next} \cup DOMAIN byId
  BY PutDomain
<1>3. byId2[next] = n
  BY PutAt
<1>4. \A id \in DOMAIN byId : byId2[id] = byId[id]
  <2>1. next \notin DOMAIN byId
    BY <1>1
  <2> QED BY <2>1, PutElsewhere
<1>5. DOMAIN ids2 = {KeyOf(n)} \cup DOMAIN ids
  BY PutDomain
<1>6. ids2[KeyOf(n)] = next
  BY PutAt
<1>7. \A key \in DOMAIN ids : ids2[key] = ids[key]
  BY PutElsewhere
<1>8. byId2 \in [DOMAIN byId2 -> Name]
  BY <1>2, PutType DEF AreParts
<1>9. IsFiniteSet(DOMAIN byId2)
  BY <1>2, FS_AddElement DEF AreParts
<1>10. ids2 \in [DOMAIN ids2 -> DOMAIN byId2]
  <2>1. ids \in [DOMAIN ids -> DOMAIN byId2] /\ next \in DOMAIN byId2
    BY <1>2 DEF AreParts
  <2>2. ids2 \in [{KeyOf(n)} \cup DOMAIN ids -> DOMAIN byId2]
    BY <2>1, PutType
  <2> QED BY <2>2, <1>5
<1> HIDE DEF byId2, ids2
<1>11. AreInverse(next + 1, byId2, ids2)
  BY <1>1, <1>2, <1>3, <1>4, <1>5, <1>6, <1>7 DEF AreParts, AreInverse
<1>12. AreParts(next + 1, byId2, ids2)
  BY <1>1, <1>8, <1>9, <1>10, <1>11 DEF AreParts
<1> QED BY <1>12 DEF byId2, ids2

LEMMA RemoveKeepsParts ==
  ASSUME NEW next, NEW byId, NEW ids, AreParts(next, byId, ids), NEW id \in DOMAIN byId
  PROVE  AreParts(next, Drop(byId, id), Drop(ids, KeyOf(byId[id])))
<1> DEFINE byId2 == Drop(byId, id)
           ids2 == Drop(ids, KeyOf(byId[id]))
<1>1. DOMAIN byId2 = DOMAIN byId \ {id} /\ \A x \in DOMAIN byId2 : byId2[x] = byId[x]
  BY DropFacts
<1>2. DOMAIN ids2 = DOMAIN ids \ {KeyOf(byId[id])} /\ \A x \in DOMAIN ids2 : ids2[x] = ids[x]
  BY DropFacts
<1>3. byId2 \in [DOMAIN byId2 -> Name]
  BY <1>1, DropType DEF AreParts
<1>4. IsFiniteSet(DOMAIN byId2)
  BY <1>1, FS_RemoveElement DEF AreParts
<1>5. ids2 \in [DOMAIN ids2 -> DOMAIN byId]
  BY <1>2, DropType DEF AreParts
<1> HIDE DEF byId2, ids2
<1>6. AreInverse(next, byId2, ids2)
  BY <1>1, <1>2 DEF AreParts, AreInverse
<1>7. ids2 \in [DOMAIN ids2 -> DOMAIN byId2]
  BY <1>5, <1>6 DEF AreInverse
<1>8. AreParts(next, byId2, ids2)
  BY <1>3, <1>4, <1>6, <1>7 DEF AreParts
<1> QED BY <1>8 DEF byId2, ids2

(* A name whose key is another one, or the same.                            *)
LEMMA RenameKeepsParts ==
  ASSUME NEW next, NEW byId, NEW ids, AreParts(next, byId, ids), NEW id \in DOMAIN byId, NEW n \in Name,
         KeyOf(n) \in DOMAIN ids => ids[KeyOf(n)] = id
  PROVE  AreParts(next, Put(byId, id, n), Put(Drop(ids, KeyOf(byId[id])), KeyOf(n), id))
<1> DEFINE byId2 == Put(byId, id, n)
           left == Drop(ids, KeyOf(byId[id]))
           ids2 == Put(left, KeyOf(n), id)
<1>1. DOMAIN byId2 = DOMAIN byId
  <2>1. DOMAIN byId2 = {id} \cup DOMAIN byId
    BY PutDomain
  <2> QED BY <2>1
<1>2. byId2[id] = n
  BY PutAt
<1>3. \A x \in DOMAIN byId : x # id => byId2[x] = byId[x]
  BY PutElsewhere
<1>4. DOMAIN left = DOMAIN ids \ {KeyOf(byId[id])} /\ \A x \in DOMAIN left : left[x] = ids[x]
  BY DropFacts
<1>5. DOMAIN ids2 = {KeyOf(n)} \cup DOMAIN left
  BY PutDomain
<1>6. ids2[KeyOf(n)] = id
  BY PutAt
<1>7. \A x \in DOMAIN left : x # KeyOf(n) => ids2[x] = left[x]
  BY PutElsewhere
<1>8. byId2 \in [DOMAIN byId2 -> Name]
  <2>1. byId2 \in [{id} \cup DOMAIN byId -> Name]
    BY PutType DEF AreParts
  <2>2. {id} \cup DOMAIN byId = DOMAIN byId2
    BY <1>1
  <2> QED BY <2>1, <2>2
<1> HIDE DEF byId2
<1>9. left \in [DOMAIN left -> DOMAIN byId2]
  <2>1. left \in [DOMAIN ids \ {KeyOf(byId[id])} -> DOMAIN byId]
    BY DropType DEF AreParts
  <2> QED BY <2>1, <1>1, <1>4
<1>10. ids2 \in [DOMAIN ids2 -> DOMAIN byId2]
  <2>1. ids2 \in [{KeyOf(n)} \cup DOMAIN left -> DOMAIN byId2]
    BY <1>1, <1>9, PutType
  <2> QED BY <2>1, <1>5
<1> HIDE DEF ids2, left
<1>11. AreInverse(next, byId2, ids2)
  BY <1>1, <1>2, <1>3, <1>4, <1>5, <1>6, <1>7 DEF AreParts, AreInverse
<1>12. AreParts(next, byId2, ids2)
  BY <1>1, <1>8, <1>10, <1>11 DEF AreParts
<1> QED BY <1>12 DEF byId2, ids2, left

(* Names that keep their keys.                                              *)
LEMMA ChangeKeepsParts ==
  ASSUME NEW next, NEW byId, NEW ids, AreParts(next, byId, ids),
         NEW byId2 \in [DOMAIN byId -> Name],
         \A id \in DOMAIN byId : KeyOf(byId2[id]) = KeyOf(byId[id])
  PROVE  AreParts(next, byId2, ids)
<1>1. DOMAIN byId2 = DOMAIN byId
  OBVIOUS
<1>2. AreInverse(next, byId2, ids)
  BY <1>1 DEF AreParts, AreInverse
<1> QED BY <1>1, <1>2 DEF AreParts

-----------------------------------------------------------------------------
(* The operations of the table.                                             *)
LEMMA AddKeeps ==
  ASSUME NEW t, NEW n \in Name, IsTable(t), CanAdd(t, n)
  PROVE  IsTable(AddName(t, n))
BY AddKeepsParts DEF AddName, IsTable, CanAdd

LEMMA RemoveKeeps ==
  ASSUME NEW t, NEW id \in DOMAIN t.byId, IsTable(t)
  PROVE  IsTable(RemoveName(t, id))
BY RemoveKeepsParts DEF RemoveName, IsTable

LEMMA RenameKeeps ==
  ASSUME NEW t, NEW id \in DOMAIN t.byId, NEW text \in Text, IsTable(t), CanRename(t, id, text)
  PROVE  IsTable(RenameName(t, id, text))
<1> DEFINE n == [t.byId[id] EXCEPT !.text = text]
<1>1. n \in Name /\ KeyOf(n) = <<t.byId[id].scope, Canonical[text]>>
  BY DEF IsTable, AreParts, Name, KeyOf
<1>2. KeyOf(n) \in DOMAIN t.ids => t.ids[KeyOf(n)] = id
  BY <1>1 DEF CanRename
<1> HIDE DEF n
<1>3. AreParts(t.next, Put(t.byId, id, n), Put(Drop(t.ids, KeyOf(t.byId[id])), KeyOf(n), id))
  BY <1>1, <1>2, RenameKeepsParts DEF IsTable
<1> QED BY <1>3 DEF RenameName, IsTable, Rekeyed, n

LEMMA MarkKeeps ==
  ASSUME NEW t, IsTable(t)
  PROVE  IsTable(MarkClean(t))
BY DEF MarkClean, IsTable

LEMMA ChangeKeeps ==
  ASSUME NEW t, NEW id \in DOMAIN t.byId, NEW n \in Name, IsTable(t), KeyOf(n) = KeyOf(t.byId[id])
  PROVE  IsTable(Changed(t, id, n))
<1> DEFINE byId2 == Put(t.byId, id, n)
<1>1. byId2 \in [{id} \cup DOMAIN t.byId -> Name]
  BY PutType DEF IsTable, AreParts
<1>2. \A x \in DOMAIN t.byId : KeyOf(byId2[x]) = KeyOf(t.byId[x])
  <2> TAKE x \in DOMAIN t.byId
  <2>1. byId2[id] = n
    BY PutAt
  <2>2. x # id => byId2[x] = t.byId[x]
    BY PutElsewhere
  <2> QED BY <2>1, <2>2
<1>3. {id} \cup DOMAIN t.byId = DOMAIN t.byId
  OBVIOUS
<1> HIDE DEF byId2
<1>4. AreParts(t.next, byId2, t.ids)
  BY <1>1, <1>2, <1>3, ChangeKeepsParts DEF IsTable
<1> QED BY <1>4 DEF Changed, IsTable, byId2

LEMMA RetargetKeeps ==
  ASSUME NEW t, NEW old, NEW title \in Target, IsTable(t)
  PROVE  IsTable(Retargeted(t, old, title))
<1> DEFINE byId2 == Retargeted(t, old, title).byId
<1>1. byId2 = [id \in DOMAIN t.byId |->
                 IF t.byId[id].target = old THEN [t.byId[id] EXCEPT !.target = title] ELSE t.byId[id]]
  BY DEF Retargeted
<1>2. \A id \in DOMAIN t.byId : byId2[id] \in Name /\ KeyOf(byId2[id]) = KeyOf(t.byId[id])
  BY <1>1, KeyFacts DEF IsTable, AreParts
<1>3. byId2 \in [DOMAIN t.byId -> Name]
  BY <1>1, <1>2
<1> HIDE DEF byId2
<1>4. AreParts(t.next, byId2, t.ids)
  BY <1>2, <1>3, ChangeKeepsParts DEF IsTable
<1> QED BY <1>4 DEF Retargeted, IsTable, byId2

-----------------------------------------------------------------------------
(* A table that is loaded from a file.                                      *)
LEMMA DistinctFacts ==
  ASSUME NEW S, IsFiniteSet(S)
  PROVE  /\ IsFiniteSet(Distinct(S)) /\ Distinct(S) \subseteq S
         /\ \A m, n \in Distinct(S) : KeyOf(m) = KeyOf(n) => m = n
<1>1. Distinct(S) \subseteq S
  BY DEF Distinct
<1>2. ASSUME NEW m \in Distinct(S), NEW n \in Distinct(S), KeyOf(m) = KeyOf(n)
      PROVE  m = n
  <2>1. m = CHOOSE x \in S : KeyOf(x) = KeyOf(m)
    BY DEF Distinct
  <2>2. n = CHOOSE x \in S : KeyOf(x) = KeyOf(n)
    BY DEF Distinct
  <2> QED BY <1>2, <2>1, <2>2
<1> QED BY <1>1, <1>2, FS_Subset

LEMMA LoadKeeps ==
  ASSUME NEW entries, IsFiniteSet(entries), entries \subseteq Name
  PROVE  IsTable(LoadTable(entries))
<1> DEFINE S == Distinct(entries)
           N == Cardinality(S)
           byId == Listed(S)
           ids == LoadTable(entries).ids
<1>0. /\ IsFiniteSet(S) /\ S \subseteq Name
      /\ \A m, n \in S : KeyOf(m) = KeyOf(n) => m = n
  BY DistinctFacts
<1>1. N \in Nat /\ byId \in Bijection(1 .. N, S)
  BY <1>0, FS_CardinalityType DEF Listed, ExistsBijection
<1>2. /\ byId \in [1 .. N -> S]
      /\ \A a, b \in 1 .. N : byId[a] = byId[b] => a = b
      /\ \A n \in S : \E a \in 1 .. N : byId[a] = n
  BY <1>1 DEF Bijection, Injection, Surjection, IsInjective
<1>3. ids = [key \in {KeyOf(n) : n \in S} |-> CHOOSE id \in DOMAIN byId : KeyOf(byId[id]) = key]
  BY DEF LoadTable
<1> HIDE DEF byId, ids, N, S
<1>4. DOMAIN ids = {KeyOf(n) : n \in S} /\ DOMAIN byId = 1 .. N
  BY <1>2, <1>3
<1>5. \A key \in DOMAIN ids : ids[key] \in DOMAIN byId /\ KeyOf(byId[ids[key]]) = key
  <2> TAKE key \in DOMAIN ids
  <2>1. PICK n \in S : key = KeyOf(n)
    BY <1>4
  <2>2. \E id \in DOMAIN byId : KeyOf(byId[id]) = key
    BY <1>2, <1>4, <2>1
  <2>3. ids[key] = CHOOSE id \in DOMAIN byId : KeyOf(byId[id]) = key
    BY <1>3, <1>4
  <2> QED BY <2>2, <2>3
<1>6. \A id \in DOMAIN byId : KeyOf(byId[id]) \in DOMAIN ids /\ ids[KeyOf(byId[id])] = id
  <2> TAKE id \in DOMAIN byId
  <2>1. byId[id] \in S /\ KeyOf(byId[id]) \in DOMAIN ids
    BY <1>2, <1>4
  <2>2. ids[KeyOf(byId[id])] \in DOMAIN byId /\ KeyOf(byId[ids[KeyOf(byId[id])]]) = KeyOf(byId[id])
    BY <1>5, <2>1
  <2>3. byId[ids[KeyOf(byId[id])]] = byId[id]
    BY <1>0, <1>2, <1>4, <2>1, <2>2
  <2> QED BY <1>2, <1>4, <2>1, <2>2, <2>3
<1>7. AreInverse(N + 1, byId, ids)
  BY <1>1, <1>4, <1>5, <1>6 DEF AreInverse
<1>8. IsFiniteSet(DOMAIN byId)
  BY <1>1, <1>4, FS_Interval
<1>9. byId \in [DOMAIN byId -> Name]
  BY <1>0, <1>2, <1>4
<1>10. ids \in [DOMAIN ids -> DOMAIN byId]
  BY <1>3, <1>4, <1>5
<1>11. AreParts(N + 1, byId, ids)
  BY <1>1, <1>7, <1>8, <1>9, <1>10 DEF AreParts
<1> QED BY <1>11 DEF LoadTable, IsTable, byId, ids, N, S

-----------------------------------------------------------------------------
(* Sources and files.                                                       *)
LEMMA TitledType ==
  ASSUME NEW ss \in Seq(Sheet), NEW title
  PROVE  SheetTitled(ss, title) \in 0 .. MaxSheetId
<1>1. CASE \E i \in DOMAIN ss : ss[i].title = title
  <2> DEFINE place == CHOOSE i \in DOMAIN ss : ss[i].title = title
  <2>1. place \in DOMAIN ss
    BY <1>1
  <2> HIDE DEF place
  <2>2. ss[place] \in Sheet
    BY <2>1
  <2>3. ss[place].id \in 0 .. MaxSheetId
    BY <2>2, MaxSheetIdAssumption DEF Sheet
  <2> QED BY <1>1, <2>3 DEF SheetTitled, place
<1>2. CASE ~\E i \in DOMAIN ss : ss[i].title = title
  BY <1>2, MaxSheetIdAssumption DEF SheetTitled, NoSheet
<1> QED BY <1>1, <1>2

LEMMA ResolvedType ==
  ASSUME NEW ss \in Seq(Sheet), NEW t, NEW source \in Source
  PROVE  Resolved(ss, t, source) \in Source
<1>1. Resolve(ss, t, source) \in 0 .. MaxSheetId
  <2>1. \A title : SheetTitled(ss, title) \in 0 .. MaxSheetId
    BY TitledType
  <2>2. NoSheet \in 0 .. MaxSheetId
    BY MaxSheetIdAssumption DEF NoSheet
  <2> QED BY <2>1, <2>2 DEF Resolve
<1> QED BY <1>1 DEF Resolved, Source

LEMMA ScopedType ==
  ASSUME NEW ss \in Seq(Sheet), NEW e \in Name, e.scope # Book => e.scope \in DOMAIN ss
  PROVE  Scoped(ss, e) \in Name
<1>1. e.scope # Book => ss[e.scope] \in Sheet
  OBVIOUS
<1>2. e.scope # Book => ss[e.scope].id \in Nat
  BY <1>1, MaxSheetIdAssumption DEF Sheet
<1> QED BY <1>2 DEF Scoped, Name, Book

LEMMA LoadedIsTable ==
  ASSUME NEW file, IsFile(file)
  PROVE  IsTable(Loaded(file))
<1> DEFINE S == {Scoped(file.sheets, e) : e \in file.names}
           scoped == [e \in file.names |-> Scoped(file.sheets, e)]
<1>1. S \subseteq Name
  BY ScopedType DEF IsFile, CanLoad
<1>2. IsFiniteSet(S)
  <2>1. scoped \in Surjection(file.names, S)
    BY DEF Surjection
  <2> QED BY <2>1, FS_Surjection DEF IsFile
<1> HIDE DEF S
<1>3. IsTable(LoadTable(S))
  BY <1>1, <1>2, LoadKeeps
<1> QED BY <1>3 DEF Loaded, S

(* The invariant: well typed, a well-formed table, and a file that opens.   *)
IInv ==
  /\ sheets \in Seq(Sheet) /\ sheets # <<>>
  /\ IsTable(names)
  /\ DOMAIN sources \subseteq Slots /\ \A slot \in DOMAIN sources : sources[slot] \in Source
  /\ IsFiniteSet(package) /\ package \subseteq Name
  /\ IsFile(disk)
  /\ prompt \in BOOLEAN /\ semantic \in BOOLEAN

LEMMA InvGives ==
  ASSUME IInv
  PROVE  TypeOK /\ TableIsABijection
<1>1. /\ DOMAIN names.byId \subseteq Nat /\ NamesOf(names) \subseteq Name
      /\ names.next \in Nat \ {0} /\ names.dirty \in BOOLEAN
  BY DEF IInv, IsTable, AreParts, AreInverse, NamesOf
<1> QED BY <1>1 DEF IInv, TypeOK, TableIsABijection, IsTable, AreParts

LEMMA LoadedSourcesType ==
  ASSUME NEW file, IsFile(file), NEW t
  PROVE  /\ DOMAIN LoadedSources(file, t) \subseteq Slots
         /\ \A slot \in DOMAIN LoadedSources(file, t) : LoadedSources(file, t)[slot] \in Source
<1>1. DOMAIN LoadedSources(file, t) = DOMAIN file.sources
  BY DEF LoadedSources
<1>2. ASSUME NEW slot \in DOMAIN file.sources
      PROVE  LoadedSources(file, t)[slot] \in Source
  BY ResolvedType DEF LoadedSources, IsFile
<1> QED BY <1>1, <1>2 DEF IsFile

LEMMA RefreshedType ==
  ASSUME IInv, NEW t
  PROVE  /\ DOMAIN Refreshed(t) \subseteq Slots
         /\ \A slot \in DOMAIN Refreshed(t) : Refreshed(t)[slot] \in Source
<1>1. DOMAIN Refreshed(t) = DOMAIN sources
  BY DEF Refreshed
<1>2. ASSUME NEW slot \in DOMAIN sources
      PROVE  Refreshed(t)[slot] \in Source
  BY ResolvedType DEF Refreshed, IInv
<1> QED BY <1>1, <1>2 DEF IInv

LEMMA InitInv == Init => IInv
<1> SUFFICES ASSUME Init PROVE IInv
  OBVIOUS
<1>1. IsFile(File)
  BY FileAssumption
<1>2. IsTable(names)
  BY <1>1, LoadedIsTable DEF Init, Show
<1>3. DOMAIN sources \subseteq Slots /\ \A slot \in DOMAIN sources : sources[slot] \in Source
  BY <1>1, LoadedSourcesType DEF Init, Show
<1> QED BY <1>1, <1>2, <1>3 DEF Init, Show, IInv, IsFile

-----------------------------------------------------------------------------
(* Sheets in another order, with one more and with one less.                *)
LEMMA PartType ==
  ASSUME NEW ss \in Seq(Sheet), NEW a \in Nat \ {0}, NEW b \in Int, b <= Len(ss)
  PROVE  SubSeq(ss, a, b) \in Seq(Sheet)
<1>1. \A i \in a .. b : ss[i] \in Sheet
  OBVIOUS
<1> QED BY <1>1, SubSeqProperties

LEMMA InsertType ==
  ASSUME NEW ss \in Seq(Sheet), NEW i \in 1 .. Len(ss) + 1, NEW sheet \in Sheet, NEW last \in Int, last <= Len(ss)
  PROVE  LET r == SubSeq(ss, 1, i - 1) \o <<sheet>> \o SubSeq(ss, i, last) IN r \in Seq(Sheet) /\ r # <<>>
<1> DEFINE a == SubSeq(ss, 1, i - 1)
           b == SubSeq(ss, i, last)
           one == <<sheet>>
<1>1. a \in Seq(Sheet) /\ b \in Seq(Sheet)
  BY PartType
<1>2. one \in Seq(Sheet) /\ one # <<>>
  OBVIOUS
<1> HIDE DEF a, b, one
<1>3. a \o one \in Seq(Sheet) /\ a \o one # <<>>
  BY <1>1, <1>2, ConcatProperties, ConcatEqualIffEmpty
<1>4. (a \o one) \o b \in Seq(Sheet) /\ (a \o one) \o b # <<>>
  BY <1>1, <1>3, ConcatProperties, ConcatEqualIffEmpty
<1> QED BY <1>4 DEF a, b, one

LEMMA WithoutType ==
  ASSUME sheets \in Seq(Sheet), NEW i \in DOMAIN sheets
  PROVE  Without(i) \in Seq(Sheet) /\ Len(Without(i)) = Len(sheets) - 1
<1> DEFINE a == SubSeq(sheets, 1, i - 1)
           b == SubSeq(sheets, i + 1, Len(sheets))
<1>1. i \in 1 .. Len(sheets) /\ Len(sheets) \in Nat
  OBVIOUS
<1>2. a \in Seq(Sheet) /\ b \in Seq(Sheet)
  BY <1>1, PartType
<1>3. Len(a) = i - 1 /\ Len(b) = Len(sheets) - i
  <2>1. \A j \in 1 .. i - 1 : sheets[j] \in Sheet
    BY <1>1
  <2>2. \A j \in i + 1 .. Len(sheets) : sheets[j] \in Sheet
    BY <1>1
  <2>3. Len(a) = IF 1 <= i - 1 THEN (i - 1) - 1 + 1 ELSE 0
    BY <1>1, <2>1, SubSeqProperties
  <2>4. Len(b) = IF i + 1 <= Len(sheets) THEN Len(sheets) - (i + 1) + 1 ELSE 0
    BY <1>1, <2>2, SubSeqProperties
  <2> QED BY <1>1, <2>3, <2>4
<1> HIDE DEF a, b
<1>4. a \o b \in Seq(Sheet) /\ Len(a \o b) = Len(a) + Len(b)
  BY <1>2, ConcatProperties
<1>5. Len(a) + Len(b) = Len(sheets) - 1
  BY <1>1, <1>3
<1>6. a \o b \in Seq(Sheet) /\ Len(a \o b) = Len(sheets) - 1
  BY <1>4, <1>5
<1> QED BY <1>6 DEF Without, a, b

-----------------------------------------------------------------------------
(* What each operation keeps of the invariant.                              *)
LEMMA NameStepInv ==
  ASSUME IInv, NEW id \in DOMAIN names.byId
  PROVE  /\ NameDelete(id) => IInv'
         /\ \A text \in Text : NameRename(id, text) => IInv'
         /\ \A target \in Titles : NameRefersTo(id, target) => IInv'
         /\ \A hidden \in BOOLEAN : NameVisible(id, hidden) => IInv'
<1>1. IsTable(names) /\ names.byId[id] \in Name
  BY DEF IInv, IsTable, AreParts
<1>2. ASSUME NameDelete(id) PROVE IInv'
  <2>1. IsTable(names')
    BY <1>1, <1>2, RemoveKeeps DEF NameDelete, Change
  <2>2. DOMAIN sources' \subseteq Slots /\ \A slot \in DOMAIN sources' : sources'[slot] \in Source
    BY <1>2, RefreshedType DEF NameDelete
  <2> QED BY <1>2, <2>1, <2>2 DEF NameDelete, Change, MarkPrompt, IInv
<1>3. ASSUME NEW text \in Text, NameRename(id, text) PROVE IInv'
  <2>1. IsTable(names')
    BY <1>1, <1>3, RenameKeeps DEF NameRename, Change
  <2>2. DOMAIN sources' \subseteq Slots /\ \A slot \in DOMAIN sources' : sources'[slot] \in Source
    <3>1. \A source \in Source : [source EXCEPT !.text = text] \in Source
      BY DEF Source
    <3>2. \A source \in Source : RenamedSource(id, text, source) \in Source
      BY <3>1 DEF RenamedSource
    <3>3. sources' = [slot \in DOMAIN sources |-> RenamedSource(id, text, sources[slot])]
      BY <1>3 DEF NameRename
    <3> QED BY <3>2, <3>3 DEF IInv
  <2> QED BY <1>3, <2>1, <2>2 DEF NameRename, Change, MarkSemantic, IInv
<1>4. ASSUME NEW target \in Titles, NameRefersTo(id, target) PROVE IInv'
  <2>0. target \in Target
    BY TitlesAssumption
  <2>1. [names.byId[id] EXCEPT !.target = target] \in Name
        /\ KeyOf([names.byId[id] EXCEPT !.target = target]) = KeyOf(names.byId[id])
    BY <1>1, <2>0, KeyFacts
  <2>2. names' = Changed(names, id, [names.byId[id] EXCEPT !.target = target])
    BY <1>4 DEF NameRefersTo, Change, SetRefersTo
  <2>3. IsTable(names')
    BY <1>1, <2>1, <2>2, ChangeKeeps
  <2>4. DOMAIN sources' \subseteq Slots /\ \A slot \in DOMAIN sources' : sources'[slot] \in Source
    BY <1>4, RefreshedType DEF NameRefersTo
  <2> QED BY <1>4, <2>3, <2>4 DEF NameRefersTo, Change, MarkSemantic, IInv
<1>5. ASSUME NEW hidden \in BOOLEAN, NameVisible(id, hidden) PROVE IInv'
  <2>1. [names.byId[id] EXCEPT !.hidden = hidden] \in Name
        /\ KeyOf([names.byId[id] EXCEPT !.hidden = hidden]) = KeyOf(names.byId[id])
    BY <1>1, KeyFacts
  <2>2. names' = Changed(names, id, [names.byId[id] EXCEPT !.hidden = hidden])
    BY <1>5 DEF NameVisible, Change, SetHidden
  <2>3. IsTable(names')
    BY <1>1, <2>1, <2>2, ChangeKeeps
  <2> QED BY <1>5, <2>3 DEF NameVisible, Change, MarkSemantic, IInv
<1> QED BY <1>2, <1>3, <1>4, <1>5

LEMMA AddStepInv ==
  ASSUME IInv, NEW n \in Name, NamesAdd(n)
  PROVE  IInv'
<1>1. IsTable(names')
  BY AddKeeps DEF NamesAdd, Change, IInv
<1>2. DOMAIN sources' \subseteq Slots /\ \A slot \in DOMAIN sources' : sources'[slot] \in Source
  BY RefreshedType DEF NamesAdd
<1> QED BY <1>1, <1>2 DEF NamesAdd, Change, MarkPrompt, IInv

LEMMA SourceStepInv ==
  ASSUME IInv, NEW slot \in DOMAIN sources, NEW title \in Titles \cup {NoTitle}, NEW text \in Text \cup {NoText},
         SeriesSource(slot, title, text)
  PROVE  IInv'
<1> DEFINE new == [sources[slot] EXCEPT !.title = title, !.text = text]
<1>1. new \in Source /\ sheets \in Seq(Sheet)
  BY DEF IInv, Source
<1>2. sources' = [sources EXCEPT ![slot] = Resolved(sheets, names, new)]
  BY DEF SeriesSource
<1> HIDE DEF new
<1>3. Resolved(sheets, names, new) \in Source
  BY <1>1, ResolvedType
<1>4. DOMAIN sources' \subseteq Slots /\ \A other \in DOMAIN sources' : sources'[other] \in Source
  BY <1>2, <1>3 DEF IInv
<1> QED BY <1>4 DEF SeriesSource, MarkSemantic, IInv

LEMMA PlaceStepInv ==
  ASSUME IInv, NEW i \in 1 .. Len(sheets) + 1, NEW title \in Titles, PlaceSheet(i, title)
  PROVE  IInv'
<1>1. [id |-> NewId, title |-> title] \in Sheet /\ sheets \in Seq(Sheet)
  BY DEF PlaceSheet, Sheet, IInv
<1>2. sheets' \in Seq(Sheet) /\ sheets' # <<>>
  BY <1>1, InsertType DEF PlaceSheet
<1> QED BY <1>2 DEF PlaceSheet, MarkSemantic, IInv

LEMMA SheetStepInv ==
  ASSUME IInv, NEW i \in DOMAIN sheets
  PROVE  /\ DeleteSheet(i) => IInv'
         /\ \A j \in DOMAIN sheets : MoveSheet(i, j) => IInv'
         /\ \A title \in Titles : RetitleSheet(i, title) => IInv'
<1>1. sheets \in Seq(Sheet) /\ sheets[i] \in Sheet /\ DOMAIN sheets = 1 .. Len(sheets) /\ Len(sheets) \in Nat
  BY DEF IInv
<1>2. Without(i) \in Seq(Sheet) /\ Len(Without(i)) = Len(sheets) - 1
  BY <1>1, WithoutType
<1>3. ASSUME DeleteSheet(i) PROVE IInv'
  <2>1. sheets' \in Seq(Sheet) /\ sheets' # <<>>
    BY <1>1, <1>2, <1>3 DEF DeleteSheet
  <2>2. DOMAIN sources' \subseteq Slots /\ \A slot \in DOMAIN sources' : sources'[slot] \in Source
    BY <1>3 DEF DeleteSheet, Restrict, IInv
  <2> QED BY <1>3, <2>1, <2>2 DEF DeleteSheet, MarkSemantic, IInv
<1>4. ASSUME NEW j \in DOMAIN sheets, MoveSheet(i, j) PROVE IInv'
  <2> DEFINE rest == Without(i)
  <2>1. /\ j \in 1 .. Len(rest) + 1 /\ Len(sheets) - 1 \in Int /\ Len(sheets) - 1 <= Len(rest)
        /\ rest \in Seq(Sheet)
    BY <1>1, <1>2
  <2>2. sheets' = SubSeq(rest, 1, j - 1) \o <<sheets[i]>> \o SubSeq(rest, j, Len(sheets) - 1)
    BY <1>4 DEF MoveSheet
  <2> HIDE DEF rest
  <2>3. sheets' \in Seq(Sheet) /\ sheets' # <<>>
    BY <1>1, <2>1, <2>2, InsertType
  <2> QED BY <1>4, <2>3 DEF MoveSheet, MarkSemantic, IInv
<1>5. ASSUME NEW title \in Titles, RetitleSheet(i, title) PROVE IInv'
  <2>1. sheets' \in Seq(Sheet) /\ sheets' # <<>>
    <3>1. [sheets[i] EXCEPT !.title = title] \in Sheet
      BY <1>1 DEF Sheet
    <3>2. sheets' = [sheets EXCEPT ![i] = [sheets[i] EXCEPT !.title = title]]
      BY <1>1, <1>5 DEF RetitleSheet, Retitled
    <3> QED BY <1>1, <3>1, <3>2
  <2>2. IsTable(names')
    BY <1>5, RetargetKeeps, TitlesAssumption DEF RetitleSheet, IInv
  <2>3. DOMAIN sources' \subseteq Slots /\ \A slot \in DOMAIN sources' : sources'[slot] \in Source
    <3>1. \A source \in Source :
            /\ [source EXCEPT !.title = title, !.text = NoText] \in Source
            /\ [source EXCEPT !.title = IF @ = sheets[i].title THEN title ELSE @] \in Source
      BY DEF Source
    <3> DEFINE t == Retargeted(names, sheets[i].title, title)
    <3>2. \A source \in Source : RetitledSource(source, i, title, t) \in Source
      BY <3>1 DEF RetitledSource
    <3>3. sources' = [slot \in DOMAIN sources |-> RetitledSource(sources[slot], i, title, t)]
      BY <1>5 DEF RetitleSheet
    <3> HIDE DEF t
    <3> QED BY <3>2, <3>3 DEF IInv
  <2> QED BY <1>5, <2>1, <2>2, <2>3 DEF RetitleSheet, MarkSemantic, IInv
<1> QED BY <1>3, <1>4, <1>5

LEMMA SaveStepInv ==
  ASSUME IInv, Save
  PROVE  IInv'
<1>1. IsTable(names') /\ sheets' = sheets /\ sources' = sources /\ package' = Written /\ disk' = Saved
  BY MarkKeeps DEF Save, IInv
<1>2. IsFiniteSet(Written)
  <2> DEFINE entry == [id \in DOMAIN names.byId |-> Entry(sheets, names.byId[id])]
             S == {Entry(sheets, n) : n \in NamesOf(names)}
  <2>1. entry \in Surjection(DOMAIN names.byId, S)
    BY DEF Surjection, NamesOf
  <2>2. IsFiniteSet(DOMAIN names.byId)
    BY DEF IInv, IsTable, AreParts
  <2>3. IsFiniteSet(S)
    BY <2>1, <2>2, FS_Surjection
  <2> QED BY <2>3 DEF Written, IInv
<1>3. Written \subseteq Name
  <2>1. ASSUME NEW n \in NamesOf(names) PROVE Entry(sheets, n) \in Name
    <3>1. n \in Name /\ n.scope \in Ids \cup {Book}
      BY DEF Save, ValidForSave, NamesOf, IInv, IsTable, AreParts
    <3>2. n.scope # Book => Place(sheets, n.scope) \in Nat
      <4>1. n.scope # Book => \E i \in DOMAIN sheets : sheets[i].id = n.scope
        BY <3>1 DEF Ids
      <4>2. n.scope # Book => Place(sheets, n.scope) \in DOMAIN sheets
        BY <4>1 DEF Place
      <4>3. DOMAIN sheets \subseteq Nat
        BY DEF IInv
      <4> QED BY <4>2, <4>3
    <3> QED BY <3>1, <3>2 DEF Entry, Name, Book
  <2> QED BY <2>1 DEF Written, IInv
<1>4. IsFile(Saved)
  <2>1. /\ Saved.sheets = sheets /\ Saved.names = Written
        /\ Saved.sources = [slot \in DOMAIN sources |-> [sources[slot] EXCEPT !.at = NoSheet]]
    BY DEF Saved
  <2>2. DOMAIN Saved.sources \subseteq Slots /\ \A slot \in DOMAIN Saved.sources : Saved.sources[slot] \in Source
    <3>1. NoSheet \in 0 .. MaxSheetId
      BY MaxSheetIdAssumption DEF NoSheet
    <3>2. \A source \in Source : [source EXCEPT !.at = NoSheet] \in Source
      BY <3>1 DEF Source
    <3> QED BY <2>1, <3>2 DEF IInv
  <2>3. CanLoad(Saved)
    BY DEF Save
  <2> QED BY <1>2, <1>3, <2>1, <2>2, <2>3 DEF IsFile, IInv
<1> QED BY <1>1, <1>2, <1>3, <1>4 DEF IInv, Save

LEMMA ReopenStepInv ==
  ASSUME IInv, Reopen
  PROVE  IInv'
<1>1. IsFile(disk)
  BY DEF IInv
<1>2. IsTable(names')
  BY <1>1, LoadedIsTable DEF Reopen
<1>3. DOMAIN sources' \subseteq Slots /\ \A slot \in DOMAIN sources' : sources'[slot] \in Source
  BY <1>1, LoadedSourcesType DEF Reopen
<1> QED BY <1>1, <1>2, <1>3 DEF Reopen, IInv, IsFile

LEMMA StepInv == IInv /\ [Next]_vars => IInv'
<1> SUFFICES ASSUME IInv, [Next]_vars PROVE IInv'
  OBVIOUS
<1>1. CASE EditNames
  <2>1. ASSUME NEW scope \in Scopes, NEW text \in Text, NEW target \in Titles, NEW hidden \in Hidings,
               NamesAdd([scope |-> scope, text |-> text, target |-> target, hidden |-> hidden])
        PROVE  IInv'
    <3>1. scope \in Nat
      <4>1. \A i \in DOMAIN sheets : sheets[i] \in Sheet
        BY DEF IInv
      <4>2. \A i \in DOMAIN sheets : sheets[i].id \in Nat
        BY <4>1, MaxSheetIdAssumption DEF Sheet
      <4> QED BY <4>2 DEF Scopes, Ids, Book
    <3>2. [scope |-> scope, text |-> text, target |-> target, hidden |-> hidden] \in Name
      BY <3>1, TitlesAssumption, HidingsAssumption DEF Name
    <3> QED BY <2>1, <3>2, AddStepInv
  <2> QED BY <1>1, <2>1, NameStepInv DEF EditNames
<1>2. CASE EditSheets
  <2>1. /\ Len(sheets) \in Nat /\ DOMAIN sheets = 1 .. Len(sheets)
        /\ DOMAIN sheets \subseteq 1 .. Len(sheets) + 1 /\ Len(sheets) + 1 \in 1 .. Len(sheets) + 1
    BY DEF IInv
  <2>2. ASSUME NEW title \in Titles, AppendSheet(title) PROVE IInv'
    BY <2>1, <2>2, PlaceStepInv DEF AppendSheet
  <2>3. ASSUME NEW i \in DOMAIN sheets, NEW title \in Titles, AddSheet(i, title) PROVE IInv'
    BY <2>1, <2>3, PlaceStepInv DEF AddSheet
  <2> QED BY <1>2, <2>2, <2>3, SheetStepInv DEF EditSheets
<1>3. CASE EditSources
  BY <1>3, SourceStepInv DEF EditSources
<1>4. CASE Save
  BY <1>4, SaveStepInv
<1>5. CASE Reopen
  BY <1>5, ReopenStepInv
<1>6. CASE UNCHANGED vars
  BY <1>6 DEF vars, IInv
<1> QED BY <1>1, <1>2, <1>3, <1>4, <1>5, <1>6 DEF Next

LEMMA InvHolds == Spec => []IInv
BY InitInv, StepInv, PTL DEF Spec

(* Whatever is done to the names, sheets and sources of a workbook, they    *)
(* stay what the code's types allow, and the file on disk can be opened:    *)
(* the scope of each of its names is a place among its sheets.              *)
THEOREM TypesHold == Spec => []TypeOK
<1>1. IInv => TypeOK
  BY InvGives
<1> QED BY <1>1, InvHolds, PTL

(* The table's two maps stay inverse for any texts, scopes and sheets: a    *)
(* name that is in the table is the one its key finds.                      *)
THEOREM TheTableIsABijection == Spec => []TableIsABijection
<1>1. IInv => TableIsABijection
  BY InvGives
<1> QED BY <1>1, InvHolds, PTL

-----------------------------------------------------------------------------
(* What a step of the table leaves of the ids that were given: no id comes  *)
(* back, and one that stays denotes a name of the same scope.               *)
Keeps(next, byId, next2, byId2) ==
  /\ next2 >= next
  /\ \A id \in 1 .. next - 1 :
       id \in DOMAIN byId2 => id \in DOMAIN byId /\ byId2[id].scope = byId[id].scope

KeepsIds(t, u) == Keeps(t.next, t.byId, u.next, u.byId)

LEMMA AddKeepsIds ==
  ASSUME NEW t, NEW n, IsTable(t)
  PROVE  KeepsIds(t, AddName(t, n))
<1> DEFINE byId2 == Put(t.byId, t.next, n)
<1>1. t.next \in Nat /\ \A id \in 1 .. t.next - 1 : id # t.next
  BY DEF IsTable, AreParts
<1>2. DOMAIN byId2 = {t.next} \cup DOMAIN t.byId
  BY PutDomain
<1>3. \A id \in DOMAIN t.byId : id # t.next => byId2[id] = t.byId[id]
  BY PutElsewhere
<1> HIDE DEF byId2
<1>4. Keeps(t.next, t.byId, t.next + 1, byId2)
  BY <1>1, <1>2, <1>3 DEF Keeps
<1> QED BY <1>4 DEF KeepsIds, AddName, byId2

LEMMA RemoveKeepsIds ==
  ASSUME NEW t, NEW id, IsTable(t)
  PROVE  KeepsIds(t, RemoveName(t, id))
<1> DEFINE byId2 == Drop(t.byId, id)
<1>1. t.next \in Nat
  BY DEF IsTable, AreParts
<1>2. DOMAIN byId2 = DOMAIN t.byId \ {id} /\ \A x \in DOMAIN t.byId \ {id} : byId2[x] = t.byId[x]
  BY DropFacts
<1> HIDE DEF byId2
<1>3. Keeps(t.next, t.byId, t.next, byId2)
  BY <1>1, <1>2 DEF Keeps
<1> QED BY <1>3 DEF KeepsIds, RemoveName, byId2

LEMMA PutKeepsIds ==
  ASSUME NEW t, NEW id \in DOMAIN t.byId, NEW n, IsTable(t), n.scope = t.byId[id].scope
  PROVE  Keeps(t.next, t.byId, t.next, Put(t.byId, id, n))
<1> DEFINE byId2 == Put(t.byId, id, n)
<1>1. t.next \in Nat
  BY DEF IsTable, AreParts
<1>2. DOMAIN byId2 = {id} \cup DOMAIN t.byId
  BY PutDomain
<1>3. byId2[id] = n
  BY PutAt
<1>4. \A x \in DOMAIN t.byId : x # id => byId2[x] = t.byId[x]
  BY PutElsewhere
<1> HIDE DEF byId2
<1>5. \A x \in DOMAIN t.byId : byId2[x].scope = t.byId[x].scope
  BY <1>3, <1>4
<1>6. \A x \in DOMAIN byId2 : x \in DOMAIN t.byId
  BY <1>2
<1>7. Keeps(t.next, t.byId, t.next, byId2)
  BY <1>1, <1>5, <1>6 DEF Keeps
<1> QED BY <1>7 DEF byId2

LEMMA NameStepKeepsIds ==
  ASSUME IInv, NEW id \in DOMAIN names.byId
  PROVE  /\ NameDelete(id) => KeepsIds(names, names')
         /\ \A text \in Text : NameRename(id, text) => KeepsIds(names, names')
         /\ \A target \in Titles : NameRefersTo(id, target) => KeepsIds(names, names')
         /\ \A hidden \in BOOLEAN : NameVisible(id, hidden) => KeepsIds(names, names')
<1>1. IsTable(names) /\ names.byId[id] \in Name
  BY DEF IInv, IsTable, AreParts
<1>2. ASSUME NameDelete(id) PROVE KeepsIds(names, names')
  BY <1>1, <1>2, RemoveKeepsIds DEF NameDelete, Change
<1>3. ASSUME NEW text \in Text, NameRename(id, text) PROVE KeepsIds(names, names')
  <2> DEFINE n == [names.byId[id] EXCEPT !.text = text]
  <2>1. n.scope = names.byId[id].scope
    BY <1>1 DEF Name
  <2>2. names'.next = names.next /\ names'.byId = Put(names.byId, id, n)
    BY <1>3 DEF NameRename, Change, RenameName
  <2> HIDE DEF n
  <2> QED BY <1>1, <2>1, <2>2, PutKeepsIds DEF KeepsIds
<1>4. ASSUME NEW target \in Titles, NameRefersTo(id, target) PROVE KeepsIds(names, names')
  <2> DEFINE n == [names.byId[id] EXCEPT !.target = target]
  <2>1. n.scope = names.byId[id].scope
    BY <1>1 DEF Name
  <2>2. names'.next = names.next /\ names'.byId = Put(names.byId, id, n)
    BY <1>4 DEF NameRefersTo, Change, SetRefersTo, Changed
  <2> HIDE DEF n
  <2> QED BY <1>1, <2>1, <2>2, PutKeepsIds DEF KeepsIds
<1>5. ASSUME NEW hidden \in BOOLEAN, NameVisible(id, hidden) PROVE KeepsIds(names, names')
  <2> DEFINE n == [names.byId[id] EXCEPT !.hidden = hidden]
  <2>1. n.scope = names.byId[id].scope
    BY <1>1 DEF Name
  <2>2. names'.next = names.next /\ names'.byId = Put(names.byId, id, n)
    BY <1>5 DEF NameVisible, Change, SetHidden, Changed
  <2> HIDE DEF n
  <2> QED BY <1>1, <2>1, <2>2, PutKeepsIds DEF KeepsIds
<1> QED BY <1>2, <1>3, <1>4, <1>5

LEMMA SameKeepsIds ==
  ASSUME IInv, names'.next = names.next, names'.byId = names.byId
  PROVE  KeepsIds(names, names')
BY DEF KeepsIds, Keeps, IInv, IsTable, AreParts

LEMMA RetitleKeepsIds ==
  ASSUME IInv, NEW i, NEW title, RetitleSheet(i, title)
  PROVE  KeepsIds(names, names')
<1> DEFINE old == sheets[i].title
           byId2 == names'.byId
<1>1. /\ names'.next = names.next
      /\ byId2 = [id \in DOMAIN names.byId |->
                   IF names.byId[id].target = old THEN [names.byId[id] EXCEPT !.target = title] ELSE names.byId[id]]
  BY DEF RetitleSheet, Retargeted
<1> HIDE DEF byId2, old
<1>2. \A id \in DOMAIN names.byId : byId2[id].scope = names.byId[id].scope
  <2>1. \A n \in Name : [n EXCEPT !.target = title].scope = n.scope
    BY DEF Name
  <2>2. \A id \in DOMAIN names.byId : names.byId[id] \in Name
    BY DEF IInv, IsTable, AreParts
  <2> QED BY <1>1, <2>1, <2>2
<1>3. DOMAIN byId2 = DOMAIN names.byId /\ names.next \in Nat
  BY <1>1 DEF IInv, IsTable, AreParts
<1> QED BY <1>1, <1>2, <1>3 DEF KeepsIds, Keeps, byId2

LEMMA StepKeepsIds == IInv /\ [Next]_vars => Reopen \/ KeepsIds(names, names')
<1> SUFFICES ASSUME IInv, [Next]_vars PROVE Reopen \/ KeepsIds(names, names')
  OBVIOUS
<1>1. CASE EditNames
  <2>1. ASSUME NEW n, NamesAdd(n) PROVE KeepsIds(names, names')
    BY <2>1, AddKeepsIds DEF NamesAdd, Change, IInv
  <2> QED BY <1>1, <2>1, NameStepKeepsIds DEF EditNames
<1>2. CASE EditSheets
  <2>1. ASSUME NEW i, NEW title, RetitleSheet(i, title) PROVE KeepsIds(names, names')
    BY <2>1, RetitleKeepsIds
  <2>2. CASE names' = names
    BY <2>2, SameKeepsIds
  <2> QED BY <1>2, <2>1, <2>2 DEF EditSheets, AppendSheet, AddSheet, PlaceSheet, DeleteSheet, MoveSheet
<1>3. CASE EditSources
  <2>1. names' = names
    BY <1>3 DEF EditSources, SeriesSource
  <2> QED BY <2>1, SameKeepsIds
<1>4. CASE Save
  <2>1. names'.next = names.next /\ names'.byId = names.byId
    BY <1>4 DEF Save, MarkClean
  <2> QED BY <2>1, SameKeepsIds
<1>5. CASE UNCHANGED vars
  <2>1. names' = names
    BY <1>5 DEF vars
  <2> QED BY <2>1, SameKeepsIds
<1> QED BY <1>1, <1>2, <1>3, <1>4, <1>5 DEF Next

(* While a workbook is open no id of a name is given twice and none comes   *)
(* to denote a name of another scope, so that a Name object stays true.     *)
THEOREM IdsAreKept == Spec => NamesKeepTheirIds
<1>1. IInv /\ [Next]_vars =>
        [Reopen \/
         /\ names'.next >= names.next
         /\ \A id \in 1 .. names.next - 1 :
              id \in DOMAIN names'.byId =>
                /\ id \in DOMAIN names.byId
                /\ names'.byId[id].scope = names.byId[id].scope]_vars
  BY StepKeepsIds DEF KeepsIds, Keeps
<1> QED BY <1>1, InvHolds, PTL DEF Spec, NamesKeepTheirIds

-----------------------------------------------------------------------------
(* Sources of series.  A source that was resolved stays so as long as each  *)
(* edit of the names is followed by a resolution, which renaming and the    *)
(* operations on sheets leave out.                                          *)
ResolvingOperations == {"add", "delete", "refers", "hide", "source", "save", "reopen"}

LEMMA ResolveIgnoresAt ==
  ASSUME NEW ss, NEW t, NEW source \in Source, NEW at \in 0 .. MaxSheetId
  PROVE  Resolve(ss, t, [source EXCEPT !.at = at]) = Resolve(ss, t, source)
<1> DEFINE other == [source EXCEPT !.at = at]
<1>1. other.host = source.host /\ other.title = source.title /\ other.text = source.text
  BY DEF Source
<1> HIDE DEF other
<1>2. NameIn(ss, t, other) = NameIn(ss, t, source)
  BY <1>1 DEF NameIn
<1>3. Resolve(ss, t, other) = Resolve(ss, t, source)
  BY <1>1, <1>2 DEF Resolve
<1> QED BY <1>3 DEF other

LEMMA ResolvedIsResolved ==
  ASSUME NEW ss \in Seq(Sheet), NEW t, NEW source \in Source
  PROVE  Resolved(ss, t, source).at = Resolve(ss, t, Resolved(ss, t, source))
<1> DEFINE at == Resolve(ss, t, source)
<1>1. at \in 0 .. MaxSheetId
  <2>1. Resolved(ss, t, source) \in Source
    BY ResolvedType
  <2>2. Resolved(ss, t, source).at = at
    BY DEF Resolved, Source
  <2> QED BY <2>1, <2>2 DEF Source
<1>2. Resolved(ss, t, source) = [source EXCEPT !.at = at] /\ [source EXCEPT !.at = at].at = at
  BY DEF Resolved, Source
<1> HIDE DEF at
<1>3. Resolve(ss, t, [source EXCEPT !.at = at]) = Resolve(ss, t, source)
  BY <1>1, ResolveIgnoresAt
<1> QED BY <1>2, <1>3 DEF at

(* What a source means depends on the keys and on the targets of names.     *)
LEMMA ResolveLooksAt ==
  ASSUME NEW ss, NEW t, NEW u, NEW source, u.ids = t.ids,
         \A id \in DOMAIN t.byId : u.byId[id].target = t.byId[id].target,
         IsTable(t)
  PROVE  Resolve(ss, u, source) = Resolve(ss, t, source)
<1>1. \A scope, text : LookupInScope(u, scope, text) = LookupInScope(t, scope, text)
  BY DEF LookupInScope
<1>2. NameIn(ss, u, source) = NameIn(ss, t, source)
  BY <1>1 DEF NameIn, Lookup
<1>3. NameIn(ss, t, source) # NoName => NameIn(ss, t, source) \in DOMAIN t.byId
  <2>1. \A scope, text : LookupInScope(t, scope, text) # NoName => LookupInScope(t, scope, text) \in DOMAIN t.byId
    BY DEF LookupInScope, IsTable, AreParts
  <2> QED BY <2>1 DEF NameIn, Lookup
<1> QED BY <1>2, <1>3 DEF Resolve

LEMMA RefreshedResolved ==
  ASSUME IInv, NEW t, NEW slot \in DOMAIN sources
  PROVE  Refreshed(t)[slot].at = Resolve(sheets, t, Refreshed(t)[slot])
BY ResolvedIsResolved DEF Refreshed, IInv

LEMMA StepResolved ==
  ASSUME Operations \subseteq ResolvingOperations, IInv, SourcesAreResolved, [Next]_vars
  PROVE  SourcesAreResolved'
<1>1. IsTable(names) /\ sheets \in Seq(Sheet)
  BY DEF IInv
<1>2. \A t : DOMAIN Refreshed(t) = DOMAIN sources
  BY DEF Refreshed
<1>3. CASE sources' = Refreshed(names') /\ sheets' = sheets
  BY <1>2, <1>3, RefreshedResolved DEF SourcesAreResolved
<1>4. CASE /\ sources' = sources /\ sheets' = sheets /\ names'.ids = names.ids
           /\ \A id \in DOMAIN names.byId : names'.byId[id].target = names.byId[id].target
  BY <1>1, <1>4, ResolveLooksAt DEF SourcesAreResolved
<1>5. ASSUME NEW id \in DOMAIN names.byId, NEW hidden \in BOOLEAN, NameVisible(id, hidden)
      PROVE  SourcesAreResolved'
  <2> DEFINE n == [names.byId[id] EXCEPT !.hidden = hidden]
             byId2 == Put(names.byId, id, n)
  <2>1. n.target = names.byId[id].target
    BY <1>1 DEF IsTable, AreParts, Name
  <2>2. byId2[id] = n
    BY PutAt
  <2>3. \A x \in DOMAIN names.byId : x # id => byId2[x] = names.byId[x]
    BY PutElsewhere
  <2>4. names'.ids = names.ids /\ names'.byId = byId2
    BY <1>5 DEF NameVisible, Change, SetHidden, Changed
  <2>5. sources' = sources /\ sheets' = sheets
    BY <1>5 DEF NameVisible, Change
  <2> HIDE DEF byId2, n
  <2> QED BY <1>4, <2>1, <2>2, <2>3, <2>4, <2>5
<1>6. CASE EditNames
  <2>1. ASSUME NEW n, NamesAdd(n) PROVE SourcesAreResolved'
    BY <1>3, <2>1 DEF NamesAdd, Change
  <2>2. ASSUME NEW id, NameDelete(id) PROVE SourcesAreResolved'
    BY <1>3, <2>2 DEF NameDelete, Change
  <2>3. ASSUME NEW id, NEW target, NameRefersTo(id, target) PROVE SourcesAreResolved'
    BY <1>3, <2>3 DEF NameRefersTo, Change
  <2>4. \A id, text : ~NameRename(id, text)
    BY DEF NameRename, ResolvingOperations
  <2> QED BY <1>5, <1>6, <2>1, <2>2, <2>3, <2>4 DEF EditNames
<1>7. ~EditSheets
  BY DEF EditSheets, ResolvingOperations, AppendSheet, AddSheet, DeleteSheet, RetitleSheet, MoveSheet
<1>8. ASSUME NEW slot \in DOMAIN sources, NEW title \in Titles \cup {NoTitle},
             NEW text \in Text \cup {NoText}, SeriesSource(slot, title, text)
      PROVE  SourcesAreResolved'
  <2> DEFINE new == [sources[slot] EXCEPT !.title = title, !.text = text]
  <2>1. new \in Source
    BY DEF IInv, Source
  <2>2. sources' = [sources EXCEPT ![slot] = Resolved(sheets, names, new)] /\ sheets' = sheets /\ names' = names
    BY <1>8 DEF SeriesSource
  <2> HIDE DEF new
  <2>3. Resolved(sheets, names, new).at = Resolve(sheets, names, Resolved(sheets, names, new))
    BY <1>1, <2>1, ResolvedIsResolved
  <2> QED BY <2>2, <2>3 DEF SourcesAreResolved
<1>9. CASE Save
  <2>1. names'.ids = names.ids /\ names'.byId = names.byId /\ sources' = sources /\ sheets' = sheets
    BY <1>9 DEF Save, MarkClean
  <2> QED BY <1>4, <2>1
<1>10. CASE Reopen
  <2>1. disk.sheets \in Seq(Sheet) /\ \A slot \in DOMAIN disk.sources : disk.sources[slot] \in Source
    BY DEF IInv, IsFile
  <2>2. /\ sheets' = disk.sheets /\ DOMAIN sources' = DOMAIN disk.sources
        /\ \A slot \in DOMAIN disk.sources : sources'[slot] = Resolved(disk.sheets, names', disk.sources[slot])
    BY <1>10 DEF Reopen, LoadedSources
  <2> QED BY <2>1, <2>2, ResolvedIsResolved DEF SourcesAreResolved
<1>11. CASE UNCHANGED vars
  BY <1>4, <1>11 DEF vars
<1> QED BY <1>6, <1>7, <1>8, <1>9, <1>10, <1>11 DEF Next, EditSources

LEMMA InitResolved == Init => SourcesAreResolved
<1> SUFFICES ASSUME Init, NEW slot \in DOMAIN sources
             PROVE  sources[slot].at = Resolve(sheets, names, sources[slot])
  BY DEF SourcesAreResolved
<1>1. File.sheets \in Seq(Sheet) /\ \A x \in DOMAIN File.sources : File.sources[x] \in Source
  BY FileAssumption DEF IsFile
<1>2. /\ sheets = File.sheets /\ DOMAIN sources = DOMAIN File.sources
      /\ sources[slot] = Resolved(File.sheets, names, File.sources[slot])
  BY DEF Init, Show, LoadedSources
<1> QED BY <1>1, <1>2, ResolvedIsResolved

(* As long as no name is renamed and no sheet is touched, what a chart      *)
(* source was resolved to is what its text means, for every workbook.       *)
THEOREM SourcesStayResolved ==
  ASSUME Operations \subseteq ResolvingOperations
  PROVE  Spec => []SourcesAreResolved
<1>1. IInv /\ SourcesAreResolved /\ [Next]_vars => SourcesAreResolved'
  BY StepResolved
<1> QED BY <1>1, InitResolved, InvHolds, PTL DEF Spec

-----------------------------------------------------------------------------
(* As long as no sheet is deleted, a name's scope is a sheet that is there, *)
(* and the places in the package are places of sheets.                      *)
PackageFits == \A e \in package : e.scope # Book => e.scope \in 1 .. Len(sheets)

SaveInv == ValidForSave /\ PackageFits

LEMMA LoadedNames ==
  ASSUME NEW entries, IsFiniteSet(entries), entries \subseteq Name
  PROVE  /\ NamesOf(LoadTable(entries)) = Distinct(entries)
         /\ \A id \in DOMAIN LoadTable(entries).byId : LoadTable(entries).byId[id] \in entries
<1> DEFINE S == Distinct(entries)
           N == Cardinality(S)
           byId == Listed(S)
<1>1. IsFiniteSet(S) /\ S \subseteq entries
  BY DistinctFacts
<1>2. N \in Nat /\ byId \in Bijection(1 .. N, S)
  BY <1>1, FS_CardinalityType DEF Listed, ExistsBijection
<1>3. byId \in [1 .. N -> S] /\ \A n \in S : \E a \in 1 .. N : byId[a] = n
  BY <1>2 DEF Bijection, Injection, Surjection
<1>4. LoadTable(entries).byId = byId
  BY DEF LoadTable
<1> HIDE DEF byId, N, S
<1>5. {byId[id] : id \in DOMAIN byId} = S
  BY <1>3
<1>6. \A id \in DOMAIN byId : byId[id] \in entries
  BY <1>1, <1>3
<1> QED BY <1>4, <1>5, <1>6 DEF NamesOf, S

LEMMA LoadedScopes ==
  ASSUME NEW file, IsFile(file), NEW id \in DOMAIN Loaded(file).byId
  PROVE  Loaded(file).byId[id].scope \in {file.sheets[i].id : i \in DOMAIN file.sheets} \cup {Book}
<1> DEFINE S == {Scoped(file.sheets, e) : e \in file.names}
           scoped == [e \in file.names |-> Scoped(file.sheets, e)]
<1>1. S \subseteq Name
  BY ScopedType DEF IsFile, CanLoad
<1>2. IsFiniteSet(S)
  <2>1. scoped \in Surjection(file.names, S)
    BY DEF Surjection
  <2> QED BY <2>1, FS_Surjection DEF IsFile
<1>3. \A n \in S : n.scope \in {file.sheets[i].id : i \in DOMAIN file.sheets} \cup {Book}
  <2>1. ASSUME NEW e \in file.names
        PROVE  Scoped(file.sheets, e).scope \in {file.sheets[i].id : i \in DOMAIN file.sheets} \cup {Book}
    <3>1. e \in Name /\ (e.scope # Book => e.scope \in DOMAIN file.sheets)
      BY DEF IsFile, CanLoad
    <3>2. Scoped(file.sheets, e).scope = IF e.scope = Book THEN Book ELSE file.sheets[e.scope].id
      BY <3>1 DEF Scoped, Name
    <3> QED BY <3>1, <3>2
  <2> QED BY <2>1
<1> HIDE DEF S
<1>4. LoadTable(S).byId[id] \in S
  BY <1>1, <1>2, LoadedNames DEF Loaded, S
<1> QED BY <1>3, <1>4 DEF Loaded, S

(* Each sheet is still there, at some place, after one was put in or moved. *)
LEMMA PlacedSheets ==
  ASSUME sheets \in Seq(Sheet), NEW i \in 1 .. Len(sheets) + 1, NEW title \in Titles, PlaceSheet(i, title)
  PROVE  /\ Len(sheets') = Len(sheets) + 1
         /\ \A k \in 1 .. Len(sheets) : \E j \in 1 .. Len(sheets') : sheets'[j] = sheets[k]
         /\ i = Len(sheets) + 1 => \A k \in 1 .. Len(sheets) : sheets'[k] = sheets[k]
<1> DEFINE sheet == [id |-> NewId, title |-> title]
           r == With(sheets, i, sheet)
<1>1. sheet \in Sheet
  BY DEF PlaceSheet, Sheet
<1>2. sheets' = r
  BY DEF PlaceSheet, With
<1> HIDE DEF sheet
<1>3. /\ r \in Seq(Sheet) /\ Len(r) = Len(sheets) + 1
      /\ \A k \in 1 .. i - 1 : r[k] = sheets[k]
      /\ \A k \in i .. Len(sheets) : r[k + 1] = sheets[k]
  BY <1>1, InsertFacts
<1> HIDE DEF r
<1>4. ASSUME NEW k \in 1 .. Len(sheets) PROVE \E j \in 1 .. Len(r) : r[j] = sheets[k]
  <2>1. CASE k < i
    <3>1. k \in 1 .. i - 1 /\ k \in 1 .. Len(r)
      BY <1>3, <2>1
    <3> QED BY <1>3, <3>1
  <2>2. CASE ~(k < i)
    <3>1. k \in i .. Len(sheets) /\ k + 1 \in 1 .. Len(r)
      BY <1>3, <2>2
    <3> QED BY <1>3, <3>1
  <2> QED BY <2>1, <2>2
<1>5. i = Len(sheets) + 1 => \A k \in 1 .. Len(sheets) : r[k] = sheets[k]
  BY <1>3
<1> QED BY <1>2, <1>3, <1>4, <1>5

LEMMA MovedSheets ==
  ASSUME sheets \in Seq(Sheet), NEW i \in DOMAIN sheets, NEW j \in DOMAIN sheets, MoveSheet(i, j)
  PROVE  /\ Len(sheets') = Len(sheets)
         /\ \A k \in 1 .. Len(sheets) : \E m \in 1 .. Len(sheets') : sheets'[m] = sheets[k]
<1> DEFINE rest == Without(i)
           moved == sheets[i]
           r == With(rest, j, moved)
<1>1. i \in 1 .. Len(sheets) /\ j \in 1 .. Len(sheets) /\ Len(sheets) \in Nat /\ sheets[i] \in Sheet
  OBVIOUS
<1>2. /\ rest \in Seq(Sheet) /\ Len(rest) = Len(sheets) - 1
      /\ \A k \in 1 .. i - 1 : rest[k] = sheets[k]
      /\ \A k \in i + 1 .. Len(sheets) : rest[k - 1] = sheets[k]
  <2>1. rest = Less(sheets, i)
    BY DEF Without, Less
  <2> HIDE DEF rest
  <2> QED BY <1>1, <2>1, RemoveFacts
<1>3. sheets' = r
  BY <1>2 DEF MoveSheet, With
<1> HIDE DEF rest
<1>4. j \in 1 .. Len(rest) + 1
  BY <1>1, <1>2
<1>5. /\ r \in Seq(Sheet) /\ Len(r) = Len(rest) + 1
      /\ \A k \in 1 .. j - 1 : r[k] = rest[k]
      /\ r[j] = moved
      /\ \A k \in j .. Len(rest) : r[k + 1] = rest[k]
  <2>1. rest \in Seq(Sheet) /\ moved \in Sheet
    BY <1>1, <1>2
  <2> HIDE DEF moved
  <2> QED BY SMTT(30), <1>4, <2>1, InsertFacts
<1> HIDE DEF r
<1>6. ASSUME NEW k \in 1 .. Len(rest) PROVE \E m \in 1 .. Len(r) : r[m] = rest[k]
  <2>1. CASE k < j
    <3>1. k \in 1 .. j - 1 /\ k \in 1 .. Len(r)
      BY <1>1, <1>2, <1>5, <2>1
    <3> QED BY <1>5, <3>1
  <2>2. CASE ~(k < j)
    <3>1. k \in j .. Len(rest) /\ k + 1 \in 1 .. Len(r)
      BY <1>1, <1>2, <1>5, <2>2
    <3> QED BY <1>5, <3>1
  <2> QED BY <2>1, <2>2
<1>7. ASSUME NEW k \in 1 .. Len(sheets), k # i PROVE \E m \in 1 .. Len(rest) : rest[m] = sheets[k]
  <2>1. CASE k < i
    <3>1. k \in 1 .. i - 1 /\ k \in 1 .. Len(rest)
      BY <1>1, <1>2, <2>1
    <3> QED BY <1>2, <3>1
  <2>2. CASE k > i
    <3>1. k \in i + 1 .. Len(sheets) /\ k - 1 \in 1 .. Len(rest)
      BY <1>1, <1>2, <2>2
    <3> QED BY <1>2, <3>1
  <2> QED BY <1>1, <1>7, <2>1, <2>2
<1>8. j \in 1 .. Len(r) /\ Len(r) = Len(sheets)
  BY <1>1, <1>2, <1>5
<1> QED BY <1>3, <1>5, <1>6, <1>7, <1>8

LEMMA PutScopes ==
  ASSUME IInv, ValidForSave, NEW id \in DOMAIN names.byId, NEW n, n.scope = names.byId[id].scope,
         names'.byId = Put(names.byId, id, n), sheets' = sheets
  PROVE  ValidForSave'
<1> DEFINE byId2 == Put(names.byId, id, n)
<1>1. DOMAIN byId2 = {id} \cup DOMAIN names.byId
  BY PutDomain
<1>2. byId2[id] = n
  BY PutAt
<1>3. \A x \in DOMAIN names.byId : x # id => byId2[x] = names.byId[x]
  BY PutElsewhere
<1> HIDE DEF byId2
<1>4. \A x \in DOMAIN byId2 : byId2[x].scope \in Ids \cup {Book}
  BY <1>1, <1>2, <1>3 DEF ValidForSave
<1>5. Ids' = Ids
  BY DEF Ids
<1> QED BY <1>4, <1>5 DEF ValidForSave, byId2

LEMMA EditNamesSave ==
  ASSUME IInv, ValidForSave, EditNames
  PROVE  ValidForSave'
<1>1. \A id \in DOMAIN names.byId : names.byId[id] \in Name
  BY DEF IInv, IsTable, AreParts
<1>2. sheets' = sheets /\ Ids' = Ids
  BY DEF EditNames, NamesAdd, NameDelete, NameRename, NameRefersTo, NameVisible, Change, Ids
<1>3. ASSUME NEW n, n.scope \in Scopes, NamesAdd(n) PROVE ValidForSave'
  <2> DEFINE byId2 == Put(names.byId, names.next, n)
  <2>1. DOMAIN byId2 = {names.next} \cup DOMAIN names.byId
    BY PutDomain
  <2>2. byId2[names.next] = n
    BY PutAt
  <2>3. \A x \in DOMAIN names.byId : x # names.next => byId2[x] = names.byId[x]
    BY PutElsewhere
  <2>4. names'.byId = byId2
    BY <1>3 DEF NamesAdd, Change, AddName
  <2> HIDE DEF byId2
  <2>5. \A x \in DOMAIN byId2 : byId2[x].scope \in Ids \cup {Book}
    BY <1>3, <2>1, <2>2, <2>3 DEF ValidForSave, Scopes
  <2> QED BY <1>2, <2>4, <2>5 DEF ValidForSave
<1>4. ASSUME NEW id \in DOMAIN names.byId, NameDelete(id) PROVE ValidForSave'
  <2>1. names'.byId = Drop(names.byId, id)
    BY <1>4 DEF NameDelete, Change, RemoveName
  <2> DEFINE byId2 == Drop(names.byId, id)
  <2>2. DOMAIN byId2 = DOMAIN names.byId \ {id} /\ \A x \in DOMAIN byId2 : byId2[x] = names.byId[x]
    BY DropFacts
  <2> HIDE DEF byId2
  <2>3. \A x \in DOMAIN byId2 : byId2[x].scope \in Ids \cup {Book}
    BY <2>2 DEF ValidForSave
  <2> QED BY <1>2, <2>1, <2>3 DEF ValidForSave, byId2
<1>5. ASSUME NEW id \in DOMAIN names.byId, NEW text, NameRename(id, text) PROVE ValidForSave'
  <2>1. [names.byId[id] EXCEPT !.text = text].scope = names.byId[id].scope
    BY <1>1 DEF Name
  <2>2. names'.byId = Put(names.byId, id, [names.byId[id] EXCEPT !.text = text])
    BY <1>5 DEF NameRename, Change, RenameName
  <2> QED BY <1>2, <2>1, <2>2, PutScopes
<1>6. ASSUME NEW id \in DOMAIN names.byId, NEW target, NameRefersTo(id, target) PROVE ValidForSave'
  <2>1. [names.byId[id] EXCEPT !.target = target].scope = names.byId[id].scope
    BY <1>1 DEF Name
  <2>2. names'.byId = Put(names.byId, id, [names.byId[id] EXCEPT !.target = target])
    BY <1>6 DEF NameRefersTo, Change, SetRefersTo, Changed
  <2> QED BY <1>2, <2>1, <2>2, PutScopes
<1>7. ASSUME NEW id \in DOMAIN names.byId, NEW hidden, NameVisible(id, hidden) PROVE ValidForSave'
  <2>1. [names.byId[id] EXCEPT !.hidden = hidden].scope = names.byId[id].scope
    BY <1>1 DEF Name
  <2>2. names'.byId = Put(names.byId, id, [names.byId[id] EXCEPT !.hidden = hidden])
    BY <1>7 DEF NameVisible, Change, SetHidden, Changed
  <2> QED BY <1>2, <2>1, <2>2, PutScopes
<1>8. ASSUME NEW scope \in Scopes, NEW text, NEW target, NEW hidden,
             NamesAdd([scope |-> scope, text |-> text, target |-> target, hidden |-> hidden])
      PROVE  ValidForSave'
  <2>1. [scope |-> scope, text |-> text, target |-> target, hidden |-> hidden].scope \in Scopes
    OBVIOUS
  <2> QED BY <1>3, <1>8, <2>1
<1> QED BY <1>4, <1>5, <1>6, <1>7, <1>8 DEF EditNames

LEMMA EditSheetsSave ==
  ASSUME "remove" \notin Operations, IInv, SaveInv, EditSheets
  PROVE  SaveInv'
<1>1. sheets \in Seq(Sheet) /\ Len(sheets) \in Nat /\ DOMAIN sheets = 1 .. Len(sheets)
  BY DEF IInv
<1>2. sheets' \in Seq(Sheet) /\ DOMAIN sheets' = 1 .. Len(sheets') /\ Len(sheets') \in Nat
  <2>1. IInv'
    BY StepInv DEF Next
  <2> QED BY <2>1 DEF IInv
<1>3. ASSUME names' = names, package' = package, Len(sheets') >= Len(sheets),
             \A k \in 1 .. Len(sheets) : \E j \in 1 .. Len(sheets') : sheets'[j] = sheets[k]
      PROVE  SaveInv'
  <2>1. Ids \subseteq Ids'
    BY <1>1, <1>2, <1>3 DEF Ids
  <2>2. ValidForSave'
    BY <1>3, <2>1 DEF SaveInv, ValidForSave
  <2>3. PackageFits'
    BY <1>1, <1>2, <1>3 DEF SaveInv, PackageFits
  <2> QED BY <2>2, <2>3 DEF SaveInv
<1>4. ASSUME NEW i \in 1 .. Len(sheets) + 1, NEW title \in Titles, PlaceSheet(i, title) PROVE SaveInv'
  <2>1. names' = names /\ package' = package
    BY <1>4 DEF PlaceSheet
  <2>2. /\ Len(sheets') = Len(sheets) + 1
        /\ \A k \in 1 .. Len(sheets) : \E j \in 1 .. Len(sheets') : sheets'[j] = sheets[k]
    BY <1>1, <1>4, PlacedSheets
  <2> QED BY <1>1, <1>3, <2>1, <2>2
<1>5. ASSUME NEW i \in DOMAIN sheets, NEW j \in DOMAIN sheets, MoveSheet(i, j) PROVE SaveInv'
  <2>1. names' = names /\ package' = package
    BY <1>5 DEF MoveSheet
  <2>2. /\ Len(sheets') = Len(sheets)
        /\ \A k \in 1 .. Len(sheets) : \E m \in 1 .. Len(sheets') : sheets'[m] = sheets[k]
    BY <1>1, <1>5, MovedSheets
  <2> QED BY <1>1, <1>3, <2>1, <2>2
<1>6. ASSUME NEW i \in DOMAIN sheets, NEW title \in Titles, RetitleSheet(i, title) PROVE SaveInv'
  <2>1. package' = package /\ sheets' = [sheets EXCEPT ![i].title = title]
    BY <1>6 DEF RetitleSheet, Retitled
  <2>2. Len(sheets') = Len(sheets) /\ \A k \in DOMAIN sheets : sheets'[k].id = sheets[k].id
    <3>1. \A sheet \in Sheet : [sheet EXCEPT !.title = title].id = sheet.id
      BY DEF Sheet
    <3> QED BY <1>1, <2>1, <3>1
  <2>3. Ids' = Ids
    BY <1>1, <1>2, <2>2 DEF Ids
  <2>4. names'.byId = [id \in DOMAIN names.byId |->
                         IF names.byId[id].target = sheets[i].title
                         THEN [names.byId[id] EXCEPT !.target = title] ELSE names.byId[id]]
    BY <1>6 DEF RetitleSheet, Retargeted
  <2>5. \A n \in Name : [n EXCEPT !.target = title].scope = n.scope
    BY DEF Name
  <2>6. \A id \in DOMAIN names.byId : names.byId[id] \in Name
    BY DEF IInv, IsTable, AreParts
  <2>7. \A id \in DOMAIN names.byId : names'.byId[id].scope = names.byId[id].scope
    BY <2>4, <2>5, <2>6
  <2>8. DOMAIN names'.byId = DOMAIN names.byId
    BY <2>4
  <2>9. ValidForSave'
    BY <2>3, <2>7, <2>8 DEF SaveInv, ValidForSave
  <2>10. PackageFits'
    BY <2>1, <2>2 DEF SaveInv, PackageFits
  <2> QED BY <2>9, <2>10 DEF SaveInv
<1>7. \A i : ~DeleteSheet(i)
  BY DEF DeleteSheet
<1>8. Len(sheets) + 1 \in 1 .. Len(sheets) + 1 /\ \A i \in DOMAIN sheets : i \in 1 .. Len(sheets) + 1
  BY <1>1
<1> QED BY <1>4, <1>5, <1>6, <1>7, <1>8 DEF EditSheets, AppendSheet, AddSheet

LEMMA LoadedFits ==
  ASSUME NEW file, IsFile(file), sheets' = file.sheets, names' = Loaded(file), package' = file.names
  PROVE  SaveInv'
<1>1. ValidForSave'
  BY LoadedScopes DEF ValidForSave, Ids
<1>2. PackageFits'
  <2>1. DOMAIN file.sheets = 1 .. Len(file.sheets)
    BY DEF IsFile
  <2> QED BY <2>1 DEF IsFile, CanLoad, PackageFits
<1> QED BY <1>1, <1>2 DEF SaveInv

LEMMA StepSave ==
  ASSUME "remove" \notin Operations, IInv, SaveInv, [Next]_vars
  PROVE  SaveInv'
<1>1. CASE EditNames
  <2>1. sheets' = sheets /\ package' = package
    BY <1>1 DEF EditNames, NamesAdd, NameDelete, NameRename, NameRefersTo, NameVisible, Change
  <2>2. ValidForSave'
    BY <1>1, EditNamesSave DEF SaveInv
  <2> QED BY <2>1, <2>2 DEF SaveInv, PackageFits
<1>2. CASE EditSheets
  BY <1>2, EditSheetsSave
<1>3. CASE EditSources
  BY <1>3 DEF EditSources, SeriesSource, SaveInv, ValidForSave, PackageFits, Ids
<1>4. CASE Save
  <2>1. names'.byId = names.byId /\ sheets' = sheets /\ package' = Written
    BY <1>4 DEF Save, MarkClean
  <2>2. CanLoad(Saved) /\ Saved.names = Written /\ Saved.sheets = sheets
    BY <1>4 DEF Save, Saved
  <2>3. PackageFits'
    <3>1. DOMAIN sheets = 1 .. Len(sheets)
      BY DEF IInv
    <3> QED BY <2>1, <2>2, <3>1 DEF PackageFits, CanLoad
  <2> QED BY <2>1, <2>3 DEF SaveInv, ValidForSave, Ids
<1>5. CASE Reopen
  <2>1. IsFile(disk)
    BY DEF IInv
  <2> QED BY <1>5, <2>1, LoadedFits DEF Reopen
<1>6. CASE UNCHANGED vars
  BY <1>6 DEF vars, SaveInv, ValidForSave, PackageFits, Ids
<1> QED BY <1>1, <1>2, <1>3, <1>4, <1>5, <1>6 DEF Next

LEMMA InitSave == Init => SaveInv
<1> SUFFICES ASSUME Init PROVE SaveInv
  OBVIOUS
<1>1. IsFile(File) /\ sheets = File.sheets /\ names = Loaded(File) /\ package = File.names
  BY FileAssumption DEF Init, Show
<1>2. ValidForSave
  BY <1>1, LoadedScopes DEF ValidForSave, Ids
<1>3. PackageFits
  <2>1. DOMAIN File.sheets = 1 .. Len(File.sheets)
    BY <1>1 DEF IsFile
  <2> QED BY <1>1, <2>1 DEF IsFile, CanLoad, PackageFits
<1> QED BY <1>2, <1>3 DEF SaveInv

-----------------------------------------------------------------------------
(* What is on disk.  The names of a file, with the sheets they are scoped   *)
(* to, are those of the table when it is clean, as long as no sheet changes *)
(* its place.  A file none of whose names have one key loads all of them.   *)
NamesIn(ss, entries) == {Scoped(ss, e) : e \in entries}
KeysDiffer(ns) == \A m, n \in ns : KeyOf(m) = KeyOf(n) => m = n

DiskInv ==
  /\ package = disk.names
  /\ ~semantic => disk.sheets = sheets
  /\ ~names.dirty => NamesIn(sheets, package) = NamesOf(names)
  /\ KeysDiffer(NamesIn(disk.sheets, disk.names))

LEMMA DiskInvGives ==
  ASSUME IInv, DiskInv
  PROVE  CleanNamesAreOnDisk
BY DEF IInv, IsFile, DiskInv, CleanNamesAreOnDisk, NamesIn

LEMMA DistinctAll ==
  ASSUME NEW S, KeysDiffer(S)
  PROVE  Distinct(S) = S
<1>1. ASSUME NEW n \in S PROVE n = CHOOSE m \in S : KeyOf(m) = KeyOf(n)
  <2> DEFINE m == CHOOSE m \in S : KeyOf(m) = KeyOf(n)
  <2>1. m \in S /\ KeyOf(m) = KeyOf(n)
    OBVIOUS
  <2> QED BY <2>1 DEF KeysDiffer
<1> QED BY <1>1 DEF Distinct

LEMMA LoadedAll ==
  ASSUME NEW file, IsFile(file), KeysDiffer(NamesIn(file.sheets, file.names))
  PROVE  NamesOf(Loaded(file)) = NamesIn(file.sheets, file.names) /\ Loaded(file).dirty = FALSE
<1> DEFINE S == NamesIn(file.sheets, file.names)
           scoped == [e \in file.names |-> Scoped(file.sheets, e)]
<1>1. S \subseteq Name
  BY ScopedType DEF IsFile, CanLoad, NamesIn
<1>2. IsFiniteSet(S)
  <2>1. scoped \in Surjection(file.names, S)
    BY DEF Surjection, NamesIn
  <2> QED BY <2>1, FS_Surjection DEF IsFile
<1>3. Loaded(file) = LoadTable(S)
  BY DEF Loaded, NamesIn
<1> HIDE DEF S
<1>4. NamesOf(LoadTable(S)) = Distinct(S)
  BY <1>1, <1>2, LoadedNames
<1>5. Distinct(S) = S
  BY DistinctAll DEF S
<1>6. LoadTable(S).dirty = FALSE
  BY DEF LoadTable
<1> QED BY <1>3, <1>4, <1>5, <1>6 DEF S

LEMMA TableKeysDiffer ==
  ASSUME NEW t, IsTable(t)
  PROVE  KeysDiffer(NamesOf(t))
<1> SUFFICES ASSUME NEW a \in DOMAIN t.byId, NEW b \in DOMAIN t.byId, KeyOf(t.byId[a]) = KeyOf(t.byId[b])
             PROVE  t.byId[a] = t.byId[b]
  BY DEF KeysDiffer, NamesOf
<1>1. t.ids[KeyOf(t.byId[a])] = a /\ t.ids[KeyOf(t.byId[b])] = b
  BY DEF IsTable, AreParts, AreInverse
<1> QED BY <1>1

(* Writing a name and reading it gives the name back.                       *)
LEMMA ScopedEntry ==
  ASSUME IInv, NEW n \in Name, n.scope \in Ids \cup {Book}
  PROVE  Scoped(sheets, Entry(sheets, n)) = n
<1>1. CASE n.scope = Book
  BY <1>1 DEF Scoped, Entry, Name
<1>2. CASE n.scope # Book
  <2> DEFINE place == Place(sheets, n.scope)
  <2>1. place \in DOMAIN sheets /\ sheets[place].id = n.scope
    BY <1>2 DEF Ids, Place
  <2>2. place # Book
    BY <2>1 DEF IInv, Book
  <2>3. Entry(sheets, n) = [n EXCEPT !.scope = place]
    BY <1>2 DEF Entry, Name
  <2> HIDE DEF place
  <2>4. [n EXCEPT !.scope = place].scope = place
    BY DEF Name
  <2>5. Scoped(sheets, Entry(sheets, n)) = [[n EXCEPT !.scope = place] EXCEPT !.scope = sheets[place].id]
    BY <2>2, <2>3, <2>4 DEF Scoped
  <2>6. [[n EXCEPT !.scope = place] EXCEPT !.scope = n.scope] = n
    BY DEF Name
  <2> QED BY <2>1, <2>5, <2>6
<1> QED BY <1>1, <1>2

LEMMA WrittenNames ==
  ASSUME IInv, ValidForSave, DiskInv
  PROVE  NamesIn(sheets, Written) = NamesOf(names)
<1>1. CASE ~names.dirty
  BY <1>1 DEF DiskInv, Written
<1>2. CASE names.dirty
  <2>1. \A n \in NamesOf(names) : n \in Name /\ n.scope \in Ids \cup {Book}
    BY DEF IInv, IsTable, AreParts, ValidForSave, NamesOf
  <2>2. \A n \in NamesOf(names) : Scoped(sheets, Entry(sheets, n)) = n
    BY <2>1, ScopedEntry
  <2>3. NamesIn(sheets, Written) = {Scoped(sheets, Entry(sheets, n)) : n \in NamesOf(names)}
    BY <1>2 DEF NamesIn, Written
  <2> QED BY <2>2, <2>3
<1> QED BY <1>1, <1>2

LEMMA SameIdsSameNames ==
  ASSUME SaveInv, NEW ss, \A k \in 1 .. Len(sheets) : ss[k].id = sheets[k].id
  PROVE  NamesIn(ss, package) = NamesIn(sheets, package)
<1>1. \A e \in package : Scoped(ss, e) = Scoped(sheets, e)
  BY DEF SaveInv, PackageFits, Scoped
<1> QED BY <1>1 DEF NamesIn

KeepingOperations == {"add", "delete", "rename", "refers", "hide", "source", "append", "retitle", "save", "reopen"}

LEMMA EditSheetsDisk ==
  ASSUME Operations \subseteq KeepingOperations, IInv, SaveInv, DiskInv, EditSheets
  PROVE  DiskInv'
<1>1. sheets \in Seq(Sheet) /\ Len(sheets) \in Nat /\ DOMAIN sheets = 1 .. Len(sheets)
  BY DEF IInv
<1>2. /\ \A i, title : ~AddSheet(i, title)
      /\ \A i : ~DeleteSheet(i)
      /\ \A i, j : ~MoveSheet(i, j)
  BY DEF AddSheet, DeleteSheet, MoveSheet, KeepingOperations
<1>3. ASSUME NEW title \in Titles, AppendSheet(title) PROVE DiskInv'
  <2>1. PlaceSheet(Len(sheets) + 1, title) /\ Len(sheets) + 1 \in 1 .. Len(sheets) + 1
    BY <1>1, <1>3 DEF AppendSheet
  <2>2. \A k \in 1 .. Len(sheets) : sheets'[k] = sheets[k]
    BY <1>1, <2>1, PlacedSheets
  <2>3. NamesIn(sheets', package) = NamesIn(sheets, package)
    BY <2>2, SameIdsSameNames
  <2>4. names' = names /\ package' = package /\ disk' = disk /\ semantic' = TRUE
    BY <2>1 DEF PlaceSheet, MarkSemantic
  <2> QED BY <2>3, <2>4 DEF DiskInv
<1>4. ASSUME NEW i \in DOMAIN sheets, NEW title \in Titles, RetitleSheet(i, title) PROVE DiskInv'
  <2>1. /\ package' = package /\ disk' = disk /\ semantic' = TRUE /\ sheets' = [sheets EXCEPT ![i].title = title]
    BY <1>4 DEF RetitleSheet, Retitled, MarkSemantic
  <2>2. \A k \in 1 .. Len(sheets) : sheets'[k].id = sheets[k].id
    <3>1. \A sheet \in Sheet : [sheet EXCEPT !.title = title].id = sheet.id
      BY DEF Sheet
    <3> QED BY <1>1, <2>1, <3>1
  <2>3. NamesIn(sheets', package) = NamesIn(sheets, package)
    BY <2>2, SameIdsSameNames
  <2>4. /\ names'.byId = [id \in DOMAIN names.byId |->
                            IF names.byId[id].target = sheets[i].title
                            THEN [names.byId[id] EXCEPT !.target = title] ELSE names.byId[id]]
        /\ names'.dirty = (names.dirty \/ \E id \in DOMAIN names.byId : names.byId[id].target = sheets[i].title)
    BY <1>4 DEF RetitleSheet, Retargeted
  <2>5. ~names'.dirty => ~names.dirty /\ \A id \in DOMAIN names.byId : names'.byId[id] = names.byId[id]
    BY <2>4
  <2>6. DOMAIN names'.byId = DOMAIN names.byId
    BY <2>4
  <2>7. ~names'.dirty => ~names.dirty /\ NamesOf(names)' = NamesOf(names)
    BY <2>5, <2>6 DEF NamesOf
  <2> QED BY <2>1, <2>3, <2>7 DEF DiskInv
<1> QED BY <1>2, <1>3, <1>4 DEF EditSheets

LEMMA LoadedOnDisk ==
  ASSUME NEW file, IsFile(file), KeysDiffer(NamesIn(file.sheets, file.names)),
         sheets' = file.sheets, names' = Loaded(file), package' = file.names, disk' = file
  PROVE  DiskInv'
BY LoadedAll DEF DiskInv

LEMMA StepDisk ==
  ASSUME Operations \subseteq KeepingOperations, IInv, SaveInv, DiskInv, [Next]_vars
  PROVE  DiskInv'
<1>1. ASSUME names'.dirty, UNCHANGED <<sheets, package, disk>>, semantic \/ semantic' => semantic'
      PROVE  DiskInv'
  BY <1>1 DEF DiskInv
<1>2. CASE EditNames
  <2>1. \A n : NamesAdd(n) => DiskInv'
    BY <1>1 DEF NamesAdd, Change, AddName, MarkPrompt
  <2>2. \A id : NameDelete(id) => DiskInv'
    BY <1>1 DEF NameDelete, Change, RemoveName, MarkPrompt
  <2>3. \A id, text : NameRename(id, text) => DiskInv'
    BY <1>1 DEF NameRename, Change, RenameName, MarkSemantic
  <2>4. \A id, target : NameRefersTo(id, target) => DiskInv'
    BY <1>1 DEF NameRefersTo, Change, SetRefersTo, Changed, MarkSemantic
  <2>5. \A id, hidden : NameVisible(id, hidden) => DiskInv'
    BY <1>1 DEF NameVisible, Change, SetHidden, Changed, MarkSemantic
  <2> QED BY <1>2, <2>1, <2>2, <2>3, <2>4, <2>5 DEF EditNames
<1>3. CASE EditSheets
  BY <1>3, EditSheetsDisk
<1>4. CASE EditSources
  BY <1>4 DEF EditSources, SeriesSource, MarkSemantic, DiskInv
<1>5. CASE Save
  <2>1. /\ names'.byId = names.byId /\ sheets' = sheets /\ package' = Written
        /\ disk'.names = Written /\ disk'.sheets = sheets
    BY <1>5 DEF Save, MarkClean, Saved
  <2>2. NamesIn(sheets, Written) = NamesOf(names)
    BY <1>5, WrittenNames DEF Save
  <2>3. KeysDiffer(NamesOf(names))
    BY TableKeysDiffer DEF IInv
  <2>4. NamesOf(names)' = NamesOf(names)
    BY <2>1 DEF NamesOf
  <2> QED BY <2>1, <2>2, <2>3, <2>4 DEF DiskInv
<1>6. CASE Reopen
  <2>1. IsFile(disk) /\ KeysDiffer(NamesIn(disk.sheets, disk.names))
    BY DEF IInv, DiskInv
  <2> QED BY <1>6, <2>1, LoadedOnDisk DEF Reopen
<1>7. CASE UNCHANGED vars
  BY <1>7 DEF vars, DiskInv, NamesOf
<1> QED BY <1>2, <1>3, <1>4, <1>5, <1>6, <1>7 DEF Next

LEMMA InitDisk ==
  ASSUME KeysDiffer(NamesIn(File.sheets, File.names))
  PROVE  Init => DiskInv
<1> SUFFICES ASSUME Init PROVE DiskInv
  OBVIOUS
<1>1. /\ IsFile(File) /\ sheets = File.sheets /\ names = Loaded(File) /\ package = File.names /\ disk = File
  BY FileAssumption DEF Init, Show
<1>2. NamesOf(names) = NamesIn(sheets, package)
  BY <1>1, LoadedAll
<1> QED BY <1>1, <1>2 DEF DiskInv

(* As long as no sheet changes its place, a workbook whose names and sheets *)
(* are clean has them on disk, with their scopes and what they refer to:    *)
(* closing it without saving loses no name.  The file that is opened has no *)
(* two names of one key: of such names the reader keeps one.                *)
THEOREM CleanNamesStayOnDisk ==
  ASSUME Operations \subseteq KeepingOperations, KeysDiffer(NamesIn(File.sheets, File.names))
  PROVE  Spec => []CleanNamesAreOnDisk
<1>1. IInv /\ SaveInv /\ [Next]_vars => SaveInv'
  BY StepSave DEF KeepingOperations
<1>2. IInv /\ SaveInv /\ DiskInv /\ [Next]_vars => DiskInv'
  BY StepDisk
<1>3. IInv /\ DiskInv => CleanNamesAreOnDisk
  BY DiskInvGives
<1> QED BY <1>1, <1>2, <1>3, InitSave, InitDisk, InvHolds, PTL DEF Spec
=============================================================================
