-------------------------- MODULE DefinedNameTable --------------------------
(* The table of a workbook's defined names: the names by their ids, and the *)
(* ids by the keys they are looked up with. A key is the scope of a name,   *)
(* the workbook or one sheet, and its text without regard to case. The two  *)
(* maps are edited apart and have to stay inverse to each other.            *)
EXTENDS Naturals, FiniteSets, Sequences, Functions

CONSTANTS
  Text,        \* the texts a name can have in a file
  Valid,       \* those a program may give to a name
  Canonical,   \* a text without its case
  Target,      \* what a name can refer to
  MaxNameId    \* the largest id of a name; the code's is the largest u32

ASSUME CanonicalAssumption == Canonical \in [Text -> Text]
ASSUME MaxNameIdAssumption == MaxNameId \in Nat /\ Valid \subseteq Text

Book == 0      \* the scope of a name of the whole workbook: no sheet has this id
NoName == 0    \* no name has this id

Name == [scope : Nat, text : Text, target : Target, hidden : BOOLEAN]
Key == Nat \X Text
KeyOf(n) == <<n.scope, Canonical[n.text]>>

EmptyTable == [next |-> 1, byId |-> <<>>, ids |-> <<>>, dirty |-> FALSE]

-----------------------------------------------------------------------------
(* Looking a name up in one scope, and from a sheet.                        *)
LookupInScope(t, scope, text) ==
  LET key == <<scope, Canonical[text]>> IN
  IF key \in DOMAIN t.ids THEN t.ids[key] ELSE NoName

Lookup(t, sheet, text) ==
  IF LookupInScope(t, sheet, text) # NoName THEN LookupInScope(t, sheet, text)
  ELSE LookupInScope(t, Book, text)

-----------------------------------------------------------------------------
(* Adding, renaming, changing and removing a name.                          *)
CanAdd(t, n) ==
  /\ n.text \in Valid
  /\ KeyOf(n) \notin DOMAIN t.ids
  /\ t.next < MaxNameId

(* A map with one more entry, and with one less.                            *)
Put(f, x, v) == [y \in {x} \cup DOMAIN f |-> IF y = x THEN v ELSE f[y]]
Drop(f, x) == Restrict(f, DOMAIN f \ {x})

AddName(t, n) ==
  [next |-> t.next + 1, byId |-> Put(t.byId, t.next, n),
   ids |-> Put(t.ids, KeyOf(n), t.next), dirty |-> TRUE]

CanRename(t, id, text) ==
  LET key == <<t.byId[id].scope, Canonical[text]>> IN
  /\ text \in Valid
  /\ key \in DOMAIN t.ids => t.ids[key] = id

(* A slip: the old key is taken out after the new one was put in.           *)
RekeyedLate(ids, id, old, new) == Drop(Put(ids, new, id), old)
Rekeyed(ids, id, old, new) == Put(Drop(ids, old), new, id)

RenameName(t, id, text) ==
  LET new == [t.byId[id] EXCEPT !.text = text] IN
  IF t.byId[id].text = text THEN t
  ELSE [next |-> t.next, byId |-> Put(t.byId, id, new),
        ids |-> Rekeyed(t.ids, id, KeyOf(t.byId[id]), KeyOf(new)), dirty |-> TRUE]

(* What a name refers to and whether it is hidden are no part of its key.   *)
Changed(t, id, n) ==
  [next |-> t.next, byId |-> Put(t.byId, id, n), ids |-> t.ids, dirty |-> TRUE]

SetRefersTo(t, id, target) ==
  IF t.byId[id].target = target THEN t
  ELSE Changed(t, id, [t.byId[id] EXCEPT !.target = target])

(* A slip: the table stays clean.                                           *)
SetHiddenOnly(t, id, hidden) ==
  [Changed(t, id, [t.byId[id] EXCEPT !.hidden = hidden]) EXCEPT !.dirty = t.dirty]

SetHidden(t, id, hidden) ==
  IF t.byId[id].hidden = hidden THEN t
  ELSE Changed(t, id, [t.byId[id] EXCEPT !.hidden = hidden])

(* A slip: the id of the last name is given back.                           *)
RemoveNameAndId(t, id) ==
  [next |-> IF id = t.next - 1 THEN id ELSE t.next, byId |-> Drop(t.byId, id),
   ids |-> Drop(t.ids, KeyOf(t.byId[id])), dirty |-> TRUE]

RemoveName(t, id) ==
  [next |-> t.next, byId |-> Drop(t.byId, id),
   ids |-> Drop(t.ids, KeyOf(t.byId[id])), dirty |-> TRUE]

MarkClean(t) == [next |-> t.next, byId |-> t.byId, ids |-> t.ids, dirty |-> FALSE]

-----------------------------------------------------------------------------
(* Loading: the names of a file get the ids from 1 on (which name gets      *)
(* which is left open); of names with one key all but one are dropped (the  *)
(* first one stays; which is first is left open).                           *)
Distinct(names) == {n \in names : n = CHOOSE m \in names : KeyOf(m) = KeyOf(n)}

Listed(names) == CHOOSE f \in Bijection(1 .. Cardinality(names), names) : TRUE

LoadTable(names) ==
  LET byId == Listed(Distinct(names)) IN
  [next |-> Cardinality(Distinct(names)) + 1, byId |-> byId,
   ids |-> [key \in {KeyOf(n) : n \in Distinct(names)} |-> CHOOSE id \in DOMAIN byId : KeyOf(byId[id]) = key],
   dirty |-> FALSE]

NamesOf(t) == {t.byId[id] : id \in DOMAIN t.byId}

-----------------------------------------------------------------------------
(* The two maps are inverse: every name is found by its key, and every key  *)
(* finds a name that has it. Ids below the next one are given.              *)
AreInverse(next, byId, ids) ==
  /\ \A id \in DOMAIN byId :
       id \in 1 .. next - 1 /\ KeyOf(byId[id]) \in DOMAIN ids /\ ids[KeyOf(byId[id])] = id
  /\ \A key \in DOMAIN ids : ids[key] \in DOMAIN byId /\ KeyOf(byId[ids[key]]) = key
=============================================================================
