---------------------------- MODULE DefinedNames ----------------------------
(* The defined names of one open workbook, with what depends on them: the   *)
(* sheets they are scoped and refer to, the sources of chart series that    *)
(* are spelled with them, and the file they are saved to, where the scope   *)
(* of a name is the place of its sheet and not the sheet's id.              *)
(*                                                                         *)
(* A range a name or a series refers to is the title of its sheet; a source *)
(* keeps the sheet it was resolved to. Left out: references in R1C1 style,  *)
(* names qualified with the workbook, full references, read-only workbooks  *)
(* (every edit fails), cells and formulas.                                  *)
EXTENDS DefinedNameTable

CONSTANTS
  Titles,       \* titles of sheets
  Slots,        \* sources of chart series
  File,         \* the workbook that is opened: its sheets, names and sources
  Operations,   \* the operations of a run, by name
  Hidings,      \* whether names are hidden when they are added
  MaxSheetId    \* bound: ids of sheets

ASSUME TitlesAssumption == Target = Titles
ASSUME MaxSheetIdAssumption == MaxSheetId \in Nat
ASSUME HidingsAssumption == Hidings \subseteq BOOLEAN

NoTitle == ""   \* a source that names no sheet
NoText == ""    \* a source that is a range
NoSheet == 0

Sheet == [id : 1 .. MaxSheetId, title : Titles]
Source == [host : 1 .. MaxSheetId, title : Titles \cup {NoTitle}, text : Text \cup {NoText}, at : 0 .. MaxSheetId]

VARIABLES
  sheets,     \* the sheets in order: their ids and titles
  names,      \* the table of names
  sources,    \* the sources of the series of charts
  package,    \* the names in the workbook part of the package
  disk,       \* the file that was saved last
  prompt,     \* prompt_dirty
  semantic    \* semantic_dirty

vars == <<sheets, names, sources, package, disk, prompt, semantic>>

Ids == {sheets[i].id : i \in DOMAIN sheets}
SheetTitled(ss, title) ==
  IF \E i \in DOMAIN ss : ss[i].title = title
  THEN ss[CHOOSE i \in DOMAIN ss : ss[i].title = title].id ELSE NoSheet

-----------------------------------------------------------------------------
(* What a source of a series means: the name it is spelled with, and the    *)
(* sheet the range is on.                                                   *)
NameIn(ss, t, source) ==
  CASE source.text = NoText -> NoName
    [] source.text # NoText /\ source.title = NoTitle -> Lookup(t, source.host, source.text)
    [] OTHER -> IF SheetTitled(ss, source.title) = NoSheet THEN NoName
                ELSE LookupInScope(t, SheetTitled(ss, source.title), source.text)

Resolve(ss, t, source) ==
  CASE source.text = NoText -> SheetTitled(ss, source.title)
    [] OTHER -> IF NameIn(ss, t, source) = NoName THEN NoSheet
                ELSE SheetTitled(ss, t.byId[NameIn(ss, t, source)].target)

Resolved(ss, t, source) == [source EXCEPT !.at = Resolve(ss, t, source)]

(* A slip: the sources are left as they are.                                *)
Unrefreshed(t) == sources
Refreshed(t) == [slot \in DOMAIN sources |-> Resolved(sheets, t, sources[slot])]

-----------------------------------------------------------------------------
(* The scope of a name in the file is a place among the sheets.             *)

Place(ss, id) == CHOOSE i \in DOMAIN ss : ss[i].id = id

Entry(ss, n) == [n EXCEPT !.scope = IF @ = Book THEN Book ELSE Place(ss, @)]

Scoped(ss, e) == [e EXCEPT !.scope = IF @ = Book THEN Book ELSE ss[@].id]

CanLoad(file) == \A e \in file.names : e.scope # Book => e.scope \in DOMAIN file.sheets

(* The workbook that is opened is one that can be.                          *)
IsFile(file) ==
  /\ file.sheets \in Seq(Sheet) /\ file.sheets # <<>>
  /\ IsFiniteSet(file.names) /\ file.names \subseteq Name
  /\ DOMAIN file.sources \subseteq Slots /\ \A slot \in DOMAIN file.sources : file.sources[slot] \in Source
  /\ CanLoad(file)

ASSUME FileAssumption == IsFile(File)

Loaded(file) == LoadTable({Scoped(file.sheets, e) : e \in file.names})

LoadedSources(file, t) ==
  [slot \in DOMAIN file.sources |-> Resolved(file.sheets, t, file.sources[slot])]

Show(file) ==
  /\ sheets = file.sheets
  /\ names = Loaded(file)
  /\ sources = LoadedSources(file, names)
  /\ package = file.names

Init == Show(File) /\ disk = File /\ prompt = FALSE /\ semantic = FALSE

-----------------------------------------------------------------------------
(* The names of the workbook and of its sheets. Adding and deleting set the *)
(* prompt flag alone; renaming does not resolve the sources again.          *)
Change(t) ==
  /\ names' = t
  /\ UNCHANGED <<sheets, package, disk>>

MarkSemantic == prompt' = TRUE /\ semantic' = TRUE
MarkPrompt == prompt' = TRUE /\ UNCHANGED semantic

NamesAdd(n) ==
  /\ "add" \in Operations
  /\ CanAdd(names, n)
  /\ Change(AddName(names, n))
  /\ sources' = Refreshed(names')
  /\ MarkPrompt

NameDelete(id) ==
  /\ "delete" \in Operations
  /\ Change(RemoveName(names, id))
  /\ sources' = Refreshed(names')
  /\ MarkPrompt

RenamedSource(id, text, source) ==
  LET old == names.byId[id] IN
  IF /\ source.text # NoText /\ Canonical[source.text] = Canonical[old.text]
     /\ NameIn(sheets, names, source) = id
  THEN [source EXCEPT !.text = text] ELSE source

NameRename(id, text) ==
  /\ "rename" \in Operations
  /\ CanRename(names, id, text)
  /\ text # names.byId[id].text
  /\ Change(RenameName(names, id, text))
  /\ sources' = [slot \in DOMAIN sources |-> RenamedSource(id, text, sources[slot])]
  /\ MarkSemantic

NameRefersTo(id, target) ==
  /\ "refers" \in Operations
  /\ target # names.byId[id].target
  /\ Change(SetRefersTo(names, id, target))
  /\ sources' = Refreshed(names')
  /\ MarkSemantic

NameVisible(id, hidden) ==
  /\ "hide" \in Operations
  /\ hidden # names.byId[id].hidden
  /\ Change(SetHidden(names, id, hidden))
  /\ UNCHANGED sources
  /\ MarkSemantic

SeriesSource(slot, title, text) ==
  /\ "source" \in Operations
  /\ title # NoTitle \/ text # NoText
  /\ sources' = [sources EXCEPT ![slot] =
                   Resolved(sheets, names, [@ EXCEPT !.title = title, !.text = text])]
  /\ UNCHANGED <<sheets, names, package, disk>>
  /\ MarkSemantic

-----------------------------------------------------------------------------
(* Sheets are added, moved and deleted without a look at the names and at   *)
(* the sources of charts on other sheets.                                   *)
NewId == CHOOSE id \in 1 .. MaxSheetId + 1 : id - 1 \in Ids /\ \A other \in Ids : other < id

PlaceSheet(i, title) ==
  /\ NewId \in 1 .. MaxSheetId
  /\ SheetTitled(sheets, title) = NoSheet
  /\ sheets' = SubSeq(sheets, 1, i - 1) \o <<[id |-> NewId, title |-> title]>> \o SubSeq(sheets, i, Len(sheets))
  /\ UNCHANGED <<names, sources, package, disk>>
  /\ MarkSemantic

AppendSheet(title) ==
  "append" \in Operations /\ PlaceSheet(Len(sheets) + 1, title)

AddSheet(i, title) ==
  "insert" \in Operations /\ PlaceSheet(i, title)

Without(i) == SubSeq(sheets, 1, i - 1) \o SubSeq(sheets, i + 1, Len(sheets))

MoveSheet(i, j) ==
  /\ "move" \in Operations
  /\ i # j
  /\ sheets' = SubSeq(Without(i), 1, j - 1) \o <<sheets[i]>> \o SubSeq(Without(i), j, Len(sheets) - 1)
  /\ UNCHANGED <<names, sources, package, disk>>
  /\ MarkSemantic

(* A slip: the last sheet can go.                                           *)
DeleteAnySheet(i) ==
  /\ "remove" \in Operations
  /\ sheets' = Without(i)
  /\ sources' = Restrict(sources, {slot \in DOMAIN sources : sources[slot].host # sheets[i].id})
  /\ UNCHANGED <<names, package, disk>>
  /\ MarkSemantic

DeleteSheet(i) ==
  /\ "remove" \in Operations
  /\ Len(sheets) > 1
  /\ sheets' = Without(i)
  /\ sources' = Restrict(sources, {slot \in DOMAIN sources : sources[slot].host # sheets[i].id})
  /\ UNCHANGED <<names, package, disk>>
  /\ MarkSemantic

(* A sheet that gets a title takes along the names that refer to it and the *)
(* sources: those spelled with a name that exists keep it, with the new     *)
(* title as their qualifier; any other that is resolved becomes the range.  *)
Retargeted(t, old, title) ==
  [next |-> t.next,
   byId |-> [id \in DOMAIN t.byId |->
               IF t.byId[id].target = old THEN [t.byId[id] EXCEPT !.target = title] ELSE t.byId[id]],
   ids |-> t.ids,
   dirty |-> t.dirty \/ \E id \in DOMAIN t.byId : t.byId[id].target = old]

Retitled(i, title) == [sheets EXCEPT ![i].title = title]

SpelledWithAName(source, i, title, t) ==
  NameIn(IF source.title = title THEN Retitled(i, title) ELSE sheets, t, source) # NoName

RetitledSource(source, i, title, t) ==
  LET id == sheets[i].id IN
  CASE SpelledWithAName(source, i, title, t) ->
         [source EXCEPT !.title = IF @ = sheets[i].title THEN title ELSE @]
    [] ~SpelledWithAName(source, i, title, t) /\ source.at = id ->
         [source EXCEPT !.title = title, !.text = NoText]
    [] OTHER -> source

RetitleFails(i, title, t) ==
  \E slot \in DOMAIN sources :
    /\ ~SpelledWithAName(sources[slot], i, title, t)
    /\ sources[slot].at \notin Ids \cup {NoSheet}

RetitleSheet(i, title) ==
  LET t == Retargeted(names, sheets[i].title, title) IN
  /\ "retitle" \in Operations
  /\ SheetTitled(sheets, title) = NoSheet
  /\ ~RetitleFails(i, title, t)
  /\ sheets' = Retitled(i, title)
  /\ names' = t
  /\ sources' = [slot \in DOMAIN sources |-> RetitledSource(sources[slot], i, title, t)]
  /\ UNCHANGED <<package, disk>>
  /\ MarkSemantic

-----------------------------------------------------------------------------
(* Saving writes the names when the table is dirty and leaves the old ones  *)
(* in the package otherwise; what it wrote is loaded before it is taken.    *)
ValidForSave == \A id \in DOMAIN names.byId : names.byId[id].scope \in Ids \cup {Book}

Written == IF names.dirty THEN {Entry(sheets, n) : n \in NamesOf(names)} ELSE package

Saved ==
  [sheets |-> sheets, names |-> Written,
   sources |-> [slot \in DOMAIN sources |-> [sources[slot] EXCEPT !.at = NoSheet]]]

Save ==
  /\ "save" \in Operations
  /\ ValidForSave
  /\ CanLoad(Saved)
  /\ disk' = Saved
  /\ package' = Written
  /\ names' = MarkClean(names)
  /\ prompt' = FALSE /\ semantic' = FALSE
  /\ UNCHANGED <<sheets, sources>>

(* The workbook is closed, saved or not, and opened again.                  *)
Reopen ==
  /\ "reopen" \in Operations
  /\ sheets' = disk.sheets
  /\ names' = Loaded(disk)
  /\ sources' = LoadedSources(disk, names')
  /\ package' = disk.names
  /\ prompt' = FALSE /\ semantic' = FALSE
  /\ UNCHANGED disk

-----------------------------------------------------------------------------
(* Names are added to the workbook and to its sheets. The Names object of a *)
(* deleted sheet could still add one, which is left out.                    *)
Scopes == Ids \cup {Book}

EditNames ==
  \/ \E scope \in Scopes, text \in Text, target \in Titles, hidden \in Hidings :
       NamesAdd([scope |-> scope, text |-> text, target |-> target, hidden |-> hidden])
  \/ \E id \in DOMAIN names.byId :
       \/ NameDelete(id)
       \/ \E text \in Text : NameRename(id, text)
       \/ \E target \in Titles : NameRefersTo(id, target)
       \/ \E hidden \in BOOLEAN : NameVisible(id, hidden)

EditSheets ==
  \/ \E title \in Titles : AppendSheet(title)
  \/ \E i \in DOMAIN sheets :
       \/ DeleteSheet(i)
       \/ \E title \in Titles : AddSheet(i, title) \/ RetitleSheet(i, title)
       \/ \E j \in DOMAIN sheets : MoveSheet(i, j)

EditSources ==
  \E slot \in DOMAIN sources, title \in Titles \cup {NoTitle}, text \in Text \cup {NoText} :
    SeriesSource(slot, title, text)

Next == EditNames \/ EditSheets \/ EditSources \/ Save \/ Reopen

Spec == Init /\ [][Next]_vars

-----------------------------------------------------------------------------
(* The variables hold what the code's types allow, and the file on disk is  *)
(* one that can be opened.                                                  *)
TypeOK ==
  /\ sheets \in Seq(Sheet) /\ sheets # <<>>
  /\ DOMAIN names.byId \subseteq Nat /\ NamesOf(names) \subseteq Name
  /\ names.next \in Nat \ {0} /\ names.dirty \in BOOLEAN
  /\ DOMAIN sources \subseteq Slots /\ \A slot \in DOMAIN sources : sources[slot] \in Source
  /\ package \subseteq Name /\ IsFile(disk)
  /\ prompt \in BOOLEAN /\ semantic \in BOOLEAN

(* The two maps of the table are inverse: every name is found by its key    *)
(* and every key finds a name that has it, whatever was added, renamed to   *)
(* another case of itself or to a name that was, removed or loaded.         *)
TableIsABijection == AreInverse(names.next, names.byId, names.ids)

(* While a workbook is open an id that is free stays free, and a name keeps *)
(* its scope: a Name object never comes to denote another name.             *)
NamesKeepTheirIds ==
  [][Reopen \/
     /\ names'.next >= names.next
     /\ \A id \in 1 .. names.next - 1 :
          id \in DOMAIN names'.byId =>
            /\ id \in DOMAIN names.byId
            /\ names'.byId[id].scope = names.byId[id].scope]_vars

(* The sheet a source was resolved to is the one its text means now: what   *)
(* a chart shows is what it shows after the file is opened again.           *)
SourcesAreResolved ==
  \A slot \in DOMAIN sources : sources[slot].at = Resolve(sheets, names, sources[slot])

(* When neither the table nor the workbook is dirty, opening the file gives *)
(* the names that are there, with their scopes and what they refer to.      *)
CleanNamesAreOnDisk ==
  ~semantic /\ ~names.dirty =>
    /\ CanLoad(disk)
    /\ {Scoped(disk.sheets, e) : e \in disk.names} = NamesOf(names)

(* A save is not refused for the workbook's names: a name scoped to a sheet *)
(* refers to one of the workbook's, and what is written can be loaded. The  *)
(* documents ask it of every save; deleting a sheet keeps its names, so     *)
(* that DefinedNames_deletes.cfg refutes it.                                *)
CanBeSaved == ValidForSave /\ CanLoad(Saved)

=============================================================================
