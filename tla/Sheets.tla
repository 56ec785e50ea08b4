------------------------------- MODULE Sheets -------------------------------
(* One session of the runtime: its open workbooks, their sheets in order,  *)
(* the active workbook and the selected sheet, and the handles a program   *)
(* holds. Every operation that adds, deletes, copies, moves, hides or      *)
(* selects sheets is an operator from a session to its possible outcomes,  *)
(* so that an operation can be built from others as it is in the code, with *)
(* the snapshot and the rollback where the code has them.                  *)
(*                                                                         *)
(* Left out: cells, names and package parts of a sheet (data stands for    *)
(* them), Find, clipboard and active chart, DisplayAlerts (off), pivots,   *)
(* templates of new sheets, handles that dispatch makes for its own use    *)
(* and gives to nobody.                                                    *)
EXTENDS Picking, SequencesExt, FiniteSetsExt, Naturals, Sequences

CONSTANTS
  Files,        \* what a workbook that is opened can hold: sequences of sheets
  Kinds,        \* kinds of sheets that are added
  ReadOnly,     \* the ways to open a workbook: a subset of BOOLEAN
  MaxBooks,     \* bound: workbooks open at a time
  MaxSheets,    \* bound: sheets of one workbook
  MaxId,        \* bound: ids of sheets
  MaxHandles    \* bound: sheet and range handles that are not stale

VARIABLE session

None == 0
NoSelection == [book |-> None, sheet |-> None]
Blank == 0      \* the data of a sheet nothing was written to

SheetRecord == [id : Nat \ {0}, kind : {"grid", "chart"}, shown : BOOLEAN, data : Nat]

-----------------------------------------------------------------------------
(* Reading a session: its workbooks are [sheets, readOnly] by their handle. *)
(* A handle that is not stale is [kind, book, sheet, gone]; gone is no part of the code: it *)
(* says that the sheet the handle was made for is no more.                 *)
SheetsOf(s, b) == s.books[b].sheets
WithSheets(s, b, sheets) == [s EXCEPT !.books[b].sheets = sheets]
Ids(sheets) == {sheet.id : sheet \in ToSet(sheets)}
At(sheets, id) == CHOOSE i \in DOMAIN sheets : sheets[i].id = id
SheetOf(s, b, id) == SheetsOf(s, b)[At(SheetsOf(s, b), id)]
ShownIn(sheets) == {i \in DOMAIN sheets : sheets[i].shown}
FirstShown(sheets) == sheets[Min(ShownIn(sheets))].id
NextPlace(sheets) == Len(sheets) + 1
NewId(sheets) == Max(Ids(sheets)) + 1
(* What is read from a file: ids are positive and not used twice, or the   *)
(* file is refused. One without a sheet that is shown would be opened, with *)
(* no selection; it is left out here: neither this program (see             *)
(* SomethingIsShown) nor Excel writes one.                                  *)
ASSUME FilesAssumption ==
  \A sheets \in Files :
    /\ sheets \in Seq(SheetRecord) /\ ShownIn(sheets) # {}
    /\ \A i, j \in DOMAIN sheets : sheets[i].id = sheets[j].id => i = j
ASSUME KindsAssumption == Kinds \subseteq {"grid", "chart"} /\ ReadOnly \subseteq BOOLEAN
ASSUME BoundsAssumption == MaxBooks \in Nat /\ MaxSheets \in Nat /\ MaxId \in Nat /\ MaxHandles \in Nat

IdSeq(sheets) == [i \in DOMAIN sheets |-> sheets[i].id]

PlacesOf(sheets, ids) == {i \in DOMAIN sheets : sheets[i].id \in ids}
BlockOf(s, b, kinds) ==
  Picked(SheetsOf(s, b), {i \in DOMAIN SheetsOf(s, b) : SheetsOf(s, b)[i].kind \in kinds})

(* An outcome: the session an operation leaves, and whether it succeeded.  *)
Succeeds(s) == [s |-> s, ok |-> TRUE]
Fails(s) == [s |-> s, ok |-> FALSE]

-----------------------------------------------------------------------------
(* Selection, opening and closing.                                         *)
Select(s, b, id) == [s EXCEPT !.active = b, !.selection = [book |-> b, sheet |-> id]]
DefaultSelection(s, b) == [book |-> b, sheet |-> FirstShown(SheetsOf(s, b))]

OpenWorkbook(s, book) ==
  LET b == s.next IN
  [s EXCEPT !.books = [c \in {b} \cup DOMAIN @ |-> IF c = b THEN book ELSE @[c]],
            !.next = b + 1, !.active = b,
            !.selection = [book |-> b, sheet |-> FirstShown(book.sheets)]]

(* The sheets (b, ids) are no more: what the handles do not know.          *)
Gone(s, b, ids) ==
  [s EXCEPT !.live = {IF h.book = b /\ h.sheet \in ids THEN [h EXCEPT !.gone = TRUE] ELSE h : h \in @}]

Retire(s, hs) == [s EXCEPT !.live = @ \ hs]

OwnedBy(s, b) == {h \in s.live : h.book = b}

Closed(s, b) ==
  LET rest == [s EXCEPT !.books = [c \in DOMAIN @ \ {b} |-> @[c]]]
      gone == Gone(rest, b, Ids(SheetsOf(s, b)))
  IN  Retire(gone, OwnedBy(gone, b))

CloseWorkbook(s, b) ==
  LET t == Closed(s, b)
      last == IF DOMAIN t.books = {} THEN None ELSE Max(DOMAIN t.books)
      a == IF t.active # b THEN t.active ELSE last
  IN  [t EXCEPT !.active = a,
                !.selection = IF @.book # b THEN @
                              ELSE IF a = None THEN NoSelection
                              ELSE DefaultSelection(t, a)]

(* What a failed operation on workbook b puts back: the workbooks that     *)
(* were there (a new one goes), b as it was, the tables and the selection. *)
RollbackOfBook(before, s, b) == [s EXCEPT !.books[b] = before.books[b]]

Rollback(before, s, b) ==
  [before EXCEPT !.books = [c \in DOMAIN before.books \cap (DOMAIN s.books \cup {b}) |->
                              IF c = b THEN before.books[b] ELSE s.books[c]]]

Undone(before, outcomes, b) ==
  {IF o.ok THEN o ELSE Fails(Rollback(before, o.s, b)) : o \in outcomes}

(* The outcomes of one step after the other, as long as they succeed.      *)
Each(s, items, Step(_, _)) ==
  LET after[n \in 0 .. Len(items)] ==
        IF n = 0 THEN {Succeeds(s)}
        ELSE UNION {IF o.ok THEN Step(o.s, items[n]) ELSE {o} : o \in after[n - 1]}
  IN  after[Len(items)]

-----------------------------------------------------------------------------
(* Adding sheets. The steps of a Count run one after the other and any of  *)
(* them can fail.                                                          *)
Insert(s, b, i, sheet) ==
  LET sheets == SheetsOf(s, b)
      at == IF i <= Len(sheets) THEN i ELSE NextPlace(sheets)
      new == [id |-> NewId(sheets), kind |-> sheet.kind, shown |-> sheet.shown,
              data |-> sheet.data]
  IN  WithSheets(s, b, InsertAt(sheets, at, new))

NewSheet(kind) == [kind |-> kind, shown |-> TRUE, data |-> Blank]
LastAdded(s, b) == NewId(SheetsOf(s, b)) - 1

AddOne(s, b, i, kind) ==
  IF s.books[b].readOnly THEN {Fails(s)}
  ELSE {Fails(s), Succeeds(Insert(s, b, i, NewSheet(kind)))}

AddSheets(s, b, i, kind, count) ==
  LET Step(t, n) == AddOne(t, b, i + n - 1, kind)
      Finish(o) == IF o.ok THEN {Fails(o.s), Succeeds(Select(o.s, b, LastAdded(o.s, b)))} ELSE {o}
  IN  Undone(s, UNION {Finish(o) : o \in Each(s, [n \in 1 .. count |-> n], Step)}, b)

-----------------------------------------------------------------------------
(* Deleting a sheet, and the sheets of a collection.                       *)
Without(sheets, ids) == Picked(sheets, DOMAIN sheets \ PlacesOf(sheets, ids))

SheetHandlesTo(s, b, id) == {h \in OwnedBy(s, b) : h.sheet = id /\ h.kind = "sheet"}
HandlesTo(s, b, id) == {h \in OwnedBy(s, b) : h.sheet = id}

CanDelete(s, b, id) ==
  /\ ~s.books[b].readOnly
  /\ Len(SheetsOf(s, b)) > 1
  /\ SheetOf(s, b, id).shown => Cardinality(ShownIn(SheetsOf(s, b))) > 1

Removed(s, b, id) == WithSheets(Gone(s, b, {id}), b, Without(SheetsOf(s, b), {id}))

DeleteSheet(s, b, id) ==
  IF ~CanDelete(s, b, id) THEN {Fails(s)}
  ELSE LET removed == Removed(s, b, id)
           retired == Retire(removed, HandlesTo(removed, b, id))
           active == s.active = b /\ s.selection = [book |-> b, sheet |-> id]
       IN  Undone(s, {Fails(removed),
                      Succeeds(IF active THEN Select(retired, b, FirstShown(SheetsOf(removed, b)))
                               ELSE retired)}, b)

CanDeleteBlock(s, b, ids) ==
  /\ ~s.books[b].readOnly
  /\ \E sheet \in ToSet(SheetsOf(s, b)) : sheet.shown /\ sheet.id \notin ToSet(ids)

DeleteEach(s, b, ids) ==
  LET Step(t, id) == DeleteSheet(t, b, id) IN Each(s, ids, Step)

DeleteBlock(s, b, ids) ==
  IF ~CanDeleteBlock(s, b, ids) THEN {Fails(s)} ELSE Undone(s, DeleteEach(s, b, ids), b)

-----------------------------------------------------------------------------
(* Copying a sheet. A grid sheet is copied by way of a workbook of its own: *)
(* the source is saved, opened again and rid of its other sheets.          *)
Reopened(s, b) == [s.books[b] EXCEPT !.readOnly = FALSE]

Spawn(s, b, id) ==
  LET opened == OpenWorkbook(s, Reopened(s, b))
      others == IdSeq(Without(SheetsOf(s, b), {id}))
      Finish(o) == IF o.ok THEN Succeeds(Select(o.s, s.next, id)) ELSE o
  IN  {Fails(s)} \cup {Finish(o) : o \in DeleteEach(opened, s.next, others)}

AddCopy(s, b, i, source) ==
  LET Kept(o) ==
        LET sheets == SheetsOf(o.s, b)
            copy == [SheetOf(o.s, b, LastAdded(o.s, b))
                       EXCEPT !.shown = source.shown, !.data = source.data]
            kept == WithSheets(o.s, b, [sheets EXCEPT ![At(sheets, copy.id)] = copy])
        IN  IF o.ok THEN {Fails(o.s), Fails(kept), Succeeds(kept)} ELSE {o}
  IN  UNION {Kept(o) : o \in AddSheets(s, b, i, source.kind, 1)}

CopySheet(s, b, id, target, i) ==
  LET source == SheetOf(s, b, id)
      Close(o) == [s |-> CloseWorkbook(o.s, s.next), ok |-> o.ok]
      ByWorkbook(o) == IF o.ok THEN {Close(c) : c \in {Fails(o.s)} \cup AddCopy(o.s, target, i, source)}
                       ELSE {o}
  IN  IF source.kind = "chart" THEN {Fails(s)} \cup AddCopy(s, target, i, source)
      ELSE UNION {ByWorkbook(o) : o \in Spawn(s, b, id)}

CopyBlock(s, b, ids, target, i) ==
  LET Step(t, n) == CopySheet(t, b, ids[n], target, i + n - 1)
  IN  Undone(s, Each(s, [n \in DOMAIN ids |-> n], Step), target)

(* The copies a successful CopyBlock made are the newest sheets.           *)
FirstCopy(s, target, ids) == NewId(SheetsOf(s, target)) - Len(ids)

NewWorkbook == [sheets |-> <<[id |-> 1, kind |-> "grid", shown |-> TRUE, data |-> Blank]>>,
                readOnly |-> FALSE]

CreateFromBlock(s, b, ids) ==
  LET new == s.next
      Clean(o) == IF o.ok THEN DeleteSheet(o.s, new, 1) ELSE {o}
      Finish(o) == IF o.ok THEN {Fails(o.s), Succeeds(Select(o.s, new, 2))} ELSE {o}
      copied == CopyBlock(OpenWorkbook(s, NewWorkbook), b, ids, new, 2)
  IN  {Fails(s)} \cup UNION {Finish(o) : o \in UNION {Clean(c) : c \in copied}}

CopyCollection(s, b, ids, target, i) ==
  {IF o.ok THEN Succeeds(Select(o.s, target, FirstCopy(o.s, target, ids))) ELSE o :
     o \in CopyBlock(s, b, ids, target, i)}

CopyCollectionOut(s, b, ids) == Undone(s, CreateFromBlock(s, b, ids), b)

-----------------------------------------------------------------------------
(* Moving sheets. Within a workbook they change places; to another one     *)
(* they are copied, and then deleted, or their workbook is closed.         *)
Leave(s, b, ids, count) ==
  IF count > Len(ids)
  THEN IF CanDeleteBlock(s, b, ids) THEN DeleteEach(s, b, ids) ELSE {Fails(s)}
  ELSE {Succeeds(CloseWorkbook(s, b))}

MoveAwayAnyway(s, b, ids, copies) ==
  UNION {Leave(o.s, b, ids, Len(SheetsOf(s, b))) : o \in copies}

MoveAway(s, b, ids, copies) ==
  LET count == Len(SheetsOf(s, b)) IN
  IF s.books[b].readOnly THEN {Fails(s)}
  ELSE UNION {IF o.ok THEN Leave(o.s, b, ids, count) ELSE {o} : o \in copies}

MoveSheet(s, b, id, target, i) == MoveAway(s, b, <<id>>, CopySheet(s, b, id, target, i))
MoveSheetOut(s, b, id) == MoveAway(s, b, <<id>>, Spawn(s, b, id))
MoveBlock(s, b, ids, target, i) ==
  {IF o.ok THEN Succeeds(Select(o.s, target, FirstCopy(o.s, target, ids))) ELSE o :
     o \in MoveAway(s, b, ids, CopyBlock(s, b, ids, target, i))}
MoveBlockOut(s, b, ids) ==
  {IF o.ok THEN Succeeds(Select(o.s, s.next, 2)) ELSE o :
     o \in MoveAway(s, b, ids, CreateFromBlock(s, b, ids))}

(* The sheets ids put before what is now at place i, the others in order.  *)
Reordered(sheets, ids, i) ==
  LET moving == PlacesOf(sheets, ToSet(ids)) IN
  Picked(sheets, (1 .. i - 1) \ moving) \o Picked(sheets, moving)
    \o Picked(sheets, (i .. Len(sheets)) \ moving)

Reorder(s, b, ids, i) ==
  IF s.books[b].readOnly THEN {Fails(s)}
  ELSE {Fails(s), Succeeds(WithSheets(s, b, Reordered(SheetsOf(s, b), ids, i)))}

ReorderBlock(s, b, ids, i) ==
  {IF o.ok THEN Succeeds(Select(o.s, b, ids[1])) ELSE o : o \in Reorder(s, b, ids, i)}

-----------------------------------------------------------------------------
(* Hiding and selecting.                                                   *)
SetVisible(s, b, id, shown) ==
  LET others == ShownIn(Without(SheetsOf(s, b), {id}))
      set == WithSheets(s, b, [SheetsOf(s, b) EXCEPT ![At(SheetsOf(s, b), id)] =
                                 [@ EXCEPT !.shown = shown]])
      selected == s.active = b /\ s.selection = [book |-> b, sheet |-> id]
  IN  IF s.books[b].readOnly \/ (~shown /\ SheetOf(s, b, id).shown /\ others = {}) THEN {Fails(s)}
      ELSE {Succeeds(IF selected /\ ~shown /\ SheetOf(s, b, id).shown
                     THEN Select(set, b, FirstShown(SheetsOf(set, b))) ELSE set)}

ActivateWorkbook(s, b) == {Succeeds(Select(s, b, DefaultSelection(s, b).sheet))}

ActivateSheet(s, b, id) ==
  IF SheetOf(s, b, id).shown THEN {Succeeds(Select(s, b, id))} ELSE {Fails(s)}

SelectRange(s, b, id) ==
  IF SheetOf(s, b, id).kind = "grid" THEN {Succeeds(Select(s, b, id))} ELSE {Fails(s)}

(* A handle to a grid sheet or to a range of it.                           *)
Register(s, kind, b, id) ==
  [s EXCEPT !.live = @ \cup {[kind |-> kind, book |-> b, sheet |-> id, gone |-> FALSE]}]

-----------------------------------------------------------------------------
(* The runs of a program. *)
Within(s) ==
  /\ Cardinality(DOMAIN s.books) <= MaxBooks /\ Cardinality(s.live) <= MaxHandles
  /\ \A b \in DOMAIN s.books : Len(SheetsOf(s, b)) <= MaxSheets /\ Max(Ids(SheetsOf(s, b))) <= MaxId

(* Workbook handles are never used again and only their order matters:     *)
(* after each operation they are numbered from 1.                          *)
Numbered(s) ==
  LET rank(b) == Rank(DOMAIN s.books, b) IN
  [s EXCEPT !.books = Picked(@, DOMAIN @),
            !.next = Cardinality(DOMAIN s.books) + 1,
            !.live = {[h EXCEPT !.book = rank(@)] : h \in @},
            !.active = rank(@),
            !.selection.book = rank(@)]

Results(outcomes) == \E o \in outcomes : Within(o.s) /\ session' = Numbered(o.s)

Open == DOMAIN session.books
Collections == {{"grid"}, {"chart"}, {"grid", "chart"}}
Collection(b, kinds) == IdSeq(BlockOf(session, b, kinds))
Places(b) == 1 .. Len(SheetsOf(session, b)) + 1

Init == session = [books |-> <<>>, next |-> 1, live |-> {}, active |-> None,
                   selection |-> NoSelection]

OpenFile == \E sheets \in Files, readOnly \in ReadOnly :
  Results({Succeeds(OpenWorkbook(session,
             [sheets |-> sheets, readOnly |-> readOnly]))})
Create == Results({Succeeds(OpenWorkbook(session, NewWorkbook))})
Close == \E b \in Open : Results({Succeeds(CloseWorkbook(session, b))})
Add == \E b \in Open, kind \in Kinds, count \in 1 .. 2 : \E i \in Places(b) :
  Results(AddSheets(session, b, i, kind, count))

Sheet(Op(_, _)) == \E b \in Open : \E id \in Ids(SheetsOf(session, b)) : Op(b, id)

Delete == Sheet(LAMBDA b, id : Results(DeleteSheet(session, b, id)))
Hide == Sheet(LAMBDA b, id : \E shown \in BOOLEAN : Results(SetVisible(session, b, id, shown)))
Activate == \/ \E b \in Open : Results(ActivateWorkbook(session, b))
            \/ Sheet(LAMBDA b, id : Results(ActivateSheet(session, b, id)))
PickRange == Sheet(LAMBDA b, id : Results(SelectRange(session, b, id)))
Copy == Sheet(LAMBDA b, id :
  \/ Results(Spawn(session, b, id))
  \/ \E c \in Open : \E i \in Places(c) : Results(CopySheet(session, b, id, c, i)))
Move == Sheet(LAMBDA b, id :
  \/ Results(MoveSheetOut(session, b, id))
  \/ \E c \in Open : \E i \in Places(c) :
       Results(IF c = b THEN Reorder(session, b, <<id>>, i) ELSE MoveSheet(session, b, id, c, i)))

Block(Op(_, _)) ==
  \E b \in Open, kinds \in Collections : LET ids == Collection(b, kinds) IN ids # <<>> /\ Op(b, ids)

DeleteAll == Block(LAMBDA b, ids : Results(DeleteBlock(session, b, ids)))
CopyAll == Block(LAMBDA b, ids :
  \/ Results(CopyCollectionOut(session, b, ids))
  \/ \E c \in Open : \E i \in Places(c) : Results(CopyCollection(session, b, ids, c, i)))
MoveAll == Block(LAMBDA b, ids :
  \/ Results(MoveBlockOut(session, b, ids))
  \/ \E c \in Open : \E i \in Places(c) :
       Results(IF c = b THEN ReorderBlock(session, b, ids, i) ELSE MoveBlock(session, b, ids, c, i)))

Item == Sheet(LAMBDA b, id : \E kind \in {"sheet", "range"} :
  SheetOf(session, b, id).kind = "grid" /\ Results({Succeeds(Register(session, kind, b, id))}))

Next == OpenFile \/ Create \/ Close \/ Add \/ Delete \/ Hide \/ Activate \/ PickRange
        \/ Copy \/ Move \/ DeleteAll \/ CopyAll \/ MoveAll \/ Item

Spec == Init /\ [][Next]_session

-----------------------------------------------------------------------------
(* Properties.                                                             *)

(* Types, and in every workbook each sheet has an id of its own.           *)
TypeOK ==
  /\ Open = 1 .. session.next - 1 /\ session.next <= MaxBooks + 1
  /\ \A b \in Open : LET sheets == SheetsOf(session, b) IN
       /\ ToSet(sheets) \subseteq [id : 1 .. MaxId, kind : {"grid", "chart"}, shown : BOOLEAN, data : Nat]
       /\ Cardinality(Ids(sheets)) = Len(sheets)
  /\ session.live \subseteq [kind : {"sheet", "range"}, book : Nat, sheet : 1 .. MaxId, gone : BOOLEAN]

(* What the user sees exists: a workbook that is open has a sheet that is  *)
(* shown, some workbook is active while one is open, and the selection is  *)
(* on a sheet of it, whatever was deleted, moved, closed or rolled back.   *)
SomethingIsShown ==
  /\ \A b \in Open : ShownIn(SheetsOf(session, b)) # {}
  /\ (session.active = None) <=> (Open = {})
  /\ session.selection.book = session.active
  /\ session.active # None => session.selection.sheet \in Ids(SheetsOf(session, session.active))

(* A handle that is not stale denotes the sheet it was made for, and never *)
(* another one that was given the same id later.                           *)
HandlesDenoteTheirSheets ==
  \A h \in session.live : ~h.gone /\ h.book \in Open /\ h.sheet \in Ids(SheetsOf(session, h.book))

(* Adding, deleting and copying of blocks is all or nothing: where one of  *)
(* these fails, at whatever step, the session is what it was.              *)
Whole(outcomes) == \A o \in outcomes : ~o.ok => o.s = session

FailuresChangeNothing ==
  \A b \in Open :
    /\ \A kind \in Kinds : Whole(AddSheets(session, b, 1, kind, 2))
    /\ \A id \in Ids(SheetsOf(session, b)) : Whole(DeleteSheet(session, b, id))
    /\ \A kinds \in Collections : LET ids == Collection(b, kinds) IN
         ids # <<>> =>
           /\ Whole(DeleteBlock(session, b, ids))
           /\ Whole(CopyCollectionOut(session, b, ids))
           /\ \A c \in Open : Whole(CopyCollection(session, b, ids, c, 1))

(* Whatever a move or a copy does, and wherever it fails, what was on some *)
(* sheet is on one afterwards; only deleting and closing lose it.          *)
Data(s) == {<<sheet.data>> : sheet \in UNION {ToSet(SheetsOf(s, b)) : b \in DOMAIN s.books}}

OnlyDeletingLosesData ==
  [][Data(session) \subseteq Data(session)' \/ Delete \/ DeleteAll \/ Close]_session

=============================================================================
