----------------------- MODULE SaveTransactionProofs -----------------------
(***************************************************************************)
(* What holds of every session, for any number of workbooks, files and     *)
(* versions, and however many stages fail and machines stop.               *)
(***************************************************************************)
EXTENDS SaveTransaction, TLAPS

(* What a write under way can count on.                                     *)
WriteInv ==
  op # NoOp =>
    /\ IsOpen(op.book) /\ op.bytes = books[op.book].content
    /\ op.mode = WriteMode(books[op.book])
    /\ op.kind = "Save" => op.target = books[op.book].source_path
    /\ op.stage \in {"ReplaceTarget", "SyncParentDirectory", "SyncPersisted"} => op.synced
    /\ op.stage = "SyncParentDirectory" => visible[op.target] = op.bytes
    /\ op.stage = "SyncPersisted" =>
         visible[op.target] = op.bytes /\ after_crash[op.target] = {op.bytes}

(* The strengthening that makes the promises about files inductive: the     *)
(* temporary file was synced before it can get a name, and its name before  *)
(* the save is acknowledged.                                                *)
FilesInv ==
  /\ TypeOK /\ FilesAreWhole /\ AcknowledgedSavesLast /\ WriteInv
  /\ \A p \in Path : visible[p] \in after_crash[p]

(* The dirty domains tell the truth; inductive beside FilesInv.             *)
DirtyInv == UnsavedIsDirty /\ EditsPrompt

(* What it says of one workbook.                                            *)
Truthful(book) ==
  /\ book.content # book.package /\ ~book.only_moved => Unsaved(book)
  /\ book.edited => book.prompt_dirty

(* The workbooks that a change of an open workbook may leave.               *)
Changes(book) ==
  {MarkedSemantic([Edited(book) EXCEPT !.parts_dirty = @ \/ marks]) : marks \in BOOLEAN}
  \cup {[Edited(book) EXCEPT !.prompt_dirty = TRUE, !.parts_dirty = TRUE],
        [book EXCEPT !.content = next_content, !.prompt_dirty = TRUE, !.edited = TRUE,
                     !.only_moved = @ \/ book.content = book.package],
        [Changed(book) EXCEPT !.formula_cache_dirty = TRUE, !.parts_dirty = TRUE],
        [Changed(book) EXCEPT !.parts_dirty = TRUE]}
  \cup {[Changed(book) EXCEPT !.prompt_dirty = TRUE, !.parts_dirty = TRUE,
                              !.formula_cache_dirty = @ \/ changed] : changed \in BOOLEAN}

(* Those that keep the version: a calculation that changes nothing, Saved    *)
(* and a commit.                                                            *)
Remarks(book) ==
  {[book EXCEPT !.parts_dirty = TRUE], Committed(book)}
  \cup {[book EXCEPT !.prompt_dirty = ~saved, !.edited = @ /\ ~saved] : saved \in BOOLEAN}

-----------------------------------------------------------------------------
(* A change keeps the type of the workbook, and leaves it truthful.         *)
LEMMA ChangesKeep ==
  ASSUME NEW book \in RuntimeWorkbook, next_content \in Content, NEW new \in Changes(book)
  PROVE  new \in RuntimeWorkbook /\ (Truthful(book) => Truthful(new))
<1>1. /\ Changed(book) \in RuntimeWorkbook /\ Edited(book) \in RuntimeWorkbook
      /\ Changed(book).prompt_dirty = book.prompt_dirty /\ Changed(book).edited = book.edited
  BY DEF RuntimeWorkbook, Changed, Edited
<1>2. ASSUME NEW marks \in BOOLEAN,
             new = MarkedSemantic([Edited(book) EXCEPT !.parts_dirty = @ \/ marks])
      PROVE  new \in RuntimeWorkbook /\ Truthful(new)
  <2>1. [Edited(book) EXCEPT !.parts_dirty = @ \/ marks] \in RuntimeWorkbook
    BY <1>1 DEF RuntimeWorkbook
  <2>2. ASSUME NEW a \in RuntimeWorkbook
        PROVE  /\ MarkedSemantic(a) \in RuntimeWorkbook
               /\ MarkedSemantic(a).semantic_dirty = TRUE /\ MarkedSemantic(a).prompt_dirty = TRUE
    BY DEF RuntimeWorkbook, MarkedSemantic
  <2>3. new \in RuntimeWorkbook /\ new.semantic_dirty = TRUE /\ new.prompt_dirty = TRUE
    BY <1>2, <2>1, <2>2
  <2> QED
    BY <2>3 DEF Truthful, Unsaved
<1>3. ASSUME new = [Edited(book) EXCEPT !.prompt_dirty = TRUE, !.parts_dirty = TRUE]
      PROVE  new \in RuntimeWorkbook /\ Truthful(new)
  BY <1>1, <1>3 DEF RuntimeWorkbook, Truthful, Unsaved
<1>4. ASSUME new = [book EXCEPT !.content = next_content, !.prompt_dirty = TRUE, !.edited = TRUE,
                                !.only_moved = @ \/ book.content = book.package]
      PROVE  new \in RuntimeWorkbook /\ (Truthful(book) => Truthful(new))
  <2>1. CASE book.content = book.package
    BY <1>4, <2>1 DEF RuntimeWorkbook, Truthful, Unsaved
  <2>2. CASE book.content # book.package
    BY <1>4, <2>2 DEF RuntimeWorkbook, Truthful, Unsaved
  <2> QED
    BY <2>1, <2>2
<1>5. ASSUME \/ new = [Changed(book) EXCEPT !.formula_cache_dirty = TRUE, !.parts_dirty = TRUE]
             \/ new = [Changed(book) EXCEPT !.parts_dirty = TRUE]
      PROVE  new \in RuntimeWorkbook /\ (Truthful(book) => Truthful(new))
  <2>1. /\ new \in RuntimeWorkbook /\ new.parts_dirty = TRUE
        /\ new.prompt_dirty = book.prompt_dirty /\ new.edited = book.edited
    BY <1>1, <1>5 DEF RuntimeWorkbook
  <2> QED
    BY <2>1 DEF Truthful, Unsaved
<1>6. ASSUME NEW changed \in BOOLEAN,
             new = [Changed(book) EXCEPT !.prompt_dirty = TRUE, !.parts_dirty = TRUE,
                                         !.formula_cache_dirty = @ \/ changed]
      PROVE  new \in RuntimeWorkbook /\ Truthful(new)
  BY <1>1, <1>6 DEF RuntimeWorkbook, Truthful, Unsaved
<1> QED
  BY <1>2, <1>3, <1>4, <1>5, <1>6, Zenon DEF Changes

(* The fields that matter to Truthful, after a commit.                      *)
LEMMA CommittedFields ==
  ASSUME NEW book \in RuntimeWorkbook, NEW p \in Path, NEW new,
         \/ new = Committed(book)
         \/ new = [Committed(book) EXCEPT !.source_path = p, !.read_only = FALSE]
  PROVE  new \in RuntimeWorkbook /\ Truthful(new)
<1>1. /\ CleanDomains(book) \in RuntimeWorkbook
      /\ CleanDomains(book).content = book.content /\ CleanDomains(book).edited = FALSE
  BY DEF RuntimeWorkbook, CleanDomains
<1>2. /\ Committed(book) \in RuntimeWorkbook
      /\ Committed(book).content = Committed(book).package
      /\ Committed(book).edited = FALSE
  BY <1>1 DEF RuntimeWorkbook, Committed
<1>3. ASSUME NEW b \in RuntimeWorkbook
      PROVE  LET a == [b EXCEPT !.source_path = p, !.read_only = FALSE]
             IN  /\ a \in RuntimeWorkbook
                 /\ a.content = b.content /\ a.package = b.package /\ a.edited = b.edited
  BY DEF RuntimeWorkbook
<1> QED
  BY <1>2, <1>3 DEF Truthful

(* Where a committed workbook is stored.                                    *)
LEMMA CommittedPaths ==
  ASSUME NEW book \in RuntimeWorkbook, NEW p \in Path
  PROVE  /\ Committed(book).source_path = book.source_path
         /\ [Committed(book) EXCEPT !.source_path = p, !.read_only = FALSE].source_path = p
<1>1. /\ CleanDomains(book) \in RuntimeWorkbook
      /\ CleanDomains(book).source_path = book.source_path
  BY DEF RuntimeWorkbook, CleanDomains
<1>2. Committed(book) \in RuntimeWorkbook /\ Committed(book).source_path = book.source_path
  BY <1>1 DEF RuntimeWorkbook, Committed
<1> QED
  BY <1>2 DEF RuntimeWorkbook

(* So do the changes that keep the version.                                 *)
LEMMA RemarksKeep ==
  ASSUME NEW book \in RuntimeWorkbook, NEW new \in Remarks(book)
  PROVE  new \in RuntimeWorkbook /\ (Truthful(book) => Truthful(new))
<1>1. ASSUME new = Committed(book) PROVE new \in RuntimeWorkbook /\ Truthful(new)
  <2>1. /\ CleanDomains(book) \in RuntimeWorkbook
        /\ CleanDomains(book).content = book.content /\ CleanDomains(book).edited = FALSE
    BY DEF RuntimeWorkbook, CleanDomains
  <2> QED
    BY <1>1, <2>1 DEF RuntimeWorkbook, Committed, Truthful
<1>2. ASSUME new = [book EXCEPT !.parts_dirty = TRUE]
      PROVE  new \in RuntimeWorkbook /\ (Truthful(book) => Truthful(new))
  BY <1>2 DEF RuntimeWorkbook, Truthful, Unsaved
<1>3. ASSUME NEW saved \in BOOLEAN,
             new = [book EXCEPT !.prompt_dirty = ~saved, !.edited = @ /\ ~saved]
      PROVE  new \in RuntimeWorkbook /\ (Truthful(book) => Truthful(new))
  BY <1>3 DEF RuntimeWorkbook, Truthful, Unsaved
<1> QED
  BY <1>1, <1>2, <1>3, Zenon DEF Remarks

(* A blank workbook is a content like any other.                            *)
LEMMA BlankInContent == BlankWorkbook \in Content
BY BoundsAreNatural DEF Content, BlankWorkbook

(* A workbook as it is opened is a well-formed one, and truthful: it is what *)
(* was read, and clean.                                                     *)
LEMMA OpenedTypes ==
  ASSUME NEW c \in Content, NEW d \in Content, NEW p \in Path \cup {NoPath}, NEW r \in BOOLEAN
  PROVE  /\ Opened(c, p, r) \in RuntimeWorkbook /\ Truthful(Opened(c, p, r))
         /\ LET new == [Opened(c, p, r) EXCEPT !.content = d, !.semantic_dirty = TRUE]
            IN  new \in RuntimeWorkbook /\ Truthful(new)
<1>1. Opened(c, p, r) \in RuntimeWorkbook /\ Opened(c, p, r).edited = FALSE
  BY DEF Opened, RuntimeWorkbook
<1>2. Truthful(Opened(c, p, r))
  BY DEF Opened, Truthful
<1>3. ASSUME NEW book \in RuntimeWorkbook, book.edited = FALSE,
             NEW new, new = [book EXCEPT !.content = d, !.semantic_dirty = TRUE]
      PROVE  new \in RuntimeWorkbook /\ Truthful(new)
  <2>1. new \in RuntimeWorkbook /\ new.semantic_dirty = TRUE /\ new.edited = FALSE
    BY <1>3 DEF RuntimeWorkbook
  <2> QED
    BY <2>1 DEF Truthful, Unsaved
<1> QED
  BY <1>1, <1>2, <1>3

(* So are the workbooks an acknowledged write leaves.                       *)
LEMMA AnsweredTypes ==
  ASSUME TypeOK, op # NoOp, IsOpen(op.book)
  PROVE  /\ Answered \in [Book -> RuntimeWorkbook \cup {Closed}]
         /\ Answered[op.book] \in RuntimeWorkbook \cup {Closed}
<1>1. op \in DurableWrite /\ books[op.book] \in RuntimeWorkbook
  BY DEF TypeOK, IsOpen, DurableWrite
<1>2. op.book \in Book /\ op.target \in Path /\ op.kind \in {"Save", "SaveAs", "SaveCopyAs", "Close"}
  BY <1>1 DEF DurableWrite
<1>3. /\ Committed(books[op.book]) \in RuntimeWorkbook
      /\ [Committed(books[op.book]) EXCEPT !.source_path = op.target, !.read_only = FALSE]
           \in RuntimeWorkbook
  BY <1>1, <1>2, CommittedFields
<1> QED
  BY <1>1, <1>2, <1>3 DEF Answered, TypeOK

-----------------------------------------------------------------------------
(* The inductive invariant holds when the session starts.                   *)
LEMMA InitFilesInv == Init => FilesInv
<1> SUFFICES ASSUME Init PROVE FilesInv
  OBVIOUS
<1>1. TypeOK
  BY BoundsAreNatural, FilesAtStart DEF Init, TypeOK, Content, Book, BlankWorkbook
<1>2. FilesAreWhole /\ AcknowledgedSavesLast /\ WriteInv
  BY FilesAtStart DEF Init, FilesAreWhole, AcknowledgedSavesLast, WriteInv
<1>3. \A p \in Path : visible[p] \in after_crash[p]
  BY DEF Init
<1> QED
  BY <1>1, <1>2, <1>3 DEF FilesInv

(* A version number is made only while there are any left.                  *)
LEMMA NextContent ==
  ASSUME next_content \in 1..(MaxContent + 1), next_content \in Content
  PROVE  next_content + 1 \in 1..(MaxContent + 1)
BY BoundsAreNatural DEF Content

(* The commands that change one open workbook and write no file.            *)
ChangeOf(b) ==
  \/ Edit(b) \/ EditMarkingParts(b) \/ MoveSheets(b)
  \/ Calculate(b) \/ CalculateFullRebuild(b) \/ SetIteration(b) \/ SaveToWriter(b)
  \/ \E saved \in BOOLEAN : SetSaved(b, saved)

(* Such a command leaves a well-formed workbook, as truthful as before.      *)
LEMMA ChangeOfBooks ==
  ASSUME TypeOK, NEW b \in Book, ChangeOf(b)
  PROVE  /\ IsOpen(b) /\ books[b] \in RuntimeWorkbook /\ next_content' \in 1..(MaxContent + 1)
         /\ UNCHANGED <<files, next_handle, op, promised>>
         /\ \E book \in RuntimeWorkbook :
              /\ books' = [books EXCEPT ![b] = book]
              /\ Truthful(books[b]) => Truthful(book)
<1>1. IsOpen(b) /\ UNCHANGED <<files, next_handle, op, promised>>
  BY DEF ChangeOf, Edit, EditMarkingParts, MoveSheets, Editable, Calculate, CalculateFullRebuild,
         SetIteration, SaveToWriter, SetSaved, Change
<1>2. books[b] \in RuntimeWorkbook
  BY <1>1 DEF TypeOK, IsOpen
<1>3. \/ /\ next_content \in Content /\ next_content' = next_content + 1
         /\ \E book \in Changes(books[b]) : books' = [books EXCEPT ![b] = book]
      \/ /\ next_content' = next_content
         /\ \E book \in Remarks(books[b]) : books' = [books EXCEPT ![b] = book]
  <2>1. CASE \/ Edit(b) \/ EditMarkingParts(b) \/ MoveSheets(b) \/ SetIteration(b)
             \/ CalculateFullRebuild(b)
    BY <2>1, Zenon DEF Edit, EditMarkingParts, MoveSheets, SetIteration, CalculateFullRebuild,
                       Editable, Change, Changes
  <2>2. CASE Calculate(b)
    BY <2>2, Zenon DEF Calculate, Change, Changes, Remarks
  <2>3. CASE SaveToWriter(b)
    BY <2>3 DEF SaveToWriter, Remarks
  <2>4. CASE \E saved \in BOOLEAN : SetSaved(b, saved)
    BY <2>4, Zenon DEF SetSaved, Change, Remarks
  <2> QED
    BY <2>1, <2>2, <2>3, <2>4 DEF ChangeOf
<1>4. next_content' \in 1..(MaxContent + 1)
  BY <1>3, NextContent DEF TypeOK
<1>5. \E book \in RuntimeWorkbook :
        books' = [books EXCEPT ![b] = book] /\ (Truthful(books[b]) => Truthful(book))
  BY <1>2, <1>3, ChangesKeep, RemarksKeep
<1> QED
  BY <1>1, <1>2, <1>4, <1>5

(* Registering a workbook under a new handle.                               *)
LEMMA RegisterKeeps ==
  ASSUME FilesInv, NEW book \in RuntimeWorkbook, Register(book)
  PROVE  /\ books' \in [Book -> RuntimeWorkbook \cup {Closed}]
         /\ next_handle' \in 1..(MaxBooks + 1)
         /\ WriteInv' /\ FilesAreWhole' /\ AcknowledgedSavesLast'
         /\ \A p \in Path : visible'[p] \in after_crash'[p]
<1>1. next_handle \in Book /\ next_handle + 1 \in 1..(MaxBooks + 1)
  BY BoundsAreNatural DEF Register, Book
<1>2. books' \in [Book -> RuntimeWorkbook \cup {Closed}] /\ next_handle' \in 1..(MaxBooks + 1)
  BY <1>1 DEF Register, FilesInv, TypeOK
<1>3. op' = NoOp /\ UNCHANGED <<visible, after_crash, promised>>
  BY DEF Register, Idle, files
<1> QED
  BY <1>2, <1>3 DEF FilesInv, WriteInv, FilesAreWhole, AcknowledgedSavesLast

(* A command of the session, the start of a write included.                 *)
LEMMA CommandKeepsFilesInv ==
  ASSUME FilesInv, Command PROVE FilesInv'
<1> USE DEF FilesInv
<1>1. op = NoOp
  BY DEF Command, Add, AddOtherSheetKind, Open, Register, Edit, EditMarkingParts, MoveSheets,
         Editable, Calculate, CalculateFullRebuild, SetIteration, SetSaved, Save, SaveAs,
         SaveCopyAs, CloseSaving, BeginWrite, SaveToWriter, CloseDropping, CloseAll, Drop, Idle
<1>2. CASE Add
  <2>1. PICK book \in RuntimeWorkbook : Register(book)
    BY <1>2, OpenedTypes, BlankInContent DEF Add
  <2>2. UNCHANGED <<next_content, op, visible, after_crash, promised>>
    BY <1>2, <2>1 DEF Add, Register, files
  <2> QED
    BY <2>1, <2>2, RegisterKeeps DEF TypeOK
<1>3. CASE AddOtherSheetKind
  <2>0. \A c, d \in Content :
          [Opened(c, NoPath, FALSE) EXCEPT !.content = d, !.semantic_dirty = TRUE]
            \in RuntimeWorkbook
    BY OpenedTypes
  <2>1. PICK book \in RuntimeWorkbook : Register(book)
    BY <1>3, <2>0, BlankInContent DEF AddOtherSheetKind
  <2>2. /\ UNCHANGED <<op, visible, after_crash, promised>>
        /\ next_content' \in 1..(MaxContent + 1)
    BY <1>3, <2>1, NextContent DEF AddOtherSheetKind, Register, files, TypeOK
  <2> QED
    BY <2>1, <2>2, RegisterKeeps DEF TypeOK
<1>4. ASSUME NEW p \in Path, NEW r \in BOOLEAN, Open(p, r) PROVE FilesInv'
  <2>1. PICK book \in RuntimeWorkbook : Register(book)
    BY <1>4, OpenedTypes DEF Open
  <2>2. UNCHANGED <<next_content, op, visible, after_crash, promised>>
    BY <1>4, <2>1 DEF Open, Register, files
  <2> QED
    BY <2>1, <2>2, RegisterKeeps DEF TypeOK
<1>5. ASSUME NEW b \in Book, NEW book \in RuntimeWorkbook, IsOpen(b),
             books' = [books EXCEPT ![b] = book],
             UNCHANGED <<files, next_handle, op, promised>>, next_content' \in 1..(MaxContent + 1)
      PROVE  FilesInv'
  <2>1. TypeOK'
    BY <1>5 DEF TypeOK, files
  <2>2. WriteInv'
    BY <1>1, <1>5 DEF WriteInv
  <2> QED
    BY <1>5, <2>1, <2>2 DEF FilesAreWhole, AcknowledgedSavesLast, files
<1>6. ASSUME NEW b \in Book, ChangeOf(b) PROVE FilesInv'
  <2>1. /\ books[b] \in RuntimeWorkbook /\ IsOpen(b) /\ next_content' \in 1..(MaxContent + 1)
        /\ UNCHANGED <<files, next_handle, op, promised>>
        /\ \E book \in RuntimeWorkbook : books' = [books EXCEPT ![b] = book]
    BY <1>6, ChangeOfBooks
  <2> QED
    BY <1>5, <2>1
<1>7. ASSUME NEW bs \in SUBSET Book, Drop(bs) PROVE FilesInv'
  <2>1. op' = NoOp /\ UNCHANGED <<visible, after_crash, promised, next_handle, next_content>>
    BY <1>1, <1>7 DEF Drop, files
  <2>2. TypeOK'
    BY <1>7, <2>1 DEF Drop, TypeOK
  <2> QED
    BY <2>1, <2>2 DEF WriteInv, FilesAreWhole, AcknowledgedSavesLast
<1>8. ASSUME NEW kind \in {"Save", "SaveAs", "SaveCopyAs", "Close"}, NEW b \in Book,
             NEW p \in Path, IsOpen(b), BeginWrite(kind, b, p),
             kind = "Save" => p = books[b].source_path
      PROVE  FilesInv'
  <2>1. books[b] \in RuntimeWorkbook /\ books[b].content \in Content
    BY <1>8 DEF TypeOK, IsOpen, RuntimeWorkbook
  <2>2. UNCHANGED <<visible, after_crash, books, next_handle, promised, next_content>>
    BY <1>8 DEF BeginWrite, files, session
  <2>3. op' \in DurableWrite /\ op'.stage = "WriteTemporary" /\ op'.book = b /\ op'.kind = kind
        /\ op'.target = p /\ op'.bytes = books[b].content /\ op'.mode = WriteMode(books[b])
    BY <1>8, <2>1 DEF BeginWrite, DurableWrite, Stage, WriteMode
  <2>4. TypeOK'
    BY <2>2, <2>3 DEF TypeOK
  <2>5. WriteInv'
    BY <1>8, <2>2, <2>3 DEF WriteInv, IsOpen
  <2> QED
    BY <2>2, <2>4, <2>5 DEF FilesAreWhole, AcknowledgedSavesLast
<1>9. ASSUME NEW b \in Book, IsOpen(b) PROVE books[b].source_path \in Path \cup {NoPath}
  BY <1>9 DEF TypeOK, IsOpen, RuntimeWorkbook
<1>10. ASSUME NEW b \in Book, Save(b) PROVE FilesInv'
  BY <1>8, <1>9, <1>10 DEF Save
<1>11. ASSUME NEW b \in Book, NEW p \in Path, SaveAs(b, p) \/ SaveCopyAs(b, p) PROVE FilesInv'
  BY <1>8, <1>11 DEF SaveAs, SaveCopyAs
<1>12. ASSUME NEW b \in Book, NEW p \in Path \cup {NoPath}, CloseSaving(b, p) PROVE FilesInv'
  BY <1>8, <1>9, <1>12 DEF CloseSaving
<1> QED
  BY <1>2, <1>3, <1>4, <1>6, <1>7, <1>10, <1>11, <1>12
     DEF Command, ChangeOf, CloseDropping, CloseAll

(* A stage of the write, its refusal or failure.                            *)
LEMMA WriteKeepsFilesInv ==
  ASSUME FilesInv, Progress \/ Fail PROVE FilesInv'
<1> USE DEF FilesInv
<1>1. /\ op \in DurableWrite /\ op # NoOp
      /\ op.book \in Book /\ op.target \in Path /\ op.bytes \in Content
  BY DEF Progress, Fail, WriteTemporary, SyncTemporary, ReplaceTarget, SyncParentDirectory,
         Acknowledge, RefuseExistingTarget, Refused, At, Idle, TypeOK, DurableWrite
<1>2. IsOpen(op.book) /\ op.bytes = books[op.book].content
  BY <1>1 DEF WriteInv
<1>3. CASE WriteTemporary \/ SyncTemporary
  <2>1. /\ UNCHANGED <<visible, after_crash, books, next_handle, promised, next_content>>
        /\ op' \in DurableWrite /\ op' = [op EXCEPT !.stage = op'.stage, !.synced = op'.synced]
        /\ op'.stage \in {"SyncTemporary", "ReplaceTarget"}
        /\ op'.stage = "ReplaceTarget" => op'.synced
    BY <1>1, <1>3 DEF WriteTemporary, SyncTemporary, At, Advance, DurableWrite, Stage, files, session
  <2>2. TypeOK'
    BY <2>1 DEF TypeOK
  <2>3. /\ op'.book = op.book /\ op'.bytes = op.bytes /\ op'.mode = op.mode
        /\ op'.kind = op.kind /\ op'.target = op.target
    BY <1>1, <2>1 DEF DurableWrite
  <2>4. WriteInv'
    BY <1>1, <2>1, <2>3 DEF WriteInv, IsOpen
  <2> QED
    BY <2>1, <2>2, <2>4 DEF FilesAreWhole, AcknowledgedSavesLast
<1>4. CASE ReplaceTarget
  <2>1. op.synced
    BY <1>1, <1>4 DEF WriteInv, ReplaceTarget, At
  <2>2. /\ visible' = [visible EXCEPT ![op.target] = op.bytes]
        /\ after_crash' = [after_crash EXCEPT ![op.target] = @ \cup {op.bytes}]
        /\ promised' = [promised EXCEPT ![op.target] = NoFile]
        /\ UNCHANGED <<books, next_handle, next_content>>
    BY <1>4, <2>1 DEF ReplaceTarget, session
  <2>3. /\ op' \in DurableWrite /\ op'.stage = "SyncParentDirectory" /\ op'.synced
        /\ op'.book = op.book /\ op'.bytes = op.bytes /\ op'.mode = op.mode
        /\ op'.kind = op.kind /\ op'.target = op.target
    BY <1>1, <1>4, <2>1 DEF ReplaceTarget, Advance, DurableWrite, Stage
  <2>4. TypeOK'
    BY <1>1, <2>2, <2>3 DEF TypeOK
  <2>5. WriteInv'
    BY <1>1, <2>2, <2>3 DEF WriteInv, IsOpen, TypeOK
  <2>6. FilesAreWhole' /\ \A p \in Path : visible'[p] \in after_crash'[p]
    BY <1>1, <2>2, FilesAtStart DEF FilesAreWhole, TypeOK
  <2>7. AcknowledgedSavesLast'
    BY <1>1, <2>2 DEF AcknowledgedSavesLast, TypeOK
  <2> QED
    BY <2>4, <2>5, <2>6, <2>7
<1>5. CASE SyncParentDirectory
  <2>1. visible[op.target] = op.bytes /\ Torn \notin after_crash[op.target]
    BY <1>1, <1>5 DEF WriteInv, SyncParentDirectory, At, FilesAreWhole
  <2>2. /\ after_crash' = [after_crash EXCEPT ![op.target] = {op.bytes}]
        /\ UNCHANGED <<visible, books, next_handle, promised, next_content>>
    BY <1>1, <1>5, <2>1 DEF SyncParentDirectory, session, TypeOK
  <2>3. /\ op' \in DurableWrite /\ op'.stage = "SyncPersisted" /\ op'.synced
        /\ op'.book = op.book /\ op'.bytes = op.bytes /\ op'.mode = op.mode
        /\ op'.kind = op.kind /\ op'.target = op.target
    BY <1>1, <1>5 DEF SyncParentDirectory, At, Advance, DurableWrite, Stage, WriteInv
  <2>4. TypeOK'
    BY <1>1, <2>2, <2>3 DEF TypeOK
  <2>5. WriteInv'
    BY <1>1, <2>1, <2>2, <2>3 DEF WriteInv, IsOpen, TypeOK
  <2>6. FilesAreWhole' /\ \A p \in Path : visible'[p] \in after_crash'[p]
    BY <1>1, <2>1, <2>2, FilesAtStart DEF FilesAreWhole, TypeOK
  <2>7. AcknowledgedSavesLast'
    BY <1>1, <2>1, <2>2 DEF AcknowledgedSavesLast, TypeOK
  <2> QED
    BY <2>4, <2>5, <2>6, <2>7
<1>6. CASE Acknowledge
  <2>1. visible[op.target] = op.bytes /\ after_crash[op.target] = {op.bytes}
    BY <1>1, <1>6 DEF WriteInv, Acknowledge, At
  <2>2. /\ promised' = [promised EXCEPT ![op.target] = op.bytes] /\ op' = NoOp
        /\ books' = Answered
        /\ UNCHANGED <<visible, after_crash, next_handle, next_content>>
    BY <1>6 DEF Acknowledge, files, TypeOK
  <2>3. TypeOK'
    BY <1>1, <1>2, <2>2, AnsweredTypes DEF TypeOK
  <2>4. AcknowledgedSavesLast'
    BY <1>1, <2>1, <2>2 DEF AcknowledgedSavesLast, TypeOK
  <2> QED
    BY <2>2, <2>3, <2>4 DEF FilesAreWhole, WriteInv
<1>7. CASE Fail
  BY <1>7 DEF Fail, files, session, TypeOK, FilesAreWhole, WriteInv, AcknowledgedSavesLast
<1> QED
  BY <1>3, <1>4, <1>5, <1>6, <1>7 DEF Progress, RefuseExistingTarget

(* The process ends, the power fails, or another process creates a file.    *)
LEMMA EnvironmentKeepsFilesInv ==
  ASSUME FilesInv, Environment PROVE FilesInv'
<1> USE DEF FilesInv
<1>1. CASE Killed
  <2>1. /\ op' = NoOp /\ UNCHANGED <<visible, after_crash, promised, next_content>>
        /\ books' \in [Book -> {Closed}] /\ next_handle' \in 1..(MaxBooks + 1)
    BY <1>1, BoundsAreNatural DEF Killed, ProcessEnds, files
  <2> QED
    BY <2>1 DEF TypeOK, WriteInv, FilesAreWhole, AcknowledgedSavesLast
<1>2. CASE PowerFailure
  <2>1. /\ op' = NoOp /\ UNCHANGED <<promised, next_content>>
        /\ books' \in [Book -> {Closed}] /\ next_handle' \in 1..(MaxBooks + 1)
        /\ visible' \in [Path -> Content \cup {NoFile, Torn}]
        /\ \A p \in Path : visible'[p] \in after_crash[p]
        /\ after_crash' = [p \in Path |-> {visible'[p]}]
    BY <1>2, BoundsAreNatural DEF PowerFailure, ProcessEnds
  <2>2. TypeOK'
    BY <2>1 DEF TypeOK
  <2>3. FilesAreWhole'
    BY <2>1 DEF FilesAreWhole
  <2>4. AcknowledgedSavesLast'
    BY <2>1 DEF AcknowledgedSavesLast
  <2> QED
    BY <2>1, <2>2, <2>3, <2>4 DEF WriteInv
<1>3. ASSUME NEW p \in Path, CreatedElsewhere(p) PROVE FilesInv'
  <2>1. /\ visible[p] = NoFile /\ next_content \in Content
        /\ visible' = [visible EXCEPT ![p] = next_content]
        /\ after_crash' = [after_crash EXCEPT ![p] = {next_content}]
        /\ UNCHANGED <<books, next_handle, op, promised>>
        /\ next_content' \in 1..(MaxContent + 1)
    BY <1>3, NextContent DEF CreatedElsewhere, session, TypeOK
  <2>2. TypeOK'
    BY <2>1 DEF TypeOK
  <2>3. FilesAreWhole' /\ \A q \in Path : visible'[q] \in after_crash'[q]
    BY <2>1, FilesAtStart DEF FilesAreWhole, TypeOK
  <2>4. AcknowledgedSavesLast'
    BY <2>1 DEF AcknowledgedSavesLast, TypeOK
  <2>5. ASSUME op # NoOp, op.stage \in {"SyncParentDirectory", "SyncPersisted"}
        PROVE  op.target # p
    BY <2>1, <2>5, FilesAtStart DEF WriteInv, TypeOK, DurableWrite
  <2>6. WriteInv'
    BY <2>1, <2>5 DEF WriteInv, IsOpen, TypeOK, DurableWrite
  <2> QED
    BY <2>2, <2>3, <2>4, <2>6
<1> QED
  BY <1>1, <1>2, <1>3 DEF Environment

(* Every step keeps it.                                                     *)
LEMMA FilesInvStep ==
  FilesInv /\ [Next]_vars => FilesInv'
<1> SUFFICES ASSUME FilesInv, [Next]_vars PROVE FilesInv'
  OBVIOUS
<1>1. CASE UNCHANGED vars
  BY <1>1 DEF vars, files, session, FilesInv, TypeOK, FilesAreWhole, AcknowledgedSavesLast,
              WriteInv, IsOpen
<1> QED
  BY <1>1, CommandKeepsFilesInv, WriteKeepsFilesInv, EnvironmentKeepsFilesInv DEF Next

(* The inductive invariant of the files.                                    *)
THEOREM FilesInvIsInvariant == Spec => []FilesInv
BY InitFilesInv, FilesInvStep, PTL DEF Spec

(* Variables keep to their values: lib.rs RuntimeWorkbook, persistence.rs.   *)
THEOREM TypeCorrect == Spec => []TypeOK
<1>1. FilesInv => TypeOK
  BY DEF FilesInv
<1> QED
  BY <1>1, FilesInvIsInvariant, PTL

(* durable_atomic_write never leaves a half-written file, whatever fails.    *)
THEOREM FilesStayWhole == Spec => []FilesAreWhole
<1>1. FilesInv => FilesAreWhole
  BY DEF FilesInv
<1> QED
  BY <1>1, FilesInvIsInvariant, PTL

(* A save that returned success outlasts failures of later saves and any     *)
(* number of crashes, until its file is replaced.                           *)
THEOREM AcknowledgedSavesAreDurable == Spec => []AcknowledgedSavesLast
<1>1. FilesInv => AcknowledgedSavesLast
  BY DEF FilesInv
<1> QED
  BY <1>1, FilesInvIsInvariant, PTL

-----------------------------------------------------------------------------
(* Which steps touch files at all.                                          *)
LEMMA QuietSteps ==
  ASSUME Command \/ WriteTemporary \/ SyncTemporary \/ Acknowledge \/ Fail \/ Killed
  PROVE  UNCHANGED files
BY DEF Command, Add, AddOtherSheetKind, Open, Register, Edit, EditMarkingParts, MoveSheets,
       Editable, Calculate, CalculateFullRebuild, SetIteration, SetSaved, Change, Save,
       SaveAs, SaveCopyAs, CloseSaving, BeginWrite, SaveToWriter, CloseDropping, CloseAll, Drop,
       WriteTemporary, SyncTemporary, Acknowledge, Fail, Killed

(* A workbook opened read-only never replaces a file: what protects the      *)
(* file is the create-new rename, not an earlier look at the path.          *)
THEOREM ReadOnlyIsSafe == Spec => ReadOnlyReplacesNothing
<1> DEFINE Kept == op # NoOp /\ op' # NoOp /\ books[op.book].read_only =>
                     \A p \in Path : visible[p] # NoFile => visible'[p] = visible[p]
<1>1. FilesInv /\ [Next]_vars => Kept
  <2> SUFFICES ASSUME FilesInv, [Next]_vars, op # NoOp, op' # NoOp, books[op.book].read_only,
                      NEW p \in Path, visible[p] # NoFile
               PROVE  visible'[p] = visible[p]
    OBVIOUS
  <2>1. op.mode = "CreateNew" /\ op.target \in Path /\ visible \in [Path -> Content \cup {NoFile, Torn}]
    BY DEF FilesInv, WriteInv, WriteMode, TypeOK, DurableWrite
  <2>2. CASE ReplaceTarget
    BY <2>1, <2>2 DEF ReplaceTarget, Refused
  <2>3. CASE SyncParentDirectory
    BY <2>3 DEF SyncParentDirectory
  <2>4. CASE Environment
    BY <2>1, <2>4 DEF Environment, Killed, PowerFailure, ProcessEnds, CreatedElsewhere
  <2>5. CASE UNCHANGED vars
    BY <2>5 DEF vars, files
  <2> QED
    BY <2>2, <2>3, <2>4, <2>5, QuietSteps DEF Next, Progress, RefuseExistingTarget, files
<1> QED
  BY <1>1, FilesInvIsInvariant, PTL DEF Spec, ReadOnlyReplacesNothing

(* To a reader of the files every save is atomic, in every stage and after   *)
(* every crash: each step maps to a step of AtomicFiles or to none.         *)
THEOREM SavesAreAtomic == Spec => ImplementsAtomicFiles
<1>1. Init => Atomic!Init
  BY FilesAtStart DEF Init, Atomic!Init
<1>2. FilesInv /\ FilesInv' /\ [Next]_vars => [Atomic!Next]_<<visible, after_crash>>
  <2> SUFFICES ASSUME FilesInv, FilesInv', [Next]_vars
               PROVE  Atomic!Next \/ UNCHANGED <<visible, after_crash>>
    BY DEF Atomic!Next
  <2>1. CASE ReplaceTarget
    <3>1. op.target \in Path /\ op.bytes \in Content /\ op.synced
      BY <2>1 DEF ReplaceTarget, At, FilesInv, WriteInv, TypeOK, DurableWrite
    <3>2. Atomic!Put(op.target, op.bytes)
      BY <2>1, <3>1 DEF ReplaceTarget, Atomic!Put
    <3> QED
      BY <3>1, <3>2 DEF Atomic!Next
  <2>2. CASE SyncParentDirectory
    <3>1. op.target \in Path /\ after_crash[op.target] \cap {Torn} = {}
      BY <2>2 DEF SyncParentDirectory, At, FilesInv, FilesAreWhole, TypeOK, DurableWrite
    <3>2. after_crash' = [after_crash EXCEPT ![op.target] =
                             {visible[op.target]} \cup (@ \cap {Torn})]
          /\ UNCHANGED visible
      BY <2>2 DEF SyncParentDirectory
    <3>3. after_crash' = [after_crash EXCEPT ![op.target] = {visible[op.target]}]
      BY <3>1, <3>2
    <3>4. Atomic!Settle(op.target)
      BY <3>2, <3>3 DEF Atomic!Settle
    <3> QED
      BY <3>1, <3>4 DEF Atomic!Next
  <2>3. CASE PowerFailure
    <3>1. visible' \in [Path -> Content \cup {NoFile}]
      BY DEF FilesInv, TypeOK, FilesAreWhole
    <3> QED
      BY <2>3, <3>1 DEF PowerFailure, Atomic!PowerFailure, Atomic!Next
  <2>4. ASSUME NEW p \in Path, CreatedElsewhere(p)
        PROVE  Atomic!Next
    <3>1. next_content \in Content /\ Atomic!Create(p, next_content)
      BY <2>4 DEF CreatedElsewhere, Atomic!Create
    <3> QED
      BY <3>1 DEF Atomic!Next
  <2>5. CASE UNCHANGED vars
    BY <2>5 DEF vars, files
  <2> QED
    BY <2>1, <2>2, <2>3, <2>4, <2>5, QuietSteps
       DEF Next, Progress, RefuseExistingTarget, Environment, files
<1> QED
  BY <1>1, <1>2, FilesInvIsInvariant, PTL DEF Spec, ImplementsAtomicFiles, Atomic!Spec

-----------------------------------------------------------------------------
(* A workbook turns clean only with its content durable where it says it is, *)
(* so SaveCopyAs and a failed save leave it dirty.                          *)
THEOREM CleanIsStored == Spec => CleanMeansStored
<1> DEFINE Cleaned(b) ==
      IsOpen(b) /\ Unsaved(books[b]) /\ books'[b] # Closed /\ ~Unsaved(books'[b]) =>
        \/ Idle
        \/ /\ books'[b].source_path # NoPath
           /\ after_crash'[books'[b].source_path] = {books[b].content}
<1>1. FilesInv /\ [Next]_vars => \A b \in Book : Cleaned(b)
  <2> SUFFICES ASSUME FilesInv, [Next]_vars, ~Idle, NEW b \in Book, IsOpen(b),
                      Unsaved(books[b]), books'[b] # Closed, ~Unsaved(books'[b])
               PROVE  /\ books'[b].source_path # NoPath
                      /\ after_crash'[books'[b].source_path] = {books[b].content}
    OBVIOUS
  <2>1. CASE Acknowledge
    <3>1. /\ op.target \in Path /\ op.bytes = books[op.book].content
          /\ after_crash[op.target] = {op.bytes}
          /\ op.kind = "Save" => op.target = books[op.book].source_path
      BY <2>1 DEF Acknowledge, At, Idle, FilesInv, WriteInv, TypeOK, DurableWrite
    <3>2. books'[b] = Answered[b] /\ UNCHANGED after_crash
      BY <2>1 DEF Acknowledge, files
    <3>3. b = op.book /\ op.kind \in {"Save", "SaveAs"}
      BY <3>2, Zenon DEF Answered, TypeOK, DurableWrite, FilesInv, Idle
    <3>4. books[b] \in RuntimeWorkbook
      BY DEF FilesInv, TypeOK, IsOpen
    <3>5. books'[b].source_path = op.target
      <4>1. CASE op.kind = "Save"
        BY <3>1, <3>2, <3>3, <3>4, <4>1, CommittedPaths DEF Answered
      <4>2. CASE op.kind = "SaveAs"
        <5>1. books'[b] = [Committed(books[b]) EXCEPT !.source_path = op.target,
                                                      !.read_only = FALSE]
          BY <3>2, <3>3, <4>2 DEF Answered
        <5> QED
          BY <3>1, <3>4, <5>1, CommittedPaths
      <4> QED
        BY <3>3, <4>1, <4>2
    <3> QED
      BY <3>1, <3>2, <3>3, <3>5, FilesAtStart
  <2>2. CASE Killed \/ PowerFailure
    BY <2>2 DEF Killed, PowerFailure, ProcessEnds
  <2>3. CASE Command
    BY <2>3 DEF Command, Add, AddOtherSheetKind, Open, Register, Edit, EditMarkingParts, MoveSheets,
         Editable, Calculate, CalculateFullRebuild, SetIteration, SetSaved, Save, SaveAs, SaveCopyAs, CloseSaving, BeginWrite, SaveToWriter, CloseDropping, CloseAll, Drop
  <2>4. ASSUME UNCHANGED books PROVE FALSE
    BY <2>4 DEF Unsaved
  <2>5. CASE UNCHANGED vars
    BY <2>4, <2>5 DEF vars, session
  <2>6. CASE WriteTemporary \/ SyncTemporary \/ ReplaceTarget \/ SyncParentDirectory \/ Fail
               \/ (\E p \in Path : CreatedElsewhere(p))
    BY <2>4, <2>6 DEF WriteTemporary, SyncTemporary, ReplaceTarget, SyncParentDirectory, Fail,
                      CreatedElsewhere, session
  <2> QED
    BY <2>1, <2>2, <2>3, <2>5, <2>6 DEF Next, Progress, RefuseExistingTarget, Environment
<1> QED
  BY <1>1, FilesInvIsInvariant, PTL DEF Spec, CleanMeansStored

-----------------------------------------------------------------------------
(* Truthful speaks of open workbooks only.                                  *)
LEMMA TruthfulBooks ==
  DirtyInv <=> \A b \in Book : IsOpen(b) => Truthful(books[b])
BY DEF DirtyInv, UnsavedIsDirty, EditsPrompt, Truthful

(* Every step keeps the books truthful.                                     *)
LEMMA DirtyInvStep ==
  FilesInv /\ DirtyInv /\ [Next]_vars => DirtyInv'
<1> SUFFICES ASSUME FilesInv, DirtyInv, [Next]_vars,
                    NEW b \in Book, books'[b] # Closed
             PROVE  Truthful(books'[b])
  BY DEF DirtyInv, UnsavedIsDirty, EditsPrompt, Truthful, IsOpen
<1>1. books'[b] = books[b] => Truthful(books'[b])
  BY TruthfulBooks DEF IsOpen
<1>2. TypeOK
  BY DEF FilesInv
<1>3. IsOpen(b) => books[b] \in RuntimeWorkbook /\ Truthful(books[b])
  BY <1>2, TruthfulBooks DEF TypeOK, IsOpen
<1>4. ASSUME NEW book, Register(book), Truthful(book)
      PROVE  Truthful(books'[b])
  BY <1>1, <1>2, <1>4 DEF Register, TypeOK
<1>5. CASE Add
  <2>1. PICK book : Register(book) /\ Truthful(book)
    BY <1>5, OpenedTypes, BlankInContent DEF Add
  <2> QED
    BY <1>4, <2>1
<1>6. CASE AddOtherSheetKind
  <2>0. \A c, d \in Content :
          Truthful([Opened(c, NoPath, FALSE) EXCEPT !.content = d, !.semantic_dirty = TRUE])
    BY OpenedTypes
  <2>1. PICK book : Register(book) /\ Truthful(book)
    BY <1>6, <2>0, BlankInContent DEF AddOtherSheetKind
  <2> QED
    BY <1>4, <2>1
<1>7. ASSUME NEW p \in Path, NEW r \in BOOLEAN, Open(p, r)
      PROVE  Truthful(books'[b])
  <2>1. PICK book : Register(book) /\ Truthful(book)
    BY <1>7, OpenedTypes DEF Open
  <2> QED
    BY <1>4, <2>1
<1>8. ASSUME NEW a \in Book, ChangeOf(a) PROVE Truthful(books'[b])
  <2>1. PICK book \in RuntimeWorkbook : /\ books' = [books EXCEPT ![a] = book]
                                        /\ Truthful(books[a]) => Truthful(book)
    BY <1>2, <1>8, ChangeOfBooks
  <2>2. IsOpen(a)
    BY <1>2, <1>8, ChangeOfBooks
  <2>3. CASE a = b
    BY <1>2, <1>3, <2>1, <2>2, <2>3 DEF TypeOK
  <2>4. CASE a # b
    BY <1>1, <1>2, <2>1, <2>4 DEF TypeOK
  <2> QED
    BY <2>3, <2>4
<1>9. ASSUME NEW bs \in SUBSET Book, Drop(bs) PROVE Truthful(books'[b])
  BY <1>1, <1>9 DEF Drop
<1>10. CASE Acknowledge
  <2>1. op \in DurableWrite /\ op.target \in Path /\ op.book \in Book
    BY <1>2, <1>10 DEF Acknowledge, At, TypeOK, DurableWrite
  <2>2. ASSUME b # op.book PROVE books'[b] = books[b]
    BY <1>10, <2>2 DEF Acknowledge, Answered
  <2>3. ASSUME b = op.book PROVE Truthful(books'[b])
    <3>1. IsOpen(b) /\ books'[b] = Answered[b]
      BY <1>10, <2>1, <2>3 DEF Acknowledge, At, FilesInv, WriteInv
    <3>2. CASE op.kind = "Save"
      <4>1. books'[b] = Committed(books[b])
        BY <2>3, <3>1, <3>2 DEF Answered
      <4> QED
        BY <1>3, <2>1, <3>1, <4>1, CommittedFields
    <3>3. CASE op.kind = "SaveAs"
      <4>1. books'[b] = [Committed(books[b]) EXCEPT !.source_path = op.target, !.read_only = FALSE]
        BY <2>3, <3>1, <3>3 DEF Answered
      <4> QED
        BY <1>3, <2>1, <3>1, <4>1, CommittedFields
    <3>4. CASE op.kind = "SaveCopyAs"
      BY <1>3, <2>3, <3>1, <3>4 DEF Answered
    <3>5. CASE op.kind = "Close"
      BY <2>3, <3>1, <3>5 DEF Answered
    <3> QED
      BY <2>1, <3>2, <3>3, <3>4, <3>5 DEF DurableWrite
  <2> QED
    BY <1>1, <2>2, <2>3
<1>11. CASE Killed \/ PowerFailure
  BY <1>11 DEF Killed, PowerFailure, ProcessEnds
<1>12. ASSUME NEW a \in Book, Save(a) \/ (\E p \in Path : SaveAs(a, p) \/ SaveCopyAs(a, p))
                               \/ (\E p \in Path \cup {NoPath} : CloseSaving(a, p))
       PROVE  Truthful(books'[b])
  BY <1>1, <1>12 DEF Save, SaveAs, SaveCopyAs, CloseSaving, BeginWrite, session
<1>13. CASE WriteTemporary \/ SyncTemporary \/ ReplaceTarget \/ SyncParentDirectory \/ Fail
              \/ (\E p \in Path : CreatedElsewhere(p)) \/ UNCHANGED vars
  BY <1>1, <1>13 DEF WriteTemporary, SyncTemporary, ReplaceTarget, SyncParentDirectory, Fail,
                     CreatedElsewhere, session, vars
<1> QED
  BY <1>5, <1>6, <1>7, <1>8, <1>9, <1>10, <1>11, <1>12, <1>13
     DEF Next, Command, ChangeOf, Progress, RefuseExistingTarget, Environment, CloseDropping,
         CloseAll

(* The books are truthful throughout.                                       *)
LEMMA DirtyInvIsInvariant == Spec => []DirtyInv
<1>1. Init => DirtyInv
  BY DEF Init, DirtyInv, UnsavedIsDirty, EditsPrompt, IsOpen
<1> QED
  BY <1>1, DirtyInvStep, FilesInvIsInvariant, PTL DEF Spec

(* Nothing a session does hides an unsaved change from the save, but that    *)
(* Worksheets(...).Move marks nothing: not a calculation or an edit of any   *)
(* kind, Saved, a copy, a save that fails in any stage, nor a crash.        *)
THEOREM UnsavedChangesAreDirty == Spec => []UnsavedIsDirty
<1>1. DirtyInv => UnsavedIsDirty
  BY DEF DirtyInv
<1> QED
  BY <1>1, DirtyInvIsInvariant, PTL

(* Close without SaveChanges asks about every edit nobody waived, the edits  *)
(* that leave the semantic domain alone among them.                         *)
THEOREM EditsAreAskedAbout == Spec => []EditsPrompt
<1>1. DirtyInv => EditsPrompt
  BY DEF DirtyInv
<1> QED
  BY <1>1, DirtyInvIsInvariant, PTL
=============================================================================
