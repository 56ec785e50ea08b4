-------------------------- MODULE SaveTransaction --------------------------
(***************************************************************************)
(* The open workbooks of a session, their dirty domains, and the files     *)
(* they are saved to.  Save, SaveAs, SaveCopyAs and Close(SaveChanges) run *)
(* through durable_atomic_write, one step per stage; a stage may fail, the *)
(* process may end or the power fail between any two, and another process  *)
(* may create a file meanwhile.  The session is single-threaded: while a   *)
(* save runs no other command does.                                        *)
(*                                                                         *)
(* A workbook is a version number of its content.  An edit or a            *)
(* calculation that changes something makes a version never seen before.   *)
(* File formats and display names are left out.  The file system is that   *)
(* of a Unix build: a rename is certain only after the parent directory    *)
(* was synced.                                                             *)
(*                                                                         *)
(* MarkedWithoutPrompt, WriteModeReplace, CloseSavingNowhere,              *)
(* UnsyncedTemporary, UnsyncedDirectory, CommittedOnOldPackage,            *)
(* AnsweredCopyCommits, FailRemovingTarget and RetriedForever stand each   *)
(* before the definition they are a faulty variant of.                     *)
(***************************************************************************)
EXTENDS Naturals

CONSTANTS
  Path,
  MaxBooks,                 \* bound on the workbooks a process opens
  MaxContent,               \* bound on the versions that are made
  InitialFiles,             \* the files at the start
  FirstEdit,                \* the first version an edit makes
  NoFile, Torn,             \* no file; bytes that are not a whole package
  Closed, NoPath, NoOp

Content == 0..MaxContent
BlankWorkbook == 0
Book == 1..MaxBooks

ASSUME BoundsAreNatural == MaxBooks \in Nat /\ MaxContent \in Nat

ASSUME FilesAtStart ==
  /\ InitialFiles \in [Path -> Content \cup {NoFile}]
  /\ FirstEdit \in Content \ {BlankWorkbook}
  /\ \A p \in Path : InitialFiles[p] # NoFile => InitialFiles[p] < FirstEdit
  /\ NoPath \notin Path /\ NoFile \notin Content /\ Torn \notin Content \cup {NoFile}

RuntimeWorkbook ==
  [content : Content,                   \* the state in memory
   package : Content,                   \* the package it was read from or saved to
   source_path : Path \cup {NoPath}, read_only : BOOLEAN,
   prompt_dirty : BOOLEAN, semantic_dirty : BOOLEAN, formula_cache_dirty : BOOLEAN,
   parts_dirty : BOOLEAN,               \* what worksheets, names, charts, drawings, package
                                        \* graph and calculation properties are marked with,
                                        \* or a calculation recorded for the next save
   edited : BOOLEAN,                    \* an edit nobody waived; history only
   only_moved : BOOLEAN]                \* the sheets' order is all that changed; history only

ASSUME ClosedIsNoWorkbook == Closed \notin RuntimeWorkbook

Stage == {"WriteTemporary", "SyncTemporary", "ReplaceTarget",
          "SyncParentDirectory", "SyncPersisted"}

DurableWrite ==
  [kind : {"Save", "SaveAs", "SaveCopyAs", "Close"}, book : Book, target : Path,
   mode : {"Replace", "CreateNew"}, bytes : Content, stage : Stage,
   synced : BOOLEAN]                    \* the temporary file was synced

ASSUME NoOpIsNoWrite == NoOp \notin DurableWrite

VARIABLES
  visible,         \* Path -> what a reader of the file sees
  after_crash,     \* Path -> what it may see after a power failure
  books,           \* handle -> RuntimeWorkbook or Closed
  next_handle,
  op,              \* the durable_atomic_write under way
  promised,        \* Path -> the content last acknowledged; history only
  next_content     \* the next version; history only

files == <<visible, after_crash>>
session == <<books, next_handle>>
vars == <<files, session, op, promised, next_content>>

Init ==
  /\ visible = InitialFiles
  /\ after_crash = [p \in Path |-> {InitialFiles[p]}]
  /\ books = [b \in Book |-> Closed]
  /\ next_handle = 1
  /\ op = NoOp /\ promised = [p \in Path |-> NoFile]
  /\ next_content = FirstEdit

Idle == op = NoOp
IsOpen(b) == books[b] # Closed

(* serialization_dirty.                                                     *)
Unsaved(book) == book.semantic_dirty \/ book.formula_cache_dirty \/ book.parts_dirty

-----------------------------------------------------------------------------
(* Opening.  Handles are numbered and never reused by a process.            *)

Opened(content, path, read_only) ==
  [content |-> content, package |-> content, source_path |-> path,
   read_only |-> read_only, prompt_dirty |-> FALSE, semantic_dirty |-> FALSE,
   formula_cache_dirty |-> FALSE, parts_dirty |-> FALSE,
   edited |-> FALSE, only_moved |-> FALSE]

Register(book) ==
  /\ Idle /\ next_handle \in Book
  /\ books' = [books EXCEPT ![next_handle] = book]
  /\ next_handle' = next_handle + 1
  /\ UNCHANGED <<files, op, promised>>

(* Workbooks.Add: a blank workbook, or the content of a template file.      *)
Add ==
  /\ \/ Register(Opened(BlankWorkbook, NoPath, FALSE))
     \/ \E p \in Path : visible[p] \in Content /\ Register(Opened(visible[p], NoPath, FALSE))
  /\ UNCHANGED next_content

(* A new chart or macro sheet workbook is a blank one that was edited; only *)
(* the prompt forgets it.                                                   *)
AddOtherSheetKind ==
  /\ next_content \in Content
  /\ Register([Opened(BlankWorkbook, NoPath, FALSE)
                 EXCEPT !.content = next_content, !.semantic_dirty = TRUE])
  /\ next_content' = next_content + 1

Open(p, read_only) ==
  /\ visible[p] \in Content
  /\ Register(Opened(visible[p], p, read_only))
  /\ UNCHANGED next_content

-----------------------------------------------------------------------------
(* Changes of an open workbook.                                             *)

Change(b, book) ==
  /\ books' = [books EXCEPT ![b] = book]
  /\ UNCHANGED <<files, next_handle, op, promised>>

MarkedWithoutPrompt(book) == [book EXCEPT !.semantic_dirty = TRUE]
MarkedSemantic(book) == [book EXCEPT !.prompt_dirty = TRUE, !.semantic_dirty = TRUE]

Changed(book) == [book EXCEPT !.content = next_content, !.only_moved = FALSE]
Edited(book) == [Changed(book) EXCEPT !.edited = TRUE]
Editable(b) == Idle /\ IsOpen(b) /\ ~books[b].read_only /\ next_content \in Content

(* Most edits use the shared marker, and mark the parts they touch or not.  *)
Edit(b) ==
  /\ Editable(b)
  /\ \E marks \in BOOLEAN :
       Change(b, MarkedSemantic([Edited(books[b]) EXCEPT !.parts_dirty = @ \/ marks]))
  /\ next_content' = next_content + 1

(* Adding and deleting a name, a chart or a series, moving a chart frame and *)
(* deleting chart lines set the prompt themselves, beside the part's mark.   *)
EditMarkingParts(b) ==
  /\ Editable(b)
  /\ Change(b, [Edited(books[b]) EXCEPT !.prompt_dirty = TRUE, !.parts_dirty = TRUE])
  /\ next_content' = next_content + 1

(* Worksheets(...).Move in its own workbook rewrites the order of the sheets *)
(* and sets the prompt, and nothing else.                                   *)
MoveSheets(b) ==
  /\ Editable(b)
  /\ Change(b, [books[b] EXCEPT
                  !.content = next_content, !.prompt_dirty = TRUE, !.edited = TRUE,
                  !.only_moved = @ \/ books[b].content = books[b].package])
  /\ next_content' = next_content + 1

(* Calculation writes results back in read-only workbooks too, and does not *)
(* touch the prompt.  It is recorded whether or not a result changed.       *)
Calculate(b) ==
  /\ Idle /\ IsOpen(b)
  /\ \/ /\ next_content \in Content
        /\ Change(b, [Changed(books[b]) EXCEPT !.formula_cache_dirty = TRUE, !.parts_dirty = TRUE])
        /\ next_content' = next_content + 1
     \/ /\ Change(b, [books[b] EXCEPT !.parts_dirty = TRUE])
        /\ UNCHANGED next_content

(* CalculateFullRebuild of a workbook with a calculation chain drops the     *)
(* chain from the package first.                                            *)
CalculateFullRebuild(b) ==
  /\ Idle /\ IsOpen(b) /\ next_content \in Content
  /\ \E changed \in BOOLEAN :
       Change(b, [Changed(books[b]) EXCEPT !.prompt_dirty = TRUE, !.parts_dirty = TRUE,
                    !.formula_cache_dirty = @ \/ changed])
  /\ next_content' = next_content + 1

(* set_workbook_iteration changes the calculation properties alone.          *)
SetIteration(b) ==
  /\ Idle /\ IsOpen(b) /\ next_content \in Content
  /\ Change(b, [Changed(books[b]) EXCEPT !.parts_dirty = TRUE])
  /\ next_content' = next_content + 1

SetSaved(b, saved) ==
  /\ Idle /\ IsOpen(b)
  /\ Change(b, [books[b] EXCEPT !.prompt_dirty = ~saved, !.edited = @ /\ ~saved])
  /\ UNCHANGED next_content

-----------------------------------------------------------------------------
(* The commands that write a file, up to the write.                         *)

WriteModeReplace(book) == "Replace"
WriteMode(book) == IF book.read_only THEN "CreateNew" ELSE "Replace"

BeginWrite(kind, b, p) ==
  /\ Idle
  /\ op' = [kind |-> kind, book |-> b, target |-> p, mode |-> WriteMode(books[b]),
            bytes |-> books[b].content, stage |-> "WriteTemporary", synced |-> FALSE]
  /\ UNCHANGED <<files, session, promised, next_content>>

Save(b) ==
  /\ IsOpen(b) /\ books[b].source_path # NoPath /\ ~books[b].read_only
  /\ BeginWrite("Save", b, books[b].source_path)

SaveAs(b, p) == IsOpen(b) /\ BeginWrite("SaveAs", b, p)
SaveCopyAs(b, p) == IsOpen(b) /\ BeginWrite("SaveCopyAs", b, p)

(* Close(SaveChanges := True, Filename := p), p left out being NoPath.      *)
CloseSavingNowhere(b, p) ==
  /\ IsOpen(b) /\ (books[b].read_only => p # NoPath)
  /\ BeginWrite("Close", b, IF p # NoPath THEN p ELSE books[b].source_path)
CloseSaving(b, p) ==
  /\ IsOpen(b) /\ (books[b].read_only => p # NoPath)
  /\ LET save_path == IF p # NoPath THEN p ELSE books[b].source_path
     IN save_path # NoPath /\ BeginWrite("Close", b, save_path)

(* close_workbook drops the workbook whatever it holds.  Close without      *)
(* SaveChanges is refused while prompt_dirty asks for a decision and alerts *)
(* are on, and otherwise is Close(SaveChanges := False).                    *)
Drop(bs) ==
  /\ Idle /\ \E b \in bs : IsOpen(b)
  /\ books' = [b \in Book |-> IF b \in bs THEN Closed ELSE books[b]]
  /\ UNCHANGED <<files, next_handle, op, promised, next_content>>

CloseDropping(b) == Drop({b})

(* Workbooks.Close drops every workbook and never asks.                     *)
CloseAll == Drop(Book)

-----------------------------------------------------------------------------
(* durable_atomic_write, stage by stage.  Bytes that are written but not    *)
(* synced may be missing after a power failure.                             *)

At(stage) == op # NoOp /\ op.stage = stage
Advance(stage) == op' = [op EXCEPT !.stage = stage]

(* Creating, writing and flushing the temporary file: nobody else sees it.   *)
WriteTemporary ==
  /\ At("WriteTemporary") /\ Advance("SyncTemporary")
  /\ UNCHANGED <<files, session, promised, next_content>>

UnsyncedTemporary ==
  /\ At("SyncTemporary") /\ Advance("ReplaceTarget")
  /\ UNCHANGED <<files, session, promised, next_content>>
SyncTemporary ==
  /\ At("SyncTemporary")
  /\ op' = [op EXCEPT !.stage = "ReplaceTarget", !.synced = TRUE]
  /\ UNCHANGED <<files, session, promised, next_content>>

Refused == At("ReplaceTarget") /\ op.mode = "CreateNew" /\ visible[op.target] # NoFile

ReplaceTarget ==
  /\ At("ReplaceTarget") /\ ~Refused
  /\ visible' = [visible EXCEPT ![op.target] = op.bytes]
  /\ after_crash' = [after_crash EXCEPT ![op.target] =
                        @ \cup {IF op.synced THEN op.bytes ELSE Torn}]
  /\ promised' = [promised EXCEPT ![op.target] = NoFile]
  /\ Advance("SyncParentDirectory")
  /\ UNCHANGED <<session, next_content>>

UnsyncedDirectory ==
  /\ At("SyncParentDirectory") /\ Advance("SyncPersisted")
  /\ UNCHANGED <<files, session, promised, next_content>>
SyncParentDirectory ==
  /\ At("SyncParentDirectory")
  /\ after_crash' = [after_crash EXCEPT ![op.target] =
                        {visible[op.target]} \cup (@ \cap {Torn})]
  /\ Advance("SyncPersisted")
  /\ UNCHANGED <<visible, session, promised, next_content>>

(* commit_workbook_save_baseline: what was written is the new package, and  *)
(* nothing is dirty.                                                        *)
CleanDomains(book) ==
  [book EXCEPT !.prompt_dirty = FALSE, !.semantic_dirty = FALSE,
               !.formula_cache_dirty = FALSE, !.parts_dirty = FALSE,
               !.edited = FALSE, !.only_moved = FALSE]

CommittedOnOldPackage(book) == CleanDomains(book)
Committed(book) == [CleanDomains(book) EXCEPT !.package = book.content]

(* The write returns and its caller commits.                                *)
AnsweredCopyCommits ==
  [b \in Book |-> IF b # op.book THEN books[b] ELSE
     CASE op.kind \in {"Save", "SaveCopyAs"} -> Committed(books[b])
       [] op.kind = "SaveAs" -> [Committed(books[b]) EXCEPT
                                   !.source_path = op.target, !.read_only = FALSE]
       [] op.kind = "Close" -> Closed]
Answered ==
  [b \in Book |-> IF b # op.book THEN books[b] ELSE
     CASE op.kind = "Save" -> Committed(books[b])
       [] op.kind = "SaveAs" -> [Committed(books[b]) EXCEPT
                                   !.source_path = op.target, !.read_only = FALSE]
       [] op.kind = "SaveCopyAs" -> books[b]
       [] op.kind = "Close" -> Closed]

Acknowledge ==
  /\ At("SyncPersisted")
  /\ books' = Answered
  /\ promised' = [promised EXCEPT ![op.target] = op.bytes]
  /\ op' = NoOp
  /\ UNCHANGED <<files, next_handle, next_content>>

(* A stage returns an error: the temporary file is dropped, the workbook    *)
(* stays as it was, and a target already replaced stays replaced.           *)
FailRemovingTarget ==
  /\ ~Idle /\ op' = NoOp
  /\ visible' = [visible EXCEPT ![op.target] = NoFile]
  /\ after_crash' = [after_crash EXCEPT ![op.target] = @ \cup {NoFile}]
  /\ UNCHANGED <<session, promised, next_content>>
Fail ==
  /\ ~Idle
  /\ op' = NoOp
  /\ UNCHANGED <<files, session, promised, next_content>>

RetriedForever ==
  /\ Refused /\ Advance("WriteTemporary")
  /\ UNCHANGED <<files, session, promised, next_content>>
RefuseExistingTarget == Refused /\ Fail

(* The save into a host writer, which accepts and flushes every byte.       *)
SaveToWriter(b) ==
  /\ Idle /\ IsOpen(b)
  /\ books' = [books EXCEPT ![b] = Committed(@)]
  /\ UNCHANGED <<files, next_handle, op, promised, next_content>>

-----------------------------------------------------------------------------
(* What happens around the session.                                         *)

(* The process ends at any point; its workbooks and its temporary file go.  *)
ProcessEnds ==
  /\ books' = [b \in Book |-> Closed] /\ next_handle' = 1
  /\ op' = NoOp
  /\ UNCHANGED <<promised, next_content>>

Killed == ProcessEnds /\ UNCHANGED files

PowerFailure ==
  /\ ProcessEnds
  /\ visible' \in [Path -> Content \cup {NoFile, Torn}]
  /\ \A p \in Path : visible'[p] \in after_crash[p]
  /\ after_crash' = [p \in Path |-> {visible'[p]}]

(* Another process creates a file, durably.                                 *)
CreatedElsewhere(p) ==
  /\ visible[p] = NoFile /\ next_content \in Content
  /\ visible' = [visible EXCEPT ![p] = next_content]
  /\ after_crash' = [after_crash EXCEPT ![p] = {next_content}]
  /\ next_content' = next_content + 1
  /\ UNCHANGED <<session, op, promised>>

-----------------------------------------------------------------------------
Command ==
  \/ Add \/ AddOtherSheetKind
  \/ \E p \in Path, read_only \in BOOLEAN : Open(p, read_only)
  \/ \E b \in Book :
       \/ Edit(b) \/ EditMarkingParts(b) \/ MoveSheets(b)
       \/ Calculate(b) \/ CalculateFullRebuild(b) \/ SetIteration(b)
       \/ Save(b) \/ SaveToWriter(b) \/ CloseDropping(b)
       \/ \E saved \in BOOLEAN : SetSaved(b, saved)
       \/ \E p \in Path : SaveAs(b, p) \/ SaveCopyAs(b, p)
       \/ \E p \in Path \cup {NoPath} : CloseSaving(b, p)
  \/ CloseAll

Progress ==
  \/ WriteTemporary \/ SyncTemporary \/ ReplaceTarget \/ SyncParentDirectory
  \/ Acknowledge \/ RefuseExistingTarget

Environment == Killed \/ PowerFailure \/ \E p \in Path : CreatedElsewhere(p)

Next == Command \/ Progress \/ Fail \/ Environment

(* Every stage is one blocking call that returns, and the code goes on to   *)
(* the next; nothing forces a command, a failure or a crash to happen.      *)
Spec == Init /\ [][Next]_vars /\ WF_vars(Progress)

-----------------------------------------------------------------------------
(* Every variable keeps to its values.                                      *)
TypeOK ==
  /\ visible \in [Path -> Content \cup {NoFile, Torn}]
  /\ after_crash \in [Path -> SUBSET (Content \cup {NoFile, Torn})]
  /\ books \in [Book -> RuntimeWorkbook \cup {Closed}]
  /\ next_handle \in 1..(MaxBooks + 1)
  /\ op \in DurableWrite \cup {NoOp}
  /\ promised \in [Path -> Content \cup {NoFile}]
  /\ next_content \in 1..(MaxContent + 1)

(* The content a file shows or may show after a power failure is always one  *)
(* whole package: the save never leaves a half-written one behind, whatever  *)
(* stage it fails or the machine stops in.                                  *)
FilesAreWhole ==
  \A p \in Path : visible[p] # Torn /\ Torn \notin after_crash[p]

(* A save that returned success is in its file, now and after any number of  *)
(* crashes, until a later save replaces that file.                          *)
AcknowledgedSavesLast ==
  \A p \in Path : promised[p] # NoFile =>
    visible[p] = promised[p] /\ after_crash[p] = {promised[p]}

(* Whatever differs from the package it was read from or last saved to is    *)
(* dirty in a domain the save looks at: a copy, a failed save or the Saved   *)
(* flag never hides it.  The exception is a workbook of which only the order *)
(* of the sheets differs, as Worksheets(...).Move leaves it.                *)
UnsavedIsDirty ==
  \A b \in Book :
    IsOpen(b) /\ books[b].content # books[b].package /\ ~books[b].only_moved =>
      Unsaved(books[b])

(* "Supported content/model mutation | true | true | true": every change is  *)
(* dirty in a domain the save looks at, a change of the sheets' order too.   *)
EveryChangeIsDirty ==
  \A b \in Book : IsOpen(b) /\ books[b].content # books[b].package => Unsaved(books[b])

(* Every edit nobody waived is in the semantic domain, as the edits that     *)
(* "use the shared semantic marker" are.                                    *)
EditsAreSemantic ==
  \A b \in Book : IsOpen(b) /\ books[b].edited => books[b].semantic_dirty

(* Close without SaveChanges asks about every edit, unless the caller set    *)
(* Saved after it.                                                          *)
EditsPrompt ==
  \A b \in Book : IsOpen(b) /\ books[b].edited => books[b].prompt_dirty

(* A workbook turns clean only when its content is durably where it says it  *)
(* is, unless it is the host's writer that accepted it (no write is under    *)
(* way then).                                                               *)
CleanMeansStored ==
  [][\A b \in Book :
       IsOpen(b) /\ Unsaved(books[b]) /\ books'[b] # Closed /\ ~Unsaved(books'[b]) =>
         \/ Idle
         \/ /\ books'[b].source_path # NoPath
            /\ after_crash'[books'[b].source_path] = {books[b].content}]_vars

(* A workbook opened read-only never replaces a file, even one that appears  *)
(* between the command and the end of its write.                            *)
ReadOnlyReplacesNothing ==
  [][op # NoOp /\ op' # NoOp /\ books[op.book].read_only =>
       \A p \in Path : visible[p] # NoFile => visible'[p] = visible[p]]_vars

(* The caller of a save gets an answer, whatever it finds at the target.     *)
SavesAreAnswered == ~Idle ~> Idle

(* To a reader of the files, saving is atomic.                              *)
Atomic == INSTANCE AtomicFiles WITH possible <- after_crash
ImplementsAtomicFiles == Atomic!Spec
=============================================================================
