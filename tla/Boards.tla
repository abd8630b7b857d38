------------------------------- MODULE Boards --------------------------------
(***************************************************************************)
(* A project and its board (app-host/src/project_service.rs,               *)
(* board_service.rs, document_store.rs).                                   *)
(*                                                                         *)
(* The registry of board sessions is locked only for a look; a session     *)
(* itself is locked from the edit until its file is written.  A session is *)
(* found in the registry, or opened from the file and registered, while    *)
(* other calls create, rename or delete the project it belongs to: a       *)
(* handle may outlive the project.                                         *)
(*                                                                         *)
(* Collections keep their sessions and files the same way.                 *)
(***************************************************************************)
EXTENDS DocumentSession, FiniteSets

CONSTANTS Calls, NoCall, NoDoc, MaxVersion, MaxSessions, MaxLives, MaxFaults

ASSUME CallsAssumption == NoCall \notin Calls
\* A document of a board: the version, the edit it has the content of, the
\* life of the project it was begun in.
Documents == [version : Nat, content : Nat, life : Nat]

ASSUME DocAssumption == NoDoc \notin Documents
ASSUME BoundsAssumption == {MaxVersion, MaxSessions, MaxLives, MaxFaults} \subseteq Nat

VARIABLES
  known,    \* the project is in the registry of projects
  folder,   \* its directory exists
  manifest, \* project.json does
  file,     \* the document in board.json, or NoDoc
  life,     \* how often a board was begun, forgotten or deleted
  heap,     \* every session opened, oldest first
  live,     \* the registered one, 0 when there is none
  lock,     \* the call holding each session's lock
  ahead,    \* sessions whose last save failed
  pc, op,   \* where each call is, and what it is for
  at,       \* the session a call works on
  read,     \* the document it read from the file
  edits,    \* batches accepted so far
  faults

disk == <<folder, manifest, file, life>>
sessions == <<heap, live, lock, ahead>>
calls == <<pc, op, at, read>>
bounds == <<edits, faults>>
vars == <<known, disk, sessions, calls, bounds>>

Init ==
  /\ known = FALSE /\ folder = FALSE /\ manifest = FALSE /\ file = NoDoc /\ life = 0
  /\ heap = <<>> /\ live = 0 /\ lock = <<>> /\ ahead = {}
  /\ pc = [c \in Calls |-> "idle"] /\ op = [c \in Calls |-> "none"]
  /\ at = [c \in Calls |-> 0] /\ read = [c \in Calls |-> NoDoc]
  /\ edits = 0 /\ faults = 0

Goto(c, label) == pc' = [pc EXCEPT ![c] = label]
Return(c) ==
  /\ Goto(c, "idle")
  /\ op' = [op EXCEPT ![c] = "none"] /\ at' = [at EXCEPT ![c] = 0]
  /\ read' = [read EXCEPT ![c] = NoDoc]
Begin(c, what, label) ==
  /\ pc[c] = "idle" /\ Goto(c, label) /\ op' = [op EXCEPT ![c] = what]
  /\ UNCHANGED <<at, read>>

Fault == faults < MaxFaults /\ faults' = faults + 1

-----------------------------------------------------------------------------
(* BoardService::load_or_create and session_for *)

CallBoard(c, what) ==
  /\ Begin(c, what, "find")
  /\ UNCHANGED <<known, disk, sessions, bounds>>

FindCached(c) ==
  /\ pc[c] = "find" /\ live # 0 /\ Goto(c, "reread")
  /\ UNCHANGED <<known, disk, sessions, op, at, read, bounds>>

\* Not registered: the file is read; UnknownBoard when there is none.
ReadBoard(c) ==
  /\ pc[c] = "find" /\ live = 0 /\ file # NoDoc
  /\ read' = [read EXCEPT ![c] = file] /\ Goto(c, "insert")
  /\ UNCHANGED <<known, disk, sessions, op, at, bounds>>
UnknownBoard(c) ==
  /\ pc[c] \in {"find", "reread"} /\ live = 0 /\ (pc[c] = "find" => file = NoDoc)
  /\ Return(c)
  /\ UNCHANGED <<known, disk, sessions, bounds>>

InsertAnyhow(c) ==
  /\ pc[c] = "insert" /\ Len(heap) < MaxSessions
  /\ heap' = Append(heap, Opened(read[c])) /\ lock' = Append(lock, NoCall)
  /\ live' = Len(heap) + 1
  /\ read' = [read EXCEPT ![c] = NoDoc] /\ Goto(c, "reread")
  /\ UNCHANGED <<known, disk, ahead, op, at, bounds>>

\* Registered unless another call was first.
Insert(c) ==
  /\ pc[c] = "insert"
  /\ IF live # 0 THEN UNCHANGED <<heap, live, lock>>
     ELSE /\ Len(heap) < MaxSessions
          /\ heap' = Append(heap, Opened(read[c])) /\ lock' = Append(lock, NoCall)
          /\ live' = Len(heap) + 1
  /\ read' = [read EXCEPT ![c] = NoDoc] /\ Goto(c, "reread")
  /\ UNCHANGED <<known, disk, ahead, op, at, bounds>>

\* The handle the call keeps is the one registered now.
Reread(c) ==
  /\ pc[c] = "reread" /\ live # 0
  /\ at' = [at EXCEPT ![c] = live] /\ Goto(c, "acquire")
  /\ UNCHANGED <<known, disk, sessions, op, read, bounds>>

-----------------------------------------------------------------------------
(* apply_batch, append_item, undo, redo *)

Unlocked(c) == pc[c] = "acquire" /\ lock[at[c]] = NoCall
Current(c) == heap[at[c]]

\* The session is locked and changed; the lock is kept for the save.
Change(c, what, session) ==
  /\ Unlocked(c) /\ op[c] = what /\ Current(c).doc.version < MaxVersion
  /\ heap' = [heap EXCEPT ![at[c]] = session]
  /\ lock' = [lock EXCEPT ![at[c]] = c] /\ Goto(c, "save")
  /\ UNCHANGED <<known, disk, live, ahead, op, at, read, faults>>

Edit(c) == Change(c, "edit", Applied(Current(c), edits + 1)) /\ edits' = edits + 1
UndoUnsaved(c) ==
  /\ Unlocked(c) /\ op[c] = "undo" /\ CanUndo(Current(c))
  /\ heap' = [heap EXCEPT ![at[c]] = Undone(@)] /\ Return(c)
  /\ UNCHANGED <<known, disk, live, lock, ahead, bounds>>
Undo(c) ==
  /\ Unlocked(c) /\ CanUndo(Current(c)) /\ Change(c, "undo", Undone(Current(c)))
  /\ UNCHANGED edits
Redo(c) ==
  /\ Unlocked(c) /\ CanRedo(Current(c)) /\ Change(c, "redo", Redone(Current(c)))
  /\ UNCHANGED edits

\* A batch on another version or one that changes nothing, another entry than
\* the caller expects, nothing to undo or to redo.
Reject(c) ==
  /\ Unlocked(c) /\ Return(c)
  /\ UNCHANGED <<known, disk, sessions, bounds>>

\* The file is replaced, in a directory made anew if it is gone.
WriteDocument(doc) == folder' = TRUE /\ file' = doc

Save(c) ==
  /\ pc[c] = "save"
  /\ WriteDocument(Current(c).doc)
  /\ ahead' = ahead \ {at[c]}
  /\ lock' = [lock EXCEPT ![at[c]] = NoCall] /\ Return(c)
  /\ UNCHANGED <<known, manifest, life, heap, live, bounds>>

\* Memory keeps the change: nothing is rolled back.
SaveFails(c) ==
  /\ pc[c] = "save" /\ Fault
  /\ ahead' = ahead \cup {at[c]}
  /\ lock' = [lock EXCEPT ![at[c]] = NoCall] /\ Return(c)
  /\ UNCHANGED <<known, disk, heap, live, edits>>

-----------------------------------------------------------------------------
(* ProjectService::create_project *)

CallCreate(c) ==
  /\ ~known /\ ~folder /\ Begin(c, "create", "mkdir")
  /\ UNCHANGED <<known, disk, sessions, bounds>>

MakeFolder(c) ==
  /\ pc[c] = "mkdir" /\ folder' = TRUE /\ Goto(c, "manifest")
  /\ UNCHANGED <<known, manifest, file, life, sessions, op, at, read, bounds>>

WriteManifest(c) ==
  /\ pc[c] = "manifest" /\ folder' = TRUE /\ manifest' = TRUE /\ Goto(c, "exists")
  /\ UNCHANGED <<known, file, life, sessions, op, at, read, bounds>>

\* ensure_board_file: a default board unless there is one.
BoardExists(c) ==
  /\ pc[c] = "exists"
  /\ Goto(c, IF file = NoDoc THEN "board" ELSE "register")
  /\ UNCHANGED <<known, disk, sessions, op, at, read, bounds>>

DefaultBoard == [version |-> 0, content |-> 0, life |-> life + 1]
WriteBoard(c) ==
  /\ pc[c] = "board" /\ life < MaxLives /\ life' = life + 1
  /\ WriteDocument(DefaultBoard) /\ Goto(c, "register")
  /\ UNCHANGED <<known, manifest, sessions, op, at, read, bounds>>

\* Also the end of update_project.
Register(c) ==
  /\ pc[c] = "register" /\ known' = TRUE /\ Return(c)
  /\ UNCHANGED <<disk, sessions, bounds>>

\* What was written so far stays.
CreateFails(c) ==
  /\ pc[c] \in {"mkdir", "manifest", "board", "write"} /\ Fault /\ Return(c)
  /\ UNCHANGED <<known, disk, sessions, edits>>

-----------------------------------------------------------------------------
(* load_project, update_project, delete_project *)

Then(what) == IF what = "delete" THEN "forget" ELSE "write"

\* UnknownProject when there is neither an entry nor a file.
LoadProject(c, what) ==
  /\ what \in {"update", "delete"} /\ (known \/ manifest)
  /\ Begin(c, what, IF known THEN Then(what) ELSE "cache")
  /\ UNCHANGED <<known, disk, sessions, bounds>>

CacheProject(c) ==
  /\ pc[c] = "cache" /\ known' = TRUE /\ Goto(c, Then(op[c]))
  /\ UNCHANGED <<disk, sessions, op, at, read, bounds>>

UpdateManifest(c) ==
  /\ pc[c] = "write" /\ folder' = TRUE /\ manifest' = TRUE /\ Goto(c, "register")
  /\ UNCHANGED <<known, file, life, sessions, op, at, read, bounds>>

\* The registries first: the project, then its board session.
Forget(c) ==
  /\ pc[c] = "forget" /\ life < MaxLives /\ life' = life + 1
  /\ known' = FALSE /\ live' = 0 /\ Goto(c, "rmdir")
  /\ UNCHANGED <<folder, manifest, file, heap, lock, ahead, op, at, read, bounds>>

RemoveFolder(c) ==
  /\ pc[c] = "rmdir" /\ life < MaxLives /\ life' = life + 1
  /\ folder' = FALSE /\ manifest' = FALSE /\ file' = NoDoc /\ Return(c)
  /\ UNCHANGED <<known, sessions, bounds>>

\* remove_dir_all stops half-way.
RemoveFolderFails(c) ==
  /\ pc[c] = "rmdir" /\ Fault /\ life < MaxLives
  /\ \E keepManifest \in {manifest, FALSE}, keepFile \in {file, NoDoc} :
       /\ manifest' = keepManifest /\ file' = keepFile
       /\ life' = IF keepFile = file THEN life ELSE life + 1
  /\ Return(c)
  /\ UNCHANGED <<known, folder, sessions, edits>>

-----------------------------------------------------------------------------
Next == \E c \in Calls :
  \/ \E what \in {"edit", "undo", "redo"} : CallBoard(c, what)
  \/ FindCached(c) \/ ReadBoard(c) \/ UnknownBoard(c) \/ Insert(c) \/ Reread(c)
  \/ Edit(c) \/ Undo(c) \/ Redo(c) \/ Reject(c) \/ Save(c) \/ SaveFails(c)
  \/ CallCreate(c) \/ MakeFolder(c) \/ WriteManifest(c) \/ BoardExists(c) \/ WriteBoard(c)
  \/ Register(c) \/ CreateFails(c)
  \/ \E what \in {"update", "delete"} : LoadProject(c, what)
  \/ CacheProject(c) \/ UpdateManifest(c) \/ Forget(c) \/ RemoveFolder(c)
  \/ RemoveFolderFails(c)

Spec == Init /\ [][Next]_vars

-----------------------------------------------------------------------------
(* Properties *)

\* A document of the board the project has now, not of one it had.
Present(doc) == doc = NoDoc \/ doc.life = life

\* A board nobody is changing is on disk as it is in memory, unless its last
\* save failed, or it is a leftover of a board that was deleted, or overwritten
\* by a second create, under the session.
BoardSaved ==
  (live # 0 /\ lock[live] = NoCall /\ live \notin ahead
     /\ Present(heap[live].doc) /\ Present(file))
  => file = heap[live].doc

\* While the project keeps its board, the file never goes back to an older
\* version and never has two contents under one: calls that open the session
\* at the same time agree on one of them.
FileMovesOn ==
  [][file' # file /\ file # NoDoc /\ file' # NoDoc /\ file.life = life /\ file'.life = life
       => file'.version > file.version]_vars

\* Undo and redo of every session, registered or not, go along one line of
\* contents, whatever failed in between.
HistoriesConsistent == \A s \in DOMAIN heap : Consistent(heap[s])
=============================================================================
