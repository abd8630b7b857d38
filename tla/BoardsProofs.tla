---------------------------- MODULE BoardsProofs -----------------------------
(***************************************************************************)
(* For any number of calls, sessions, deletions and failures: the board on *)
(* disk is the one in memory, its file never goes back while the project   *)
(* keeps it, and every undo history is one line of contents.               *)
(*                                                                         *)
(* The argument is about the current life of the project.  Of all sessions *)
(* ever opened at most the registered one has a document of it, and only   *)
(* the call that holds a session's lock saves it: so the file has what     *)
(* that session had before its pending change.                             *)
(***************************************************************************)
EXTENDS Boards, SequenceTheorems, TLAPS

-----------------------------------------------------------------------------
(* The inductive invariant *)

Entries == [before : Nat, after : Nat]
Sessions == [doc : Documents, entries : Seq(Entries), cursor : Nat]
Reads == Documents \cup {NoDoc}
Ops == {"none", "edit", "undo", "redo", "create", "update", "delete"}
Working == {"acquire", "save"}
Labels == Working \cup
  {"idle", "find", "reread", "insert", "mkdir", "manifest", "exists", "board",
   "register", "cache", "forget", "write", "rmdir"}

TypeOK ==
  /\ known \in BOOLEAN /\ folder \in BOOLEAN /\ manifest \in BOOLEAN
  /\ file \in Reads /\ life \in Nat
  /\ heap \in Seq(Sessions) /\ live \in 0 .. Len(heap) /\ ahead \subseteq DOMAIN heap
  /\ lock \in Seq(Calls \cup {NoCall}) /\ Len(lock) = Len(heap)
  /\ pc \in [Calls -> Labels] /\ at \in [Calls -> Nat] /\ read \in [Calls -> Reads]
  /\ op \in [Calls -> Ops]
  /\ edits \in Nat /\ faults \in Nat
  /\ \A c \in Calls : pc[c] = "insert" => read[c] # NoDoc
  /\ \A c \in Calls : pc[c] \in Working => at[c] \in DOMAIN heap

\* A session is locked by the call that is about to save it.
Locked ==
  /\ \A c \in Calls : pc[c] = "save" => lock[at[c]] = c
  /\ \A s \in DOMAIN heap : lock[s] # NoCall => pc[lock[s]] = "save" /\ at[lock[s]] = s

\* No document is of a life to come.
Begun ==
  /\ file # NoDoc => file.life <= life
  /\ \A s \in DOMAIN heap : heap[s].doc.life <= life
  /\ \A c \in Calls : read[c] # NoDoc => read[c].life <= life

\* While there is a document of this life outside the file, there is a file.
OfThis(doc) == doc # NoDoc /\ doc.life = life
Kept ==
  /\ \A s \in DOMAIN heap : OfThis(heap[s].doc) => file # NoDoc
  /\ \A c \in Calls : OfThis(read[c]) => file # NoDoc

\* Only the registered session has a document of this life.
Alone == \A s \in DOMAIN heap : OfThis(heap[s].doc) => live = s

\* What was read to be opened is still in the file, until a session is registered.
ReadCurrent == live = 0 /\ OfThis(file) => \A c \in Calls : OfThis(read[c]) => read[c] = file

\* A session that is being saved, or could not be, is newer than the file;
\* any other is what the file says.
Pending(s) == lock[s] # NoCall \/ s \in ahead
OnFile ==
  OfThis(file) =>
    \A s \in DOMAIN heap : OfThis(heap[s].doc) =>
      IF Pending(s) THEN heap[s].doc.version > file.version ELSE heap[s].doc = file

Disk == Locked /\ Begun /\ Kept /\ Alone /\ ReadCurrent /\ OnFile
IInv == TypeOK /\ Disk /\ HistoriesConsistent

-----------------------------------------------------------------------------
(* What the operations of a session return *)

\* A session opened anew has the document of the file and an empty history.
LEMMA OpenedSession ==
  ASSUME NEW d \in Documents
  PROVE  Opened(d) \in Sessions /\ Consistent(Opened(d)) /\ Opened(d).doc = d
  BY DEF Opened, Sessions, Consistent

\* An operation that stands at the next version of the same board.
Advances(old, new) ==
  /\ new \in Sessions /\ Consistent(new)
  /\ new.doc.version > old.doc.version /\ new.doc.life = old.doc.life

\* A changed document stands at the next version of the same board.
LEMMA ChangedDocument ==
  ASSUME NEW d \in Documents, NEW e \in Nat
  PROVE  /\ Changed(d, e) \in Documents /\ Changed(d, e).content = e
         /\ Changed(d, e).version > d.version /\ Changed(d, e).life = d.life
<1>1. Changed(d, e) = [version |-> d.version + 1, content |-> e, life |-> d.life]
  <2> DEFINE next == [d EXCEPT !.version = @ + 1]
  <2>1. next = [version |-> d.version + 1, content |-> d.content, life |-> d.life]
    BY DEF Documents
  <2>2. Changed(d, e) = [next EXCEPT !.content = e]
    BY DEF Changed
  <2> HIDE DEF next
  <2> QED
    BY <2>1, <2>2
<1>2. d.version \in Nat /\ d.life \in Nat
  BY DEF Documents
<1> QED
  BY <1>1, <1>2 DEF Documents

\* One line of contents, with the document at the cursor.
LEMMA ConsistentParts ==
  ASSUME NEW doc, NEW entries, NEW cursor \in 0 .. Len(entries),
         \A i \in 2 .. Len(entries) : entries[i].before = entries[i - 1].after,
         cursor > 0 => doc.content = entries[cursor].after,
         cursor < Len(entries) => doc.content = entries[cursor + 1].before
  PROVE  Consistent([doc |-> doc, entries |-> entries, cursor |-> cursor])
<1> DEFINE new == [doc |-> doc, entries |-> entries, cursor |-> cursor]
<1>1. new.doc = doc /\ new.entries = entries /\ new.cursor = cursor
  OBVIOUS
<1> HIDE DEF new
<1>2. Consistent(new)
  BY <1>1 DEF Consistent
<1> QED
  BY <1>2 DEF new

\* An edit behind an undo drops what could be redone and adds itself.
LEMMA AppliedAdvances ==
  ASSUME NEW s \in Sessions, Consistent(s), NEW e \in Nat
  PROVE  Advances(s, Applied(s, e))
<1> DEFINE kept == TruncateToCursor(s)
           entry == [before |-> s.doc.content, after |-> e]
           new == Append(kept, entry)
<1>1. s.doc \in Documents /\ s.entries \in Seq(Entries) /\ s.cursor \in 0 .. Len(s.entries)
  BY DEF Sessions, Consistent
<1>2. entry \in Entries /\ entry.before = s.doc.content /\ entry.after = e
  BY <1>1 DEF Entries, Documents
<1>3. /\ kept \in Seq(Entries) /\ Len(kept) = s.cursor
      /\ \A i \in 1 .. s.cursor : kept[i] = s.entries[i]
  BY <1>1 DEF TruncateToCursor
<1> HIDE DEF kept, entry
<1>4. /\ new \in Seq(Entries) /\ Len(new) = s.cursor + 1 /\ new[s.cursor + 1] = entry
      /\ \A i \in 1 .. s.cursor : new[i] = s.entries[i]
  BY <1>1, <1>2, <1>3
<1>5. Applied(s, e) = [doc |-> Changed(s.doc, e), entries |-> new, cursor |-> Len(new)]
  BY DEF Applied, kept, entry
<1>d. /\ Changed(s.doc, e) \in Documents /\ Changed(s.doc, e).content = e
      /\ Changed(s.doc, e).version > s.doc.version /\ Changed(s.doc, e).life = s.doc.life
  BY <1>1, ChangedDocument
<1> HIDE DEF new
<1>6. Applied(s, e) \in Sessions
  BY <1>1, <1>4, <1>5, <1>d DEF Sessions
<1>7. \A i \in 2 .. Len(new) : new[i].before = new[i - 1].after
  <2> TAKE i \in 2 .. Len(new)
  <2>1. CASE i \in 2 .. s.cursor
    <3>1. s.entries[i].before = s.entries[i - 1].after
      BY <1>1, <2>1 DEF Consistent
    <3>2. i - 1 \in 1 .. s.cursor
      BY <1>1, <2>1
    <3> QED
      BY <1>4, <2>1, <3>1, <3>2
  <2>2. CASE i = s.cursor + 1
    <3>1. s.cursor > 0 /\ i - 1 = s.cursor /\ s.cursor \in 1 .. s.cursor
      BY <1>1, <2>2
    <3>2. s.doc.content = s.entries[s.cursor].after
      BY <3>1 DEF Consistent
    <3> QED
      BY <1>2, <1>4, <2>2, <3>1, <3>2
  <2> QED
    BY <1>1, <1>4, <2>1, <2>2
<1>8. Consistent(Applied(s, e))
  <2>1. new[Len(new)].after = e /\ Len(new) \in 0 .. Len(new) /\ ~ (Len(new) < Len(new))
    BY <1>1, <1>2, <1>4
  <2> QED
    BY <1>5, <1>7, <1>d, <2>1, ConsistentParts
<1> QED
  BY <1>5, <1>6, <1>8, <1>d DEF Advances

\* An undo goes back to the content before the entry at the cursor.
LEMMA UndoneAdvances ==
  ASSUME NEW s \in Sessions, Consistent(s), CanUndo(s)
  PROVE  Advances(s, Undone(s))
<1> DEFINE content == s.entries[s.cursor].before
<1>1. /\ s.doc \in Documents /\ s.entries \in Seq(Entries)
      /\ s.cursor \in 1 .. Len(s.entries) /\ s.cursor - 1 \in Nat
  BY DEF Sessions, Consistent, CanUndo
<1>2. content \in Nat
  <2>1. s.entries[s.cursor] \in Entries
    BY <1>1
  <2> QED
    BY <2>1 DEF Entries
<1>3. s.cursor - 1 > 0 => content = s.entries[s.cursor - 1].after
  <2>1. s.cursor - 1 > 0 => s.cursor \in 2 .. Len(s.entries)
    BY <1>1
  <2> QED
    BY <2>1 DEF Consistent
<1>4. Undone(s) = [doc |-> Changed(s.doc, content), entries |-> s.entries, cursor |-> s.cursor - 1]
  <2> DEFINE next == [s EXCEPT !.doc = Changed(s.doc, content)]
  <2>1. next = [doc |-> Changed(s.doc, content), entries |-> s.entries, cursor |-> s.cursor]
    BY DEF Sessions
  <2>2. Undone(s) = [next EXCEPT !.cursor = @ - 1]
    BY DEF Undone
  <2> HIDE DEF next, content
  <2> QED
    BY <2>1, <2>2
<1>d. /\ Changed(s.doc, content) \in Documents /\ Changed(s.doc, content).content = content
      /\ Changed(s.doc, content).version > s.doc.version
      /\ Changed(s.doc, content).life = s.doc.life
  BY <1>1, <1>2, ChangedDocument
<1> HIDE DEF content
<1>5. Undone(s) \in Sessions
  BY <1>1, <1>4, <1>d DEF Sessions
<1>6. Consistent(Undone(s))
  <2>1. \A i \in 2 .. Len(s.entries) : s.entries[i].before = s.entries[i - 1].after
    BY DEF Consistent
  <2>2. s.cursor - 1 + 1 = s.cursor
    BY <1>1
  <2> QED
    <3> DEFINE doc == Changed(s.doc, content)
    <3>1. s.cursor - 1 \in 0 .. Len(s.entries)
      BY <1>1
    <3>2. s.cursor - 1 < Len(s.entries) => doc.content = s.entries[s.cursor - 1 + 1].before
      BY <1>d, <2>2 DEF content
    <3>3. s.cursor - 1 > 0 => doc.content = s.entries[s.cursor - 1].after
      BY <1>3, <1>d
    <3> HIDE DEF doc
    <3>4. Consistent([doc |-> doc, entries |-> s.entries, cursor |-> s.cursor - 1])
      BY <2>1, <3>1, <3>2, <3>3, ConsistentParts
    <3> QED
      BY <1>4, <3>4 DEF doc
<1> QED
  BY <1>4, <1>5, <1>6, <1>d DEF Advances

\* A redo goes on to the content after the entry behind the cursor.
LEMMA RedoneAdvances ==
  ASSUME NEW s \in Sessions, Consistent(s), CanRedo(s)
  PROVE  Advances(s, Redone(s))
<1> DEFINE content == s.entries[s.cursor + 1].after
<1>1. /\ s.doc \in Documents /\ s.entries \in Seq(Entries)
      /\ s.cursor \in Nat /\ s.cursor + 1 \in 1 .. Len(s.entries)
  BY DEF Sessions, Consistent, CanRedo
<1>2. content \in Nat
  <2>1. s.entries[s.cursor + 1] \in Entries
    BY <1>1
  <2> QED
    BY <2>1 DEF Entries
<1>3. s.cursor + 1 < Len(s.entries) => content = s.entries[s.cursor + 1 + 1].before
  <2> SUFFICES ASSUME s.cursor + 1 < Len(s.entries)
               PROVE  content = s.entries[s.cursor + 1 + 1].before
    OBVIOUS
  <2> DEFINE i == s.cursor + 1 + 1
  <2>1. i \in 2 .. Len(s.entries) /\ i - 1 = s.cursor + 1
    BY <1>1
  <2> HIDE DEF i
  <2>2. s.entries[i].before = s.entries[i - 1].after
    BY <2>1 DEF Consistent
  <2> QED
    BY <2>1, <2>2 DEF i
<1>4. Redone(s) = [doc |-> Changed(s.doc, content), entries |-> s.entries, cursor |-> s.cursor + 1]
  <2> DEFINE next == [s EXCEPT !.doc = Changed(s.doc, content)]
  <2>1. next = [doc |-> Changed(s.doc, content), entries |-> s.entries, cursor |-> s.cursor]
    BY DEF Sessions
  <2>2. Redone(s) = [next EXCEPT !.cursor = @ + 1]
    BY DEF Redone
  <2> HIDE DEF next, content
  <2> QED
    BY <2>1, <2>2
<1>d. /\ Changed(s.doc, content) \in Documents /\ Changed(s.doc, content).content = content
      /\ Changed(s.doc, content).version > s.doc.version
      /\ Changed(s.doc, content).life = s.doc.life
  BY <1>1, <1>2, ChangedDocument
<1> HIDE DEF content
<1>5. Redone(s) \in Sessions
  BY <1>1, <1>4, <1>d DEF Sessions
<1>6. Consistent(Redone(s))
  <2>1. \A i \in 2 .. Len(s.entries) : s.entries[i].before = s.entries[i - 1].after
    BY DEF Consistent
  <2> QED
    <3> DEFINE doc == Changed(s.doc, content)
    <3>1. s.cursor + 1 \in 0 .. Len(s.entries)
      BY <1>1
    <3>2. s.cursor + 1 < Len(s.entries) => doc.content = s.entries[s.cursor + 1 + 1].before
      BY <1>3, <1>d
    <3>3. s.cursor + 1 > 0 => doc.content = s.entries[s.cursor + 1].after
      BY <1>d DEF content
    <3> HIDE DEF doc
    <3>4. Consistent([doc |-> doc, entries |-> s.entries, cursor |-> s.cursor + 1])
      BY <2>1, <3>1, <3>2, <3>3, ConsistentParts
    <3> QED
      BY <1>4, <3>4 DEF doc
<1> QED
  BY <1>4, <1>5, <1>6, <1>d DEF Advances

-----------------------------------------------------------------------------
(* Types *)

\* A sequence with another element in one place.
LEMMA Updated ==
  ASSUME NEW S, NEW q \in Seq(S), NEW i \in DOMAIN q, NEW x \in S
  PROVE  LET new == [q EXCEPT ![i] = x]
         IN  /\ new \in Seq(S) /\ Len(new) = Len(q) /\ DOMAIN new = DOMAIN q /\ new[i] = x
             /\ \A j \in DOMAIN q : j # i => new[j] = q[j]
  BY ExceptSeq

\* A sequence with another element at its end.
LEMMA Appended ==
  ASSUME NEW S, NEW q \in Seq(S), NEW x \in S
  PROVE  LET new == Append(q, x)
         IN  /\ new \in Seq(S) /\ Len(new) = Len(q) + 1 /\ DOMAIN q \subseteq DOMAIN new
             /\ DOMAIN new = DOMAIN q \cup {Len(q) + 1} /\ Len(q) + 1 \notin DOMAIN q
             /\ new[Len(q) + 1] = x /\ \A j \in DOMAIN q : new[j] = q[j]
  OBVIOUS

\* A step of one call leaves the others where they are.
OnlyCall(c) ==
  /\ pc' \in [Calls -> Labels] /\ at' \in [Calls -> Nat]
  /\ read' \in [Calls -> Reads] /\ op' \in [Calls -> Ops]
  /\ \A d \in Calls \ {c} : pc'[d] = pc[d] /\ at'[d] = at[d] /\ read'[d] = read[d]

\* What a step may do to the board, its file and its sessions.  Nothing, but to
\* read the file:
Stays(c) ==
  /\ pc[c] # "save" /\ pc'[c] # "save" /\ UNCHANGED <<file, life, sessions>>
  /\ read'[c] \in {read[c], NoDoc} \/ (read'[c] = file /\ file # NoDoc)
\* a life ends:
Ends(c) ==
  /\ pc[c] # "save" /\ pc'[c] # "save" /\ UNCHANGED <<heap, lock, ahead>>
  /\ life' = life + 1 /\ live' \in {live, 0} /\ file' \in {file, NoDoc, DefaultBoard}
  /\ read'[c] \in {read[c], NoDoc}
\* a session is opened from what was read:
Opens(c) ==
  /\ pc[c] = "insert" /\ pc'[c] # "save" /\ live = 0 /\ live' = Len(heap) + 1
  /\ heap' = Append(heap, Opened(read[c])) /\ lock' = Append(lock, NoCall)
  /\ read'[c] = NoDoc /\ UNCHANGED <<file, life, ahead>>
\* a session is locked and advances:
Moves(c) ==
  /\ pc[c] = "acquire" /\ pc'[c] = "save" /\ at'[c] = at[c] /\ read'[c] = read[c]
  /\ lock[at[c]] = NoCall /\ lock' = [lock EXCEPT ![at[c]] = c]
  /\ \E session : /\ Advances(heap[at[c]], session)
                  /\ heap' = [heap EXCEPT ![at[c]] = session]
  /\ UNCHANGED <<file, life, live, ahead>>
\* it is written, or not, and released:
Releases(c) ==
  /\ pc[c] = "save" /\ pc'[c] # "save" /\ read'[c] = NoDoc
  /\ lock' = [lock EXCEPT ![at[c]] = NoCall] /\ UNCHANGED <<life, heap, live>>
Written(c) == Releases(c) /\ file' = heap[at[c]].doc /\ ahead' = ahead \ {at[c]}
Refused(c) == Releases(c) /\ file' = file /\ ahead' = ahead \cup {at[c]}

Does(c) == Stays(c) \/ Ends(c) \/ Opens(c) \/ Moves(c) \/ Written(c) \/ Refused(c)

\* The rest of the types, after a step.
StoreTyped ==
  /\ known \in BOOLEAN /\ folder \in BOOLEAN /\ manifest \in BOOLEAN
  /\ file \in Reads /\ life \in Nat /\ edits \in Nat /\ faults \in Nat
  /\ heap \in Seq(Sessions) /\ live \in 0 .. Len(heap) /\ ahead \subseteq DOMAIN heap
  /\ lock \in Seq(Calls \cup {NoCall}) /\ Len(lock) = Len(heap)
PointTyped(c) ==
  /\ pc[c] = "insert" => read[c] # NoDoc
  /\ pc[c] \in Working => at[c] \in DOMAIN heap

Kind(c) == OnlyCall(c) /\ StoreTyped' /\ PointTyped(c)' /\ Does(c)

\* What a call does outside the registry, the session locks and the file.
LEMMA QuietSteps ==
  ASSUME TypeOK, NEW c \in Calls
  PROVE  /\ (\E what \in {"edit", "undo", "redo"} : CallBoard(c, what)) => Kind(c)
         /\ FindCached(c) => Kind(c)
         /\ ReadBoard(c) => Kind(c)
         /\ UnknownBoard(c) => Kind(c)
         /\ Reread(c) => Kind(c)
         /\ Reject(c) => Kind(c)
         /\ CallCreate(c) => Kind(c)
         /\ MakeFolder(c) => Kind(c)
         /\ WriteManifest(c) => Kind(c)
         /\ BoardExists(c) => Kind(c)
         /\ Register(c) => Kind(c)
         /\ CreateFails(c) => Kind(c)
         /\ (\E what \in {"update", "delete"} : LoadProject(c, what)) => Kind(c)
         /\ CacheProject(c) => Kind(c)
         /\ UpdateManifest(c) => Kind(c)
<1> USE DEF Kind, OnlyCall, Does, Stays, StoreTyped, PointTyped,
            TypeOK, Labels, Working, Ops, Reads,
            Goto, Return, Begin, Fault, disk, sessions, calls, bounds
<1>1. (\E what \in {"edit", "undo", "redo"} : CallBoard(c, what)) => Kind(c)
  BY DEF CallBoard
<1>2. FindCached(c) => Kind(c)
  BY DEF FindCached
<1>3. ReadBoard(c) => Kind(c)
  BY DEF ReadBoard
<1>4. UnknownBoard(c) => Kind(c)
  BY DEF UnknownBoard
<1>5. Reread(c) => Kind(c)
  BY DEF Reread
<1>6. Reject(c) => Kind(c)
  BY DEF Reject, Unlocked
<1>7. CallCreate(c) => Kind(c)
  BY DEF CallCreate
<1>8. MakeFolder(c) => Kind(c)
  BY DEF MakeFolder
<1>9. WriteManifest(c) => Kind(c)
  BY DEF WriteManifest
<1>10. BoardExists(c) => Kind(c)
  BY DEF BoardExists
<1>11. Register(c) => Kind(c)
  BY DEF Register
<1>12. CreateFails(c) => Kind(c)
  BY DEF CreateFails
<1>13. (\E what \in {"update", "delete"} : LoadProject(c, what)) => Kind(c)
  BY DEF LoadProject, Then
<1>14. CacheProject(c) => Kind(c)
  BY DEF CacheProject, Then
<1>15. UpdateManifest(c) => Kind(c)
  BY DEF UpdateManifest
<1> QED
  BY <1>1, <1>2, <1>3, <1>4, <1>5, <1>6, <1>7, <1>8, <1>9, <1>10, <1>11, <1>12, <1>13, <1>14, <1>15

\* A board is begun, forgotten or deleted.
LEMMA Endings ==
  ASSUME TypeOK, NEW c \in Calls
  PROVE  /\ WriteBoard(c) => Kind(c)
         /\ Forget(c) => Kind(c)
         /\ RemoveFolder(c) => Kind(c)
         /\ RemoveFolderFails(c) => Kind(c)
<1>1. DefaultBoard \in Documents
  BY DEF DefaultBoard, Documents, TypeOK
<1>2. WriteBoard(c) => Kind(c)
  BY <1>1 DEF WriteBoard, WriteDocument, Ends, Kind, OnlyCall, Does, StoreTyped, PointTyped,
              TypeOK, Labels, Working, Ops, Reads, Goto, sessions, bounds
<1>3. ASSUME Forget(c) PROVE Kind(c)
  <2>1. OnlyCall(c) /\ pc'[c] = "rmdir" /\ read'[c] = read[c]
    BY <1>3 DEF Forget, Goto, TypeOK, OnlyCall, Labels, Ops
  <2>2. StoreTyped'
    <3>1. /\ UNCHANGED <<folder, manifest, file, heap, lock, ahead, edits, faults>>
          /\ life' = life + 1 /\ live' = 0
      BY <1>3 DEF Forget, bounds
    <3>2. known' \in BOOLEAN
      BY <1>3 DEF Forget
    <3>3. live' \in 0 .. Len(heap) /\ life' \in Nat
      BY <3>1 DEF TypeOK
    <3> QED
      BY <3>1, <3>2, <3>3 DEF TypeOK, StoreTyped
  <2>3. PointTyped(c)'
    BY <2>1 DEF PointTyped, Working
  <2>4. Ends(c)
    BY <1>3, <2>1 DEF Forget, Ends
  <2> QED
    BY <2>1, <2>2, <2>3, <2>4 DEF Kind, Does
<1>4. ASSUME RemoveFolder(c) \/ RemoveFolderFails(c) PROVE Kind(c)
  <2>1. pc[c] = "rmdir" /\ Return(c) /\ UNCHANGED <<known, sessions, edits>>
    BY <1>4 DEF RemoveFolder, RemoveFolderFails, bounds
  <2>2. /\ folder' \in BOOLEAN /\ manifest' \in BOOLEAN /\ faults' \in Nat
        /\ file' \in {file, NoDoc}
        /\ life' = life + 1 \/ (life' = life /\ file' = file)
    <3>1. CASE RemoveFolder(c)
      BY <3>1 DEF RemoveFolder, TypeOK, bounds
    <3>2. CASE RemoveFolderFails(c)
      <4>1. PICK keepManifest \in {manifest, FALSE}, keepFile \in {file, NoDoc} :
              /\ manifest' = keepManifest /\ file' = keepFile
              /\ life' = IF keepFile = file THEN life ELSE life + 1
        BY <3>2 DEF RemoveFolderFails
      <4>2. folder' \in BOOLEAN /\ faults' \in Nat
        BY <3>2 DEF RemoveFolderFails, Fault, TypeOK
      <4>3. manifest' \in BOOLEAN
        BY <4>1 DEF TypeOK
      <4> QED
        BY <4>1, <4>2, <4>3
    <3> QED
      BY <1>4, <3>1, <3>2
  <2>3. OnlyCall(c) /\ pc'[c] = "idle" /\ read'[c] = NoDoc
    BY <2>1 DEF Return, Goto, TypeOK, OnlyCall, Labels, Ops, Reads
  <2>4. StoreTyped'
    BY <2>1, <2>2 DEF TypeOK, StoreTyped, sessions, Reads
  <2>5. PointTyped(c)'
    BY <2>3 DEF PointTyped, Working
  <2>6. Ends(c) \/ Stays(c)
    BY <2>1, <2>2, <2>3 DEF Ends, Stays, sessions
  <2> QED
    BY <2>3, <2>4, <2>5, <2>6 DEF Kind, Does
<1> QED
  BY <1>2, <1>3, <1>4

\* A session is registered, or the one that came first is kept.
LEMMA Openings ==
  ASSUME TypeOK, NEW c \in Calls, Insert(c)
  PROVE  Kind(c)
<1>1. /\ pc[c] = "insert" /\ UNCHANGED <<known, disk, ahead, op, at, bounds>>
      /\ read' = [read EXCEPT ![c] = NoDoc] /\ pc' = [pc EXCEPT ![c] = "reread"]
  BY DEF Insert, Goto
<1>2. /\ OnlyCall(c) /\ read'[c] = NoDoc /\ pc'[c] = "reread"
      /\ UNCHANGED <<known, folder, manifest, file, life, ahead, edits, faults>>
  BY <1>1 DEF TypeOK, OnlyCall, Labels, Ops, Reads, disk, bounds
<1>3. PointTyped(c)'
  BY <1>2 DEF PointTyped, Working
<1>4. CASE live # 0
  <2>1. UNCHANGED <<heap, live, lock>>
    BY <1>4 DEF Insert
  <2> QED
    BY <1>1, <1>2, <1>3, <2>1 DEF TypeOK, Kind, StoreTyped, Does, Stays, sessions
<1>5. CASE live = 0
  <2> DEFINE new == Opened(read[c])
  <2>1. /\ heap' = Append(heap, new) /\ lock' = Append(lock, NoCall)
        /\ live' = Len(heap) + 1
    BY <1>5 DEF Insert
  <2>2. read[c] \in Documents
    BY <1>1 DEF TypeOK, Reads
  <2>3. new \in Sessions
    BY <2>2, OpenedSession
  <2>4. Opens(c)
    BY <1>1, <1>2, <1>5, <2>1 DEF Opens
  <2> HIDE DEF new
  <2>5. StoreTyped'
    <3>1. heap \in Seq(Sessions) /\ lock \in Seq(Calls \cup {NoCall}) /\ Len(lock) = Len(heap)
      BY DEF TypeOK
    <3>2. /\ heap' \in Seq(Sessions) /\ Len(heap') = Len(heap) + 1
          /\ DOMAIN heap \subseteq DOMAIN heap'
      BY <2>1, <2>3, <3>1, Appended
    <3>3. lock' \in Seq(Calls \cup {NoCall}) /\ Len(lock') = Len(lock) + 1
      BY <2>1, <3>1, Appended
    <3>4. live' \in 0 .. Len(heap')
      BY <2>1, <3>1, <3>2
    <3> QED
      BY <1>2, <3>1, <3>2, <3>3, <3>4 DEF TypeOK, StoreTyped
  <2> QED
    BY <1>2, <1>3, <2>4, <2>5 DEF Kind, Does
<1> QED
  BY <1>4, <1>5

\* A session is replaced by a later one, under its lock.
LEMMA Changes ==
  ASSUME TypeOK, NEW c \in Calls, NEW what, NEW session,
         Change(c, what, session), edits' \in Nat, Advances(heap[at[c]], session)
  PROVE  Kind(c)
<1>1. /\ pc[c] = "acquire" /\ lock[at[c]] = NoCall /\ pc' = [pc EXCEPT ![c] = "save"]
      /\ heap' = [heap EXCEPT ![at[c]] = session] /\ lock' = [lock EXCEPT ![at[c]] = c]
      /\ UNCHANGED <<known, disk, live, ahead, op, at, read, faults>>
  BY DEF Change, Unlocked, Current, Goto
<1>2. /\ OnlyCall(c) /\ read'[c] = read[c] /\ at'[c] = at[c] /\ pc'[c] = "save"
      /\ UNCHANGED <<known, folder, manifest, file, life, live, ahead, faults>>
  BY <1>1 DEF TypeOK, OnlyCall, Labels, Working, Ops, disk
<1>3. Moves(c)
  BY <1>1, <1>2 DEF Moves
<1>4. /\ at[c] \in DOMAIN heap /\ heap \in Seq(Sessions) /\ session \in Sessions
      /\ lock \in Seq(Calls \cup {NoCall}) /\ Len(lock) = Len(heap)
      /\ DOMAIN lock = DOMAIN heap
  BY <1>1 DEF TypeOK, Working, Advances
<1>5. heap' \in Seq(Sessions) /\ Len(heap') = Len(heap) /\ DOMAIN heap' = DOMAIN heap
  BY <1>1, <1>4, Updated
<1>6. lock' \in Seq(Calls \cup {NoCall}) /\ Len(lock') = Len(lock)
  BY <1>1, <1>4, Updated
<1>7. StoreTyped'
  BY <1>2, <1>4, <1>5, <1>6 DEF TypeOK, StoreTyped
<1>8. PointTyped(c)'
  BY <1>2, <1>4, <1>5 DEF PointTyped
<1> QED
  BY <1>2, <1>3, <1>7, <1>8 DEF Kind, Does

\* Edit, undo and redo advance the session that they lock.
LEMMA Moving ==
  ASSUME TypeOK, HistoriesConsistent, NEW c \in Calls, Edit(c) \/ Undo(c) \/ Redo(c)
  PROVE  Kind(c)
<1>1. pc[c] = "acquire"
  BY DEF Edit, Undo, Redo, Change, Unlocked
<1>2. heap[at[c]] \in Sessions /\ Consistent(heap[at[c]]) /\ edits \in Nat /\ edits + 1 \in Nat
  BY <1>1 DEF TypeOK, Working, HistoriesConsistent
<1>3. CASE Edit(c)
  <2>1. Change(c, "edit", Applied(heap[at[c]], edits + 1)) /\ edits' = edits + 1
    BY <1>3 DEF Edit, Current
  <2>2. Advances(heap[at[c]], Applied(heap[at[c]], edits + 1))
    BY <1>2, AppliedAdvances
  <2> QED
    BY <1>2, <2>1, <2>2, Changes
<1>4. CASE Undo(c)
  <2>1. Change(c, "undo", Undone(heap[at[c]])) /\ edits' = edits /\ CanUndo(heap[at[c]])
    BY <1>4 DEF Undo, Current
  <2>2. Advances(heap[at[c]], Undone(heap[at[c]]))
    BY <1>2, <2>1, UndoneAdvances
  <2> QED
    BY <1>2, <2>1, <2>2, Changes
<1>5. CASE Redo(c)
  <2>1. Change(c, "redo", Redone(heap[at[c]])) /\ edits' = edits /\ CanRedo(heap[at[c]])
    BY <1>5 DEF Redo, Current
  <2>2. Advances(heap[at[c]], Redone(heap[at[c]]))
    BY <1>2, <2>1, RedoneAdvances
  <2> QED
    BY <1>2, <2>1, <2>2, Changes
<1> QED
  BY <1>3, <1>4, <1>5

\* A save ends in a file or in a session ahead of it; the lock is given back.
LEMMA Saving ==
  ASSUME TypeOK, NEW c \in Calls, Save(c) \/ SaveFails(c)
  PROVE  Kind(c)
<1>1. /\ pc[c] = "save" /\ lock' = [lock EXCEPT ![at[c]] = NoCall] /\ Return(c)
      /\ UNCHANGED <<known, manifest, life, heap, live, edits>>
  BY DEF Save, SaveFails, disk, bounds
<1>2. /\ OnlyCall(c) /\ read'[c] = NoDoc /\ pc'[c] = "idle"
  BY <1>1 DEF TypeOK, OnlyCall, Return, Goto, Labels, Working, Ops, Reads
<1>3. /\ at[c] \in DOMAIN heap /\ heap \in Seq(Sessions)
      /\ lock \in Seq(Calls \cup {NoCall}) /\ Len(lock) = Len(heap)
      /\ DOMAIN lock = DOMAIN heap
  BY <1>1 DEF TypeOK, Working
<1>4. lock' \in Seq(Calls \cup {NoCall}) /\ Len(lock') = Len(lock)
  BY <1>1, <1>3, Updated
<1>5. PointTyped(c)'
  BY <1>2 DEF PointTyped, Working
<1>6. Releases(c)
  BY <1>1, <1>2 DEF Releases
<1>7. CASE Save(c)
  <2>1. /\ file' = heap[at[c]].doc /\ folder' = TRUE /\ ahead' = ahead \ {at[c]}
        /\ faults' = faults
    BY <1>7 DEF Save, WriteDocument, Current, bounds
  <2>2. Written(c) /\ file' \in Documents
    <3>1. heap[at[c]] \in Sessions
      BY <1>3
    <3>2. heap[at[c]].doc \in Documents
      BY <3>1 DEF Sessions
    <3> QED
      BY <1>6, <2>1, <3>2 DEF Written
  <2>3. StoreTyped'
    <3>1. known' \in BOOLEAN /\ folder' \in BOOLEAN /\ manifest' \in BOOLEAN
      BY <1>1, <2>1 DEF TypeOK
    <3>2. ahead' \subseteq DOMAIN heap'
      BY <1>1, <2>1 DEF TypeOK
    <3> QED
      BY <1>1, <1>3, <1>4, <2>1, <2>2, <3>1, <3>2 DEF StoreTyped, TypeOK, Reads
  <2> QED
    BY <1>2, <1>5, <2>2, <2>3 DEF Kind, Does
<1>8. CASE SaveFails(c)
  <2>1. /\ file' = file /\ folder' = folder /\ ahead' = ahead \cup {at[c]}
        /\ faults' = faults + 1
    BY <1>8 DEF SaveFails, Fault, disk
  <2>2. Refused(c)
    BY <1>6, <2>1 DEF Refused
  <2>3. StoreTyped'
    BY <1>1, <1>3, <1>4, <2>1 DEF StoreTyped, TypeOK, Reads
  <2> QED
    BY <1>2, <1>5, <2>2, <2>3 DEF Kind, Does
<1> QED
  BY <1>7, <1>8

\* Every step of the specification is of one of these kinds.
LEMMA StepKinds ==
  ASSUME TypeOK, HistoriesConsistent, Next
  PROVE  \E c \in Calls : Kind(c)
  BY QuietSteps, Endings, Openings, Moving, Saving DEF Next

\* Types are kept.
LEMMA TypesKept ==
  ASSUME TypeOK, NEW c \in Calls, Kind(c)
  PROVE  TypeOK'
<1>1. DOMAIN heap \subseteq DOMAIN heap'
  <2>1. heap' = heap => DOMAIN heap \subseteq DOMAIN heap'
    OBVIOUS
  <2>2. Opens(c) => Len(heap') = Len(heap) + 1
    BY DEF Opens, TypeOK
  <2>3. Moves(c) => DOMAIN heap' = DOMAIN heap
    BY DEF Moves
  <2> QED
    BY <2>1, <2>2, <2>3
       DEF TypeOK, Kind, StoreTyped, Does, Stays, Ends, Releases, Written, Refused, sessions
<1>2. \A d \in Calls : PointTyped(d)'
  BY <1>1 DEF TypeOK, Kind, OnlyCall, PointTyped
<1> QED
  BY <1>2 DEF Kind, OnlyCall, StoreTyped, PointTyped, TypeOK, Ops

-----------------------------------------------------------------------------
(* The invariant, kind by kind *)

\* What every session and every call has to do with documents.
LEMMA Documented ==
  ASSUME TypeOK
  PROVE  /\ \A s \in DOMAIN heap : /\ heap[s] \in Sessions /\ heap[s].doc \in Documents
                                   /\ heap[s].doc # NoDoc /\ heap[s].doc.life \in Nat
                                   /\ heap[s].doc.version \in Nat
                                   /\ lock[s] \in Calls \cup {NoCall}
         /\ \A c \in Calls : read[c] # NoDoc => read[c] \in Documents /\ read[c].life \in Nat
         /\ file # NoDoc => file \in Documents /\ file.life \in Nat /\ file.version \in Nat
         /\ life \in Nat
<1>1. \A s \in DOMAIN heap : heap[s] \in Sessions /\ lock[s] \in Calls \cup {NoCall}
  BY DEF TypeOK
<1>2. \A s \in DOMAIN heap : heap[s].doc \in Documents
  BY <1>1 DEF Sessions
<1> QED
  BY <1>1, <1>2, DocAssumption DEF TypeOK, Reads, Documents

\* A step outside the store may at most read the file as it is.
LEMMA StaysKeeps ==
  ASSUME TypeOK, TypeOK', Disk, HistoriesConsistent,
         NEW c \in Calls, OnlyCall(c), Stays(c)
  PROVE  Disk' /\ HistoriesConsistent'
<1>1. /\ pc[c] # "save" /\ pc'[c] # "save"
      /\ UNCHANGED <<file, life, heap, live, lock, ahead>>
      /\ \A d \in Calls \ {c} : pc'[d] = pc[d] /\ at'[d] = at[d]
      /\ \A d \in Calls : read'[d] \in {read[d], NoDoc} \/ (read'[d] = file /\ file # NoDoc)
  BY DEF Stays, OnlyCall, sessions
<1>2. Locked'
  BY <1>1, Documented DEF Disk, Locked
<1>3. Begun'
  BY <1>1 DEF Disk, Begun
<1>4. Kept' /\ Alone' /\ ReadCurrent'
  BY <1>1 DEF Disk, Kept, Alone, ReadCurrent, OfThis
<1>5. OnFile' /\ HistoriesConsistent'
  BY <1>1 DEF Disk, OnFile, OfThis, Pending, HistoriesConsistent
<1> QED
  BY <1>2, <1>3, <1>4, <1>5 DEF Disk

\* After the end of a life there is no document of the new one but in the file.
LEMMA EndsKeeps ==
  ASSUME TypeOK, TypeOK', Disk, HistoriesConsistent,
         NEW c \in Calls, OnlyCall(c), Ends(c)
  PROVE  Disk' /\ HistoriesConsistent'
<1>1. /\ pc[c] # "save" /\ pc'[c] # "save" /\ UNCHANGED <<heap, lock, ahead>>
      /\ life' = life + 1 /\ life \in Nat /\ file' \in {file, NoDoc, DefaultBoard}
      /\ \A d \in Calls \ {c} : pc'[d] = pc[d] /\ at'[d] = at[d]
      /\ \A d \in Calls : read'[d] \in {read[d], NoDoc}
  BY DEF Ends, OnlyCall, TypeOK
<1>2. Locked'
  BY <1>1, Documented DEF Disk, Locked
\* Nothing outside the file is of the new life.
<1>3. /\ \A s \in DOMAIN heap' : heap'[s].doc.life < life'
      /\ \A d \in Calls : read'[d] # NoDoc => read'[d].life < life'
  BY <1>1, Documented DEF Disk, Begun
<1>4. file' # NoDoc => file'.life <= life'
  BY <1>1, Documented DEF Disk, Begun, DefaultBoard
<1>5. Begun'
  BY <1>1, <1>3, <1>4, Documented DEF Begun
<1>6. /\ \A s \in DOMAIN heap' : ~ OfThis(heap[s].doc)'
      /\ \A d \in Calls : ~ OfThis(read[d])'
  BY <1>1, <1>3, Documented DEF OfThis
<1>7. Kept' /\ Alone' /\ ReadCurrent' /\ OnFile'
  BY <1>6 DEF Kept, Alone, ReadCurrent, OnFile
<1>8. HistoriesConsistent'
  BY <1>1 DEF HistoriesConsistent
<1> QED
  BY <1>2, <1>5, <1>7, <1>8 DEF Disk

\* What is opened was read from a file that nobody has saved since.
LEMMA OpensKeeps ==
  ASSUME TypeOK, TypeOK', Disk, HistoriesConsistent,
         NEW c \in Calls, OnlyCall(c), Opens(c)
  PROVE  Disk' /\ HistoriesConsistent'
<1>0. PICK new : new = Len(heap) + 1
  OBVIOUS
<1> DEFINE session == Opened(read[c])
<1>1. /\ pc[c] = "insert" /\ pc'[c] # "save" /\ live = 0 /\ live' = new
      /\ UNCHANGED <<file, life, ahead>>
      /\ \A d \in Calls \ {c} : pc'[d] = pc[d] /\ at'[d] = at[d]
      /\ \A d \in Calls : read'[d] \in {read[d], NoDoc}
  BY <1>0 DEF Opens, OnlyCall
<1>2. read[c] \in Documents /\ read[c] # NoDoc
  BY <1>1 DEF TypeOK, Reads
<1>3. session \in Sessions /\ Consistent(session) /\ session.doc = read[c]
  BY <1>2, OpenedSession
<1>4. /\ heap \in Seq(Sessions) /\ lock \in Seq(Calls \cup {NoCall}) /\ DOMAIN lock = DOMAIN heap
      /\ Len(lock) = Len(heap) /\ ahead \subseteq DOMAIN heap /\ 0 \notin DOMAIN heap
      /\ \A d \in Calls : pc[d] = "save" => at[d] \in DOMAIN heap
  BY DEF TypeOK, Working
<1>5. /\ DOMAIN heap' = DOMAIN heap \cup {new} /\ new \notin DOMAIN heap
      /\ heap'[new] = session /\ \A s \in DOMAIN heap : heap'[s] = heap[s]
  <2>1. heap' = Append(heap, session)
    BY DEF Opens
  <2> HIDE DEF session
  <2> QED
    BY <1>0, <1>3, <1>4, <2>1, Appended
<1>6. lock'[new] = NoCall /\ \A s \in DOMAIN heap : lock'[s] = lock[s]
  <2>1. lock' = Append(lock, NoCall) /\ NoCall \in Calls \cup {NoCall}
    BY DEF Opens
  <2> QED
    BY <1>0, <1>4, <2>1, Appended
<1> HIDE DEF session
<1>7. Locked'
  BY <1>1, <1>4, <1>5, <1>6, Documented, CallsAssumption DEF Disk, Locked
<1>8. Begun'
  BY <1>1, <1>2, <1>3, <1>5 DEF Disk, Begun
\* No other session is of this life: it would have been registered.
<1>9. \A s \in DOMAIN heap : ~ OfThis(heap[s].doc)
  BY <1>1, <1>4 DEF Disk, Alone
<1>10. Kept' /\ Alone' /\ ReadCurrent'
  BY <1>1, <1>2, <1>3, <1>4, <1>5, <1>9 DEF Disk, Kept, Alone, ReadCurrent, OfThis
<1>11. OnFile'
  <2>1. ~ Pending(new)'
    BY <1>1, <1>4, <1>5, <1>6 DEF Pending
  <2>2. OfThis(file) /\ OfThis(read[c]) => file = read[c]
    BY <1>1 DEF Disk, ReadCurrent
  <2> QED
    BY <1>1, <1>3, <1>5, <1>9, <2>1, <2>2 DEF OnFile, OfThis
<1>12. HistoriesConsistent'
  BY <1>3, <1>5 DEF HistoriesConsistent
<1> QED
  BY <1>7, <1>8, <1>10, <1>11, <1>12 DEF Disk

\* The session that advances is newer than the file until it is saved.
LEMMA MovesKeeps ==
  ASSUME TypeOK, TypeOK', Disk, HistoriesConsistent,
         NEW c \in Calls, OnlyCall(c), Moves(c)
  PROVE  Disk' /\ HistoriesConsistent'
<1>1. PICK here : here = at[c]
  OBVIOUS
<1>2. PICK session : /\ Advances(heap[here], session)
                     /\ heap' = [heap EXCEPT ![here] = session]
  BY <1>1 DEF Moves
<1>3. /\ pc[c] = "acquire" /\ pc'[c] = "save" /\ at'[c] = here
      /\ lock[here] = NoCall /\ lock' = [lock EXCEPT ![here] = c]
      /\ UNCHANGED <<file, life, live, ahead>>
      /\ \A d \in Calls \ {c} : pc'[d] = pc[d] /\ at'[d] = at[d]
      /\ \A d \in Calls : read'[d] = read[d]
  BY <1>1 DEF Moves, OnlyCall
<1>4. /\ heap \in Seq(Sessions) /\ lock \in Seq(Calls \cup {NoCall}) /\ DOMAIN lock = DOMAIN heap
      /\ here \in DOMAIN heap
      /\ \A d \in Calls : pc[d] = "save" => at[d] \in DOMAIN heap
  BY <1>1, <1>3 DEF TypeOK, Working
<1>5. /\ session \in Sessions /\ Consistent(session) /\ session.doc \in Documents
      /\ session.doc.life = heap[here].doc.life
      /\ session.doc.version > heap[here].doc.version /\ session.doc.version \in Nat
  BY <1>2 DEF Advances, Sessions, Documents
<1>6. /\ DOMAIN heap' = DOMAIN heap /\ heap'[here] = session
      /\ \A s \in DOMAIN heap : s # here => heap'[s] = heap[s]
  BY <1>2, <1>4, <1>5, Updated
<1>7. lock'[here] = c /\ \A s \in DOMAIN heap : s # here => lock'[s] = lock[s]
  BY <1>3, <1>4, Updated
<1>8. c # NoCall
  BY CallsAssumption
<1>9. Locked'
  <2>1. \A d \in Calls : pc'[d] = "save" => lock'[at'[d]] = d
    BY <1>3, <1>4, <1>7, CallsAssumption DEF Disk, Locked
  <2>2. \A s \in DOMAIN heap' : lock'[s] # NoCall => pc'[lock'[s]] = "save" /\ at'[lock'[s]] = s
    BY <1>3, <1>4, <1>6, <1>7, Documented DEF Disk, Locked
  <2> QED
    BY <2>1, <2>2 DEF Locked
<1>10. Begun'
  BY <1>3, <1>4, <1>5, <1>6 DEF Disk, Begun
<1>11. \A s \in DOMAIN heap : OfThis(heap[s].doc)' => OfThis(heap[s].doc)
  BY <1>3, <1>5, <1>6, Documented DEF OfThis
<1>12. Kept' /\ Alone' /\ ReadCurrent'
  BY <1>3, <1>6, <1>11 DEF Disk, Kept, Alone, ReadCurrent, OfThis
<1>13. OnFile'
  <2> SUFFICES ASSUME OfThis(file)', NEW s \in DOMAIN heap', OfThis(heap[s].doc)'
               PROVE  (IF Pending(s) THEN heap[s].doc.version > file.version
                                     ELSE heap[s].doc = file)'
    BY DEF OnFile
  <2>1. OfThis(file) /\ OfThis(heap[s].doc)
    BY <1>3, <1>6, <1>11 DEF OfThis
  <2>2. IF Pending(s) THEN heap[s].doc.version > file.version ELSE heap[s].doc = file
    BY <1>6, <2>1 DEF Disk, OnFile
  <2>3. CASE s = here
    <3>1. Pending(s)'
      BY <1>7, <1>8, <2>3 DEF Pending
    <3>2. heap[s].doc.version >= file.version /\ file.version \in Nat
      BY <1>6, <2>1, <2>2, Documented DEF OfThis
    <3>3. heap'[s].doc.version > file'.version
      BY <1>3, <1>4, <1>5, <1>6, <2>3, <3>2, Documented
    <3> QED
      BY <3>1, <3>3
  <2>4. CASE s # here
    <3>1. Pending(s)' <=> Pending(s)
      BY <1>3, <1>6, <1>7, <2>4 DEF Pending
    <3>2. heap'[s] = heap[s] /\ file' = file
      BY <1>3, <1>6, <2>4
    <3> QED
      BY <2>2, <3>1, <3>2
  <2> QED
    BY <2>3, <2>4
<1>14. HistoriesConsistent'
  BY <1>5, <1>6 DEF HistoriesConsistent
<1> QED
  BY <1>9, <1>10, <1>12, <1>13, <1>14 DEF Disk

\* A save, refused or not: the session is on file or known to be ahead of it.
LEMMA ReleasesKeeps ==
  ASSUME TypeOK, TypeOK', Disk, HistoriesConsistent,
         NEW c \in Calls, OnlyCall(c), Written(c) \/ Refused(c)
  PROVE  Disk' /\ HistoriesConsistent'
<1>1. PICK here : here = at[c]
  OBVIOUS
<1>2. PICK doc : doc = heap[here].doc
  OBVIOUS
<1>3. /\ pc[c] = "save" /\ pc'[c] # "save" /\ UNCHANGED <<life, heap, live>>
      /\ lock' = [lock EXCEPT ![here] = NoCall]
      /\ \A d \in Calls \ {c} : pc'[d] = pc[d] /\ at'[d] = at[d]
      /\ \A d \in Calls : read'[d] \in {read[d], NoDoc}
  BY <1>1 DEF Written, Refused, Releases, OnlyCall
<1>4. /\ (file' = doc /\ ahead' = ahead \ {here}) \/ (file' = file /\ ahead' = ahead \cup {here})
  BY <1>1, <1>2 DEF Written, Refused
<1>5. /\ lock \in Seq(Calls \cup {NoCall}) /\ DOMAIN lock = DOMAIN heap
      /\ here \in DOMAIN heap /\ lock[here] = c /\ c # NoCall
      /\ \A d \in Calls : pc[d] = "save" => at[d] \in DOMAIN heap
  BY <1>1, <1>3, CallsAssumption DEF TypeOK, Working, Disk, Locked
<1>6. lock'[here] = NoCall /\ \A s \in DOMAIN heap : s # here => lock'[s] = lock[s]
  BY <1>3, <1>5, Updated
<1>7. doc \in Documents /\ doc # NoDoc /\ doc.life \in Nat /\ doc.version \in Nat /\ life \in Nat
  BY <1>2, <1>5, Documented, DocAssumption DEF Documents
<1>8. Locked'
  <2>1. \A d \in Calls : pc'[d] = "save" => d # c /\ lock[at[d]] = d /\ at'[d] = at[d]
    BY <1>3 DEF Disk, Locked
  <2>2. \A d \in Calls : pc'[d] = "save" => lock'[at'[d]] = d
    BY <1>3, <1>5, <1>6, <2>1
  <2>3. \A s \in DOMAIN heap : lock'[s] # NoCall =>
          s # here /\ lock'[s] = lock[s] /\ lock[s] \in Calls
    BY <1>6, Documented
  <2>4. \A s \in DOMAIN heap' : lock'[s] # NoCall => pc'[lock'[s]] = "save" /\ at'[lock'[s]] = s
    BY <1>1, <1>3, <2>3 DEF Disk, Locked
  <2> QED
    BY <2>2, <2>4 DEF Locked
<1>9. Begun'
  <2>1. doc.life <= life
    BY <1>2, <1>5 DEF Disk, Begun
  <2> QED
    BY <1>3, <1>4, <2>1 DEF Disk, Begun
<1>10. file # NoDoc => file' # NoDoc
  BY <1>4, <1>7
<1>11. Kept' /\ Alone'
  BY <1>3, <1>10 DEF Disk, Kept, Alone, OfThis
\* A document of this life that is written is the registered session's.
<1>12. OfThis(doc) => live = here
  BY <1>2, <1>5 DEF Disk, Alone
<1>13. ReadCurrent'
  <2>1. live = 0 => ~ OfThis(doc)
    BY <1>5, <1>12 DEF TypeOK
  <2> QED
    BY <1>3, <1>4, <2>1 DEF Disk, ReadCurrent, OfThis
<1>14. OnFile'
  <2> SUFFICES ASSUME OfThis(file)', NEW s \in DOMAIN heap', OfThis(heap[s].doc)'
               PROVE  (IF Pending(s) THEN heap[s].doc.version > file.version
                                     ELSE heap[s].doc = file)'
    BY DEF OnFile
  <2>1. OfThis(heap[s].doc) /\ s = live /\ s \in DOMAIN heap
    BY <1>3 DEF OfThis, Disk, Alone
  <2>2. CASE file' = doc /\ ahead' = ahead \ {here}
    <3>1. s = here
      BY <1>3, <1>12, <2>1, <2>2 DEF OfThis
    <3>2. ~ Pending(s)' /\ heap'[s].doc = file'
      BY <1>2, <1>3, <1>6, <2>2, <3>1 DEF Pending
    <3> QED
      BY <3>2
  <2>3. CASE file' = file /\ ahead' = ahead \cup {here}
    <3>1. OfThis(file)
      BY <1>3, <2>3 DEF OfThis
    <3>2. IF Pending(s) THEN heap[s].doc.version > file.version ELSE heap[s].doc = file
      BY <2>1, <3>1 DEF Disk, OnFile
    <3>3. Pending(s)' <=> Pending(s)
      BY <1>5, <1>6, <2>1, <2>3 DEF Pending
    <3> QED
      BY <1>3, <2>3, <3>2, <3>3
  <2> QED
    BY <1>4, <2>2, <2>3
<1>15. HistoriesConsistent'
  BY <1>3 DEF HistoriesConsistent
<1> QED
  BY <1>8, <1>9, <1>11, <1>13, <1>14, <1>15 DEF Disk

-----------------------------------------------------------------------------
(* Theorems *)

\* It holds at the start.
LEMMA InitIInv == Init => IInv
<1> SUFFICES ASSUME Init PROVE IInv
  OBVIOUS
<1> USE DEF Init
<1>1. TypeOK
  <2>1. /\ heap \in Seq(Sessions) /\ live \in 0 .. Len(heap) /\ ahead \subseteq DOMAIN heap
        /\ lock \in Seq(Calls \cup {NoCall}) /\ Len(lock) = Len(heap)
    OBVIOUS
  <2>2. known \in BOOLEAN /\ folder \in BOOLEAN /\ manifest \in BOOLEAN
    OBVIOUS
  <2>3. /\ pc \in [Calls -> Labels] /\ at \in [Calls -> Nat] /\ read \in [Calls -> Reads]
        /\ op \in [Calls -> Ops] /\ file \in Reads
    BY DEF Labels, Ops, Reads
  <2>4. \A c \in Calls : pc[c] # "insert" /\ pc[c] \notin Working
    BY DEF Working
  <2> QED
    BY <2>1, <2>2, <2>3, <2>4 DEF TypeOK, Ops
<1>2. Disk
  BY DEF Disk, Locked, Begun, Kept, Alone, ReadCurrent, OnFile, OfThis
<1>3. HistoriesConsistent
  BY DEF HistoriesConsistent
<1> QED
  BY <1>1, <1>2, <1>3 DEF IInv

\* Every step keeps it.
LEMMA NextIInv == IInv /\ [Next]_vars => IInv'
<1> SUFFICES ASSUME IInv, [Next]_vars PROVE IInv'
  OBVIOUS
<1>1. CASE Next
  <2>1. PICK c \in Calls : Kind(c)
    BY <1>1, StepKinds DEF IInv
  <2>2. TypeOK'
    BY <2>1, TypesKept DEF IInv
  <2>3. OnlyCall(c) /\ Does(c)
    BY <2>1 DEF Kind
  <2>4. Disk' /\ HistoriesConsistent'
    BY <2>2, <2>3, StaysKeeps, EndsKeeps, OpensKeeps, MovesKeeps, ReleasesKeeps DEF IInv, Does
  <2> QED
    BY <2>2, <2>4 DEF IInv
<1>2. CASE UNCHANGED vars
  <2> USE <1>2 DEF vars, disk, sessions, calls, bounds
  <2>1. TypeOK'
    BY DEF IInv, TypeOK
  <2>2. Locked' /\ Begun' /\ Kept'
    BY DEF IInv, Disk, Locked, Begun, Kept, OfThis
  <2>3. Alone' /\ ReadCurrent' /\ OnFile'
    BY DEF IInv, Disk, Alone, ReadCurrent, OnFile, OfThis, Pending
  <2>4. HistoriesConsistent'
    BY DEF IInv, HistoriesConsistent
  <2> QED
    BY <2>1, <2>2, <2>3, <2>4 DEF IInv, Disk
<1> QED
  BY <1>1, <1>2

\* It holds of every behaviour.
LEMMA Invariant == Spec => []IInv
  BY InitIInv, NextIInv, PTL DEF Spec

\* Every variable keeps its type: a call that opens a session has read a
\* document, one that changes a session has a session, and the registry names
\* one that was opened.
THEOREM BoardsTypes == Spec => []TypeOK
<1>1. IInv => TypeOK
  BY DEF IInv
<1> QED
  BY <1>1, Invariant, PTL

\* A board nobody is changing, and whose last save succeeded, is on disk as it is
\* in memory (board_service.rs apply_batch, undo, redo and save_locked), unless
\* one of the two is of a board the project had before.
THEOREM BoardsAreSaved == Spec => []BoardSaved
<1>1. IInv => BoardSaved
  <2> SUFFICES ASSUME IInv, live # 0, lock[live] = NoCall, live \notin ahead,
                      Present(heap[live].doc), Present(file)
               PROVE  file = heap[live].doc
    BY DEF BoardSaved
  <2>1. live \in DOMAIN heap
    BY DEF IInv, TypeOK
  <2>2. OfThis(heap[live].doc)
    BY <2>1, Documented DEF IInv, OfThis, Present
  <2>3. OfThis(file)
    BY <2>1, <2>2 DEF IInv, Disk, Kept, Present, OfThis
  <2> QED
    BY <2>1, <2>2, <2>3 DEF IInv, Disk, OnFile, Pending
<1> QED
  BY <1>1, Invariant, PTL

\* The undo history of every session ever opened is one line of contents with
\* the document at its cursor (document/history.rs), whatever was edited, taken
\* back, refused by the disk or deleted under it.
THEOREM HistoriesStay == Spec => []HistoriesConsistent
<1>1. IInv => HistoriesConsistent
  BY DEF IInv
<1> QED
  BY <1>1, Invariant, PTL

\* While the project keeps its board, each write of the file brings a later
\* version (document_store.rs write_document): no call, however late, puts an
\* older document back.
THEOREM FileOnlyMovesOn == Spec => FileMovesOn
<1> DEFINE Forward ==
      file' # file /\ file # NoDoc /\ file' # NoDoc /\ file.life = life /\ file'.life = life
        => file'.version > file.version
<1>1. IInv /\ [Next]_vars => [Forward]_vars
  <2> SUFFICES ASSUME IInv, Next PROVE Forward
    OBVIOUS
  <2>1. PICK c \in Calls : Does(c)
    BY StepKinds DEF IInv, Kind
  <2>2. CASE Ends(c)
    <3>1. life \in Nat /\ file' \in {file, NoDoc, DefaultBoard} /\ DefaultBoard.life = life + 1
      BY <2>2 DEF Ends, IInv, TypeOK, DefaultBoard
    <3> QED
      BY <3>1
  <2>3. CASE Written(c)
    <3>1. /\ at[c] \in DOMAIN heap /\ lock[at[c]] = c /\ file' = heap[at[c]].doc
      BY <2>3 DEF Written, Releases, IInv, TypeOK, Working, Disk, Locked
    <3>2. Pending(at[c])
      BY <3>1, CallsAssumption DEF Pending
    <3> QED
      BY <3>1, <3>2 DEF IInv, Disk, OnFile, OfThis
  <2>4. CASE Stays(c) \/ Opens(c) \/ Moves(c) \/ Refused(c)
    BY <2>4 DEF Stays, Opens, Moves, Refused
  <2> QED
    BY <2>1, <2>2, <2>3, <2>4 DEF Does
<1>2. Spec => [][Forward]_vars
  BY <1>1, Invariant, PTL DEF Spec
<1> QED
  BY <1>2 DEF FileMovesOn
=============================================================================
