--------------------------- MODULE DocumentSession ---------------------------
(***************************************************************************)
(* One document with its undo history (core/src/document/session.rs,       *)
(* history.rs).  A document is its version, the edit whose content it has  *)
(* and the life of the project it stems from; an entry of the history is   *)
(* the content before and after an edit.  The cursor stands behind the     *)
(* entry that undo takes back.                                             *)
(***************************************************************************)
EXTENDS Naturals, Sequences

Opened(doc) == [doc |-> doc, entries |-> <<>>, cursor |-> 0]

\* The document with another content, at the next version.
Changed(doc, edit) == [doc EXCEPT !.version = @ + 1, !.content = edit]

KeepEntries(s) == s.entries
TruncateToCursor(s) == SubSeq(s.entries, 1, s.cursor)

\* An accepted batch: what could be redone is gone.
Applied(s, edit) ==
  LET entries == Append(TruncateToCursor(s), [before |-> s.doc.content, after |-> edit])
  IN  [doc |-> Changed(s.doc, edit), entries |-> entries, cursor |-> Len(entries)]

CanUndo(s) == s.cursor > 0
Undone(s) ==
  [s EXCEPT !.doc = Changed(s.doc, s.entries[s.cursor].before), !.cursor = @ - 1]

CanRedo(s) == s.cursor < Len(s.entries)
Redone(s) ==
  [s EXCEPT !.doc = Changed(s.doc, s.entries[s.cursor + 1].after), !.cursor = @ + 1]

\* After a failed save: the last entry is dropped, whichever it is.
Restored(s, doc) ==
  IF s.cursor = 0 THEN [s EXCEPT !.doc = doc]
  ELSE [doc |-> doc, cursor |-> s.cursor - 1, entries |-> SubSeq(s.entries, 1, s.cursor - 1)]

\* The history tells one story: every entry starts from the content the one
\* before it left, and the document has the content the cursor stands at.
Consistent(s) ==
  /\ s.cursor \in 0 .. Len(s.entries)
  /\ \A i \in 2 .. Len(s.entries) : s.entries[i].before = s.entries[i - 1].after
  /\ s.cursor > 0 => s.doc.content = s.entries[s.cursor].after
  /\ s.cursor < Len(s.entries) => s.doc.content = s.entries[s.cursor + 1].before
=============================================================================
