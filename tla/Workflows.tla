------------------------------ MODULE Workflows ------------------------------
(***************************************************************************)
(* The sessions and the file of one workflow of a project                  *)
(* (app-host/src/workflow_service.rs).                                     *)
(*                                                                         *)
(* Unlike a board's, a workflow's session is locked for each look only:    *)
(* an accepted batch is in memory before its file is written, and other    *)
(* calls work between the two.  The editor saves documents of its own past *)
(* the session, a run registers the editor's document as a new session.    *)
(***************************************************************************)
EXTENDS DocumentSession, FiniteSets

CONSTANTS Calls, NoDoc, NoProposal, MaxVersion, MaxEdits, MaxSessions, MaxFaults

VARIABLES
  file,      \* the document in workflows/{id}.json, or NoDoc
  heap,      \* every session registered, oldest first
  live,      \* the one registered now, 0 when there is none
  proposal,  \* the pending proposal: its number and base version
  pc, op,    \* where each call is, and what it is for
  at,        \* the session a call works on
  pre,       \* the document before its batch
  mine,      \* the document it is to save or to register
  edits,     \* contents and proposals so far
  faults

sessions == <<heap, live>>
calls == <<pc, op, at, pre, mine>>
vars == <<file, sessions, proposal, calls, edits, faults>>

Docs == [version : 0 .. MaxVersion, content : 0 .. MaxEdits]
Proposals == [number : 1 .. MaxEdits, base : 0 .. MaxVersion]
Ops == {"none", "apply", "approve", "save", "load", "delete"}

\* A workflow that has been saved and is open.
Init ==
  /\ file = [version |-> 0, content |-> 0]
  /\ heap = <<Opened(file)>> /\ live = 1 /\ proposal = NoProposal
  /\ pc = [c \in Calls |-> "idle"] /\ op = [c \in Calls |-> "none"]
  /\ at = [c \in Calls |-> 0]
  /\ pre = [c \in Calls |-> NoDoc] /\ mine = [c \in Calls |-> NoDoc]
  /\ edits = 0 /\ faults = 0

Goto(c, label) == pc' = [pc EXCEPT ![c] = label]
Return(c) ==
  /\ Goto(c, "idle") /\ op' = [op EXCEPT ![c] = "none"] /\ at' = [at EXCEPT ![c] = 0]
  /\ pre' = [pre EXCEPT ![c] = NoDoc] /\ mine' = [mine EXCEPT ![c] = NoDoc]
Begin(c, what, label) ==
  /\ pc[c] = "idle" /\ Goto(c, label) /\ op' = [op EXCEPT ![c] = what]

Fresh == edits < MaxEdits /\ edits' = edits + 1

\* register_workflow: another session takes the place of the registered one.
RegisterSession(doc) ==
  /\ Len(heap) < MaxSessions
  /\ heap' = Append(heap, Opened(doc)) /\ live' = Len(heap) + 1

-----------------------------------------------------------------------------
(* apply_commands *)

\* The session is looked up; UnknownWorkflow when there is none.
CallApply(c) ==
  /\ live # 0 /\ Begin(c, "apply", "apply") /\ at' = [at EXCEPT ![c] = live]
  /\ UNCHANGED <<file, sessions, proposal, pre, mine, edits, faults>>

\* Under the session's lock: the batch is accepted on the version it is for.
Apply(c) ==
  /\ pc[c] = "apply" /\ heap[at[c]].doc.version < MaxVersion /\ Fresh
  /\ pre' = [pre EXCEPT ![c] = heap[at[c]].doc]
  /\ heap' = [heap EXCEPT ![at[c]] = Applied(@, edits + 1)]
  /\ Goto(c, "snapshot")
  /\ UNCHANGED <<file, live, proposal, op, at, mine, faults>>

\* Another base version, or a command that fails: the proposal stays.
Rejected(c) ==
  /\ pc[c] = "apply" /\ Return(c)
  /\ UNCHANGED <<file, sessions, proposal, edits, faults>>
\* Nothing to change counts as applied.
NoChange(c) ==
  /\ pc[c] = "apply" /\ op[c] = "approve" /\ Goto(c, "remove")
  /\ UNCHANGED <<file, sessions, proposal, op, at, pre, mine, edits, faults>>

\* The accepted document is taken from the registry again: whatever session
\* is registered now, with whatever other calls have changed.
Snapshot(c) ==
  /\ pc[c] = "snapshot"
  /\ IF live = 0 THEN Return(c)
     ELSE /\ mine' = [mine EXCEPT ![c] = heap[live].doc] /\ Goto(c, "save")
          /\ UNCHANGED <<op, at, pre>>
  /\ UNCHANGED <<file, sessions, proposal, edits, faults>>

\* save_workflow_snapshot.
Save(c) ==
  /\ pc[c] = "save" /\ file' = mine[c]
  /\ IF op[c] = "approve" THEN Goto(c, "remove") /\ UNCHANGED <<op, at, pre, mine>> ELSE Return(c)
  /\ UNCHANGED <<sessions, proposal, edits, faults>>

\* The session the batch was applied to is rolled back to what it was then.
SaveFails(c) ==
  /\ pc[c] = "save" /\ faults < MaxFaults /\ faults' = faults + 1
  /\ heap' = IF op[c] \in {"apply", "approve"}
               THEN [heap EXCEPT ![at[c]] = Restored(@, pre[c])] ELSE heap
  /\ Return(c)
  /\ UNCHANGED <<file, live, proposal, edits>>

-----------------------------------------------------------------------------
(* store_proposal, apply_pending_proposal_persisted *)

StoreProposal ==
  /\ Fresh
  /\ \E base \in 0 .. MaxVersion : proposal' = [number |-> edits + 1, base |-> base]
  /\ UNCHANGED <<file, sessions, calls, faults>>

\* A stale proposal is refused before the batch is tried.
CallApprove(c) ==
  /\ live # 0 /\ proposal # NoProposal /\ proposal.base = heap[live].doc.version
  /\ Begin(c, "approve", "apply") /\ at' = [at EXCEPT ![c] = live]
  /\ UNCHANGED <<file, sessions, proposal, pre, mine, edits, faults>>

\* The pending one is removed, by then perhaps another.
RemoveProposal(c) ==
  /\ pc[c] = "remove" /\ proposal' = NoProposal /\ Return(c)
  /\ UNCHANGED <<file, sessions, edits, faults>>

-----------------------------------------------------------------------------
(* save_external_workflow *)

\* What the version of the editor's document is compared with.
Known == IF live # 0 THEN heap[live].doc ELSE file
SaveExternal(c) ==
  /\ Fresh
  /\ \E version \in 0 .. MaxVersion :
       /\ Known # NoDoc => version > Known.version
       /\ mine' = [mine EXCEPT ![c] = [version |-> version, content |-> edits + 1]]
  /\ Begin(c, "save", "save")
  /\ UNCHANGED <<file, sessions, proposal, at, pre, faults>>

-----------------------------------------------------------------------------
(* load_workflow, register_workflow, WorkspaceHost::delete_project *)

CallLoad(c) ==
  /\ file # NoDoc /\ Begin(c, "load", "register")
  /\ mine' = [mine EXCEPT ![c] = file]
  /\ UNCHANGED <<file, sessions, proposal, at, pre, edits, faults>>
RegisterLoaded(c) ==
  /\ pc[c] = "register" /\ RegisterSession(mine[c]) /\ Return(c)
  /\ UNCHANGED <<file, proposal, edits, faults>>

\* run_workflow registers the editor's document, saved or not.
RunWorkflow ==
  /\ Fresh
  /\ \E version \in 0 .. MaxVersion :
       RegisterSession([version |-> version, content |-> edits + 1])
  /\ UNCHANGED <<file, proposal, calls, faults>>

\* The directory first, then what is in memory.
RemoveDirectory(c) ==
  /\ Begin(c, "delete", "clear") /\ file' = NoDoc
  /\ UNCHANGED <<sessions, proposal, at, pre, mine, edits, faults>>
Clear(c) ==
  /\ pc[c] = "clear" /\ live' = 0 /\ proposal' = NoProposal /\ Return(c)
  /\ UNCHANGED <<file, heap, edits, faults>>

-----------------------------------------------------------------------------
Next ==
  \/ StoreProposal \/ RunWorkflow
  \/ \E c \in Calls :
       \/ CallApply(c) \/ Apply(c) \/ Rejected(c) \/ NoChange(c) \/ Snapshot(c)
       \/ Save(c) \/ SaveFails(c) \/ CallApprove(c) \/ RemoveProposal(c)
       \/ SaveExternal(c) \/ CallLoad(c) \/ RegisterLoaded(c)
       \/ RemoveDirectory(c) \/ Clear(c)

Spec == Init /\ [][Next]_vars

-----------------------------------------------------------------------------
(* Properties *)

TypeOK ==
  /\ file \in Docs \cup {NoDoc} /\ live \in {0} \cup DOMAIN heap
  /\ \A s \in DOMAIN heap : heap[s].doc \in Docs
  /\ proposal \in Proposals \cup {NoProposal}
  /\ pc \in [Calls -> {"idle", "apply", "snapshot", "save", "remove", "register", "clear"}]
  /\ op \in [Calls -> Ops] /\ at \in [Calls -> {0} \cup DOMAIN heap]
  /\ pre \in [Calls -> Docs \cup {NoDoc}] /\ mine \in [Calls -> Docs \cup {NoDoc}]
  /\ edits \in 0 .. MaxEdits /\ faults \in 0 .. MaxFaults

\* The file of a workflow that is not deleted never goes back to an older
\* version: the claim of a monotonic version guard.  Two saves that both
\* passed the guard, or took their snapshots, write in any order.
VersionMovesOn ==
  [][file' # file /\ file # NoDoc /\ file' # NoDoc => file'.version >= file.version]_vars
=============================================================================
