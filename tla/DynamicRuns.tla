----------------------------- MODULE DynamicRuns ------------------------------
(***************************************************************************)
(* A batch run of a dynamic workflow over parameter groups                 *)
(* (app-host/src/dynamic_workflow_service.rs and its execute.rs, with      *)
(* OperationService::invoke and the step log).                             *)
(*                                                                         *)
(* The run is a document on disk; while a task executes it the task's copy *)
(* counts.  A document that says running and has no task is a leftover of  *)
(* an earlier process: a reader rewrites it as interrupted, and a resume   *)
(* claims it again and continues from the step records.  The process may   *)
(* die between any two steps; so may a workspace that was shut down be     *)
(* replaced by another one in the same process.                            *)
(*                                                                         *)
(* One run; one step per item; the run's collection is created at the end. *)
(***************************************************************************)
EXTENDS Naturals, Sequences, FiniteSets

CONSTANTS NItems, Concurrency, Calls, NoCall, NoDoc, MaxTasks, MaxFaults, MaxCrashes

Items == 1 .. NItems

\* RunState, SlotState and the document that holds them.
Active == {"Queued", "Running"}
RunStates == Active \cup {"Completed", "Failed", "Cancelled", "Interrupted", "NeedsConfirmation"}
SlotStates == Active \cup {"Succeeded", "Failed", "Stale", "Cancelled", "NeedsConfirmation"}
Documents == [state : RunStates, items : [Items -> SlotStates], collection : BOOLEAN]

ASSUME ItemsAssumption == NItems \in Nat /\ Concurrency \in Nat \ {0}
ASSUME CallsAssumption == NoCall \notin Calls
ASSUME DocAssumption == NoDoc \notin Documents
ASSUME BoundsAssumption == {MaxTasks, MaxFaults, MaxCrashes} \subseteq Nat

VARIABLES
  disk,     \* the run document's file: run state, item states, collection_id set
  log,      \* the step record of each item and of the collection (index 0)
  effects,  \* how often each of them was carried out
  closing,  \* shutdown: "no", "flagged", "drained"
  active,   \* the ActiveRun, 0 when there is none
  guard,    \* the call holding the run's transition guard
  tasks,    \* every task this process spawned for the run, oldest first
  pc, op,   \* where each call is, and what it is for
  mine,     \* the task it claimed or waits for
  read,     \* the document it read
  woken,    \* calls whose armed wait for `done` was notified
  replayable, \* items whose operation may be repeated: not open-world, or idempotent
  faults, crashes

files == <<disk, log, effects>>
service == <<closing, active, guard>>
calls == <<pc, op, mine, read, woken>>
vars == <<files, service, tasks, calls, replayable, faults, crashes>>

TheCollection == 0
Keys == Items \cup {TheCollection}
Over == {"over", "aborted"}

NewDoc == [state |-> "Queued", items |-> [i \in Items |-> "Queued"], collection |-> FALSE]

Init ==
  /\ disk = NoDoc /\ log = [k \in Keys |-> "none"] /\ effects = [k \in Keys |-> 0]
  /\ closing = "no" /\ active = 0 /\ guard = NoCall /\ tasks = <<>>
  /\ pc = [c \in Calls |-> "idle"] /\ op = [c \in Calls |-> "none"]
  /\ mine = [c \in Calls |-> 0] /\ read = [c \in Calls |-> NoDoc] /\ woken = {}
  /\ replayable \in SUBSET Items /\ faults = 0 /\ crashes = 0

Fault == faults < MaxFaults /\ faults' = faults + 1

\* write_run: the file is replaced, or the write is refused.
Written(doc) == disk' = doc /\ UNCHANGED faults
Refused == UNCHANGED disk /\ Fault

Goto(c, label) == pc' = [pc EXCEPT ![c] = label]
Release(c) == guard' = IF guard = c THEN NoCall ELSE guard
Reset(c) ==
  /\ Goto(c, "idle") /\ op' = [op EXCEPT ![c] = "none"]
  /\ mine' = [mine EXCEPT ![c] = 0] /\ read' = [read EXCEPT ![c] = NoDoc]
  /\ woken' = woken \ {c}
Return(c) == Reset(c) /\ Release(c)

-----------------------------------------------------------------------------
(* The calls: run, get_run, resume, cancel *)

Call(c, what, label) ==
  /\ pc[c] = "idle" /\ Goto(c, label) /\ op' = [op EXCEPT ![c] = what]
  /\ UNCHANGED <<files, service, tasks, mine, read, woken, replayable, faults, crashes>>

\* A run gets an id of its own: this one is created once.
CallRun(c) == disk = NoDoc /\ (\A d \in Calls : op[d] # "run") /\ Call(c, "run", "guard")
CallGet(c) == disk # NoDoc /\ Call(c, "get", "look")
CallResume(c) == disk # NoDoc /\ Call(c, "resume", "look")
CallCancel(c) == disk # NoDoc /\ Call(c, "cancel", "find")

\* get_run: the copy of a live task, which no resume may claim again.
Look(c) ==
  /\ pc[c] = "look"
  /\ IF active # 0 THEN Return(c)
     ELSE Goto(c, "guard") /\ UNCHANGED <<guard, op, mine, read, woken>>
  /\ UNCHANGED <<files, closing, active, tasks, replayable, faults, crashes>>

\* lock_run_transition; a resume takes the guard twice.
TakeGuard(c) ==
  /\ pc[c] \in {"guard", "guardAgain"} /\ guard = NoCall /\ guard' = c
  /\ Goto(c, IF op[c] = "run" THEN "claim" ELSE IF pc[c] = "guard" THEN "load" ELSE "reload")
  /\ UNCHANGED <<files, closing, active, tasks, op, mine, read, woken, replayable, faults, crashes>>

Interrupted == active = 0 /\ disk.state = "Interrupted"
Again(c) == Goto(c, "guardAgain") /\ Release(c) /\ UNCHANGED <<op, mine, woken>>

LoadUnguarded(c) ==
  /\ pc[c] = "load"
  /\ IF disk.state \in Active
       THEN read' = [read EXCEPT ![c] = disk] /\ Goto(c, "normalize") /\ UNCHANGED <<guard, op, mine, woken>>
       ELSE IF op[c] = "resume" /\ Interrupted THEN Again(c) /\ UNCHANGED read ELSE Return(c)
  /\ UNCHANGED <<files, closing, active, tasks, replayable, faults, crashes>>
\* Under the guard: again the live copy, then the file.
Load(c) ==
  /\ pc[c] = "load"
  /\ IF active = 0 /\ disk.state \in Active
       THEN read' = [read EXCEPT ![c] = disk] /\ Goto(c, "normalize") /\ UNCHANGED <<guard, op, mine, woken>>
       ELSE IF op[c] = "resume" /\ Interrupted THEN Again(c) /\ UNCHANGED read ELSE Return(c)
  /\ UNCHANGED <<files, closing, active, tasks, replayable, faults, crashes>>

\* A running document without a task was interrupted.
Normalize(c) ==
  /\ pc[c] = "normalize"
  /\ \/ /\ Written([read[c] EXCEPT !.state = "Interrupted"])
        /\ IF op[c] = "resume" THEN Again(c) /\ read' = [read EXCEPT ![c] = NoDoc] ELSE Return(c)
     \/ Refused /\ Return(c)
  /\ UNCHANGED <<log, effects, closing, active, tasks, replayable, crashes>>

\* resume looks again inside the claim window.
Reload(c) ==
  /\ pc[c] = "reload"
  /\ IF Interrupted
       THEN /\ read' = [read EXCEPT ![c] = disk] /\ Goto(c, "claim")
            /\ UNCHANGED <<guard, op, mine, woken>>
       ELSE Return(c)
  /\ UNCHANGED <<files, closing, active, tasks, replayable, faults, crashes>>

-----------------------------------------------------------------------------
(* begin_task, under the guard *)

Gated(doc) ==
  [pc |-> "gated", cancelled |-> FALSE, verdict |-> "Running",
   doc |-> [doc EXCEPT !.state = "Running"],
   records |-> [k \in Keys |-> "none"], item |-> [i \in Items |-> "new"]]

\* The task is spawned and waits for its start.
Claim(c) ==
  /\ pc[c] = "claim" /\ closing = "no" /\ active = 0
  /\ Len(tasks) < MaxTasks
  /\ tasks' = Append(tasks, Gated(IF op[c] = "run" THEN NewDoc ELSE read[c]))
  /\ mine' = [mine EXCEPT ![c] = Len(tasks) + 1] /\ read' = [read EXCEPT ![c] = NoDoc]
  /\ Goto(c, "insert")
  /\ UNCHANGED <<files, service, op, woken, replayable, faults, crashes>>
ClaimRefused(c) ==
  /\ pc[c] = "claim" /\ (closing # "no" \/ active # 0) /\ Return(c)
  /\ UNCHANGED <<files, closing, active, tasks, replayable, faults, crashes>>

SetTask(t, label) == tasks' = [tasks EXCEPT ![t].pc = label]
\* A task that ended, of which only the run's last state is still read.
Ends(t, label, state) ==
  tasks' = [tasks EXCEPT ![t] = [Gated(NewDoc) EXCEPT !.pc = label, !.doc.state = state]]
Aborts(t) == Ends(t, "aborted", tasks[t].doc.state)

InsertClosing(c) ==
  /\ pc[c] = "insert" /\ active' = mine[c] /\ Goto(c, "write")
  /\ UNCHANGED <<files, closing, guard, tasks, op, mine, read, woken, replayable, faults, crashes>>
\* Under the registry's lock; the flag and the entry are looked at again.
Insert(c) ==
  /\ pc[c] = "insert"
  /\ IF closing = "no" /\ active = 0
       THEN /\ active' = mine[c] /\ Goto(c, "write")
            /\ UNCHANGED <<guard, tasks, op, mine, read, woken>>
       ELSE Aborts(mine[c]) /\ Return(c) /\ UNCHANGED active
  /\ UNCHANGED <<files, closing, replayable, faults, crashes>>

Start(t) == IF tasks[t].pc = "gated" THEN SetTask(t, "begin") ELSE UNCHANGED tasks
\* The running state is on disk before the task may start.
WriteClaim(c) ==
  /\ pc[c] = "write" /\ Written(tasks[mine[c]].doc) /\ Start(mine[c]) /\ Return(c)
  /\ UNCHANGED <<log, effects, closing, active, replayable, crashes>>

\* Everybody whose wait for the task's `done` is armed.
NotifyWaiters(t) == woken' = woken \cup {c \in Calls : pc[c] = "wait" /\ mine[c] = t}

\* fail_claim.
WriteClaimFails(c) ==
  /\ pc[c] = "write" /\ Refused
  /\ Ends(mine[c], "aborted", "Failed") /\ active' = 0
  /\ Goto(c, "idle") /\ op' = [op EXCEPT ![c] = "none"]
  /\ mine' = [mine EXCEPT ![c] = 0] /\ Release(c)
  /\ IF active = 0 THEN UNCHANGED woken ELSE NotifyWaiters(mine[c])
  /\ UNCHANGED <<log, effects, closing, read, replayable, crashes>>

-----------------------------------------------------------------------------
(* cancel *)

\* Without a task it only reports.
Find(c) ==
  /\ pc[c] = "find"
  /\ mine' = [mine EXCEPT ![c] = active]
  /\ Goto(c, IF active = 0 THEN "look" ELSE "settled")
  /\ UNCHANGED <<files, service, tasks, op, read, woken, replayable, faults, crashes>>

\* The state first,
SettledBefore(c) ==
  /\ pc[c] = "settled"
  /\ IF tasks[mine[c]].doc.state \in Active
       THEN Goto(c, "arm") /\ UNCHANGED <<guard, op, mine, read, woken>>
       ELSE Return(c)
  /\ UNCHANGED <<files, closing, active, tasks, replayable, faults, crashes>>
CancelUnseen(c) ==
  /\ pc[c] = "arm" /\ tasks' = [tasks EXCEPT ![mine[c]].cancelled = TRUE] /\ Goto(c, "wait")
  /\ UNCHANGED <<files, service, op, mine, read, woken, replayable, faults, crashes>>
\* and again once the wait is armed.
Cancel(c) ==
  /\ pc[c] = "arm"
  /\ IF tasks[mine[c]].doc.state \in Active
       THEN /\ tasks' = [tasks EXCEPT ![mine[c]].cancelled = TRUE] /\ Goto(c, "wait")
            /\ UNCHANGED <<guard, op, mine, read, woken>>
       ELSE Return(c) /\ UNCHANGED tasks
  /\ UNCHANGED <<files, closing, active, replayable, faults, crashes>>
\* Notified, or ten seconds later.
CancelReturns(c) ==
  /\ pc[c] = "wait" /\ Return(c)
  /\ UNCHANGED <<files, closing, active, tasks, replayable, faults, crashes>>

-----------------------------------------------------------------------------
(* execute_inner and execute_item *)

Doc(t) == tasks[t].doc
Task(t, fields) == tasks' = [tasks EXCEPT ![t] = fields]
unmoved == <<service, calls, replayable, crashes>>

ExecuteInner(t) ==
  /\ tasks[t].pc = "begin"
  /\ \/ Task(t, [tasks[t] EXCEPT !.pc = "items", !.records = log]) /\ UNCHANGED faults
     \/ SetTask(t, "error") /\ Fault
  /\ UNCHANGED <<files, unmoved>>

\* update_item: the copy changes, and the file unless the write is refused;
\* neither when the item is in that state already.
UpdateItem(t, i, state, label) ==
  LET task == [tasks[t] EXCEPT !.doc.items[i] = state, !.item[i] = label] IN
  /\ Task(t, task)
  /\ IF task.doc = Doc(t) THEN UNCHANGED <<disk, faults>> ELSE Written(task.doc) \/ Refused
  /\ UNCHANGED <<log, effects, unmoved>>
Move(t, i, label) ==
  /\ tasks' = [tasks EXCEPT ![t].item[i] = label]
  /\ UNCHANGED <<files, unmoved, faults>>

Executing(t, i, label) == tasks[t].pc = "items" /\ tasks[t].item[i] = label
Ended(t) == IF tasks[t].cancelled THEN "Cancelled" ELSE "Failed"

Permits(t) == Concurrency - Cardinality({i \in Items : tasks[t].item[i] \notin {"new", "done", "panicked"}})

\* In order, each under a permit.
BeginItem(t, i) ==
  /\ Executing(t, i, "new") /\ Permits(t) > 0 /\ \A j \in 1 .. i - 1 : tasks[t].item[j] # "new"
  /\ IF Doc(t).items[i] \in {"Failed", "Cancelled", "NeedsConfirmation"} THEN Move(t, i, "done")
     ELSE IF tasks[t].cancelled THEN UpdateItem(t, i, "Cancelled", "done")
     ELSE IF Doc(t).items[i] = "Succeeded" THEN Move(t, i, "step")
     ELSE UpdateItem(t, i, "Running", "step")

\* interrupted_step_may_rerun, of an operation that is available.
MayRerunAnyhow(i) == TRUE
MayRerun(i) == i \in replayable

SucceededForgotten(outcome) == FALSE
SucceededBefore(outcome) == outcome = "Succeeded"

\* The record of an earlier attempt decides.
Step(t, i) ==
  LET outcome == tasks[t].records[i] IN
  /\ Executing(t, i, "step")
  /\ IF tasks[t].cancelled THEN UpdateItem(t, i, "Cancelled", "done")
     ELSE IF SucceededBefore(outcome) THEN Move(t, i, "output")
     ELSE IF outcome \in {"Failed", "Cancelled"} THEN UpdateItem(t, i, outcome, "done")
     ELSE IF outcome = "none" \/ MayRerun(i) THEN Move(t, i, "record")
     ELSE UpdateItem(t, i, "NeedsConfirmation", "done")
\* Nor may one rerun whose operation is gone or unhealthy.
StepUnavailable(t, i) ==
  /\ Executing(t, i, "step") /\ ~tasks[t].cancelled
  /\ tasks[t].records[i] = "Running" /\ MayRerun(i)
  /\ UpdateItem(t, i, "NeedsConfirmation", "done")

Record(k, outcome) == log' = [log EXCEPT ![k] = outcome] /\ UNCHANGED faults
NoRecord == Fault /\ UNCHANGED log

\* A call refused before its start record fails like one whose record is.
RecordStart(t, i) ==
  /\ Executing(t, i, "record")
  /\ \/ Record(i, "Running") /\ Task(t, [tasks[t] EXCEPT !.item[i] = "call"])
     \/ Task(t, [tasks[t] EXCEPT !.item[i] = "failed"]) /\ NoRecord
  /\ UNCHANGED <<disk, effects, unmoved>>

\* The provider acts and succeeds, or fails before or after it acted.
CallProvider(t, i) ==
  /\ Executing(t, i, "call")
  /\ \E acted \in {0, 1}, label \in {"finish", "fail"} :
       /\ label = "finish" => acted = 1
       /\ effects' = [effects EXCEPT ![i] = @ + acted]
       /\ Task(t, [tasks[t] EXCEPT !.item[i] = label])
  /\ UNCHANGED <<disk, log, unmoved, faults>>

\* Not recorded means not succeeded.
RecordFinish(t, i) ==
  /\ Executing(t, i, "finish")
  /\ \/ Record(i, "Succeeded") /\ Task(t, [tasks[t] EXCEPT !.item[i] = "output"])
     \/ NoRecord /\ Task(t, [tasks[t] EXCEPT !.item[i] = "failed"])
  /\ UNCHANGED <<disk, effects, unmoved>>
RecordFailure(t, i) ==
  /\ Executing(t, i, "fail") /\ Task(t, [tasks[t] EXCEPT !.item[i] = "failed"])
  /\ Record(i, Ended(t)) \/ NoRecord
  /\ UNCHANGED <<disk, effects, unmoved>>
ItemFails(t, i) == Executing(t, i, "failed") /\ UpdateItem(t, i, Ended(t), "done")

\* The output resolves to an asset of these steps, or does not.
Output(t, i) ==
  /\ Executing(t, i, "output")
  /\ \E state \in {"Succeeded", "Failed"} : UpdateItem(t, i, state, "done")

\* The item's task dies; the run goes on without it.
ItemPanics(t, i) ==
  /\ tasks[t].pc = "items" /\ tasks[t].item[i] \notin {"new", "done", "panicked"}
  /\ Fault /\ Task(t, [tasks[t] EXCEPT !.item[i] = "panicked"])
  /\ UNCHANGED <<files, unmoved>>

-----------------------------------------------------------------------------
(* The end of a run *)

SomeItem(t, state) == \E i \in Items : Doc(t).items[i] = state
DeriveRunState(t) ==
  IF \A i \in Items : Doc(t).items[i] = "Succeeded" THEN "Completed"
  ELSE IF tasks[t].cancelled THEN "Cancelled"
  ELSE IF SomeItem(t, "Failed") \/ ~SomeItem(t, "NeedsConfirmation") THEN "Failed"
  ELSE "NeedsConfirmation"

\* Assets come from the items that ended in this task.
Assets(t) == {i \in Items : Doc(t).items[i] = "Succeeded" /\ tasks[t].item[i] = "done"}
Derive(t) ==
  /\ tasks[t].pc = "items" /\ \A i \in Items : tasks[t].item[i] \in {"done", "panicked"}
  /\ Task(t, [tasks[t] EXCEPT !.verdict = DeriveRunState(t),
       !.pc = IF DeriveRunState(t) = "Cancelled" \/ Doc(t).collection \/ Assets(t) = {} THEN "settle"
              ELSE IF SucceededBefore(tasks[t].records[TheCollection]) THEN "keep"
              ELSE "create"])
  /\ UNCHANGED <<files, unmoved, faults>>

\* create_group_collection: collection.create and its two records; it fails
\* as a whole when one of them does.
NoCollection(t) == Task(t, [tasks[t] EXCEPT !.verdict = "Failed", !.pc = "settle"])
CreateStart(t) ==
  /\ tasks[t].pc = "create"
  /\ \/ Record(TheCollection, "Running") /\ SetTask(t, "creating")
     \/ NoRecord /\ NoCollection(t)
  /\ UNCHANGED <<disk, effects, unmoved>>
CreateCollection(t) ==
  /\ tasks[t].pc = "creating" /\ SetTask(t, "created")
  /\ effects' = [effects EXCEPT ![TheCollection] = @ + 1]
  /\ UNCHANGED <<disk, log, unmoved, faults>>
CreateFails(t) ==
  /\ tasks[t].pc = "creating" /\ NoCollection(t)
  /\ Record(TheCollection, "Failed") \/ NoRecord
  /\ UNCHANGED <<disk, effects, unmoved>>
CreateFinish(t) ==
  /\ tasks[t].pc = "created"
  /\ \/ Record(TheCollection, "Succeeded") /\ SetTask(t, "keep")
     \/ NoRecord /\ NoCollection(t)
  /\ UNCHANGED <<disk, effects, unmoved>>

WriteEnd(t, doc, label) ==
  /\ \/ Task(t, [tasks[t] EXCEPT !.doc = doc, !.pc = label]) /\ Written(doc)
     \/ Task(t, [tasks[t] EXCEPT !.doc = doc, !.pc = "error"]) /\ Refused
  /\ UNCHANGED <<log, effects, unmoved>>

\* The collection is recorded before the run settles.
KeepCollection(t) ==
  tasks[t].pc = "keep" /\ WriteEnd(t, [Doc(t) EXCEPT !.collection = TRUE], "settle")
Settle(t) ==
  tasks[t].pc = "settle" /\ WriteEnd(t, [Doc(t) EXCEPT !.state = tasks[t].verdict], "leave")

\* execute_run: a run that could not finish fails with what it left open.
FailRun(t) ==
  LET doc == [Doc(t) EXCEPT !.state = "Failed",
                !.items = [i \in Items |-> IF @[i] \in Active THEN "Failed" ELSE @[i]]] IN
  /\ tasks[t].pc = "error"
  /\ IF Doc(t).state \in Active
       THEN Task(t, [tasks[t] EXCEPT !.doc = doc, !.pc = "leave"]) /\ (Written(doc) \/ Refused)
       ELSE SetTask(t, "leave") /\ UNCHANGED <<disk, replayable, faults, crashes>>
  /\ UNCHANGED <<log, effects, unmoved>>

\* The entry is removed, then the waiters are notified.
Leave(t) ==
  /\ tasks[t].pc = "leave" /\ Ends(t, "over", Doc(t).state) /\ active' = 0 /\ NotifyWaiters(t)
  /\ UNCHANGED <<files, closing, guard, pc, op, mine, read, replayable, faults, crashes>>

-----------------------------------------------------------------------------
(* Shutdown and crash *)

\* The flag first, then the registry is drained.
ShutdownFlag ==
  /\ closing = "no" /\ closing' = "flagged"
  /\ UNCHANGED <<files, active, guard, tasks, calls, replayable, faults, crashes>>
ShutdownDrain ==
  /\ closing = "flagged" /\ closing' = "drained" /\ active' = 0
  /\ IF active = 0 THEN UNCHANGED <<tasks, woken>>
     ELSE Aborts(active) /\ NotifyWaiters(active)
  /\ UNCHANGED <<files, guard, pc, op, mine, read, replayable, faults, crashes>>

\* The process ends, after a shutdown or not; the files survive.
Crash ==
  /\ crashes < MaxCrashes /\ crashes' = crashes + 1
  /\ closing' = "no" /\ active' = 0 /\ guard' = NoCall /\ tasks' = <<>>
  /\ pc' = [c \in Calls |-> "idle"] /\ op' = [c \in Calls |-> "none"]
  /\ mine' = [c \in Calls |-> 0] /\ read' = [c \in Calls |-> NoDoc] /\ woken' = {}
  /\ UNCHANGED <<files, replayable, faults>>

CallStep(c) ==
  \/ CallRun(c) \/ CallGet(c) \/ CallResume(c) \/ CallCancel(c)
  \/ Look(c) \/ TakeGuard(c) \/ Load(c) \/ Normalize(c) \/ Reload(c)
  \/ Claim(c) \/ ClaimRefused(c) \/ Insert(c) \/ WriteClaim(c) \/ WriteClaimFails(c)
  \/ Find(c) \/ SettledBefore(c) \/ Cancel(c) \/ CancelReturns(c)
ItemStep(t, i) ==
  \/ BeginItem(t, i) \/ Step(t, i) \/ StepUnavailable(t, i)
  \/ RecordStart(t, i) \/ CallProvider(t, i) \/ RecordFinish(t, i) \/ RecordFailure(t, i)
  \/ ItemFails(t, i) \/ Output(t, i) \/ ItemPanics(t, i)
TaskStep(t) ==
  \/ ExecuteInner(t) \/ \E i \in Items : ItemStep(t, i)
  \/ Derive(t) \/ CreateStart(t) \/ CreateCollection(t) \/ CreateFails(t) \/ CreateFinish(t)
  \/ KeepCollection(t) \/ Settle(t) \/ FailRun(t) \/ Leave(t)
Next ==
  \/ \E c \in Calls : CallStep(c)
  \/ \E t \in DOMAIN tasks : TaskStep(t)
  \/ ShutdownFlag \/ ShutdownDrain \/ Crash
Spec == Init /\ [][Next]_vars

-----------------------------------------------------------------------------
(* Properties *)

\* A task that has started, until it leaves.
Underway(t) == tasks[t].pc \notin Over \cup {"gated"}

\* After shutdown nothing executes and nothing is registered: a claim in
\* flight during the shutdown is drained or aborts itself.
ShutdownReaches ==
  closing = "drained" => active = 0 /\ \A t \in DOMAIN tasks : ~Underway(t)

\* While a task executes an unsettled run it is the only one that does, the
\* registered one, and the file says running: no reader's normalization lands
\* on a claimed run, and a crash leaves something that can be resumed.
ClaimDurable ==
  \A t \in DOMAIN tasks : Underway(t) =>
    /\ active = t /\ \A u \in DOMAIN tasks : Underway(u) => u = t
    /\ Doc(t).state \in Active => disk # NoDoc /\ disk.state = "Running"

\* An operation with effects outside, interrupted and not repeatable, is
\* carried out once over all attempts, crashes and resumes of the run.
ExternalOnce == \A i \in Items \ replayable : effects[i] <= 1

\* What a record says succeeded is not carried out again.
SuccessKept ==
  [][\A k \in Keys : log[k] = "Succeeded" => log'[k] = "Succeeded" /\ effects'[k] = effects[k]]_vars

\* A cancel waits for a task that has ended only until its turn: the end
\* between the first look and the wait is not missed.
CancelWoken ==
  \A c \in Calls : pc[c] = "wait" /\ tasks[mine[c]].pc = "over" => c \in woken

=============================================================================
