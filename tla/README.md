# A specification of Reimagine in TLA+

Reimagine is a desktop application that runs image-generation workflows: graphs
of nodes that a planner turns into stages, a runtime executes, and worker
processes and mods do the work for. This directory holds TLA+ modules
that model its core, TLC configurations that check them on small instances, and
proofs, checked by TLAPS, of the most important results for every instance.
Paths below are relative to `src/crates/`.

## The system

| component | state it keeps | operations | hard behaviour | correct when | here |
|---|---|---|---|---|---|
| **runtime, stage-based run** (`runtime/src/runner/*`, `scheduler.rs`, `stage_runner.rs`, `value_store.rs`) | node outcomes, values, fail-fast policy, memory budget, cancellation tokens, deadlines, a `JoinSet` per stage | `run`, groups of stages, admission, results, deadlines, `cancel`, `cancel_node` | parallel stages over one session and policy; results racing deadlines, failures and cancellations; panics; a shared budget | nodes start on complete inputs, end once, outcomes are final, claims are returned, the run ends and its verdict agrees with its nodes | `RunExecution` |
| **runtime, ready set** (`scheduler/ready_set.rs`, `runner/orchestrator.rs`) | dispatched, completed and failed nodes, satisfied outputs | `take_ready`, `mark_*`, `is_complete` | stalls, nodes counted in neither set | nothing is dispatched twice or early; what is left behind is downstream of what did not complete | `ReadySetRun` |
| **core, readiness planner** (`core/src/readiness/planner.rs`) | none (pure) | tracing, cycle test, leveling | indegree arithmetic | cyclic plans are rejected; each node comes once, after its inputs | `Planner` |
| **core, cancellation tokens** (`core/src/task/cancellation.rs`) | a flag, a `Notify`, weak children | `cancel`, `child`, `any`, `cancelled` | deriving while cancelling, lost wakeups, dropped parents | cancellation goes down, never up, and wakes every waiter | `CancelToken` |
| **core, document sessions** (`core/src/document/*`) | a versioned document, a history with a cursor | apply, undo, redo, restore | a failed save rolls back over what others did | undo and redo move along one line of contents | `DocumentSession` |
| **app-host, boards and projects** (`board_service.rs`, `project_service.rs`, `document_store.rs`) | registries of projects and sessions; directories and files | create, rename, delete, open, edit, undo, redo, save | opens and creates at the same time, deletion under an open session, refused writes | session and file agree when nobody is between them | `Boards` |
| **app-host, workflows** (`workflow_service.rs`) | sessions, a pending proposal, a file per workflow | apply, approve, save, load, run, delete | the session is given up before the save | the file moves on | `Workflows` |
| **mod-sdk, mod processes** (`process.rs`, `registry.rs`) | pending requests, exit flag, child process, the registry's locks | start, invoke, cancel, stop | exit racing a request; answers racing cancellation; stops dropped half-way; full queues | every call can be answered; no process outlives its stop | `ModProcess` |
| **app-host, previews** (`operation_service.rs`) | generations, active previews, key locks, a shared directory | preview, cancel_preview | previews replacing previews of the same key under three locks | the newest preview owns the directory | `Previews` |
| **app-host, dynamic workflows** (`dynamic_workflow_service*`) | active runs, run documents and step records on disk | run, get_run, cancel, resume, shutdown | claim, normalisation and shutdown racing; crashes between an effect and its record | one task per run, nothing that succeeded or must not be repeated is done again | `DynamicRuns` |
| **aigc, worker switching** (`inference/switch.rs`) with **leases** (`backend-worker-host/src/leases.rs`, `adapter.rs`) and the re-bootstrap (`app-host/src/workspace.rs`) | active worker, admission, leases, process state | drain_and_switch, cancel_and_switch, begin_run, cleanup_run, drain_active_worker | two drains of one worker, deadlines, failing cancellations | workers stop idle; a drain that fails reopens its worker | `WorkerSwitch` |
| **backend-worker-host, supervisor** (`supervisor.rs`, `transport.rs`) | process state, generation, clients, requests with their drivers | start, shutdown, request, cancel, drops | stores for an old generation; crashes and aborts racing results | one worker serves, the state is true of it, a crash ends its requests | `Supervisor` |
| **backend-worker-host, installation** (`install*`, `inventory/store.rs`) | journal, staging, target, backup, records, an index | install, remove, list, recover | crashes and refused operations between renames; a listing that rebuilds the index | nothing unchecked is installed, records are published over trees and stay indexed, start-up recovers | `Install` |
| runtime, service and run store (`runner/service.rs`, `store.rs`, `snapshot.rs`) | active runs, summaries, snapshots, watches, delta senders | start, `put_snapshot`, `finalize`, `delta_stream` | a subscription racing a snapshot; events before stored state | a delta stream replays to the snapshot | order of the end of a run only |
| core, event bus; model acquisition; config | a channel; staged trees; one file | publish; promote; load, save | lag; crashes | – | – |
| backend-worker-protocol, inference executors, burn backends, nodes, UI, desktop shell | wire formats, tensors, catalogs, windows | – | I/O and numerics | – | – |

How they interact: the app host starts runs through `RuntimeService`; a run's
`Runner` calls node executors, which call the worker they were composed with
through aigc's switchable backend and lease it for the run; every call carries a
`CancelToken`; operations of nodes, boards and dynamic workflows go to built-in
providers, to workers or to mods; documents are edited in sessions and saved
under the project's directory; state changes leave through the `EventBus` and
the `RunStore`.

## The modules

| module | models | what its state and actions are in the code |
|---|---|---|
| `StagePlan` | `build_stage_groups` | pure: transitive stage dependencies, where each group starts |
| `Planner` | `trace_execution_subgraph`, `build_stages`, `has_cycle` | pure |
| `DataflowRun` | the contract of a run | `outcome`, `verdict`; nodes start on complete inputs and end; the run is concluded or cancelled |
| `RunExecution` | one run, stage-based | below |
| `ReadySetRun` | planner, then the ready-set runner | `BuildPlan`; `Dispatch` is `take_ready`; nodes of a batch end one by one; `EndBatch` is `mark_ready_set_progress` and `drop_completed_stage_scoped` |
| `CancelToken` | the token | one step per atomic access: the swap, the notification, the drain of the children, each registration, the second look; registering, looking and awaiting of a future |
| `DocumentSession` | session and history | pure: `Applied`, `Undone`, `Redone`, `Restored` on a record of document, entries, cursor |
| `Boards` | a project and its board | a call is a process: it looks in the registry, reads the file, registers a session unless another call did, locks it, changes it and saves it under that lock; creation, rename and deletion of the project go on around it |
| `Workflows` | one workflow | the same sessions, locked for each look only; proposals; the editor's own saves; runs that register the editor's document |
| `Previews` | previews under one key | one step for each lock taken: generation, newest, active, directory, clean-up |
| `DynamicRuns` | one batch run | calls under the run's transition guard; each spawned task with its own copy of the document, its items and the step records; shutdown; a crash |
| `WorkerSwitch` | workers and who drains them | runs lease, end and clean up; a switch starts, drains (or cancels), waits, commits, stops; a re-bootstrap drains without the switch's lock |
| `Supervisor` | one supervisor's workers | a start is exchange, generation, connection, commit; `Look` and `Store` are the two accesses of `store_state_if_current`, run for whoever called it; a request has a driver task, a handle that waits, cancellers; processes die |
| `ModProcess` | one mod | the child with its pipe and output; writer and reader tasks; the boot; calls; stops |
| `Install` | packages of workers | per package three directories, journal and record; the index; one locked section per call with one step per file operation; start-up recovery |
| `…Proofs` | theorems about `RunExecution`, `Install`, `WorkerSwitch`, `ModProcess`, `Supervisor`, `DynamicRuns`, `Boards`, and in `RuntimeProofs` `CancelToken`, `ReadySetRun` and `Planner` | |
| `MC…` | – | the instances TLC explores where a configuration alone cannot say them |

`RunExecution` is the centre. Each stage of a group is a process with a program
counter. `admit` is the guard of the inner loop of `run_stage_nodes`, `decide`
the policy's decision, `prepare` the test for cancellation and the binding of inputs,
`budget` and `claim` the two calls on the memory budget, `wait` the select,
`reduce` the reduction of a joined result, `drain` what follows the loop, `drop`
the release of stage-scoped values. They are separate steps because the code
takes and gives up the session, policy and budget between them, so another
stage, a deadline or the host may act there. `held` is a result that was joined and
whose `was_failing` was read, before the session is locked. The
runner task has its own counter: `groups`, `stages`, `cancel`, and then the
order in which a run leaves its trace: verdict (the event), summary, snapshot,
deregistration, clearing of the values.

What is abstracted. In a run a node has one output slot, its value is its presence in
the store; memory estimates are one unit a node; a deadline may pass at any time after it was
armed, the earliest armed node's first. Executors are the environment: `Answers`
says how a node may end of its own accord (complete, fail, cancel, panic), and
any executor may also end because its token fired, or stay silent.
`ReadySetRun` runs a batch through the same ends that `RunExecution` gives a node, in
one step each, because the same `run_stage` executes it; in exchange the graph
ranges over all small graphs.

A document is its version, the number of the edit that made its content, and the
life of the board it stems from. The tree of a package is `none`, `raw`
(extracted, not checked), `checked`, or `torn` (a removal that stopped
half-way). A rename and the replacement of one file (`config::atomic_write`)
are one step; removing a directory is not. Any file operation may be refused. Most refusals end the
call (`FileFails`, `RebuildFails`, `RenameFails`); those that the code ignores (`let _ = remove_…`)
leave the file and the call goes on: a staging directory or a backup not
deleted, a tree not removed, a journal kept (`KeepJournal`), a record kept (`RemoveRecord`). Three
history variables remember what that leaves: `kept` and `outlived` (journals whose deletion was refused, and
those that were there when their package was removed) and `lost` (records outside the index). Writers of one
file share its temporary name; that `list`, which takes no lock, and a writer of the index
could meet in `index.tmp` is not modelled. The lines on a mod's pipe are the
identities of the requests they carry. In `WorkerSwitch` a worker's start, its stop and the
cleanup call it is sent are one step each and may fail; a re-bootstrap whose stop of the drained
worker fails (`StopActiveFails`: it is dead, the call fails, or its own timeout passes) keeps the
workspace it has. Timeouts may pass at any time.
Wording, events, progress, artifacts, diagnostics and logging are left out.

## What the runs check

| run | instance | states | shows |
|---|---|---|---|
| `run_execution` | 5 nodes, 3 stages (two independent, one join), 2 stages and 2 nodes at a time, soft limit 1, hard 2, deadlines on; one node may fail, one cancel itself, one panic; SingleUse with one and with two readers; one stage-scoped value | 225,708 | the contract (`ImplementsDataflowRun`), dataflow order, one terminal event, final outcomes, values kept as long as they are read, claims returned, every run ends |
| `run_sequential` | 4 nodes, 2 stages, one stage at a time, 3 nodes at a time, soft and hard limit 2, no deadlines, an executor that never ends by itself | 7,004 | the hard ceiling holds without parallel stages; a cancelled or failing run and a cancelled node end |
| `ready_set` | all forward graphs over 4 nodes, each with and without one back edge, 1 or 2 targets, values of two nodes stage-scoped | 176,254 | the planner against reachability, the plan against what the targets need, nothing dispatched early, nothing left behind without cause, every run ends |
| `cancel_token` | 3 tokens, 2 threads, 1 waiter | 550,036 | propagation, never upward, no lost wakeup |
| `install` | 2 packages; one call that installs and removes, one that lists; one crash, two refused operations | 1.3 million | nothing unchecked is installed or kept as a backup; records are published over checked trees and stay indexed; start-up gets through, whatever was left behind |
| `boards` | 2 calls; versions up to 3, 2 sessions, 4 lives, 1 refused write | 2.2 million | session and file agree, the file moves on, undo histories tell one story |
| `workflows` | 2 calls; 3 edits, versions up to 2, 2 sessions, 1 refused write | – | an older version is written last (violation) |
| `worker_switch` | 2 workers, 2 runs, a switch and a re-bootstrap | 92,252 | workers stop idle, the admission comes back, leases follow their runs, every call ends |
| `supervisor` | 3 starts, 1 request | 896,820 | one worker serves, the state is true of the current generation, a crash ends the request without a timeout |
| `mod_process` | 1 call, 2 stops, a queue and a pipe of one line | 45,434 | no orphaned process, every waiting call can be told and is told when the mod is gone, stops end |
| `previews` | 2 previews | – | a failed older preview removes the newer one's directory (violation) |
| `dynamic_runs` | 1 item, 2 calls, 2 tasks over the life of the process, 1 refused write or panic, 1 crash | 2.5 million | shutdown reaches every task, one task per run and a document that says so, no effect repeated, no cancel waits for a task that has ended |

Why the bounds are enough. In a run, the interesting interactions are between two
stages of a group (more of them only repeat the pairwise races on the session,
policy and budget), between two nodes of a stage, and with a stage after them
that reads from both; each hazard (SingleUse with one and two
readers, scoped value, failure, panic) has a node of its own. Three tokens
make a parent, a child and a grandchild, or a token derived from two; two
threads make every race of two calls. Four nodes hold the diamond,
the fork, the join and a chain.

The install lock lets one writer in, so writers meet only through what
they leave behind: one that goes through several packages and a crash shows it; a
second call is needed for listing, which takes no lock. Two packages
tell the index's entries apart; two refusals let an operation
and the clean-up after it fail, or keep a journal twice. Two calls on a board race in every pair of
operations; two sessions are the registered one and one a deletion or another
open left over; three versions are an edit, its undo and its redo. `life` counts the
begun, forgotten and deleted boards: four allow a creation, a deletion and
another creation, with both steps of the deletion. Two workers are all a switch
speaks of; a lease needs one run, and a second one can come after the drain began. In the supervisor, starts are numbered
in the order of their exchanges; one that is stopped, one that
follows it and one that a late store for the first lets in are three; requests meet only in
the client, which one of them and a shutdown already share. One
line of queue and of pipe makes both full at once, and the second stop meets what the
first left when it was dropped. In a dynamic run items are independent but for
their permits; two tasks are an interrupted attempt and its resumption, and after
a crash the count starts again, so three attempts are possible.

`CHECK_DEADLOCK FALSE` is said by all configurations but `dynamic_runs`: a run
stops when it is done, a mod when it is stopped, a preview when it has returned,
and the bounds on versions, edits and crashes stop the others. In `dynamic_runs` somebody
can always ask for the run, so a deadlock would be one of the guard.

Two runs expect a violation. Each quotes a sentence of the code that the code
does not keep; `PROJECT.json` lists them under `findings`.

Some properties name an exception, and it is always a state the code does
reach. `readmitted` in `StoppedIdle` and `LeaseFollowsRun` is a
worker that the first of two drains to give up opened under the second. `lost` in
`RecordsIndexed` is a record written while `list` rebuilt the index from an
older reading, or one that a removal could not delete and left out of the index
(`backend-worker-host/src/inventory/store.rs:132`). `Stuck` in `CrashResolved` is a promotion that recovery repeated
although its renames were done. The `torn` tree of `PublishedTree` is a removal's leftover at
which a later promotion was cut short. `outlived` in `PublishedTree` and `NeverUnchecked` is a journal that
was there when its package was removed, because its deletion had been refused or a failed publication left it:
`remove` reads no journals. A complete one lets the next recovery publish the record again over
no tree (`backend-worker-host/src/install.rs:190`). With a promoting one, recovery finds neither
target nor staging and gives up, but if its deletion is refused again (`:194`), the same install makes a new
staging directory; after a crash before the check the next recovery takes that
directory for the journal's and promotes it. `unstopped` in `AdmissionRestored` is a worker that a
re-bootstrap drained and failed to stop (`aigc/src/inference/switch.rs:516`): `drain_active_worker` returns the error
without `restore_ready` (`app-host/src/workspace.rs:816`), `rebuild_workspace` keeps the current workspace, and
its active worker admits no more runs until a later drain gives up or a switch replaces it. `ahead` in `BoardSaved` is a session whose save
failed: the code does not roll boards back. `QueueFull` in `StopEnds` is the send that no
timeout covers. `overtaken` in `OneServing` and `StateHonest` is a state stored for one
generation after a later start had begun, the look having come before: there two
workers do serve under one supervisor (a shutdown that looked at its generation, a failed request, a start and its
commit, the shutdown's store of `Stopped`, another start). Each is as narrow as TLC lets it be: without it the property
is violated.

### Disagreements seen that no run shows

- Two stages of a group may be admitted against the usage before each other's claim
  and pass the hard ceiling together (`runtime/src/runner/stage_reducer.rs:254`; `:263` says that it
  still protects the run). `HardCeiling` is therefore checked in `run_sequential` only; with
  the instance of `run_execution` and a soft limit of 2 TLC finds it violated.
- A node whose executor panicked stays `Running` and its stage returns
  (`runtime/src/runner/stage_reducer.rs:390`; `:78` says every node is run to a terminal state).
- A token derived from a dropped token does not hear of its grandparent
  (`core/src/task/cancellation.rs:57`; `:46` says any token it derives from).
- With the ready set, nodes downstream of a timed-out one are left without an outcome and the
  run is `Completed` (`runtime/src/runner/orchestrator.rs:557`; `service.rs:82` says
  they fail the run).
- No caller outside the tests swaps the router after a switch
  (`aigc/src/inference/switch.rs:435`, whose comment relies on it): executors keep
  reaching the worker composed at start-up.
- Dynamic runs: a re-bootstrap with a live task lets a second one be claimed
  (`app-host/src/workspace.rs:827`); an item that had succeeded is marked cancelled when a
  resumed run is cancelled (`execute.rs:437`); a crash between the creation of the
  collection and its record makes a second collection; a panicked
  item stays `Running` in a `Failed` run; a refused last write leaves a running document that is
  later reported as interrupted.
- A preview that entered late cancels the newer one that entered before it.

### Fairness

- `RunExecution!FairSpec`: the runner task, each stage's task and its timers make progress
  (`WF`), because tokio polls every ready task and fires every timer. Nothing
  is assumed of executors or of the host. With deadlines this is enough
  for `RunEnds`: an executor that never answers is expired, then aborted after the
  grace period. `default_node_timeout` is five minutes unless an option disables it.
- `CooperativeSpec` (only `run_sequential`, where no deadline helps): an
  executor whose token stays cancelled eventually returns `Cancelled`. That is the
  contract node executors are written to: they receive the token for it.
- `ReadySetRun!ReadySpec`: the run itself proceeds, which `RunEnds` of `RunExecution`
  justifies for each batch.
- `CancelToken!FairSpec`: calls that were made are executed; nobody has to make one.
- `Install!Spec`: the steps of an install or a removal that was asked for, and of start-up (nothing
  is assumed of listings), and that the user starts the
  application again after a crash or a failed start. Refused operations are bounded, so a
  retry meets a disk that works in the end.
- `WorkerSwitch!Spec`: the steps of each switch and re-bootstrap, their deadlines
  included. Nothing is assumed of runs: they may hold a lease for ever.
- `Supervisor!Spec`: a call that stores a state goes on, drivers and handles are polled, and
  a call or stream to a process that is gone fails. No request timeout is counted on.
- `ModProcess!Spec`: the writer and reader tasks and those of calls and stops are polled, the
  timers of a stop fire, and a killed process ends. Nothing is assumed of a child
  that was not killed.

`Boards`, `Workflows`, `Previews` and `DynamicRuns` are checked for safety only and
have no fairness.

## What is proved

`RunExecutionProofs` (for every plan, concurrency, budget and executor behaviour, from
`PlanAssumption` and `OptionsAssumption`, which say that nodes and stages are finitely many, that
the stages partition the nodes, that edges and scopes are about them, and that options
are in range): `TypeCorrect`, `NodesStartOnCompleteInputs` (`Spec => []DataflowOrder`),
`NodesEndOnce` (`Spec => []OneTerminalEvent`), `OutcomesAreFinal` (`Spec => OutcomeFinal`), `InputsStay`
(`Spec => []InputsRetained`), `BudgetIsReturned` (`Spec => []BudgetReturned`), `HardLimitHolds` and
`RunnerKeepsContract`, the refinement of `DataflowRun`.
None of them is inductive. That a node's result finds the node `Running` needs to
know where the stages are. `IInv` adds that: a stage that works on a node has one
(`Cursor`), only the stages of the current group have a task (`Scheduled`), a node
no stage has reached has no outcome (`Upcoming`), nodes in flight were started and
those armed or held still run (`Unstarted`, `HeldIsReduced`, `Ongoing`), values in the
store are outputs of completed nodes (`Stored`), and so a node past its bindings
has complete inputs (`Prepared`). `NodeStep` then says that a step does one of three
things to the nodes: nothing, start one on complete inputs, or end some that had not
ended, each with one event; the first four theorems follow from that. `StepKinds`
sums a step up by what it does to its stage's accounts, and `JInv` says what is in them: which
consumers of a value are left, what each claim on the budget stands for, and whose
fault a failed stage or run is. The budget's sums are cardinalities of finite sets of claims, so
that part cites the library's theorems about them. `HardLimitHolds` assumes `MaxGroup = 1`, one
stage at a time, as the sequential options of the runner set it: stages in parallel ask and claim
in two steps and can exceed the limit together, which the budget's callers accept.

In the refinement a step maps to the start of a node, the end of some, the verdict or a
cancellation of the abstract run, and all others stutter.

`RuntimeProofs` has three parts. On `CancelToken` (for any sets of tokens, threads and waiters, from
`NoTokenAssumption`): `TypeCorrect`, `CancellationPropagates` and
`CancellationIsCaused`. `Propagated` speaks of quiet states only, so its inductive form
(`Carried`) says who is still responsible otherwise: for a cancelled parent and a living child that
is not cancelled, some thread has the child to cancel, or will drain the parent in
whose list the child is, or is still deriving the child and will look again. `Known` and
`KnownSoFar` say that the child is in the list when the drain comes; `FromAbove` is
the same argument in the other direction, for `NeverUpward`.

On `ReadySetRun` (for every finite graph and every choice of targets, from `GraphAssumption`):
`ReadyOnComplete` (`DispatchedOnComplete`) and `NothingForgotten` (`LeftBehind`). `Reduced` says
that what was not dispatched, or is in the batch, has no outcome yet and that the rest of what was
dispatched has ended; `Marked` that the scheduler's sets are what the nodes' outcomes say, and
complete between batches. `AllMarked` is the counting argument behind `is_complete`: two disjoint
sets of nodes as large together as the plan are the plan. What tracing a graph computes is not
needed for these two.

`PlansAreSound` (`PlanSound`) is about what the planner's recursive functions compute, for every such graph:
the plan is the least set of nodes with the targets and all its nodes consume
(`PlanNeeded`); it is rejected exactly when one of them consumes itself, and otherwise its stages are a
leveling in which each is a group of its own (`PlanLeveled`, which `PlanBuilt` carries). All of it is about graphs. The
library's induction and recursion theorems have operators
for parameters, which the provers cannot instantiate, so `LeastNat` (a set of naturals has a least
element) takes the place of induction: a proof looks at the least number that would fail. `Iterated` gives
the functions the recursions define. Sets that grow once for each element have them all
(`GrowthEnds`), so the trace is closed under inputs (`TracedIs`) and the waves settle (`WavesSettle`); the
stages are those up to the last that adds a node (`StagesAre`). In an accepted plan
each node has a level, edges lead to higher levels, and each stage consumes from the one before
(`AcceptedLevels`): hence no path returns (`AcceptedAcyclic`) and no two stages share a group (`GroupsAlone`).
In a rejected one every node left consumes another node left; a walk through more of
them than there are visits one twice (`RejectedCyclic`).

`InstallProofs` (for any packages and calls and any number of crashes and refusals, from the
three assumptions of `Install`): `TypeCorrect`, `UncheckedNever`, `Exclusion` (the
locked sections of two calls never overlap), `PublishedOverTree` and `RecordsAreIndexed`. The
inductive invariant has four parts, each kept by a lemma of its own. `Control`: who holds the lock, and
which call is starting the service. `Files`: a journal past the self-check
stands for a checked tree, unless it is `Stale`, kept and outlived (`JournalChecked`); a complete
one has its record and a promoting one a tree, or the package was removed since (`JournalOutlived`); and an unchecked
tree without a record is where a stale journal put it (`RawPending`). `Points`: what journal and trees say at each
program point (`InstallPoint`, `PromotePoint`, `PublishPoint`, `RemovePoint`), and that recovery still has every
pending journal before it but for those it settled and could not delete (`RecoversAll`, `Settled`): without it
a later install could meet a verified journal of somebody else's tree. `TargetSteps` says that
only the rename of a staging directory can put an unchecked tree in place. `Indexing`: a record is in the
index or excused (`Excused`: left out by a concurrent rebuild or a refused removal, under a pending journal, or its
tree gone), what a call is about to write to the index lists it or it is excused
(`SeenListed`), and a journal is dropped only where it is no longer needed as an excuse (`EndListed`).

`WorkerSwitchProofs` (for any workers, runs, switches and re-bootstraps): `TypeCorrect`,
`DrainsRestore`, `LeasesEnd` and `WorkersStopIdle`. That a worker is idle when it is stopped
is decided several steps before, at the count of its leases; `Drained` carries it
along: the worker a call found empty is closed, or was opened again behind the call. `Fresh`
says that a switch commits a worker that was never active and drains the active one, `OnlyRouted`
that only the worker executors are routed to owns runs, `Draws` names the call that keeps the
active worker closed.

`ModProcessProofs` (for any calls and stops, any queue and pipe): `TypeCorrect`, `OrphanNever`
and `ListedAlways`. Stops may be dropped at each of their awaits, so what a stop leaves
is part of the argument: the child is in the hands of a stop exactly while that stop asks,
waits and reaps (`Owner`, `Behind`), and a child that nobody owns was killed or has
exited (`Gone`).

`SupervisorProofs` (for any number of starts and requests, from `ActorsAssumption`):
`SupervisorTypes`, `OneServes` and `StateIsHonest`. A start that is under way keeps the state at
`Starting` until its own store, so no other start gets in (`StartAlone`); a worker that
serves keeps it at `Ready` until its client is marked dead, which comes before anybody begins to
store its end (`ServesAlone`, `StoresHonest`). `ReadyTrue` and `StartingTrue` are the two halves of
`StateHonest` in inductive form. The one exception, a store that lands after a later start
drew its generation, is in the properties themselves (`overtaken`).

`DynamicRunsProofs` (for any number of items, calls, tasks, faults and crashes, from the assumptions of
`DynamicRuns`): `DynamicRunsTypes`, `ShutdownHolds`, `ClaimHolds`, `OnceOnly`,
`CancelNotMissed` and the action property `SuccessStays`. Two facts carry them. The transition
guard makes the window of a claim one call's (`Held`, and `InHand` on what that call has in
its hands), and only the registered task is under way (`Registered`); so nobody
writes the file of a run that executes (`OnDisk`), and what a task read from the step log
is the log until it writes to it itself (`LogKnown`). `Recorded` is why nothing happens twice: an
effect leaves a record, and a task that finds a record does not act. Each action is summed up once by
what it does to tasks, file and log (`CallEffects`, `Works`, `ItemGoes`, `RunGoes`,
`Stops`), and each part of the invariant is kept by these kinds of steps.

`BoardsProofs` (for any number of calls, sessions, deletions and failures, from the assumptions of `Boards`):
`BoardsTypes`, `BoardsAreSaved`, `HistoriesStay` and the action property `FileOnlyMovesOn`. It rests on lemmas about
`DocumentSession`: opening, editing, undo and redo keep a history consistent, and the last three
advance the version (`Advances`). The invariant is about the current life of the board: no document is of a
life to come (`Begun`), at most the registered session has a document of this one (`Alone`), and only
the call that holds a session's lock is about to save it (`Locked`). So the file has what that session
had before its pending change, or something older if a save failed (`OnFile`), and what a second
call read to open the same board is still the file's content while no session is registered
(`ReadCurrent`). Each action is one of six kinds of steps (`Stays`, `Ends`, `Opens`,
`Moves`, `Written`, `Refused`), and each kind keeps the invariant.

Only model-checked: the two behaviours of `Workflows` and `Previews` that disagree with what the source
says of them, and liveness. Liveness (`RunEnds`,
`StoppedRunEnds`, `NodeCancelEnds`, `NoLostWakeup`, `CrashResolved`, `CallsEnd`, `CrashEnds`, `GoneReturns`, `StopEnds`)
stays with TLC: the prover has no support for fairness and `ENABLED`.

## What is not modelled, and the plan

Not modelled yet, in this order of interest:

1. `RunStore` (`runtime/src/store.rs`): registration, watches, baseline and deltas, against
   an abstract subscription that replays to the snapshot.
2. The generations of `Supervisor` under the starts and stops of `WorkerSwitch`, each a
   step there.
3. Dynamic runs over a collection, several steps per item, and the run index.
4. Assets and the activity log of operations; collections, which follow the board's
   discipline.
5. The planner's target resolution and diagnostics.

Every invariant and action property the passing runs check is stated by a theorem. To
prove next: the refinement of an abstract, replaying subscription by `RunStore` once that is modelled.

Not planned: the event bus (a channel of its library), the two renames of model
acquisition (nothing recovers them), the configuration file, tensor numerics and weight
loading of the burn backends, wire conversions of the worker protocol, TUF signatures,
the node catalog, the UI and the Tauri shell: they are pure I/O, data or arithmetic, and
they make up most of the repository's lines.
