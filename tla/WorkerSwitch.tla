---------------------------- MODULE WorkerSwitch -----------------------------
(***************************************************************************)
(* Replacing the process that computes while runs are in flight            *)
(* (aigc/src/inference/switch.rs, backend-worker-host/src/leases.rs and    *)
(* adapter.rs, app-host/src/workspace.rs).                                 *)
(*                                                                         *)
(* A run leases the worker its first inference call reaches and releases   *)
(* it in its cleanup.  A switch starts the new worker, closes the          *)
(* admission of the active one, waits for the last lease and swaps them.   *)
(* Switches exclude each other by a transaction lock; a re-bootstrap of    *)
(* the workspace drains the active worker too, without taking that lock.   *)
(*                                                                         *)
(* Executors reach a worker through the router composed at start-up, which *)
(* no switch replaces; cleanup goes to the worker that is active.          *)
(***************************************************************************)
EXTENDS Naturals, FiniteSets

CONSTANTS Workers, Initial, Runs, Switches, Rebuilds, NoWorker

Calls == Switches \cup Rebuilds

ASSUME WorkersAssumption == Initial \in Workers /\ NoWorker \notin Workers
ASSUME CallsAssumption == Switches \cap Rebuilds = {}

VARIABLES
  proc,        \* WorkerProcessState of each worker that was started
  draining,    \* workers whose WorkerAdmissionState is Draining
  owned,       \* owned_runs of each worker's leases
  active,      \* WorkerSwitchState::active
  closed,      \* the workspace was replaced by a re-bootstrap
  readmitted,  \* history: workers opened again behind the back of a switch
  unstopped,   \* history: workers a re-bootstrap drained and failed to stop
  pc,          \* where each switch and re-bootstrap is
  target,      \* the worker it started, or is about to stop
  previous,    \* the worker it drains
  todo,        \* runs it still has to cancel
  run,         \* where each run is
  at           \* the worker whose cleanup a run awaits

workers == <<proc, draining, owned, active, closed, readmitted, unstopped>>
calls == <<pc, target, previous, todo>>
runs == <<run, at>>
vars == <<workers, calls, runs>>

\* Where a call has closed an admission and not yet decided.
Draining == {"list", "cancelRuns", "wait", "giveUp", "retire", "shutdown"}
\* Where it is about to stop the worker it drained.
Stopping == {"stopPrevious", "stopActive"}
RunStates == {"new", "running", "cancelled", "rejected", "ended", "releasing", "done"}

Init ==
  /\ proc = [w \in Workers |-> IF w = Initial THEN "Ready" ELSE "absent"]
  /\ draining = {} /\ owned = [w \in Workers |-> {}]
  /\ active = Initial /\ closed = FALSE /\ readmitted = {} /\ unstopped = {}
  /\ pc = [c \in Calls |-> "idle"]
  /\ target = [c \in Calls |-> NoWorker] /\ previous = [c \in Calls |-> NoWorker]
  /\ todo = [c \in Calls |-> {}]
  /\ run = [r \in Runs |-> "new"] /\ at = [r \in Runs |-> NoWorker]

\* The router executors hold sends every call to the worker of start-up.
Routed == Initial

Goto(c, label) == pc' = [pc EXCEPT ![c] = label]

-----------------------------------------------------------------------------
(* A run: RunOrchestrator::run and the executors' calls *)

RunTo(r, state) == run' = [run EXCEPT ![r] = state]

BeginRun(r) ==
  /\ run[r] = "new" /\ ~closed /\ RunTo(r, "running")
  /\ UNCHANGED <<workers, calls, at>>

\* ProcessInferenceBackend::invoke: the first call of a run takes its lease,
\* the next ones find it.
Invoke(r) ==
  /\ run[r] = "running" /\ r \notin owned[Routed] /\ Routed \notin draining
  /\ owned' = [owned EXCEPT ![Routed] = @ \cup {r}]
  /\ UNCHANGED <<proc, draining, active, closed, readmitted, unstopped, calls, runs>>

Reject(r) ==
  /\ run[r] = "running" /\ r \notin owned[Routed] /\ Routed \in draining
  /\ RunTo(r, "rejected")
  /\ UNCHANGED <<workers, calls, at>>

\* The terminal state is stored and the run leaves the active ones.
Finish(r) ==
  /\ run[r] \in {"running", "cancelled", "rejected"} /\ RunTo(r, "ended")
  /\ UNCHANGED <<workers, calls, at>>

\* SwitchingWorkerRuntimeHooks::cleanup_run takes the worker active now, which
\* is not called when it does not own the run.
CleanupRun(r) ==
  /\ run[r] = "ended"
  /\ at' = [at EXCEPT ![r] = active]
  /\ RunTo(r, IF r \in owned[active] THEN "releasing" ELSE "done")
  /\ UNCHANGED <<workers, calls>>

\* Whether the worker's cleanup call succeeded or not.
Release(r) ==
  /\ run[r] = "releasing"
  /\ owned' = [owned EXCEPT ![at[r]] = @ \ {r}] /\ RunTo(r, "done")
  /\ UNCHANGED <<proc, draining, active, closed, readmitted, unstopped, calls, at>>

-----------------------------------------------------------------------------
(* drain_and_switch, cancel_and_switch *)

\* StartedWorker::shutdown: the worker stops, or it was dead or lives on; a
\* switch ignores which.
Stop(w) ==
  \/ proc' = [proc EXCEPT ![w] = IF @ = "Ready" THEN "Stopped" ELSE @]
  \/ UNCHANGED proc

\* The call returns; a switch drops the transaction lock.
Return(c) ==
  /\ Goto(c, "idle")
  /\ target' = [target EXCEPT ![c] = NoWorker]
  /\ previous' = [previous EXCEPT ![c] = NoWorker]
  /\ todo' = [todo EXCEPT ![c] = {}]

Switch(c) ==
  /\ c \in Switches /\ \A d \in Switches : pc[d] = "idle"
  /\ Goto(c, "start")
  /\ UNCHANGED <<workers, target, previous, todo, runs>>

StartTarget(c, w) ==
  /\ pc[c] = "start" /\ proc[w] = "absent"
  /\ proc' = [proc EXCEPT ![w] = "Ready"]
  /\ target' = [target EXCEPT ![c] = w] /\ Goto(c, "check")
  /\ UNCHANGED <<draining, owned, active, closed, readmitted, unstopped, previous, todo, runs>>

StartFails(c) ==
  /\ pc[c] = "start" /\ Return(c)
  /\ UNCHANGED <<workers, runs>>

TargetNotReady(c) ==
  /\ pc[c] = "check" /\ proc[target[c]] # "Ready"
  /\ Goto(c, "stopTarget")
  /\ UNCHANGED <<workers, target, previous, todo, runs>>

BeginDrainingOpen(c) ==
  /\ pc[c] = "check" /\ proc[target[c]] = "Ready"
  /\ previous' = [previous EXCEPT ![c] = active]
  /\ \E next \in {"list", "wait"} : Goto(c, next)
  /\ UNCHANGED <<proc, draining, owned, active, closed, readmitted, unstopped, target, todo, runs>>
\* Either kind of switch; one of them cancels the runs it finds.
BeginDraining(c) ==
  /\ pc[c] = "check" /\ proc[target[c]] = "Ready"
  /\ previous' = [previous EXCEPT ![c] = active] /\ draining' = draining \cup {active}
  /\ \E next \in {"list", "wait"} : Goto(c, next)
  /\ UNCHANGED <<proc, owned, active, closed, readmitted, unstopped, target, todo, runs>>

OwnedRunIds(c) ==
  /\ pc[c] = "list"
  /\ todo' = [todo EXCEPT ![c] = owned[previous[c]]] /\ Goto(c, "cancelRuns")
  /\ UNCHANGED <<workers, target, previous, runs>>

\* RuntimeService::cancel knows the runs that have not ended.
Known(r) == run[r] \in {"running", "cancelled", "rejected"}

CancelRun(c, r) ==
  /\ pc[c] = "cancelRuns" /\ r \in todo[c]
  /\ \/ Known(r) /\ RunTo(r, "cancelled")
     \/ ~Known(r) /\ r \notin owned[previous[c]] /\ UNCHANGED run
  /\ todo' = [todo EXCEPT ![c] = @ \ {r}]
  /\ UNCHANGED <<workers, pc, target, previous, at>>

\* A run that has ended and not been cleaned up yet ends the switch.
CancelFails(c, r) ==
  /\ pc[c] = "cancelRuns" /\ r \in todo[c]
  /\ ~Known(r) /\ r \in owned[previous[c]]
  /\ Goto(c, "giveUp")
  /\ UNCHANGED <<workers, target, previous, todo, runs>>

Cancelled(c) ==
  /\ pc[c] = "cancelRuns" /\ todo[c] = {}
  /\ Goto(c, "wait")
  /\ UNCHANGED <<workers, target, previous, todo, runs>>

\* WorkerRunLeases::wait_until_empty; the count decides at the deadline too.
EmptyAnyhow(c) ==
  /\ pc[c] = "wait"
  /\ Goto(c, IF c \in Switches THEN "retire" ELSE "shutdown")
  /\ UNCHANGED <<workers, target, previous, todo, runs>>
Empty(c) ==
  /\ pc[c] = "wait" /\ owned[previous[c]] = {}
  /\ Goto(c, IF c \in Switches THEN "retire" ELSE "shutdown")
  /\ UNCHANGED <<workers, target, previous, todo, runs>>

DeadlineNever(c) == pc[c] = "none" /\ UNCHANGED vars
DeadlinePasses(c) ==
  /\ pc[c] = "wait" /\ owned[previous[c]] # {}
  /\ Goto(c, "giveUp")
  /\ UNCHANGED <<workers, target, previous, todo, runs>>

\* The worker opened again is not what some call still takes it for: another
\* call goes on draining it, or this one drained what is no longer active.
Behind(c) ==
  \/ previous[c] # active
  \/ \E d \in Calls \ {c} : pc[d] \in Draining \cup Stopping /\ previous[d] = previous[c]

KeepDraining(c) == UNCHANGED <<draining, readmitted, unstopped>>
RestoreReady(c) ==
  /\ draining' = draining \ {previous[c]} /\ unstopped' = unstopped \ {previous[c]}
  /\ readmitted' = IF Behind(c) THEN readmitted \cup {previous[c]} ELSE readmitted

GiveUpSwitch(c) ==
  /\ pc[c] = "giveUp" /\ c \in Switches
  /\ RestoreReady(c) /\ Goto(c, "stopTarget")
  /\ UNCHANGED <<proc, owned, active, closed, target, previous, todo, runs>>

StopTarget(c) ==
  /\ pc[c] = "stopTarget" /\ Stop(target[c]) /\ Return(c)
  /\ UNCHANGED <<draining, owned, active, closed, readmitted, unstopped, runs>>

\* The model cache of the old worker was shrunk, or its call timed out.
Commit(c) ==
  /\ pc[c] = "retire"
  /\ active' = target[c] /\ Goto(c, "stopPrevious")
  /\ UNCHANGED <<proc, draining, owned, closed, readmitted, unstopped, target, previous, todo, runs>>

StopPrevious(c) ==
  /\ pc[c] = "stopPrevious" /\ Stop(previous[c]) /\ Return(c)
  /\ UNCHANGED <<draining, owned, active, closed, readmitted, unstopped, runs>>

-----------------------------------------------------------------------------
(* WorkspaceHost::drain_active_worker, without the transaction lock *)

\* selected() and resolve(); a handle gone stale in between changes nothing.
Rebuild(c) ==
  /\ c \in Rebuilds /\ pc[c] = "idle" /\ ~closed
  /\ previous' = [previous EXCEPT ![c] = active] /\ Goto(c, "drain")
  /\ UNCHANGED <<workers, target, todo, runs>>

RebuildDrains(c) ==
  /\ pc[c] = "drain"
  /\ draining' = draining \cup {previous[c]} /\ Goto(c, "wait")
  /\ UNCHANGED <<proc, owned, active, closed, readmitted, unstopped, target, previous, todo, runs>>

GiveUpRebuild(c) ==
  /\ pc[c] = "giveUp" /\ c \in Rebuilds
  /\ RestoreReady(c) /\ Return(c)
  /\ UNCHANGED <<proc, owned, active, closed, runs>>

\* shutdown_active takes the worker active now, which a switch may have changed.
ShutdownActive(c) ==
  /\ pc[c] = "shutdown"
  /\ target' = [target EXCEPT ![c] = active] /\ Goto(c, "stopActive")
  /\ UNCHANGED <<workers, previous, todo, runs>>

\* The worker was stopped, or did not answer within the deadline, which counts
\* as success: the new workspace takes over.  Once stopped it refuses.
StopActive(c) ==
  /\ pc[c] = "stopActive" /\ proc[target[c]] # "Stopped"
  /\ Stop(target[c]) /\ Return(c)
  /\ closed' = TRUE
  /\ UNCHANGED <<draining, owned, active, readmitted, unstopped, runs>>

\* The worker is dead, its shutdown call fails, or its own timeout stops it: the
\* error discards the new workspace and the current one stays, its admission as
\* the drain left it.
StopActiveFails(c) ==
  /\ pc[c] = "stopActive" /\ Stop(target[c]) /\ Return(c)
  /\ unstopped' = unstopped \cup {previous[c]}
  /\ UNCHANGED <<draining, owned, active, closed, readmitted, runs>>

-----------------------------------------------------------------------------
\* A worker process dies.
WorkerFails(w) ==
  /\ proc[w] = "Ready" /\ proc' = [proc EXCEPT ![w] = "Failed"]
  /\ UNCHANGED <<draining, owned, active, closed, readmitted, unstopped, calls, runs>>

RunStep(r) == Reject(r) \/ Finish(r) \/ CleanupRun(r) \/ Release(r)

Step(c) ==
  \/ \E w \in Workers : StartTarget(c, w)
  \/ StartFails(c) \/ TargetNotReady(c) \/ BeginDraining(c) \/ OwnedRunIds(c)
  \/ \E r \in Runs : CancelRun(c, r) \/ CancelFails(c, r)
  \/ Cancelled(c) \/ Empty(c) \/ DeadlinePasses(c) \/ GiveUpSwitch(c) \/ StopTarget(c)
  \/ Commit(c) \/ StopPrevious(c)
  \/ RebuildDrains(c) \/ GiveUpRebuild(c) \/ ShutdownActive(c)
  \/ StopActive(c) \/ StopActiveFails(c)

Next ==
  \/ \E r \in Runs : BeginRun(r) \/ Invoke(r) \/ RunStep(r)
  \/ \E c \in Calls : Switch(c) \/ Rebuild(c) \/ Step(c)
  \/ \E w \in Workers : WorkerFails(w)

\* A call goes on, its deadline included.  Nothing is assumed of the runs.
Fairness == \A c \in Calls : WF_vars(Step(c))

Spec == Init /\ [][Next]_vars /\ Fairness

-----------------------------------------------------------------------------
(* Properties *)

TypeOK ==
  /\ proc \in [Workers -> {"absent", "Ready", "Failed", "Stopped"}]
  /\ draining \subseteq Workers /\ owned \in [Workers -> SUBSET Runs]
  /\ active \in Workers /\ closed \in BOOLEAN /\ readmitted \subseteq Workers
  /\ unstopped \subseteq Workers
  /\ pc \in [Calls -> {"idle", "start", "check", "drain", "stopTarget"} \cup Draining \cup Stopping]
  /\ target \in [Calls -> Workers \cup {NoWorker}]
  /\ previous \in [Calls -> Workers \cup {NoWorker}]
  /\ todo \in [Calls -> SUBSET Runs]
  /\ run \in [Runs -> RunStates] /\ at \in [Runs -> Workers \cup {NoWorker}]

\* No worker is stopped under a run that holds its lease, unless a second drain
\* that gave up had opened its admission again in the meantime.
StoppedIdle ==
  [][\A w \in Workers :
       (proc[w] = "Ready" /\ proc'[w] = "Stopped") => owned[w] = {} \/ w \in readmitted]_vars

\* A drain that ends without replacing the worker leaves it open for runs: the
\* active worker of a live workspace is closed only while some call is draining.
\* The one exception: a re-bootstrap whose stop of the drained worker failed
\* keeps the workspace and does not restore the admission.
AdmissionRestored ==
  active \in draining =>
     \/ closed
     \/ \E c \in Calls : pc[c] \in Draining \cup Stopping
     \/ active \in unstopped

\* A run that is over holds no lease, unless it got one from a worker opened
\* again behind a switch: cleanup goes to the active worker only.
LeaseFollowsRun ==
  \A w \in Workers : \A r \in owned[w] : run[r] # "done" \/ w \in readmitted

\* Every switch and every re-bootstrap ends, so the transaction lock is free
\* again: the deadline bounds the wait for runs that never end.
CallsEnd == \A c \in Calls : pc[c] # "idle" ~> pc[c] = "idle"
=============================================================================
