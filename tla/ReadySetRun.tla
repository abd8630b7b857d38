----------------------------- MODULE ReadySetRun -----------------------------
(***************************************************************************)
(* A run under RuntimeOptions::use_ready_set: the planner's plan executed  *)
(* in batches of ready nodes (runtime/src/scheduler/ready_set.rs and       *)
(* run_to_completion_ready_set of runner/orchestrator.rs).                 *)
(*                                                                         *)
(* A batch goes through run_stage like a stage does; RunExecution models   *)
(* that in full.  Here a node of a batch runs in one step, with every end  *)
(* RunExecution gives it, so that the graph can range over all small ones. *)
(***************************************************************************)
EXTENDS Planner, StagePlan

CONSTANTS
  Nodes,
  Graphs,   \* the workflow graphs considered, as sets of edges
  Targets,  \* the run targets considered, as sets of nodes
  Scoped    \* nodes whose output is StageScoped to the stage after their own

\* Finitely many nodes, and edges between them.
ASSUME GraphAssumption ==
  /\ IsFiniteSet(Nodes)
  /\ \A g \in Graphs : g \subseteq Nodes \X Nodes
  /\ \A t \in Targets : t \subseteq Nodes /\ t # {}
  /\ Scoped \subseteq Nodes

VARIABLES
  edges,        \* the edges of the workflow, then of the plan
  plan,         \* the nodes of the plan; the targets before it is built
  stage,        \* the stages of the plan
  outcome,      \* RunSession::node_outcomes
  values,       \* nodes whose output the value store holds
  failing,      \* the fail-fast policy has recorded a failure
  runCancelled, \* the run's token
  nodeCancelled,
  batch,        \* nodes of the batch that run_stage has not reduced yet
  dispatched,   \* ReadySetScheduler::dispatched
  completed,    \* ReadySetScheduler::completed, and so satisfied_outputs
  failed,       \* ReadySetScheduler::failed
  runPc,
  verdict

planVars == <<edges, plan, stage>>
nodeVars == <<outcome, values, failing>>
hostVars == <<runCancelled, nodeCancelled>>
readyVars == <<dispatched, completed, failed>>
runVars == <<planVars, nodeVars, hostVars, batch, readyVars, runPc, verdict>>

Terminal == {"Completed", "Failed", "TimedOut", "Skipped", "Cancelled"}
Settled(n) == outcome[n] \in Terminal
StageOf(n) == CHOOSE k \in DOMAIN stage : n \in stage[k]

ReadyInit ==
  /\ edges \in Graphs /\ plan \in Targets /\ stage = <<>>
  /\ outcome = [n \in Nodes |-> "None"] /\ values = {} /\ failing = FALSE
  /\ runCancelled = FALSE /\ nodeCancelled = {}
  /\ batch = {} /\ dispatched = {} /\ completed = {} /\ failed = {}
  /\ runPc = "plan" /\ verdict = "None"

\* trace_execution_subgraph, then build_plan on those nodes of the document
\* that were traced, or a readiness diagnostic.
BuildPlan ==
  LET nodes == Nodes \cap Traced(plan, edges, Nodes) IN
  /\ runPc = "plan"
  /\ plan' = nodes /\ edges' = Between(nodes, edges)
  /\ stage' = PlanStages(nodes, edges')
  /\ runPc' = IF HasCycle(nodes, edges') THEN "rejected" ELSE "dispatch"
  /\ UNCHANGED <<nodeVars, hostVars, batch, readyVars, verdict>>

-----------------------------------------------------------------------------
\* A scheduler that hands out nodes whose inputs merely ended.
ReadyOnEnded == {n \in plan \ dispatched : \A m \in Preds(n, edges) : Settled(m)}

\* ready_nodes: not dispatched, and every output it depends on was produced.
Ready == {n \in plan \ dispatched : Preds(n, edges) \subseteq completed}

\* is_complete, and one node short of it.
AllButOneDone == Cardinality(completed) + Cardinality(failed) + 1 >= Cardinality(plan)
AllDone == Cardinality(completed) + Cardinality(failed) >= Cardinality(plan)

\* No more nodes can become ready: the loop breaks, or goes on for ever.
NeverStalled == FALSE
Stalled == Ready = {}

\* take_ready(usize::MAX)
Dispatch ==
  /\ runPc = "dispatch" /\ ~runCancelled /\ ~AllDone /\ ~Stalled
  /\ batch' = Ready /\ dispatched' = dispatched \cup Ready
  /\ runPc' = "batch"
  /\ UNCHANGED <<planVars, nodeVars, hostVars, completed, failed, verdict>>

Finish(S, o) == outcome' = [n \in Nodes |-> IF n \in S THEN o ELSE outcome[n]]

\* A node is admitted: the batch lists its nodes in no particular order.
Admissible(n) == runPc = "batch" /\ n \in batch /\ ~failing /\ ~runCancelled

SkipNodeCancelled(n) ==
  /\ Admissible(n) /\ n \in nodeCancelled
  /\ Finish({n}, "Cancelled") /\ batch' = batch \ {n}
  /\ UNCHANGED <<planVars, values, failing, hostVars, readyVars, runPc, verdict>>

FailMissingInput(n) ==
  /\ Admissible(n) /\ n \notin nodeCancelled /\ ~(Preds(n, edges) \subseteq values)
  /\ Finish({n}, "Failed") /\ failing' = TRUE /\ batch' = batch \ {n}
  /\ UNCHANGED <<planVars, values, hostVars, readyVars, runPc, verdict>>

\* The executor ends in one of the ways RunExecution gives it.
Execute(n, o) ==
  /\ Admissible(n) /\ n \notin nodeCancelled /\ Preds(n, edges) \subseteq values
  /\ Finish({n}, o) /\ batch' = batch \ {n}
  /\ values' = IF o = "Completed" THEN values \cup {n} ELSE values
  /\ failing' = (failing \/ o = "Failed")
  /\ nodeCancelled' = IF o = "TimedOut" THEN nodeCancelled \cup {n} ELSE nodeCancelled
  /\ UNCHANGED <<planVars, runCancelled, readyVars, runPc, verdict>>

\* A stuck task: its deadline and the grace passed, the rest is skipped.
ExecuteStuck(n) ==
  /\ Admissible(n) /\ n \notin nodeCancelled /\ Preds(n, edges) \subseteq values
  /\ outcome' = [m \in Nodes |-> IF m = n THEN "TimedOut"
                                 ELSE IF m \in batch THEN "Skipped" ELSE outcome[m]]
  /\ batch' = {} /\ nodeCancelled' = nodeCancelled \cup {n}
  /\ UNCHANGED <<planVars, values, failing, runCancelled, readyVars, runPc, verdict>>

\* The run is failing: what is left of the batch is skipped.
SkipBatch ==
  /\ runPc = "batch" /\ failing /\ batch # {}
  /\ Finish(batch, "Skipped") /\ batch' = {}
  /\ UNCHANGED <<planVars, values, failing, hostVars, readyVars, runPc, verdict>>

\* The outcomes mark_ready_set_progress reports as failed; a skipped node is
\* neither completed nor failed.
FailedOutcomes == {"Failed", "TimedOut", "Cancelled"}

\* drop_completed_stage_scoped: the values scoped to a stage that is all terminal.
Spent == {n \in Scoped \cap plan :
                 /\ StageOf(n) + 1 \in DOMAIN stage
                 /\ \A m \in stage[StageOf(n) + 1] : Settled(m)}

EndBatch ==
  /\ runPc = "batch" /\ batch = {} /\ ~(runCancelled /\ ~failing)
  /\ completed' = {n \in dispatched : outcome[n] = "Completed"}
  /\ failed' = {n \in dispatched : outcome[n] \in FailedOutcomes}
  /\ values' = values \ Spent
  /\ runPc' = "dispatch"
  /\ UNCHANGED <<planVars, outcome, failing, hostVars, batch, dispatched, verdict>>

\* handle_cancellation, from the batch or before the next one.
CancelRest ==
  /\ runCancelled
  /\ \/ runPc = "dispatch" /\ (~AllDone \/ dispatched = {})
     \/ runPc = "batch" /\ ~failing
  /\ outcome' = [n \in Nodes |-> IF n \in plan /\ ~Settled(n) THEN "Cancelled" ELSE outcome[n]]
  /\ verdict' = "Cancelled" /\ runPc' = "done"
  /\ UNCHANGED <<planVars, values, failing, hostVars, batch, readyVars>>

\* Nothing more can become ready.
Conclude ==
  /\ runPc = "dispatch" /\ (AllDone \/ (~runCancelled /\ Stalled))
  /\ verdict' = IF failing THEN "Failed" ELSE "Completed"
  /\ runPc' = "done"
  /\ UNCHANGED <<planVars, nodeVars, hostVars, batch, readyVars>>

CancelRun ==
  /\ runPc \in {"dispatch", "batch"} /\ ~runCancelled /\ runCancelled' = TRUE
  /\ UNCHANGED <<planVars, nodeVars, nodeCancelled, batch, readyVars, runPc, verdict>>

CancelNode(n) ==
  /\ runPc \in {"dispatch", "batch"} /\ n \in plan \ nodeCancelled
  /\ nodeCancelled' = nodeCancelled \cup {n}
  /\ UNCHANGED <<planVars, nodeVars, runCancelled, batch, readyVars, runPc, verdict>>

RunStep ==
  \/ BuildPlan \/ Dispatch \/ SkipBatch \/ EndBatch \/ CancelRest \/ Conclude
  \/ \E n \in Nodes :
       \/ SkipNodeCancelled(n) \/ FailMissingInput(n) \/ ExecuteStuck(n)
       \/ \E o \in {"Completed", "Failed", "TimedOut", "Cancelled"} : Execute(n, o)

ReadyNext == RunStep \/ CancelRun \/ \E n \in Nodes : CancelNode(n)

\* With deadlines every node of a batch ends (RunExecution, RunEnds).
ReadySpec == ReadyInit /\ [][ReadyNext]_runVars /\ WF_runVars(RunStep)

-----------------------------------------------------------------------------
\* The pairs of nodes a path joins, by the number of nodes between them.
Joined(graph, most) ==
  LET joined[k \in 0..most] ==
        IF k = 0 THEN graph
        ELSE LET near == joined[k - 1]
             IN  near \cup {<<p[1][1], p[2][2]>> : p \in {q \in near \X graph : q[1][2] = q[2][1]}}
  IN  joined

\* The stages a stage consumes from.
DirectStages ==
  [i \in DOMAIN stage |->
     {j \in DOMAIN stage : \E e \in edges : e[1] \in stage[j] /\ e[2] \in stage[i]}]

\* The plan is what the targets need and no more: they are in it, so is what its
\* nodes consume, with the edges it comes by, and every set of nodes of which
\* that is true contains the plan.
PlanNeeded ==
  LET Closed(X) == plan \subseteq X /\ \A n \in X : Preds(n, edges) \subseteq X
  IN  /\ Closed(plan')
      /\ \A X \in SUBSET Nodes : Closed(X) => plan' \subseteq X
      /\ edges' = {e \in edges : e[2] \in plan'}

\* It is rejected exactly when a node of it consumes itself, at any distance,
\* and otherwise has every node in one stage, after all it consumes; and
\* wave-leveled stages never share a group (orchestrator.rs:249).
PlanLeveled ==
  LET most == Cardinality(Nodes)
      cyclic == \E n \in Nodes : <<n, n>> \in Joined(edges, most)[most]
      starts == GroupStarts(DirectStages, Cardinality(DOMAIN stage))
  IN  /\ runPc = "rejected" <=> cyclic
      /\ ~cyclic =>
           /\ UNION {stage[k] : k \in DOMAIN stage} = plan
           /\ \A e \in edges : StageOf(e[1]) < StageOf(e[2])
           /\ \A k \in DOMAIN stage : starts[k] = k

\* What the planner makes of a graph and its targets.
PlanSound == [][runPc = "plan" => PlanNeeded /\ PlanLeveled']_runVars

\* A node is handed to the scheduler once, on inputs that all completed.
DispatchedOnComplete ==
  \A n \in dispatched : \A m \in Preds(n, edges) : outcome[m] = "Completed"

\* What the run leaves without an outcome is downstream of a node that did not
\* complete, and nothing else.
LeftBehind ==
  verdict # "None" =>
    \A n \in plan : Settled(n) \/ \E m \in Preds(n, edges) : outcome[m] # "Completed"

\* Every run ends.
RunEnds == <>(runPc \in {"done", "rejected"})
=============================================================================
