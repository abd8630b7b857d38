---------------------------- MODULE RunExecution ----------------------------
(***************************************************************************)
(* One run of an execution plan by the stage-based runner of               *)
(* reimagine_runtime: runner/orchestrator.rs (groups of stages),           *)
(* runner/stage_reducer.rs (admission, deadlines, results of one stage),   *)
(* runner/reduction.rs (what a result does to the session), and            *)
(* runner/publisher.rs (what the run leaves in the store).                 *)
(*                                                                         *)
(* Every stage of a group is a process; its executors are other processes  *)
(* whose answers, panics and silence are the environment's choice, as are  *)
(* the host's run and node cancellations.  A step of a stage is what the   *)
(* code does between two awaits at which another stage can change what the *)
(* stage reads next: the fail-fast policy, the budget, the value store.    *)
(***************************************************************************)
EXTENDS Integers, FiniteSets, Sequences, StagePlan

CONSTANTS
  Nodes,          \* the plan's nodes, each with one output slot
  NumStages,      \* the plan's stages are 1..NumStages
  Order,          \* Order[s]: the node_ids of stage s, in admission order
  Slots,          \* input slots
  Edges,          \* <<producer, consumer, input slot of the consumer>>
  SingleUse,      \* nodes whose output is declared SingleUse
  Scope,          \* Scope[n]: the stage n's output is StageScoped to, or 0
  Answers,        \* Answers[n]: how n's executor may end of its own accord
  MissingInput,   \* nodes bound to a workflow input the run was not given, or
                  \* of a type no executor is registered for
  MaxConcurrency, \* max_stage_concurrency
  MaxGroup,       \* max_stage_group_concurrency
  SoftLimit,      \* memory budget, in units of the per-node estimate
  HardLimit,
  HasTimeout      \* default_node_timeout is Some

Stages == 1..NumStages

ASSUME PlanAssumption ==
  /\ IsFiniteSet(Nodes) /\ NumStages \in Nat \ {0}
  /\ Order \in [Stages -> Seq(Nodes)]
  /\ \A s, t \in Stages : \A i \in 1..Len(Order[s]), j \in 1..Len(Order[t]) :
       Order[s][i] = Order[t][j] => s = t /\ i = j
  /\ \A n \in Nodes : \E s \in Stages : \E i \in 1..Len(Order[s]) : Order[s][i] = n
  /\ Edges \subseteq Nodes \X Nodes \X Slots
  /\ SingleUse \subseteq Nodes /\ MissingInput \subseteq Nodes
  /\ Scope \in [Nodes -> 0..NumStages]

ASSUME OptionsAssumption ==
  /\ Answers \in [Nodes -> SUBSET {"Completed", "Failed", "Cancelled", "Panic"}]
  /\ MaxConcurrency \in Nat \ {0} /\ MaxGroup \in Nat \ {0}
  /\ SoftLimit \in Nat /\ HardLimit \in Nat /\ SoftLimit <= HardLimit
  /\ HasTimeout \in BOOLEAN

VARIABLES
  outcome,          \* RunSession::node_outcomes; "TimedOut" is Failed by deadline
  events,           \* how many terminal node events were published for each node
  values,           \* the nodes whose output the RuntimeValueStore holds
  failing,          \* StageExecutionPolicy::failed_message().is_some()
  usage,            \* MemoryBudget::current_usage
  runCancelled,     \* the run's CancelToken
  nodeCancelled,    \* nodes whose own token was cancelled
  pc,               \* where the task of each stage is
  nextIndex,        \* next_index
  inFlight,         \* nodes whose task is in the stage's JoinSet
  armed,            \* in_flight_deadlines
  expired,          \* expired_in_flight
  claimed,          \* claimed_usage
  held,             \* a joined result not reduced yet: {} or one record
  failureCancelled, \* failure_cancellation
  stageCancelled,   \* what run_stage returned
  runPc,            \* where the runner task is
  group,            \* the stages of the current group
  verdict,          \* the run's terminal TaskState
  summary,          \* the summary in the RunStore
  snapshot,         \* the terminal snapshot in the RunStore
  active            \* the run is registered as active in the RunStore

sessionVars == <<outcome, events, values, failing>>
hostVars    == <<runCancelled, nodeCancelled>>
flightVars  == <<inFlight, armed, expired, claimed, held, usage>>
stageVars   == <<pc, nextIndex, failureCancelled, stageCancelled>>
storeVars   == <<verdict, summary, snapshot, active>>
runVars     == <<runPc, group>>
vars == <<sessionVars, hostVars, flightVars, stageVars, storeVars, runVars>>

-----------------------------------------------------------------------------
(* The plan.                                                               *)

StageNodes(s) == {Order[s][i] : i \in 1..Len(Order[s])}

\* PlanConsumerIndex: the bindings that read n's output.
Consumers(n) == {e \in Edges : e[1] = n}
Upstream(n)  == {e[1] : e \in {f \in Edges : f[2] = n}}

\* check_single_use_fan_out: n declared its output SingleUse but more than
\* one binding reads it.
FanOutViolation(n) == n \in SingleUse /\ \E e, f \in Consumers(n) : e # f

\* drop_consumed_single_use_values: the outputs of which n is the sole reader.
Consumed(n) == {m \in SingleUse : \E e \in Edges : e[2] = n /\ Consumers(m) = {e}}

DirectDeps ==
  [s \in Stages |->
     {t \in Stages \ {s} :
        \E e \in Edges : e[1] \in StageNodes(t) /\ e[2] \in StageNodes(s)}]

\* build_stage_groups
GroupStart == GroupStarts(DirectDeps, NumStages)

-----------------------------------------------------------------------------
(* The session.                                                            *)

Outcomes == {"None", "Running", "Completed", "Failed", "TimedOut", "Skipped", "Cancelled"}
Terminal == {"Completed", "Failed", "TimedOut", "Skipped", "Cancelled"}
Results  == {"Completed", "Failed", "Cancelled"}
Verdicts == {"Completed", "Failed", "Cancelled"}
Limbo    == "None"   \* no verdict, summary or terminal snapshot yet

Settled(n) == outcome[n] \in Terminal

\* record_outcome for the nodes of S, each with its terminal node event.
Settle(S, o) ==
  /\ outcome' = [n \in Nodes |-> IF n \in S THEN o ELSE outcome[n]]
  /\ events' = [n \in Nodes |-> IF n \in S THEN events[n] + 1 ELSE events[n]]

\* A node that failed without failing the run.
FailNodeQuietly(n) ==
  /\ Settle({n}, "Failed")
  /\ values' = values \ Consumed(n)
  /\ UNCHANGED failing

\* reduce_node_failed
FailNode(n) ==
  /\ Settle({n}, "Failed")
  /\ failing' = TRUE
  /\ values' = values \ Consumed(n)

\* A release that does not happen.
ReleaseNever(s, n) == UNCHANGED <<claimed, usage>>

\* release_claimed_budget; MemoryBudget::release saturates at zero.
Release(s, n) ==
  /\ claimed' = [claimed EXCEPT ![s] = @ \ {n}]
  /\ usage' = IF n \in claimed[s] /\ usage > 0 THEN usage - 1 ELSE usage

IsNodeCancelled(n) == runCancelled \/ n \in nodeCancelled

\* Executors deaf to the run's token, or to the node's.
TokenSetNoRun(s, n) == n \in nodeCancelled \/ failureCancelled[s]
TokenSetNoNode(s, n) == runCancelled \/ failureCancelled[s]

\* CancelToken::any of run, node and stage tokens, as the executor sees it.
TokenSet(s, n) == IsNodeCancelled(n) \/ failureCancelled[s]

-----------------------------------------------------------------------------
Init ==
  /\ outcome = [n \in Nodes |-> "None"]
  /\ events = [n \in Nodes |-> 0]
  /\ values = {} /\ failing = FALSE /\ usage = 0
  /\ runCancelled = FALSE /\ nodeCancelled = {}
  /\ pc = [s \in Stages |-> "idle"]
  /\ nextIndex = [s \in Stages |-> 1]
  /\ inFlight = [s \in Stages |-> {}]
  /\ armed = [s \in Stages |-> {}]
  /\ expired = [s \in Stages |-> {}]
  /\ claimed = [s \in Stages |-> {}]
  /\ held = [s \in Stages |-> {}]
  /\ failureCancelled = [s \in Stages |-> FALSE]
  /\ stageCancelled = [s \in Stages |-> FALSE]
  /\ runPc = "groups" /\ group = {}
  /\ verdict = Limbo /\ summary = Limbo /\ snapshot = Limbo /\ active = TRUE

-----------------------------------------------------------------------------
(* The task of one stage: run_stage and run_stage_nodes.                   *)

Goto(s, label) == pc' = [pc EXCEPT ![s] = label]
Advance(s) == nextIndex' = [nextIndex EXCEPT ![s] = @ + 1]
FireFailure(s) == failureCancelled' = [failureCancelled EXCEPT ![s] = TRUE]
More(s) == nextIndex[s] <= Len(Order[s])
Next_(s) == Order[s][nextIndex[s]]
Remaining(s) == {Order[s][i] : i \in nextIndex[s]..Len(Order[s])}

\* The nodes of S with no terminal outcome yet; or all of them.
UnsettledOrNot(S) == S
Unsettled(S) == {n \in S : ~Settled(n)}

LoopHead(flight) == IF flight = {} THEN "admit" ELSE "wait"

\* The inner while of the admission loop: may another node be admitted?
AdmitNext(s) ==
  /\ pc[s] = "admit"
  /\ More(s) /\ Cardinality(inFlight[s]) < MaxConcurrency /\ ~failing /\ ~runCancelled
  /\ Goto(s, "decide")
  /\ UNCHANGED <<sessionVars, hostVars, flightVars, nextIndex, failureCancelled,
                 stageCancelled, storeVars, runVars>>

\* The run token fired: the stage returns at once, dropping its JoinSet.
AdmitCancelled(s) ==
  /\ pc[s] = "admit"
  /\ More(s) /\ Cardinality(inFlight[s]) < MaxConcurrency /\ ~failing /\ runCancelled
  /\ FireFailure(s)
  /\ stageCancelled' = [stageCancelled EXCEPT ![s] = TRUE]
  /\ inFlight' = [inFlight EXCEPT ![s] = {}]
  /\ Goto(s, "drop")
  /\ UNCHANGED <<sessionVars, hostVars, armed, expired, claimed, held, usage, nextIndex,
                 storeVars, runVars>>

AdmitNoMore(s) ==
  /\ pc[s] = "admit"
  /\ ~More(s) \/ Cardinality(inFlight[s]) >= MaxConcurrency \/ failing
  /\ Goto(s, IF inFlight[s] = {} THEN "drain" ELSE "wait")
  /\ UNCHANGED <<sessionVars, hostVars, flightVars, nextIndex, failureCancelled,
                 stageCancelled, storeVars, runVars>>

\* decision_for = Skip: another stage failed since the loop's guard.
DecideSkip(s) ==
  /\ pc[s] = "decide" /\ failing
  /\ Settle({Next_(s)}, "Skipped")
  /\ Advance(s) /\ Goto(s, "admit")
  /\ UNCHANGED <<values, failing, hostVars, flightVars, failureCancelled,
                 stageCancelled, storeVars, runVars>>

DecideExecute(s) ==
  /\ pc[s] = "decide" /\ ~failing
  /\ Goto(s, "prepare")
  /\ UNCHANGED <<sessionVars, hostVars, flightVars, nextIndex, failureCancelled,
                 stageCancelled, storeVars, runVars>>

\* reduce_node_cancelled.  The deadline test that follows it in the code never
\* fires: a deadline is armed only when its node is admitted.
PrepareCancelled(s) ==
  /\ pc[s] = "prepare" /\ IsNodeCancelled(Next_(s))
  /\ Settle({Next_(s)}, "Cancelled")
  /\ Advance(s) /\ Goto(s, "admit")
  /\ UNCHANGED <<values, failing, hostVars, flightVars, failureCancelled,
                 stageCancelled, storeVars, runVars>>

\* Bindings that take whatever inputs are there.
BindableAnyhow(n) == n \notin MissingInput

\* prepare_node_bindings: every edge-sourced input needs its value.
Bindable(n) == Upstream(n) \subseteq values /\ n \notin MissingInput

PrepareFails(s) ==
  /\ pc[s] = "prepare" /\ ~IsNodeCancelled(Next_(s)) /\ ~Bindable(Next_(s))
  /\ FailNode(Next_(s))
  /\ FireFailure(s) /\ Advance(s) /\ Goto(s, "admit")
  /\ UNCHANGED <<hostVars, flightVars, stageCancelled, storeVars, runVars>>

PrepareNode(s) ==
  /\ pc[s] = "prepare" /\ ~IsNodeCancelled(Next_(s)) /\ Bindable(Next_(s))
  /\ Goto(s, "budget")
  /\ UNCHANGED <<sessionVars, hostVars, flightVars, nextIndex, failureCancelled,
                 stageCancelled, storeVars, runVars>>

\* MemoryBudget::admit: would one more claim cross the limit?
OverByOne(limit) == usage > limit
Over(limit) == usage + 1 > limit

\* Reject
BudgetReject(s) ==
  /\ pc[s] = "budget" /\ Over(HardLimit)
  /\ FailNode(Next_(s))
  /\ FireFailure(s) /\ Advance(s) /\ Goto(s, "admit")
  /\ UNCHANGED <<hostVars, flightVars, stageCancelled, storeVars, runVars>>

\* Backpressure while something is in flight: retried on the next pass.
BudgetWait(s) ==
  /\ pc[s] = "budget" /\ ~Over(HardLimit) /\ Over(SoftLimit) /\ inFlight[s] # {}
  /\ Goto(s, "wait")
  /\ UNCHANGED <<sessionVars, hostVars, flightVars, nextIndex, failureCancelled,
                 stageCancelled, storeVars, runVars>>

BudgetAdmit(s) ==
  /\ pc[s] = "budget" /\ ~Over(HardLimit)
  /\ ~Over(SoftLimit) \/ inFlight[s] = {}
  /\ Goto(s, "claim")
  /\ UNCHANGED <<sessionVars, hostVars, flightVars, nextIndex, failureCancelled,
                 stageCancelled, storeVars, runVars>>

\* claim, admit_stage_node (Queued then Running under one session lock), arm
\* the deadline, spawn the executor.
AdmitNode(s) ==
  LET n == Next_(s) IN
  /\ pc[s] = "claim"
  /\ usage' = usage + 1
  /\ claimed' = [claimed EXCEPT ![s] = @ \cup {n}]
  /\ outcome' = [outcome EXCEPT ![n] = "Running"]
  /\ inFlight' = [inFlight EXCEPT ![s] = @ \cup {n}]
  /\ armed' = [armed EXCEPT ![s] = IF HasTimeout THEN @ \cup {n} ELSE @]
  /\ Advance(s) /\ Goto(s, "admit")
  /\ UNCHANGED <<events, values, failing, hostVars, expired, held, failureCancelled,
                 stageCancelled, storeVars, runVars>>

\* A node reduced before its task returned; a reducer that does not look.
NeverReduced(n) == FALSE
AlreadyReduced(n) == Settled(n)

\* join_next returned n's result.  The node may have been reduced already (it
\* timed out); otherwise was_failing is read before the session is locked.
Join(s, n, result) ==
  /\ pc[s] = "wait" /\ n \in inFlight[s]
  /\ result \in Answers[n] \cap Results \/ (result = "Cancelled" /\ TokenSet(s, n))
  /\ inFlight' = [inFlight EXCEPT ![s] = @ \ {n}]
  /\ armed' = [armed EXCEPT ![s] = @ \ {n}]
  /\ expired' = [expired EXCEPT ![s] = @ \ {n}]
  /\ Release(s, n)
  /\ IF AlreadyReduced(n)
     THEN /\ Goto(s, LoopHead(inFlight'[s]))
          /\ UNCHANGED held
     ELSE /\ held' = [held EXCEPT ![s] =
                        {[node |-> n, result |-> result, wasFailing |-> failing]}]
          /\ Goto(s, "reduce")
  /\ UNCHANGED <<sessionVars, hostVars, nextIndex, failureCancelled, stageCancelled,
                 storeVars, runVars>>

\* join_next returned a JoinError: the executor panicked, and nothing but the
\* JoinSet forgets the node.
JoinPanic(s, n) ==
  /\ pc[s] = "wait" /\ n \in inFlight[s] /\ "Panic" \in Answers[n]
  /\ inFlight' = [inFlight EXCEPT ![s] = @ \ {n}]
  /\ Goto(s, LoopHead(inFlight'[s]))
  /\ UNCHANGED <<sessionVars, hostVars, armed, expired, claimed, held, usage, nextIndex,
                 failureCancelled, stageCancelled, storeVars, runVars>>

\* What reduce_stage_node_result does to the session.
ReduceSuccess(h) ==
  IF h.wasFailing
  THEN /\ Settle({h.node}, "Cancelled")
       /\ values' = values \ Consumed(h.node)
       /\ UNCHANGED failing
  ELSE IF FanOutViolation(h.node)
  THEN /\ Settle({h.node}, "Failed")
       /\ failing' = TRUE
       /\ UNCHANGED values
  ELSE /\ Settle({h.node}, "Completed")
       /\ values' = (values \cup {h.node}) \ Consumed(h.node)
       /\ UNCHANGED failing

ReduceOutcome(h) ==
  \/ h.result = "Completed" /\ ReduceSuccess(h)
  \/ h.result = "Failed" /\ FailNode(h.node)
  \/ /\ h.result = "Cancelled"
     /\ Settle({h.node}, "Cancelled")
     /\ values' = values \ Consumed(h.node)
     /\ UNCHANGED failing

\* A cancelled node stops the run unless only that node was asked to stop or
\* the run is failing already.
StopsRun(h) ==
  h.result = "Cancelled" /\ ~failing /\ (runCancelled \/ h.node \notin nodeCancelled)

Reduce(s) ==
  \E h \in held[s] :
    /\ pc[s] = "reduce" /\ ~StopsRun(h)
    /\ ReduceOutcome(h)
    /\ held' = [held EXCEPT ![s] = {}]
    /\ failureCancelled' = [failureCancelled EXCEPT ![s] = @ \/ (~h.wasFailing /\ failing')]
    /\ Goto(s, LoopHead(inFlight[s]))
    /\ UNCHANGED <<hostVars, inFlight, armed, expired, claimed, usage, nextIndex,
                   stageCancelled, storeVars, runVars>>

\* The stage returns true, dropping its JoinSet and what it still tracked.
ReduceStops(s) ==
  \E h \in held[s] :
    /\ pc[s] = "reduce" /\ StopsRun(h)
    /\ ReduceOutcome(h)
    /\ held' = [held EXCEPT ![s] = {}]
    /\ FireFailure(s)
    /\ stageCancelled' = [stageCancelled EXCEPT ![s] = TRUE]
    /\ inFlight' = [inFlight EXCEPT ![s] = {}]
    /\ Goto(s, "drop")
    /\ UNCHANGED <<hostVars, armed, expired, claimed, usage, nextIndex, storeVars, runVars>>

\* expire_in_flight_nodes: the deadline of n, the earliest armed one, passed.
\* The failure is the node's alone: the policy does not learn of it.
Expire(s, n) ==
  /\ pc[s] = "wait" /\ n \in armed[s]
  /\ \E i \in 1..Len(Order[s]) :
       Order[s][i] = n /\ \A j \in 1..i - 1 : Order[s][j] \notin armed[s]
  /\ armed' = [armed EXCEPT ![s] = @ \ {n}]
  /\ expired' = [expired EXCEPT ![s] = @ \cup {n}]
  /\ nodeCancelled' = nodeCancelled \cup {n}
  /\ Settle({n}, "TimedOut")
  /\ values' = values \ Consumed(n)
  /\ Release(s, n)
  /\ UNCHANGED <<failing, runCancelled, inFlight, held, stageVars, storeVars, runVars>>

\* Every in-flight node is past its deadline; a select with no such arm.
NoOverdueArm(s) == FALSE
AllOverdue(s) == armed[s] = {} /\ expired[s] # {}

\* All in-flight nodes are overdue and STAGE_ABORT_GRACE passed: the
\* rest of the stage is skipped and the JoinSet dropped.
GraceAbort(s) ==
  /\ pc[s] = "wait" /\ AllOverdue(s)
  /\ FireFailure(s)
  /\ Settle(Unsettled(Remaining(s)), "Skipped")
  /\ inFlight' = [inFlight EXCEPT ![s] = {}]
  /\ Goto(s, "drop")
  /\ UNCHANGED <<values, failing, hostVars, armed, expired, claimed, held, usage, nextIndex,
                 stageCancelled, storeVars, runVars>>

\* After the loop: a failing run skips what the stage did not admit.
Drain(s) ==
  /\ pc[s] = "drain"
  /\ IF failing
     THEN /\ Settle(Unsettled(Remaining(s)), "Skipped")
          /\ nextIndex' = [nextIndex EXCEPT ![s] = Len(Order[s]) + 1]
     ELSE UNCHANGED <<outcome, events, nextIndex>>
  /\ stageCancelled' = [stageCancelled EXCEPT ![s] = runCancelled /\ ~failing]
  /\ Goto(s, "drop")
  /\ UNCHANGED <<values, failing, hostVars, flightVars, failureCancelled, storeVars, runVars>>

\* The nodes whose output ends with stage s; or with a later one.
EndsBy(s) == {n \in Nodes : Scope[n] >= s}
EndsWith(s) == {n \in Nodes : Scope[n] = s}

\* drop_stage_scoped, whatever way the stage ended.
DropStageScoped(s) ==
  /\ pc[s] = "drop"
  /\ values' = values \ EndsWith(s)
  /\ Goto(s, "done")
  /\ UNCHANGED <<outcome, events, failing, hostVars, flightVars, nextIndex, failureCancelled,
                 stageCancelled, storeVars, runVars>>

-----------------------------------------------------------------------------
(* The runner task: run and run_to_completion.                             *)

Idle == {s \in Stages : pc[s] = "idle"}

\* The next group of build_stage_groups.
BeginGroup ==
  /\ runPc = "groups" /\ ~runCancelled
  /\ \E s \in Idle :
       /\ \A t \in Idle : s <= t
       /\ group' = {t \in Stages : GroupStart[t] = s}
  /\ runPc' = "stages"
  /\ UNCHANGED <<sessionVars, hostVars, flightVars, stageVars, storeVars>>

\* run_stage_group: in plan order, at most MaxGroup at a time.
StartStage(s) ==
  /\ runPc = "stages" /\ s \in group /\ pc[s] = "idle"
  /\ \A t \in group : t < s => pc[t] # "idle"
  /\ Cardinality({t \in group : pc[t] \notin {"idle", "done"}}) < MaxGroup
  /\ Goto(s, "admit")
  /\ UNCHANGED <<sessionVars, hostVars, flightVars, nextIndex, failureCancelled,
                 stageCancelled, storeVars, runVars>>

EndGroup ==
  /\ runPc = "stages" /\ \A s \in group : pc[s] = "done"
  /\ runPc' = IF \E s \in group : stageCancelled[s] THEN "cancel" ELSE "groups"
  /\ UNCHANGED <<sessionVars, hostVars, flightVars, stageVars, storeVars, group>>

\* The test before each group.
CancelBeforeGroup ==
  /\ runPc = "groups" /\ runCancelled /\ Idle # {}
  /\ runPc' = "cancel"
  /\ UNCHANGED <<sessionVars, hostVars, flightVars, stageVars, storeVars, group>>

\* handle_cancellation up to its RunCancelled event.
HandleCancellation ==
  /\ runPc = "cancel"
  /\ Settle(Unsettled(Nodes), "Cancelled")
  /\ verdict' = "Cancelled" /\ runPc' = "summary"
  /\ UNCHANGED <<values, failing, hostVars, flightVars, stageVars, summary, snapshot, active,
                 group>>

\* No group is left: RunFailed or RunCompleted.
Conclude ==
  /\ runPc = "groups" /\ Idle = {}
  /\ verdict' = IF failing THEN "Failed" ELSE "Completed"
  /\ runPc' = "summary"
  /\ UNCHANGED <<sessionVars, hostVars, flightVars, stageVars, summary, snapshot, active, group>>

PutSummary ==
  /\ runPc = "summary"
  /\ summary' = verdict /\ runPc' = "snapshot"
  /\ UNCHANGED <<sessionVars, hostVars, flightVars, stageVars, verdict, snapshot, active, group>>

PutSnapshot ==
  /\ runPc = "snapshot"
  /\ snapshot' = verdict /\ runPc' = "finalize"
  /\ UNCHANGED <<sessionVars, hostVars, flightVars, stageVars, verdict, summary, active, group>>

Finalize ==
  /\ runPc = "finalize"
  /\ active' = FALSE /\ runPc' = "cleanup"
  /\ UNCHANGED <<sessionVars, hostVars, flightVars, stageVars, verdict, summary, snapshot, group>>

\* RuntimeValueStore::clear, after the store stopped listing the run as active.
Cleanup ==
  /\ runPc = "cleanup"
  /\ values' = {} /\ runPc' = "done"
  /\ UNCHANGED <<outcome, events, failing, hostVars, flightVars, stageVars, storeVars, group>>

-----------------------------------------------------------------------------
(* The host: RunHandle::cancel and RunHandle::cancel_node.                 *)

CancelRun ==
  /\ ~runCancelled /\ runCancelled' = TRUE
  /\ UNCHANGED <<sessionVars, nodeCancelled, flightVars, stageVars, storeVars, runVars>>

CancelNode(n) ==
  /\ n \notin nodeCancelled /\ nodeCancelled' = nodeCancelled \cup {n}
  /\ UNCHANGED <<sessionVars, runCancelled, flightVars, stageVars, storeVars, runVars>>

-----------------------------------------------------------------------------
StageStep(s) ==
  \/ AdmitNext(s) \/ AdmitCancelled(s) \/ AdmitNoMore(s)
  \/ DecideSkip(s) \/ DecideExecute(s)
  \/ PrepareCancelled(s) \/ PrepareFails(s) \/ PrepareNode(s)
  \/ BudgetReject(s) \/ BudgetWait(s) \/ BudgetAdmit(s) \/ AdmitNode(s)
  \/ Reduce(s) \/ ReduceStops(s) \/ Drain(s) \/ DropStageScoped(s)

TimerStep(s) == GraceAbort(s) \/ \E n \in Nodes : Expire(s, n)

ExecutorStep(s) ==
  \E n \in Nodes : JoinPanic(s, n) \/ \E result \in Results : Join(s, n, result)

RunnerStep ==
  \/ BeginGroup \/ (\E s \in Stages : StartStage(s)) \/ EndGroup
  \/ CancelBeforeGroup \/ HandleCancellation \/ Conclude
  \/ PutSummary \/ PutSnapshot \/ Finalize \/ Cleanup

HostStep == CancelRun \/ \E n \in Nodes : CancelNode(n)

Next ==
  \/ \E s \in Stages : StageStep(s) \/ TimerStep(s) \/ ExecutorStep(s)
  \/ RunnerStep
  \/ HostStep

Spec == Init /\ [][Next]_vars

\* The runtime's own tasks and timers make progress; executors and the host
\* need not.
FairSpec ==
  /\ Spec
  /\ WF_vars(RunnerStep)
  /\ \A s \in Stages : WF_vars(StageStep(s)) /\ WF_vars(TimerStep(s))
-----------------------------------------------------------------------------
TypeOK ==
  /\ outcome \in [Nodes -> Outcomes] /\ events \in [Nodes -> Nat]
  /\ values \subseteq Nodes /\ failing \in BOOLEAN /\ usage \in Nat
  /\ runCancelled \in BOOLEAN /\ nodeCancelled \subseteq Nodes
  /\ pc \in [Stages -> {"idle", "admit", "decide", "prepare", "budget", "claim", "wait",
                        "reduce", "drain", "drop", "done"}]
  /\ nextIndex \in [Stages -> Nat \ {0}]
  /\ inFlight \in [Stages -> SUBSET Nodes] /\ armed \in [Stages -> SUBSET Nodes]
  /\ expired \in [Stages -> SUBSET Nodes] /\ claimed \in [Stages -> SUBSET Nodes]
  /\ held \in [Stages -> SUBSET [node : Nodes, result : Results, wasFailing : BOOLEAN]]
  /\ failureCancelled \in [Stages -> BOOLEAN] /\ stageCancelled \in [Stages -> BOOLEAN]
  /\ runPc \in {"groups", "stages", "cancel", "summary", "snapshot", "finalize",
                "cleanup", "done"}
  /\ group \subseteq Stages
  /\ {verdict, summary, snapshot} \subseteq Verdicts \cup {Limbo} /\ active \in BOOLEAN

\* A node that was started had every upstream node completed before it: the
\* value store, not the plan, is what admission consults.
DataflowOrder ==
  \A n \in Nodes : \A m \in Upstream(n) :
    outcome[n] \in {"Running", "Completed", "TimedOut"} => outcome[m] = "Completed"

\* Every node reports its end exactly once, whichever of a result, a deadline,
\* a skip and a cancellation comes first.
OneTerminalEvent ==
  \A n \in Nodes : events[n] = IF Settled(n) THEN 1 ELSE 0

\* A late result never overwrites the outcome a node was already given.
OutcomeFinal ==
  [][\A n \in Nodes : Settled(n) => outcome'[n] = outcome[n]]_vars

\* A node still unsettled when the run is judged was lost to a panic.
Vanished == {n \in Nodes : "Panic" \in Answers[n]}

\* What watchers of the run are promised (DataflowRun): nodes start on complete
\* inputs and end once, no node is left behind, and the verdict agrees with them.
Contract ==
  INSTANCE DataflowRun WITH Inputs <- [n \in Nodes |-> Upstream(n)], MayVanish <- Vanished

ImplementsDataflowRun == Contract!Spec

\* A value some node still has to read stays in the store until its scope ends.
InputsRetained ==
  \A n \in Nodes : \A m \in Upstream(n) :
    /\ outcome[m] = "Completed" /\ outcome[n] = "None"
    /\ Scope[m] = 0 \/ pc[Scope[m]] # "done"
    => m \in values

\* A run that was not cancelled gives back every claim but those of the nodes
\* it lost to a panic.
BudgetReturned ==
  verdict \in {"Completed", "Failed"} => usage <= Cardinality(Vanished)

\* The hard ceiling of the budget as its callers describe it.
HardCeiling == usage <= HardLimit

\* Every run with deadlines ends, however its executors behave.
RunEnds == <>(runPc = "done")

\* Executors that end once their token fires, and the runtime's own progress.
CooperativeSpec ==
  /\ FairSpec
  /\ \A s \in Stages : \A n \in Nodes :
       WF_vars(TokenSet(s, n) /\ Join(s, n, "Cancelled"))

\* A cancelled run ends, and so does a failing one: its own stage is told.
StoppedRunEnds == (runCancelled \/ failing) ~> runPc = "done"

\* Cancelling one node ends that node although the run goes on.
NodeCancelEnds ==
  \A n \in Nodes : (n \in nodeCancelled /\ outcome[n] = "Running") ~> Settled(n)
=============================================================================
