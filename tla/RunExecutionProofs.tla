------------------------- MODULE RunExecutionProofs -------------------------
(***************************************************************************)
(* For every plan, every option and any number of nodes and stages: a node *)
(* starts on complete inputs, ends once, and never ends twice; what it     *)
(* consumes is kept, what it holds of the budget is given back, and the    *)
(* runner keeps the contract of DataflowRun.                               *)
(*                                                                         *)
(* The argument has three parts.  IInv says what each stage's task knows   *)
(* about the nodes it tracks: those it has not reached have no outcome,    *)
(* those it has in flight, on a timer or in its hand are running.  From    *)
(* that every step does one of three things to the nodes (NodeStep), and   *)
(* the properties follow from these three alone.  The third part sums a    *)
(* step up by what it does to its stage's accounts (StepKinds), and JInv   *)
(* says what is in them: whose fault a failure is, what a claim stands     *)
(* for, which consumers are left.                                          *)
(***************************************************************************)
EXTENDS RunExecution, TLAPS, FiniteSetTheorems

\* A stage that works on a node has one.
Cursor ==
  \A s \in Stages : pc[s] \in {"decide", "prepare", "budget", "claim"} => More(s)

\* Only stages of the runner's current group have a task.
Scheduled ==
  \A s \in Stages : pc[s] \notin {"idle", "done"} => runPc = "stages" /\ s \in group

\* The nodes a stage has not reached have no outcome.
Upcoming ==
  runPc \in {"groups", "stages", "cancel"} =>
    \A s \in Stages : pc[s] \notin {"drop", "done"} =>
      \A n \in Remaining(s) : outcome[n] = "None"

\* A stage that did not start tracks nothing.
Unstarted == \A s \in Stages : pc[s] = "idle" => inFlight[s] = {} /\ armed[s] = {} /\ held[s] = {}
\* A joined result is kept only while the stage reduces it.
HeldIsReduced == \A s \in Stages : held[s] # {} => pc[s] = "reduce"

\* What a stage has spawned was started, what it keeps a deadline for or is about
\* to reduce still runs.
OngoingIn(s) ==
  pc[s] \notin {"drop", "done"} =>
    /\ \A n \in inFlight[s] : n \in StageNodes(s) /\ outcome[n] # "None"
    /\ \A n \in armed[s] : n \in StageNodes(s) /\ outcome[n] = "Running"
    /\ \A h \in held[s] : h.node \in StageNodes(s) \ armed[s] /\ outcome[h.node] = "Running"

Ongoing == \A s \in Stages : OngoingIn(s)

\* A node past its bindings has inputs that all completed.
Prepared ==
  \A s \in Stages : pc[s] \in {"budget", "claim"} =>
    \A m \in Upstream(Next_(s)) : outcome[m] = "Completed"

\* Only completed nodes have a value in the store.
Stored == \A m \in values : outcome[m] = "Completed"

\* The inductive invariant.
IInv ==
  /\ TypeOK /\ Cursor /\ Scheduled /\ Upcoming /\ Unstarted /\ HeldIsReduced /\ Ongoing
  /\ Prepared /\ Stored /\ OneTerminalEvent /\ DataflowOrder

-----------------------------------------------------------------------------
\* The admission orders of the stages list nodes of the plan, each once.
LEMMA OrderFacts ==
  ASSUME NEW s \in Stages
  PROVE  /\ Len(Order[s]) \in Nat
         /\ \A i \in 1..Len(Order[s]) : Order[s][i] \in Nodes
         /\ \A t \in Stages : \A i \in 1..Len(Order[s]), j \in 1..Len(Order[t]) :
              Order[s][i] = Order[t][j] => s = t /\ i = j
<1>1. Order[s] \in Seq(Nodes)
  BY PlanAssumption
<1> QED
  BY <1>1, PlanAssumption

\* A stage has nodes of the plan only.
LEMMA StageNodesInPlan == \A s \in Stages : StageNodes(s) \subseteq Nodes
  BY OrderFacts DEF StageNodes

\* No node is in two stages.
LEMMA StagesDisjoint ==
  ASSUME NEW s \in Stages, NEW t \in Stages, NEW n \in StageNodes(s), n \in StageNodes(t)
  PROVE  s = t
<1>1. PICK i \in 1..Len(Order[s]) : n = Order[s][i]
  BY DEF StageNodes
<1>2. PICK j \in 1..Len(Order[t]) : n = Order[t][j]
  BY DEF StageNodes
<1> QED
  BY <1>1, <1>2, OrderFacts

\* What a stage has left to admit is its own.
LEMMA RemainingInStage ==
  ASSUME NEW s \in Stages, nextIndex[s] \in Nat \ {0}
  PROVE  Remaining(s) \subseteq StageNodes(s)
<1>1. \A i \in nextIndex[s]..Len(Order[s]) : i \in 1..Len(Order[s])
  BY OrderFacts
<1> QED
  BY <1>1 DEF Remaining, StageNodes

\* The node a stage works on is one of those it has left.
LEMMA NextRemains ==
  ASSUME NEW s \in Stages, nextIndex[s] \in Nat \ {0}, More(s)
  PROVE  Next_(s) \in Remaining(s)
<1>1. nextIndex[s] \in nextIndex[s]..Len(Order[s])
  BY OrderFacts DEF More
<1> QED
  BY <1>1 DEF Remaining, Next_

\* Advancing the cursor leaves that node behind, and no other stage notices.
LEMMA AdvancePasses ==
  ASSUME nextIndex \in [Stages -> Nat \ {0}], NEW s \in Stages, More(s), Advance(s)
  PROVE  /\ Remaining(s)' \subseteq Remaining(s) \ {Next_(s)}
         /\ \A t \in Stages \ {s} : Remaining(t)' = Remaining(t)
<1>1. nextIndex'[s] = nextIndex[s] + 1 /\ \A t \in Stages \ {s} : nextIndex'[t] = nextIndex[t]
  BY DEF Advance
<1>2. ASSUME NEW i \in nextIndex'[s]..Len(Order[s])
      PROVE  Order[s][i] \in Remaining(s) \ {Order[s][nextIndex[s]]}
  <2>1. i \in nextIndex[s]..Len(Order[s]) /\ i # nextIndex[s]
    BY <1>1, <1>2, OrderFacts
  <2>2. i \in 1..Len(Order[s]) /\ nextIndex[s] \in 1..Len(Order[s])
    BY <2>1, OrderFacts DEF More
  <2> QED
    BY <2>1, <2>2, OrderFacts DEF Remaining
<1>3. Remaining(s)' \subseteq Remaining(s) \ {Next_(s)}
  BY <1>2 DEF Remaining, Next_
<1> QED
  BY <1>1, <1>3 DEF Remaining

\* The node a stage works on, with all that is known of it.
LEMMA NextIsNode ==
  ASSUME IInv, NEW s \in Stages, pc[s] \in {"decide", "prepare", "budget", "claim"}
  PROVE  /\ More(s) /\ Next_(s) \in Nodes /\ Next_(s) \in Remaining(s)
         /\ Next_(s) \in StageNodes(s)
  BY StageNodesInPlan, RemainingInStage, NextRemains DEF IInv, TypeOK, Cursor

\* What a stage skips is its own.
LEMMA UnsettledRemaining ==
  ASSUME TypeOK, NEW s \in Stages
  PROVE  Unsettled(Remaining(s)) \subseteq StageNodes(s) /\ Unsettled(Remaining(s)) \subseteq Nodes
  BY StageNodesInPlan, RemainingInStage DEF Unsettled, TypeOK

\* Recording outcomes keeps the session well-typed.
LEMMA SettleTypes ==
  ASSUME TypeOK, NEW S, NEW o \in Outcomes, Settle(S, o)
  PROVE  outcome' \in [Nodes -> Outcomes] /\ events' \in [Nodes -> Nat]
  BY DEF TypeOK, Settle

\* Whatever its result, reducing a node ends that node, and only success adds to
\* the value store.
LEMMA ReducedNode ==
  ASSUME TypeOK, NEW s \in Stages, NEW h \in held[s], ReduceOutcome(h)
  PROVE  /\ h.node \in Nodes /\ failing' \in BOOLEAN
         /\ \E o \in {"Completed", "Failed", "Cancelled"} :
              /\ Settle({h.node}, o)
              /\ values' \subseteq IF o = "Completed" THEN values \cup {h.node} ELSE values
<1>1. h \in [node : Nodes, result : Results, wasFailing : BOOLEAN]
  BY DEF TypeOK
<1>2. CASE h.result = "Completed"
  BY <1>1, <1>2 DEF ReduceOutcome, ReduceSuccess, TypeOK
<1>3. CASE h.result = "Failed"
  BY <1>1, <1>3 DEF ReduceOutcome, FailNode, TypeOK
<1>4. CASE h.result = "Cancelled"
  BY <1>1, <1>4 DEF ReduceOutcome, TypeOK
<1> QED
  BY <1>1, <1>2, <1>3, <1>4 DEF Results

\* The outcomes, by what they say.
LEMMA OutcomeTypes == {"None", "Running"} \cup Terminal \cup Results = Outcomes 
  BY DEF Outcomes, Terminal, Results

-----------------------------------------------------------------------------
\* Every step keeps the types.
LEMMA TypeStep == IInv /\ [Next]_vars => TypeOK'
<1> SUFFICES ASSUME IInv, [Next]_vars PROVE TypeOK'
  OBVIOUS
<1> USE DEF IInv, TypeOK, Verdicts, Results, Limbo, sessionVars, hostVars, flightVars, stageVars, storeVars, runVars, Goto, Advance, FireFailure
<1>1. ASSUME NEW s \in Stages, AdmitNext(s) PROVE TypeOK'
  BY <1>1, NextIsNode, SettleTypes, OutcomeTypes DEF AdmitNext
<1>2. ASSUME NEW s \in Stages, AdmitCancelled(s) PROVE TypeOK'
  BY <1>2, NextIsNode, SettleTypes, OutcomeTypes DEF AdmitCancelled
<1>3. ASSUME NEW s \in Stages, AdmitNoMore(s) PROVE TypeOK'
  BY <1>3, NextIsNode, SettleTypes, OutcomeTypes DEF AdmitNoMore
<1>4. ASSUME NEW s \in Stages, DecideSkip(s) PROVE TypeOK'
  BY <1>4, NextIsNode, SettleTypes, OutcomeTypes DEF DecideSkip, Terminal
<1>5. ASSUME NEW s \in Stages, DecideExecute(s) PROVE TypeOK'
  BY <1>5, NextIsNode, SettleTypes, OutcomeTypes DEF DecideExecute
<1>6. ASSUME NEW s \in Stages, PrepareCancelled(s) PROVE TypeOK'
  BY <1>6, NextIsNode, SettleTypes, OutcomeTypes DEF PrepareCancelled, Terminal
<1>7. ASSUME NEW s \in Stages, PrepareFails(s) PROVE TypeOK'
  BY <1>7, NextIsNode, SettleTypes, OutcomeTypes DEF PrepareFails, FailNode, Terminal
<1>8. ASSUME NEW s \in Stages, PrepareNode(s) PROVE TypeOK'
  BY <1>8, NextIsNode, SettleTypes, OutcomeTypes DEF PrepareNode
<1>9. ASSUME NEW s \in Stages, BudgetReject(s) PROVE TypeOK'
  BY <1>9, NextIsNode, SettleTypes, OutcomeTypes DEF BudgetReject, FailNode, Terminal
<1>10. ASSUME NEW s \in Stages, BudgetWait(s) PROVE TypeOK'
  BY <1>10, NextIsNode, SettleTypes, OutcomeTypes DEF BudgetWait
<1>11. ASSUME NEW s \in Stages, BudgetAdmit(s) PROVE TypeOK'
  BY <1>11, NextIsNode, SettleTypes, OutcomeTypes DEF BudgetAdmit
<1>12. ASSUME NEW s \in Stages, AdmitNode(s) PROVE TypeOK'
  BY <1>12, NextIsNode, SettleTypes, OutcomeTypes DEF AdmitNode, Outcomes
<1>13. ASSUME NEW s \in Stages, Reduce(s) PROVE TypeOK'
  <2>1. PICK h \in held[s] : ReduceOutcome(h)
    BY <1>13 DEF Reduce
  <2>2. failing' \in BOOLEAN /\ values' \subseteq Nodes
    BY <2>1, ReducedNode DEF Results
  <2>3. outcome' \in [Nodes -> Outcomes] /\ events' \in [Nodes -> Nat]
    BY <2>1, ReducedNode, SettleTypes, OutcomeTypes
  <2> QED
    BY <1>13, <2>2, <2>3 DEF Reduce, LoopHead
<1>14. ASSUME NEW s \in Stages, ReduceStops(s) PROVE TypeOK'
  <2>1. PICK h \in held[s] : ReduceOutcome(h)
    BY <1>14 DEF ReduceStops
  <2>2. failing' \in BOOLEAN /\ values' \subseteq Nodes
    BY <2>1, ReducedNode DEF Results
  <2>3. outcome' \in [Nodes -> Outcomes] /\ events' \in [Nodes -> Nat]
    BY <2>1, ReducedNode, SettleTypes, OutcomeTypes
  <2> QED
    BY <1>14, <2>2, <2>3 DEF ReduceStops, LoopHead
<1>15. ASSUME NEW s \in Stages, Drain(s) PROVE TypeOK'
  BY <1>15, UnsettledRemaining, SettleTypes, OutcomeTypes, OrderFacts DEF Drain, Terminal
<1>16. ASSUME NEW s \in Stages, DropStageScoped(s) PROVE TypeOK'
  BY <1>16, NextIsNode, SettleTypes, OutcomeTypes DEF DropStageScoped
<1>17. ASSUME NEW s \in Stages, GraceAbort(s) PROVE TypeOK'
  BY <1>17, UnsettledRemaining, SettleTypes, OutcomeTypes, OrderFacts DEF GraceAbort, Terminal
<1>18. ASSUME NEW s \in Stages, NEW n \in Nodes, Expire(s, n) PROVE TypeOK'
  BY <1>18, NextIsNode, SettleTypes, OutcomeTypes DEF Expire, Release, Outcomes, Settle
<1>19. ASSUME NEW s \in Stages, NEW n \in Nodes, JoinPanic(s, n) PROVE TypeOK'
  BY <1>19, NextIsNode, SettleTypes, OutcomeTypes DEF JoinPanic, LoopHead
<1>20. ASSUME NEW s \in Stages, NEW n \in Nodes, NEW r \in Results, Join(s, n, r) PROVE TypeOK'
  BY <1>20, NextIsNode, SettleTypes, OutcomeTypes DEF Join, Release, AlreadyReduced, LoopHead
<1>21. ASSUME BeginGroup PROVE TypeOK'
  BY <1>21, NextIsNode, SettleTypes, OutcomeTypes DEF BeginGroup
<1>22. ASSUME NEW s \in Stages, StartStage(s) PROVE TypeOK'
  BY <1>22, NextIsNode, SettleTypes, OutcomeTypes DEF StartStage
<1>23. ASSUME EndGroup PROVE TypeOK'
  BY <1>23, NextIsNode, SettleTypes, OutcomeTypes DEF EndGroup
<1>24. ASSUME CancelBeforeGroup PROVE TypeOK'
  BY <1>24, NextIsNode, SettleTypes, OutcomeTypes DEF CancelBeforeGroup
<1>25. ASSUME HandleCancellation PROVE TypeOK'
  BY <1>25, NextIsNode, SettleTypes, OutcomeTypes DEF HandleCancellation, Terminal
<1>26. ASSUME Conclude PROVE TypeOK'
  BY <1>26, NextIsNode, SettleTypes, OutcomeTypes DEF Conclude
<1>27. ASSUME PutSummary PROVE TypeOK'
  BY <1>27, NextIsNode, SettleTypes, OutcomeTypes DEF PutSummary
<1>28. ASSUME PutSnapshot PROVE TypeOK'
  BY <1>28, NextIsNode, SettleTypes, OutcomeTypes DEF PutSnapshot
<1>29. ASSUME Finalize PROVE TypeOK'
  BY <1>29, NextIsNode, SettleTypes, OutcomeTypes DEF Finalize
<1>30. ASSUME Cleanup PROVE TypeOK'
  BY <1>30, NextIsNode, SettleTypes, OutcomeTypes DEF Cleanup
<1>31. ASSUME CancelRun PROVE TypeOK'
  BY <1>31, NextIsNode, SettleTypes, OutcomeTypes DEF CancelRun
<1>32. ASSUME NEW n \in Nodes, CancelNode(n) PROVE TypeOK'
  BY <1>32, NextIsNode, SettleTypes, OutcomeTypes DEF CancelNode
<1>33. CASE UNCHANGED vars
  BY <1>33 DEF vars
<1> QED
  BY <1>1, <1>2, <1>3, <1>4, <1>5, <1>6, <1>7, <1>8, <1>9, <1>10, <1>11, <1>12, <1>13, <1>14, <1>15, <1>16, <1>17, <1>18, <1>19, <1>20, <1>21, <1>22, <1>23, <1>24, <1>25, <1>26, <1>27, <1>28, <1>29, <1>30, <1>31, <1>32, <1>33
  DEF Next, StageStep, TimerStep, ExecutorStep, RunnerStep, HostStep

\* Every step keeps the stages' and the runner's positions consistent.
LEMMA ControlStep == IInv /\ [Next]_vars => (Cursor /\ Scheduled /\ Unstarted /\ HeldIsReduced)'
<1> SUFFICES ASSUME IInv, [Next]_vars PROVE (Cursor /\ Scheduled /\ Unstarted /\ HeldIsReduced)'
  OBVIOUS
<1> USE DEF IInv, Cursor, Scheduled, sessionVars, hostVars, flightVars, stageVars, storeVars, runVars, Goto, Advance, FireFailure, TypeOK, More, Unstarted, HeldIsReduced
<1>1. ASSUME NEW s \in Stages, AdmitNext(s) PROVE (Cursor /\ Scheduled /\ Unstarted /\ HeldIsReduced)'
  BY <1>1 DEF AdmitNext
<1>2. ASSUME NEW s \in Stages, AdmitCancelled(s) PROVE (Cursor /\ Scheduled /\ Unstarted /\ HeldIsReduced)'
  BY <1>2 DEF AdmitCancelled
<1>3. ASSUME NEW s \in Stages, AdmitNoMore(s) PROVE (Cursor /\ Scheduled /\ Unstarted /\ HeldIsReduced)'
  BY <1>3 DEF AdmitNoMore
<1>4. ASSUME NEW s \in Stages, DecideSkip(s) PROVE (Cursor /\ Scheduled /\ Unstarted /\ HeldIsReduced)'
  BY <1>4 DEF DecideSkip
<1>5. ASSUME NEW s \in Stages, DecideExecute(s) PROVE (Cursor /\ Scheduled /\ Unstarted /\ HeldIsReduced)'
  BY <1>5 DEF DecideExecute
<1>6. ASSUME NEW s \in Stages, PrepareCancelled(s) PROVE (Cursor /\ Scheduled /\ Unstarted /\ HeldIsReduced)'
  BY <1>6 DEF PrepareCancelled
<1>7. ASSUME NEW s \in Stages, PrepareFails(s) PROVE (Cursor /\ Scheduled /\ Unstarted /\ HeldIsReduced)'
  BY <1>7 DEF PrepareFails, FailNode
<1>8. ASSUME NEW s \in Stages, PrepareNode(s) PROVE (Cursor /\ Scheduled /\ Unstarted /\ HeldIsReduced)'
  BY <1>8 DEF PrepareNode
<1>9. ASSUME NEW s \in Stages, BudgetReject(s) PROVE (Cursor /\ Scheduled /\ Unstarted /\ HeldIsReduced)'
  BY <1>9 DEF BudgetReject, FailNode
<1>10. ASSUME NEW s \in Stages, BudgetWait(s) PROVE (Cursor /\ Scheduled /\ Unstarted /\ HeldIsReduced)'
  BY <1>10 DEF BudgetWait
<1>11. ASSUME NEW s \in Stages, BudgetAdmit(s) PROVE (Cursor /\ Scheduled /\ Unstarted /\ HeldIsReduced)'
  BY <1>11 DEF BudgetAdmit
<1>12. ASSUME NEW s \in Stages, AdmitNode(s) PROVE (Cursor /\ Scheduled /\ Unstarted /\ HeldIsReduced)'
  BY <1>12 DEF AdmitNode
<1>13. ASSUME NEW s \in Stages, Reduce(s) PROVE (Cursor /\ Scheduled /\ Unstarted /\ HeldIsReduced)'
  BY <1>13 DEF Reduce, LoopHead
<1>14. ASSUME NEW s \in Stages, ReduceStops(s) PROVE (Cursor /\ Scheduled /\ Unstarted /\ HeldIsReduced)'
  BY <1>14 DEF ReduceStops
<1>15. ASSUME NEW s \in Stages, Drain(s) PROVE (Cursor /\ Scheduled /\ Unstarted /\ HeldIsReduced)'
  BY <1>15, OrderFacts DEF Drain
<1>16. ASSUME NEW s \in Stages, DropStageScoped(s) PROVE (Cursor /\ Scheduled /\ Unstarted /\ HeldIsReduced)'
  BY <1>16 DEF DropStageScoped
<1>17. ASSUME NEW s \in Stages, GraceAbort(s) PROVE (Cursor /\ Scheduled /\ Unstarted /\ HeldIsReduced)'
  BY <1>17 DEF GraceAbort
<1>18. ASSUME NEW s \in Stages, NEW n \in Nodes, Expire(s, n) PROVE (Cursor /\ Scheduled /\ Unstarted /\ HeldIsReduced)'
  BY <1>18 DEF Expire, Release
<1>19. ASSUME NEW s \in Stages, NEW n \in Nodes, JoinPanic(s, n) PROVE (Cursor /\ Scheduled /\ Unstarted /\ HeldIsReduced)'
  BY <1>19 DEF JoinPanic, LoopHead
<1>20. ASSUME NEW s \in Stages, NEW n \in Nodes, NEW r \in Results, Join(s, n, r) PROVE (Cursor /\ Scheduled /\ Unstarted /\ HeldIsReduced)'
  BY <1>20 DEF Join, Release, AlreadyReduced, LoopHead
<1>21. ASSUME BeginGroup PROVE (Cursor /\ Scheduled /\ Unstarted /\ HeldIsReduced)'
  BY <1>21 DEF BeginGroup
<1>22. ASSUME NEW s \in Stages, StartStage(s) PROVE (Cursor /\ Scheduled /\ Unstarted /\ HeldIsReduced)'
  BY <1>22 DEF StartStage
<1>23. ASSUME EndGroup PROVE (Cursor /\ Scheduled /\ Unstarted /\ HeldIsReduced)'
  BY <1>23 DEF EndGroup
<1>24. ASSUME CancelBeforeGroup PROVE (Cursor /\ Scheduled /\ Unstarted /\ HeldIsReduced)'
  BY <1>24 DEF CancelBeforeGroup
<1>25. ASSUME HandleCancellation PROVE (Cursor /\ Scheduled /\ Unstarted /\ HeldIsReduced)'
  BY <1>25 DEF HandleCancellation
<1>26. ASSUME Conclude PROVE (Cursor /\ Scheduled /\ Unstarted /\ HeldIsReduced)'
  BY <1>26 DEF Conclude
<1>27. ASSUME PutSummary PROVE (Cursor /\ Scheduled /\ Unstarted /\ HeldIsReduced)'
  BY <1>27 DEF PutSummary
<1>28. ASSUME PutSnapshot PROVE (Cursor /\ Scheduled /\ Unstarted /\ HeldIsReduced)'
  BY <1>28 DEF PutSnapshot
<1>29. ASSUME Finalize PROVE (Cursor /\ Scheduled /\ Unstarted /\ HeldIsReduced)'
  BY <1>29 DEF Finalize
<1>30. ASSUME Cleanup PROVE (Cursor /\ Scheduled /\ Unstarted /\ HeldIsReduced)'
  BY <1>30 DEF Cleanup
<1>31. ASSUME CancelRun PROVE (Cursor /\ Scheduled /\ Unstarted /\ HeldIsReduced)'
  BY <1>31 DEF CancelRun
<1>32. ASSUME NEW n \in Nodes, CancelNode(n) PROVE (Cursor /\ Scheduled /\ Unstarted /\ HeldIsReduced)'
  BY <1>32 DEF CancelNode
<1>33. CASE UNCHANGED vars
  BY <1>33 DEF vars
<1> QED
  BY <1>1, <1>2, <1>3, <1>4, <1>5, <1>6, <1>7, <1>8, <1>9, <1>10, <1>11, <1>12, <1>13, <1>14, <1>15, <1>16, <1>17, <1>18, <1>19, <1>20, <1>21, <1>22, <1>23, <1>24, <1>25, <1>26, <1>27, <1>28, <1>29, <1>30, <1>31, <1>32, <1>33
  DEF Next, StageStep, TimerStep, ExecutorStep, RunnerStep, HostStep

-----------------------------------------------------------------------------
\* A step that leaves the nodes alone, starts one, or ends some.
Quiet == UNCHANGED <<outcome, events>> /\ values' \subseteq values

Begins(n) ==
  /\ outcome[n] = "None" /\ \A m \in Upstream(n) : outcome[m] = "Completed"
  /\ outcome' = [outcome EXCEPT ![n] = "Running"] /\ UNCHANGED <<events, values>>

Ends(S, o) ==
  /\ \A n \in S : ~Settled(n)
  /\ o \in {"Completed", "TimedOut"} => \A n \in S : outcome[n] = "Running"
  /\ Settle(S, o)
  /\ values' \subseteq IF o = "Completed" THEN values \cup S ELSE values

NodeStep ==
  \/ Quiet
  \/ \E n \in Nodes : Begins(n)
  \/ \E S \in SUBSET Nodes, o \in Terminal : Ends(S, o)

\* Every step of a stage, a timer, an executor, the runner or the host quietly
\* leaves the nodes alone, starts one, or ends some that run or never started.
LEMMA NodesStep == IInv /\ [Next]_vars => NodeStep
<1> SUFFICES ASSUME IInv, [Next]_vars PROVE NodeStep
  OBVIOUS
<1> USE DEF IInv, sessionVars, hostVars, flightVars, stageVars, storeVars, runVars
<1>1. ASSUME NEW s \in Stages, AdmitNext(s) PROVE NodeStep
  BY <1>1 DEF AdmitNext, NodeStep, Quiet
<1>2. ASSUME NEW s \in Stages, AdmitCancelled(s) PROVE NodeStep
  BY <1>2 DEF AdmitCancelled, NodeStep, Quiet
<1>3. ASSUME NEW s \in Stages, AdmitNoMore(s) PROVE NodeStep
  BY <1>3 DEF AdmitNoMore, NodeStep, Quiet
<1>4. ASSUME NEW s \in Stages, DecideSkip(s) PROVE NodeStep
  <2>1. {Next_(s)} \in SUBSET Nodes
    BY <1>4, NextIsNode DEF DecideSkip
  <2>2. Ends({Next_(s)}, "Skipped")
    BY <1>4, NextIsNode DEF DecideSkip, Ends, Upcoming, Scheduled, Settled, Terminal
  <2> QED
    BY <2>1, <2>2 DEF NodeStep, Terminal
<1>5. ASSUME NEW s \in Stages, DecideExecute(s) PROVE NodeStep
  BY <1>5 DEF DecideExecute, NodeStep, Quiet
<1>6. ASSUME NEW s \in Stages, PrepareCancelled(s) PROVE NodeStep
  <2>1. {Next_(s)} \in SUBSET Nodes
    BY <1>6, NextIsNode DEF PrepareCancelled
  <2>2. Ends({Next_(s)}, "Cancelled")
    BY <1>6, NextIsNode DEF PrepareCancelled, Ends, Upcoming, Scheduled, Settled, Terminal
  <2> QED
    BY <2>1, <2>2 DEF NodeStep, Terminal
<1>7. ASSUME NEW s \in Stages, PrepareFails(s) PROVE NodeStep
  <2>1. {Next_(s)} \in SUBSET Nodes
    BY <1>7, NextIsNode DEF PrepareFails
  <2>2. Ends({Next_(s)}, "Failed")
    BY <1>7, NextIsNode DEF PrepareFails, Ends, Upcoming, Scheduled, Settled, Terminal, FailNode
  <2> QED
    BY <2>1, <2>2 DEF NodeStep, Terminal
<1>8. ASSUME NEW s \in Stages, PrepareNode(s) PROVE NodeStep
  BY <1>8 DEF PrepareNode, NodeStep, Quiet
<1>9. ASSUME NEW s \in Stages, BudgetReject(s) PROVE NodeStep
  <2>1. {Next_(s)} \in SUBSET Nodes
    BY <1>9, NextIsNode DEF BudgetReject
  <2>2. Ends({Next_(s)}, "Failed")
    BY <1>9, NextIsNode DEF BudgetReject, Ends, Upcoming, Scheduled, Settled, Terminal, FailNode
  <2> QED
    BY <2>1, <2>2 DEF NodeStep, Terminal
<1>10. ASSUME NEW s \in Stages, BudgetWait(s) PROVE NodeStep
  BY <1>10 DEF BudgetWait, NodeStep, Quiet
<1>11. ASSUME NEW s \in Stages, BudgetAdmit(s) PROVE NodeStep
  BY <1>11 DEF BudgetAdmit, NodeStep, Quiet
<1>12. ASSUME NEW s \in Stages, AdmitNode(s) PROVE NodeStep
  <2>1. Begins(Next_(s))
    BY <1>12, NextIsNode DEF AdmitNode, Begins, Upcoming, Scheduled, Prepared
  <2> QED
    BY <1>12, <2>1, NextIsNode DEF AdmitNode, NodeStep
<1>13. ASSUME NEW s \in Stages, Reduce(s) PROVE NodeStep
  <2>1. PICK h \in held[s] : ReduceOutcome(h)
    BY <1>13 DEF Reduce
  <2>2. h.node \in Nodes /\ outcome[h.node] = "Running"
    BY <1>13, <2>1, ReducedNode DEF Reduce, Ongoing, OngoingIn
  <2>3. PICK o \in {"Completed", "Failed", "Cancelled"} :
          /\ Settle({h.node}, o)
          /\ values' \subseteq IF o = "Completed" THEN values \cup {h.node} ELSE values
    BY <2>1, ReducedNode
  <2>4. Ends({h.node}, o)
    BY <2>2, <2>3 DEF Ends, Settled, Terminal
  <2> QED
    BY <2>2, <2>4 DEF NodeStep, Terminal
<1>14. ASSUME NEW s \in Stages, ReduceStops(s) PROVE NodeStep
  <2>1. PICK h \in held[s] : ReduceOutcome(h)
    BY <1>14 DEF ReduceStops
  <2>2. h.node \in Nodes /\ outcome[h.node] = "Running"
    BY <1>14, <2>1, ReducedNode DEF ReduceStops, Ongoing, OngoingIn
  <2>3. PICK o \in {"Completed", "Failed", "Cancelled"} :
          /\ Settle({h.node}, o)
          /\ values' \subseteq IF o = "Completed" THEN values \cup {h.node} ELSE values
    BY <2>1, ReducedNode
  <2>4. Ends({h.node}, o)
    BY <2>2, <2>3 DEF Ends, Settled, Terminal
  <2> QED
    BY <2>2, <2>4 DEF NodeStep, Terminal
<1>15. ASSUME NEW s \in Stages, Drain(s) PROVE NodeStep
  <2>1. CASE failing
    <3>1. Ends(Unsettled(Remaining(s)), "Skipped")
      BY <1>15, <2>1 DEF Drain, Ends, Unsettled
    <3> QED
      BY <3>1, UnsettledRemaining DEF NodeStep, Terminal
  <2>2. CASE ~failing
    BY <1>15, <2>2 DEF Drain, NodeStep, Quiet
  <2> QED
    BY <2>1, <2>2
<1>16. ASSUME NEW s \in Stages, DropStageScoped(s) PROVE NodeStep
  BY <1>16 DEF DropStageScoped, NodeStep, Quiet
<1>17. ASSUME NEW s \in Stages, GraceAbort(s) PROVE NodeStep
  <2>1. Unsettled(Remaining(s)) \in SUBSET Nodes
    BY <1>17, UnsettledRemaining DEF GraceAbort
  <2>2. Ends(Unsettled(Remaining(s)), "Skipped")
    BY <1>17, UnsettledRemaining DEF GraceAbort, Ends, Unsettled
  <2> QED
    BY <2>1, <2>2 DEF NodeStep, Terminal
<1>18. ASSUME NEW s \in Stages, NEW n \in Nodes, Expire(s, n) PROVE NodeStep
  <2>1. {n} \in SUBSET Nodes
    BY <1>18 DEF Expire
  <2>2. Ends({n}, "TimedOut")
    BY <1>18 DEF Expire, Ends, Ongoing, OngoingIn, Settled, Terminal
  <2> QED
    BY <2>1, <2>2 DEF NodeStep, Terminal
<1>19. ASSUME NEW s \in Stages, NEW n \in Nodes, JoinPanic(s, n) PROVE NodeStep
  BY <1>19 DEF JoinPanic, NodeStep, Quiet
<1>20. ASSUME NEW s \in Stages, NEW n \in Nodes, NEW r \in Results, Join(s, n, r) PROVE NodeStep
  BY <1>20 DEF Join, NodeStep, Quiet
<1>21. ASSUME BeginGroup PROVE NodeStep
  BY <1>21 DEF BeginGroup, NodeStep, Quiet
<1>22. ASSUME NEW s \in Stages, StartStage(s) PROVE NodeStep
  BY <1>22 DEF StartStage, NodeStep, Quiet
<1>23. ASSUME EndGroup PROVE NodeStep
  BY <1>23 DEF EndGroup, NodeStep, Quiet
<1>24. ASSUME CancelBeforeGroup PROVE NodeStep
  BY <1>24 DEF CancelBeforeGroup, NodeStep, Quiet
<1>25. ASSUME HandleCancellation PROVE NodeStep
  <2>1. Unsettled(Nodes) \in SUBSET Nodes
    BY DEF Unsettled
  <2>2. Ends(Unsettled(Nodes), "Cancelled")
    BY <1>25 DEF HandleCancellation, Ends, Unsettled
  <2> QED
    BY <2>1, <2>2 DEF NodeStep, Terminal
<1>26. ASSUME Conclude PROVE NodeStep
  BY <1>26 DEF Conclude, NodeStep, Quiet
<1>27. ASSUME PutSummary PROVE NodeStep
  BY <1>27 DEF PutSummary, NodeStep, Quiet
<1>28. ASSUME PutSnapshot PROVE NodeStep
  BY <1>28 DEF PutSnapshot, NodeStep, Quiet
<1>29. ASSUME Finalize PROVE NodeStep
  BY <1>29 DEF Finalize, NodeStep, Quiet
<1>30. ASSUME Cleanup PROVE NodeStep
  BY <1>30 DEF Cleanup, NodeStep, Quiet
<1>31. ASSUME CancelRun PROVE NodeStep
  BY <1>31 DEF CancelRun, NodeStep, Quiet
<1>32. ASSUME NEW n \in Nodes, CancelNode(n) PROVE NodeStep
  BY <1>32 DEF CancelNode, NodeStep, Quiet
<1>33. CASE UNCHANGED vars
  BY <1>33 DEF vars, NodeStep, Quiet
<1> QED
  BY <1>1, <1>2, <1>3, <1>4, <1>5, <1>6, <1>7, <1>8, <1>9, <1>10, <1>11, <1>12, <1>13, <1>14, <1>15, <1>16, <1>17, <1>18, <1>19, <1>20, <1>21, <1>22, <1>23, <1>24, <1>25, <1>26, <1>27, <1>28, <1>29, <1>30, <1>31, <1>32, <1>33
  DEF Next, StageStep, TimerStep, ExecutorStep, RunnerStep, HostStep

\* Upstream nodes are nodes of the plan.
LEMMA UpstreamInPlan == \A n : Upstream(n) \subseteq Nodes
<1>1. \A e \in Edges : e[1] \in Nodes
  BY PlanAssumption
<1> QED
  BY <1>1 DEF Upstream

\* What has ended keeps its outcome.
LEMMA CompletedStays ==
  ASSUME TypeOK, NodeStep, NEW m \in Nodes, Settled(m)
  PROVE  outcome'[m] = outcome[m]
  BY DEF NodeStep, Quiet, Begins, Ends, Settle, Settled, Terminal, TypeOK

\* Starting and ending nodes that way keeps the value store, the events and the
\* dataflow order right.
LEMMA HistoryStep ==
  ASSUME IInv, NodeStep
  PROVE  (Stored /\ OneTerminalEvent /\ DataflowOrder)'
<1> USE DEF IInv, TypeOK, Stored, OneTerminalEvent, Settled, Terminal
<1>1. CASE Quiet
  BY <1>1 DEF Quiet, DataflowOrder
<1>2. ASSUME NEW n \in Nodes, Begins(n) PROVE (Stored /\ OneTerminalEvent /\ DataflowOrder)'
  <2>1. (Stored /\ OneTerminalEvent)'
    BY <1>2 DEF Begins
  <2>2. DataflowOrder'
    BY <1>2, UpstreamInPlan DEF Begins, DataflowOrder
  <2> QED
    BY <2>1, <2>2
<1>3. ASSUME NEW S \in SUBSET Nodes, NEW o \in Terminal, Ends(S, o)
      PROVE  (Stored /\ OneTerminalEvent /\ DataflowOrder)'
  <2>1. Stored'
    BY <1>3 DEF Ends, Settle
  <2>2. OneTerminalEvent'
    BY <1>3 DEF Ends, Settle
  <2>3. DataflowOrder'
    BY <1>3, UpstreamInPlan DEF Ends, Settle, DataflowOrder
  <2> QED
    BY <2>1, <2>2, <2>3
<1> QED
  BY <1>1, <1>2, <1>3 DEF NodeStep

\* What is left to admit depends on the cursor only.
LEMMA RemainingFrame == UNCHANGED nextIndex => \A t : Remaining(t)' = Remaining(t)
  BY DEF Remaining

\* A node of one stage is not left to admit in another.
LEMMA OthersRemain ==
  ASSUME TypeOK, NEW s \in Stages, NEW t \in Stages, s # t, NEW n \in StageNodes(s)
  PROVE  n \notin Remaining(t)
  BY StagesDisjoint, RemainingInStage DEF TypeOK

\* Ending nodes of a stage that are behind its cursor disturbs no upcoming node.
LEMMA UpcomingKept ==
  ASSUME IInv, NEW s \in Stages, pc[s] \notin {"idle", "drop", "done"},
         NEW S \in SUBSET StageNodes(s),
         \A m \in Nodes \ S : outcome'[m] = outcome[m],
         UNCHANGED runPc,
         \A t \in Stages \ {s} : Remaining(t)' = Remaining(t) /\ pc'[t] = pc[t],
         pc'[s] = "drop" \/ Remaining(s)' \subseteq Remaining(s) \ S
  PROVE  Upcoming'
<1> USE DEF IInv, TypeOK
<1> SUFFICES ASSUME runPc' \in {"groups", "stages", "cancel"},
                    NEW t \in Stages, pc'[t] \notin {"drop", "done"}, NEW n \in Remaining(t)'
             PROVE  outcome'[n] = "None"
  BY DEF Upcoming
<1>1. n \in Remaining(t) \ S /\ pc[t] \notin {"drop", "done"}
  <2>1. CASE t = s
    BY <2>1
  <2>2. CASE t # s
    BY <2>2, OthersRemain
  <2> QED
    BY <2>1, <2>2
<1>2. n \in Nodes
  BY <1>1, RemainingInStage, StageNodesInPlan
<1> QED
  BY <1>1, <1>2 DEF Upcoming

\* No step gives an outcome to a node its stage has not reached.
LEMMA UpcomingStep == IInv /\ [Next]_vars => Upcoming'
<1> SUFFICES ASSUME IInv, [Next]_vars PROVE Upcoming'
  OBVIOUS
<1> USE DEF IInv, TypeOK, Scheduled, Upcoming, sessionVars, hostVars, flightVars, stageVars, storeVars, runVars, Goto
<1>1. ASSUME NEW s \in Stages, AdmitNext(s) PROVE Upcoming'
  BY <1>1, RemainingFrame DEF AdmitNext
<1>2. ASSUME NEW s \in Stages, AdmitCancelled(s) PROVE Upcoming'
  BY <1>2, RemainingFrame DEF AdmitCancelled
<1>3. ASSUME NEW s \in Stages, AdmitNoMore(s) PROVE Upcoming'
  BY <1>3, RemainingFrame DEF AdmitNoMore
<1>4. ASSUME NEW s \in Stages, DecideSkip(s) PROVE Upcoming'
  <2>1. {Next_(s)} \in SUBSET StageNodes(s) /\ \A m \in Nodes \ {Next_(s)} : outcome'[m] = outcome[m]
    BY <1>4, NextIsNode, AdvancePasses DEF DecideSkip, Settle
  <2>2. \A t \in Stages \ {s} : Remaining(t)' = Remaining(t) /\ pc'[t] = pc[t]
    BY <1>4, NextIsNode, AdvancePasses DEF DecideSkip
  <2>3. pc'[s] = "drop" \/ Remaining(s)' \subseteq Remaining(s) \ {Next_(s)}
    BY <1>4, NextIsNode, AdvancePasses DEF DecideSkip
  <2>4. pc[s] \notin {"idle", "drop", "done"} /\ UNCHANGED runPc
    BY <1>4 DEF DecideSkip
  <2> HIDE DEF IInv, TypeOK, Scheduled, Upcoming
  <2> QED
    BY <2>1, <2>2, <2>3, <2>4, UpcomingKept
<1>5. ASSUME NEW s \in Stages, DecideExecute(s) PROVE Upcoming'
  BY <1>5, RemainingFrame DEF DecideExecute
<1>6. ASSUME NEW s \in Stages, PrepareCancelled(s) PROVE Upcoming'
  <2>1. {Next_(s)} \in SUBSET StageNodes(s) /\ \A m \in Nodes \ {Next_(s)} : outcome'[m] = outcome[m]
    BY <1>6, NextIsNode, AdvancePasses DEF PrepareCancelled, Settle
  <2>2. \A t \in Stages \ {s} : Remaining(t)' = Remaining(t) /\ pc'[t] = pc[t]
    BY <1>6, NextIsNode, AdvancePasses DEF PrepareCancelled
  <2>3. pc'[s] = "drop" \/ Remaining(s)' \subseteq Remaining(s) \ {Next_(s)}
    BY <1>6, NextIsNode, AdvancePasses DEF PrepareCancelled
  <2>4. pc[s] \notin {"idle", "drop", "done"} /\ UNCHANGED runPc
    BY <1>6 DEF PrepareCancelled
  <2> HIDE DEF IInv, TypeOK, Scheduled, Upcoming
  <2> QED
    BY <2>1, <2>2, <2>3, <2>4, UpcomingKept
<1>7. ASSUME NEW s \in Stages, PrepareFails(s) PROVE Upcoming'
  <2>1. {Next_(s)} \in SUBSET StageNodes(s) /\ \A m \in Nodes \ {Next_(s)} : outcome'[m] = outcome[m]
    BY <1>7, NextIsNode, AdvancePasses DEF PrepareFails, Settle, FailNode
  <2>2. \A t \in Stages \ {s} : Remaining(t)' = Remaining(t) /\ pc'[t] = pc[t]
    BY <1>7, NextIsNode, AdvancePasses DEF PrepareFails
  <2>3. pc'[s] = "drop" \/ Remaining(s)' \subseteq Remaining(s) \ {Next_(s)}
    BY <1>7, NextIsNode, AdvancePasses DEF PrepareFails, FailNode
  <2>4. pc[s] \notin {"idle", "drop", "done"} /\ UNCHANGED runPc
    BY <1>7 DEF PrepareFails
  <2> HIDE DEF IInv, TypeOK, Scheduled, Upcoming
  <2> QED
    BY <2>1, <2>2, <2>3, <2>4, UpcomingKept
<1>8. ASSUME NEW s \in Stages, PrepareNode(s) PROVE Upcoming'
  BY <1>8, RemainingFrame DEF PrepareNode
<1>9. ASSUME NEW s \in Stages, BudgetReject(s) PROVE Upcoming'
  <2>1. {Next_(s)} \in SUBSET StageNodes(s) /\ \A m \in Nodes \ {Next_(s)} : outcome'[m] = outcome[m]
    BY <1>9, NextIsNode, AdvancePasses DEF BudgetReject, Settle, FailNode
  <2>2. \A t \in Stages \ {s} : Remaining(t)' = Remaining(t) /\ pc'[t] = pc[t]
    BY <1>9, NextIsNode, AdvancePasses DEF BudgetReject
  <2>3. pc'[s] = "drop" \/ Remaining(s)' \subseteq Remaining(s) \ {Next_(s)}
    BY <1>9, NextIsNode, AdvancePasses DEF BudgetReject, FailNode
  <2>4. pc[s] \notin {"idle", "drop", "done"} /\ UNCHANGED runPc
    BY <1>9 DEF BudgetReject
  <2> HIDE DEF IInv, TypeOK, Scheduled, Upcoming
  <2> QED
    BY <2>1, <2>2, <2>3, <2>4, UpcomingKept
<1>10. ASSUME NEW s \in Stages, BudgetWait(s) PROVE Upcoming'
  BY <1>10, RemainingFrame DEF BudgetWait
<1>11. ASSUME NEW s \in Stages, BudgetAdmit(s) PROVE Upcoming'
  BY <1>11, RemainingFrame DEF BudgetAdmit
<1>12. ASSUME NEW s \in Stages, AdmitNode(s) PROVE Upcoming'
  BY <1>12, NextIsNode, AdvancePasses, OthersRemain DEF AdmitNode
<1>13. ASSUME NEW s \in Stages, Reduce(s) PROVE Upcoming'
  <2>1. PICK h \in held[s] : ReduceOutcome(h)
    BY <1>13 DEF Reduce
  <2>2. h.node \in StageNodes(s) /\ outcome[h.node] = "Running"
    BY <1>13, <2>1 DEF Reduce, Ongoing, OngoingIn
  <2>3. \A m \in Nodes \ {h.node} : outcome'[m] = outcome[m]
    BY <2>1, ReducedNode DEF Settle
  <2> QED
    BY <1>13, <2>2, <2>3, RemainingFrame, OthersRemain, StageNodesInPlan, RemainingInStage DEF Reduce
<1>14. ASSUME NEW s \in Stages, ReduceStops(s) PROVE Upcoming'
  <2>1. PICK h \in held[s] : ReduceOutcome(h)
    BY <1>14 DEF ReduceStops
  <2>2. h.node \in StageNodes(s) /\ outcome[h.node] = "Running"
    BY <1>14, <2>1 DEF ReduceStops, Ongoing, OngoingIn
  <2>3. \A m \in Nodes \ {h.node} : outcome'[m] = outcome[m]
    BY <2>1, ReducedNode DEF Settle
  <2> QED
    BY <1>14, <2>2, <2>3, RemainingFrame, OthersRemain, StageNodesInPlan, RemainingInStage DEF ReduceStops
<1>15. ASSUME NEW s \in Stages, Drain(s) PROVE Upcoming'
  <2>1. Unsettled(Remaining(s)) \in SUBSET StageNodes(s) /\ \A m \in Nodes \ Unsettled(Remaining(s)) : outcome'[m] = outcome[m]
    BY <1>15, UnsettledRemaining DEF Drain, Settle
  <2>2. \A t \in Stages \ {s} : Remaining(t)' = Remaining(t) /\ pc'[t] = pc[t]
    BY <1>15 DEF Drain, Remaining
  <2>3. pc'[s] = "drop" \/ Remaining(s)' \subseteq Remaining(s) \ Unsettled(Remaining(s))
    BY <1>15, UnsettledRemaining DEF Drain
  <2>4. pc[s] \notin {"idle", "drop", "done"} /\ UNCHANGED runPc
    BY <1>15 DEF Drain
  <2> HIDE DEF IInv, TypeOK, Scheduled, Upcoming
  <2> QED
    BY <2>1, <2>2, <2>3, <2>4, UpcomingKept
<1>16. ASSUME NEW s \in Stages, DropStageScoped(s) PROVE Upcoming'
  BY <1>16, RemainingFrame DEF DropStageScoped
<1>17. ASSUME NEW s \in Stages, GraceAbort(s) PROVE Upcoming'
  <2>1. Unsettled(Remaining(s)) \in SUBSET StageNodes(s) /\ \A m \in Nodes \ Unsettled(Remaining(s)) : outcome'[m] = outcome[m]
    BY <1>17, UnsettledRemaining, RemainingFrame DEF GraceAbort, Settle
  <2>2. \A t \in Stages \ {s} : Remaining(t)' = Remaining(t) /\ pc'[t] = pc[t]
    BY <1>17, UnsettledRemaining, RemainingFrame DEF GraceAbort
  <2>3. pc'[s] = "drop" \/ Remaining(s)' \subseteq Remaining(s) \ Unsettled(Remaining(s))
    BY <1>17, UnsettledRemaining, RemainingFrame DEF GraceAbort
  <2>4. pc[s] \notin {"idle", "drop", "done"} /\ UNCHANGED runPc
    BY <1>17 DEF GraceAbort
  <2> HIDE DEF IInv, TypeOK, Scheduled, Upcoming
  <2> QED
    BY <2>1, <2>2, <2>3, <2>4, UpcomingKept
<1>18. ASSUME NEW s \in Stages, NEW n \in Nodes, Expire(s, n) PROVE Upcoming'
  <2>1. {n} \in SUBSET StageNodes(s) /\ \A m \in Nodes \ {n} : outcome'[m] = outcome[m]
    BY <1>18, RemainingFrame DEF Expire, Settle, Ongoing, OngoingIn
  <2>2. \A t \in Stages \ {s} : Remaining(t)' = Remaining(t) /\ pc'[t] = pc[t]
    BY <1>18, RemainingFrame DEF Expire
  <2>3. pc'[s] = "drop" \/ Remaining(s)' \subseteq Remaining(s) \ {n}
    <3>1. outcome[n] = "Running"
      BY <1>18 DEF Expire, Ongoing, OngoingIn
    <3>2. n \notin Remaining(s)
      BY <1>18, <3>1 DEF Expire
    <3> QED
      BY <1>18, <3>2, RemainingFrame DEF Expire
  <2>4. pc[s] \notin {"idle", "drop", "done"} /\ UNCHANGED runPc
    BY <1>18 DEF Expire
  <2> HIDE DEF IInv, TypeOK, Scheduled, Upcoming
  <2> QED
    BY <2>1, <2>2, <2>3, <2>4, UpcomingKept
<1>19. ASSUME NEW s \in Stages, NEW n \in Nodes, JoinPanic(s, n) PROVE Upcoming'
  BY <1>19, RemainingFrame DEF JoinPanic, LoopHead
<1>20. ASSUME NEW s \in Stages, NEW n \in Nodes, NEW r \in Results, Join(s, n, r) PROVE Upcoming'
  BY <1>20, RemainingFrame DEF Join, Release, AlreadyReduced, LoopHead
<1>21. ASSUME BeginGroup PROVE Upcoming'
  BY <1>21, RemainingFrame DEF BeginGroup
<1>22. ASSUME NEW s \in Stages, StartStage(s) PROVE Upcoming'
  BY <1>22, RemainingFrame DEF StartStage
<1>23. ASSUME EndGroup PROVE Upcoming'
  BY <1>23, RemainingFrame DEF EndGroup
<1>24. ASSUME CancelBeforeGroup PROVE Upcoming'
  BY <1>24, RemainingFrame DEF CancelBeforeGroup
<1>25. ASSUME HandleCancellation PROVE Upcoming'
  BY <1>25, RemainingFrame DEF HandleCancellation
<1>26. ASSUME Conclude PROVE Upcoming'
  BY <1>26, RemainingFrame DEF Conclude
<1>27. ASSUME PutSummary PROVE Upcoming'
  BY <1>27, RemainingFrame DEF PutSummary
<1>28. ASSUME PutSnapshot PROVE Upcoming'
  BY <1>28, RemainingFrame DEF PutSnapshot
<1>29. ASSUME Finalize PROVE Upcoming'
  BY <1>29, RemainingFrame DEF Finalize
<1>30. ASSUME Cleanup PROVE Upcoming'
  BY <1>30, RemainingFrame DEF Cleanup
<1>31. ASSUME CancelRun PROVE Upcoming'
  BY <1>31, RemainingFrame DEF CancelRun
<1>32. ASSUME NEW n \in Nodes, CancelNode(n) PROVE Upcoming'
  BY <1>32, RemainingFrame DEF CancelNode
<1>33. CASE UNCHANGED vars
  BY <1>33, RemainingFrame DEF vars
<1> QED
  BY <1>1, <1>2, <1>3, <1>4, <1>5, <1>6, <1>7, <1>8, <1>9, <1>10, <1>11, <1>12, <1>13, <1>14, <1>15, <1>16, <1>17, <1>18, <1>19, <1>20, <1>21, <1>22, <1>23, <1>24, <1>25, <1>26, <1>27, <1>28, <1>29, <1>30, <1>31, <1>32, <1>33
  DEF Next, StageStep, TimerStep, ExecutorStep, RunnerStep, HostStep

\* A stage that ends nodes of its own disturbs no other stage.
LEMMA OngoingKept ==
  ASSUME IInv, NEW s \in Stages, NEW S \in SUBSET StageNodes(s),
         \A m \in Nodes \ S : outcome'[m] = outcome[m],
         \A t \in Stages \ {s} : /\ pc'[t] = pc[t] /\ inFlight'[t] = inFlight[t]
                                 /\ armed'[t] = armed[t] /\ held'[t] = held[t],
         OngoingIn(s)'
  PROVE  Ongoing'
<1> SUFFICES ASSUME NEW t \in Stages \ {s} PROVE OngoingIn(t)'
  BY DEF Ongoing
<1>1. OngoingIn(t)
  BY DEF IInv, Ongoing
<1>2. \A m \in StageNodes(t) : outcome'[m] = outcome[m]
  BY StagesDisjoint, StageNodesInPlan
<1>3. \A h \in held[t] : h.node \in Nodes
  BY DEF IInv, TypeOK
<1> QED
  BY <1>1, <1>2, <1>3 DEF OngoingIn

\* A stage tracks running nodes only, whichever of result, deadline, failure and
\* cancellation comes next.
LEMMA OngoingStep == IInv /\ [Next]_vars => Ongoing'
<1> SUFFICES ASSUME IInv, [Next]_vars PROVE Ongoing'
  OBVIOUS
<1> USE DEF IInv, TypeOK, Scheduled, sessionVars, hostVars, flightVars, stageVars, storeVars, runVars, Goto
<1>1. ASSUME NEW s \in Stages, AdmitNext(s) PROVE Ongoing'
  BY <1>1 DEF AdmitNext, Ongoing, OngoingIn
<1>2. ASSUME NEW s \in Stages, AdmitCancelled(s) PROVE Ongoing'
  BY <1>2 DEF AdmitCancelled, Ongoing, OngoingIn
<1>3. ASSUME NEW s \in Stages, AdmitNoMore(s) PROVE Ongoing'
  BY <1>3 DEF AdmitNoMore, Ongoing, OngoingIn
<1>4. ASSUME NEW s \in Stages, DecideSkip(s) PROVE Ongoing'
  <2>1. {Next_(s)} \in SUBSET StageNodes(s) /\ \A m \in Nodes \ {Next_(s)} : outcome'[m] = outcome[m]
    BY <1>4, NextIsNode DEF DecideSkip, Settle
  <2>2. \A t \in Stages \ {s} : /\ pc'[t] = pc[t] /\ inFlight'[t] = inFlight[t]
                                 /\ armed'[t] = armed[t] /\ held'[t] = held[t]
    BY <1>4 DEF DecideSkip
  <2>3. OngoingIn(s)'
    <3>1. outcome[Next_(s)] = "None"
      BY <1>4, NextIsNode DEF DecideSkip, Upcoming
    <3> QED
      BY <1>4, <3>1, NextIsNode, StageNodesInPlan DEF DecideSkip, Settle, Ongoing, OngoingIn
  <2> HIDE DEF IInv
  <2> QED
    BY <2>1, <2>2, <2>3, OngoingKept
<1>5. ASSUME NEW s \in Stages, DecideExecute(s) PROVE Ongoing'
  BY <1>5 DEF DecideExecute, Ongoing, OngoingIn
<1>6. ASSUME NEW s \in Stages, PrepareCancelled(s) PROVE Ongoing'
  <2>1. {Next_(s)} \in SUBSET StageNodes(s) /\ \A m \in Nodes \ {Next_(s)} : outcome'[m] = outcome[m]
    BY <1>6, NextIsNode DEF PrepareCancelled, Settle
  <2>2. \A t \in Stages \ {s} : /\ pc'[t] = pc[t] /\ inFlight'[t] = inFlight[t]
                                 /\ armed'[t] = armed[t] /\ held'[t] = held[t]
    BY <1>6 DEF PrepareCancelled
  <2>3. OngoingIn(s)'
    <3>1. outcome[Next_(s)] = "None"
      BY <1>6, NextIsNode DEF PrepareCancelled, Upcoming
    <3> QED
      BY <1>6, <3>1, NextIsNode, StageNodesInPlan DEF PrepareCancelled, Settle, Ongoing, OngoingIn
  <2> HIDE DEF IInv
  <2> QED
    BY <2>1, <2>2, <2>3, OngoingKept
<1>7. ASSUME NEW s \in Stages, PrepareFails(s) PROVE Ongoing'
  <2>1. {Next_(s)} \in SUBSET StageNodes(s) /\ \A m \in Nodes \ {Next_(s)} : outcome'[m] = outcome[m]
    BY <1>7, NextIsNode DEF PrepareFails, Settle, FailNode
  <2>2. \A t \in Stages \ {s} : /\ pc'[t] = pc[t] /\ inFlight'[t] = inFlight[t]
                                 /\ armed'[t] = armed[t] /\ held'[t] = held[t]
    BY <1>7 DEF PrepareFails, FailNode
  <2>3. OngoingIn(s)'
    <3>1. outcome[Next_(s)] = "None"
      BY <1>7, NextIsNode DEF PrepareFails, Upcoming
    <3> QED
      BY <1>7, <3>1, NextIsNode, StageNodesInPlan DEF PrepareFails, FailNode, Settle, Ongoing, OngoingIn
  <2> HIDE DEF IInv
  <2> QED
    BY <2>1, <2>2, <2>3, OngoingKept
<1>8. ASSUME NEW s \in Stages, PrepareNode(s) PROVE Ongoing'
  BY <1>8 DEF PrepareNode, Ongoing, OngoingIn
<1>9. ASSUME NEW s \in Stages, BudgetReject(s) PROVE Ongoing'
  <2>1. {Next_(s)} \in SUBSET StageNodes(s) /\ \A m \in Nodes \ {Next_(s)} : outcome'[m] = outcome[m]
    BY <1>9, NextIsNode DEF BudgetReject, Settle, FailNode
  <2>2. \A t \in Stages \ {s} : /\ pc'[t] = pc[t] /\ inFlight'[t] = inFlight[t]
                                 /\ armed'[t] = armed[t] /\ held'[t] = held[t]
    BY <1>9 DEF BudgetReject, FailNode
  <2>3. OngoingIn(s)'
    <3>1. outcome[Next_(s)] = "None"
      BY <1>9, NextIsNode DEF BudgetReject, Upcoming
    <3> QED
      BY <1>9, <3>1, NextIsNode, StageNodesInPlan DEF BudgetReject, FailNode, Settle, Ongoing, OngoingIn
  <2> HIDE DEF IInv
  <2> QED
    BY <2>1, <2>2, <2>3, OngoingKept
<1>10. ASSUME NEW s \in Stages, BudgetWait(s) PROVE Ongoing'
  BY <1>10 DEF BudgetWait, Ongoing, OngoingIn
<1>11. ASSUME NEW s \in Stages, BudgetAdmit(s) PROVE Ongoing'
  BY <1>11 DEF BudgetAdmit, Ongoing, OngoingIn
<1>12. ASSUME NEW s \in Stages, AdmitNode(s) PROVE Ongoing'
  <2>1. {Next_(s)} \in SUBSET StageNodes(s) /\ \A m \in Nodes \ {Next_(s)} : outcome'[m] = outcome[m]
    BY <1>12, NextIsNode DEF AdmitNode, Settle
  <2>2. \A t \in Stages \ {s} : /\ pc'[t] = pc[t] /\ inFlight'[t] = inFlight[t]
                                 /\ armed'[t] = armed[t] /\ held'[t] = held[t]
    BY <1>12 DEF AdmitNode
  <2>3. OngoingIn(s)'
    <3>1. held[s] = {} /\ OngoingIn(s)
      BY <1>12 DEF AdmitNode, HeldIsReduced, Ongoing
    <3> QED
      BY <1>12, <3>1, NextIsNode, StageNodesInPlan DEF AdmitNode, OngoingIn
  <2> HIDE DEF IInv
  <2> QED
    BY <2>1, <2>2, <2>3, OngoingKept
<1>13. ASSUME NEW s \in Stages, Reduce(s) PROVE Ongoing'
  <2>4. PICK h \in held[s] : ReduceOutcome(h)
    BY <1>13 DEF Reduce
  <2>5. h.node \in StageNodes(s) \ armed[s]
    BY <1>13, <2>4 DEF Reduce, Ongoing, OngoingIn
  <2>6. /\ \A m \in Nodes \ {h.node} : outcome'[m] = outcome[m]
        /\ h.node \in Nodes /\ outcome'[h.node] # "None"
    BY <2>4, ReducedNode DEF Settle
  <2>2. \A t \in Stages \ {s} : /\ pc'[t] = pc[t] /\ inFlight'[t] = inFlight[t]
                                 /\ armed'[t] = armed[t] /\ held'[t] = held[t]
    BY <1>13 DEF Reduce
  <2>3. OngoingIn(s)'
    BY <1>13, <2>5, <2>6, StageNodesInPlan DEF Reduce, LoopHead, Ongoing, OngoingIn
  <2> HIDE DEF IInv
  <2> QED
    BY <2>5, <2>6, <2>2, <2>3, OngoingKept
<1>14. ASSUME NEW s \in Stages, ReduceStops(s) PROVE Ongoing'
  <2>4. PICK h \in held[s] : ReduceOutcome(h)
    BY <1>14 DEF ReduceStops
  <2>5. h.node \in StageNodes(s) \ armed[s]
    BY <1>14, <2>4 DEF ReduceStops, Ongoing, OngoingIn
  <2>6. /\ \A m \in Nodes \ {h.node} : outcome'[m] = outcome[m]
        /\ h.node \in Nodes /\ outcome'[h.node] # "None"
    BY <2>4, ReducedNode DEF Settle
  <2>2. \A t \in Stages \ {s} : /\ pc'[t] = pc[t] /\ inFlight'[t] = inFlight[t]
                                 /\ armed'[t] = armed[t] /\ held'[t] = held[t]
    BY <1>14 DEF ReduceStops
  <2>3. OngoingIn(s)'
    BY <1>14 DEF ReduceStops, OngoingIn
  <2> HIDE DEF IInv
  <2> QED
    BY <2>5, <2>6, <2>2, <2>3, OngoingKept
<1>15. ASSUME NEW s \in Stages, Drain(s) PROVE Ongoing'
  <2>1. Unsettled(Remaining(s)) \in SUBSET StageNodes(s) /\ \A m \in Nodes \ Unsettled(Remaining(s)) : outcome'[m] = outcome[m]
    BY <1>15, UnsettledRemaining DEF Drain, Settle
  <2>2. \A t \in Stages \ {s} : /\ pc'[t] = pc[t] /\ inFlight'[t] = inFlight[t]
                                 /\ armed'[t] = armed[t] /\ held'[t] = held[t]
    BY <1>15 DEF Drain
  <2>3. OngoingIn(s)'
    BY <1>15 DEF Drain, OngoingIn
  <2> HIDE DEF IInv
  <2> QED
    BY <2>1, <2>2, <2>3, OngoingKept
<1>16. ASSUME NEW s \in Stages, DropStageScoped(s) PROVE Ongoing'
  BY <1>16 DEF DropStageScoped, Ongoing, OngoingIn
<1>17. ASSUME NEW s \in Stages, GraceAbort(s) PROVE Ongoing'
  <2>1. Unsettled(Remaining(s)) \in SUBSET StageNodes(s) /\ \A m \in Nodes \ Unsettled(Remaining(s)) : outcome'[m] = outcome[m]
    BY <1>17, UnsettledRemaining DEF GraceAbort, Settle
  <2>2. \A t \in Stages \ {s} : /\ pc'[t] = pc[t] /\ inFlight'[t] = inFlight[t]
                                 /\ armed'[t] = armed[t] /\ held'[t] = held[t]
    BY <1>17 DEF GraceAbort
  <2>3. OngoingIn(s)'
    BY <1>17 DEF GraceAbort, OngoingIn
  <2> HIDE DEF IInv
  <2> QED
    BY <2>1, <2>2, <2>3, OngoingKept
<1>18. ASSUME NEW s \in Stages, NEW n \in Nodes, Expire(s, n) PROVE Ongoing'
  <2>1. {n} \in SUBSET StageNodes(s) /\ \A m \in Nodes \ {n} : outcome'[m] = outcome[m]
    BY <1>18 DEF Expire, Settle, Release, Ongoing, OngoingIn
  <2>2. \A t \in Stages \ {s} : /\ pc'[t] = pc[t] /\ inFlight'[t] = inFlight[t]
                                 /\ armed'[t] = armed[t] /\ held'[t] = held[t]
    BY <1>18 DEF Expire, Release, Ongoing, OngoingIn
  <2>3. OngoingIn(s)'
    <3>1. held[s] = {} /\ OngoingIn(s)
      BY <1>18 DEF Expire, HeldIsReduced, Ongoing
    <3> QED
      BY <1>18, <3>1 DEF Expire, Settle, OngoingIn
  <2> HIDE DEF IInv
  <2> QED
    BY <2>1, <2>2, <2>3, OngoingKept
<1>19. ASSUME NEW s \in Stages, NEW n \in Nodes, JoinPanic(s, n) PROVE Ongoing'
  <2>1. {} \in SUBSET StageNodes(s) /\ \A m \in Nodes \ {} : outcome'[m] = outcome[m]
    BY <1>19 DEF JoinPanic, Settle
  <2>2. \A t \in Stages \ {s} : /\ pc'[t] = pc[t] /\ inFlight'[t] = inFlight[t]
                                 /\ armed'[t] = armed[t] /\ held'[t] = held[t]
    BY <1>19 DEF JoinPanic
  <2>3. OngoingIn(s)'
    BY <1>19 DEF JoinPanic, Ongoing, OngoingIn
  <2> HIDE DEF IInv
  <2> QED
    BY <2>1, <2>2, <2>3, OngoingKept
<1>20. ASSUME NEW s \in Stages, NEW n \in Nodes, NEW r \in Results, Join(s, n, r) PROVE Ongoing'
  <2>1. {} \in SUBSET StageNodes(s) /\ \A m \in Nodes \ {} : outcome'[m] = outcome[m]
    BY <1>20 DEF Join, Settle, Release
  <2>2. \A t \in Stages \ {s} : /\ pc'[t] = pc[t] /\ inFlight'[t] = inFlight[t]
                                 /\ armed'[t] = armed[t] /\ held'[t] = held[t]
    BY <1>20 DEF Join, Release
  <2>3. OngoingIn(s)'
    <3>1. held[s] = {} /\ OngoingIn(s)
      BY <1>20 DEF Join, HeldIsReduced, Ongoing
    <3> QED
      BY <1>20, <3>1 DEF Join, AlreadyReduced, Settled, Terminal, Outcomes, OngoingIn
  <2> HIDE DEF IInv
  <2> QED
    BY <2>1, <2>2, <2>3, OngoingKept
<1>21. ASSUME BeginGroup PROVE Ongoing'
  BY <1>21 DEF BeginGroup, Ongoing, OngoingIn
<1>22. ASSUME NEW s \in Stages, StartStage(s) PROVE Ongoing'
  BY <1>22 DEF StartStage, Ongoing, OngoingIn
<1>23. ASSUME EndGroup PROVE Ongoing'
  BY <1>23 DEF EndGroup, Ongoing, OngoingIn
<1>24. ASSUME CancelBeforeGroup PROVE Ongoing'
  BY <1>24 DEF CancelBeforeGroup, Ongoing, OngoingIn
<1>25. ASSUME HandleCancellation PROVE Ongoing'
  <2>1. \A s \in Stages : pc[s] \in {"idle", "done"}
    BY <1>25 DEF HandleCancellation
  <2> QED
    BY <1>25, <2>1 DEF HandleCancellation, Unstarted, OngoingIn, Ongoing
<1>26. ASSUME Conclude PROVE Ongoing'
  BY <1>26 DEF Conclude, Ongoing, OngoingIn
<1>27. ASSUME PutSummary PROVE Ongoing'
  BY <1>27 DEF PutSummary, Ongoing, OngoingIn
<1>28. ASSUME PutSnapshot PROVE Ongoing'
  BY <1>28 DEF PutSnapshot, Ongoing, OngoingIn
<1>29. ASSUME Finalize PROVE Ongoing'
  BY <1>29 DEF Finalize, Ongoing, OngoingIn
<1>30. ASSUME Cleanup PROVE Ongoing'
  BY <1>30 DEF Cleanup, Ongoing, OngoingIn
<1>31. ASSUME CancelRun PROVE Ongoing'
  BY <1>31 DEF CancelRun, Ongoing, OngoingIn
<1>32. ASSUME NEW n \in Nodes, CancelNode(n) PROVE Ongoing'
  BY <1>32 DEF CancelNode, Ongoing, OngoingIn
<1>33. CASE UNCHANGED vars
  BY <1>33 DEF vars, Ongoing, OngoingIn
<1> QED
  BY <1>1, <1>2, <1>3, <1>4, <1>5, <1>6, <1>7, <1>8, <1>9, <1>10, <1>11, <1>12, <1>13, <1>14, <1>15, <1>16, <1>17, <1>18, <1>19, <1>20, <1>21, <1>22, <1>23, <1>24, <1>25, <1>26, <1>27, <1>28, <1>29, <1>30, <1>31, <1>32, <1>33
  DEF Next, StageStep, TimerStep, ExecutorStep, RunnerStep, HostStep

\* A stage comes to the budget by binding its next node's inputs, and stays at
\* that node until it admits or fails it.
Passes(s) ==
  pc'[s] \in {"budget", "claim"} =>
    nextIndex'[s] = nextIndex[s] /\ (pc[s] \in {"budget", "claim"} \/ Bindable(Next_(s)))

\* Only binding a node brings its stage to the budget.
LEMMA PassesStep == IInv /\ [Next]_vars => \A t \in Stages : Passes(t)
<1> SUFFICES ASSUME IInv, [Next]_vars PROVE \A t \in Stages : Passes(t)
  OBVIOUS
<1> USE DEF IInv, TypeOK, sessionVars, hostVars, flightVars, stageVars, storeVars, runVars, Goto, Advance, Passes
<1>1. ASSUME NEW s \in Stages, AdmitNext(s) PROVE \A t \in Stages : Passes(t)
  BY <1>1 DEF AdmitNext
<1>2. ASSUME NEW s \in Stages, AdmitCancelled(s) PROVE \A t \in Stages : Passes(t)
  BY <1>2 DEF AdmitCancelled
<1>3. ASSUME NEW s \in Stages, AdmitNoMore(s) PROVE \A t \in Stages : Passes(t)
  BY <1>3 DEF AdmitNoMore
<1>4. ASSUME NEW s \in Stages, DecideSkip(s) PROVE \A t \in Stages : Passes(t)
  BY <1>4 DEF DecideSkip
<1>5. ASSUME NEW s \in Stages, DecideExecute(s) PROVE \A t \in Stages : Passes(t)
  BY <1>5 DEF DecideExecute
<1>6. ASSUME NEW s \in Stages, PrepareCancelled(s) PROVE \A t \in Stages : Passes(t)
  BY <1>6 DEF PrepareCancelled
<1>7. ASSUME NEW s \in Stages, PrepareFails(s) PROVE \A t \in Stages : Passes(t)
  BY <1>7 DEF PrepareFails, FailNode
<1>8. ASSUME NEW s \in Stages, PrepareNode(s) PROVE \A t \in Stages : Passes(t)
  BY <1>8 DEF PrepareNode
<1>9. ASSUME NEW s \in Stages, BudgetReject(s) PROVE \A t \in Stages : Passes(t)
  BY <1>9 DEF BudgetReject, FailNode
<1>10. ASSUME NEW s \in Stages, BudgetWait(s) PROVE \A t \in Stages : Passes(t)
  BY <1>10 DEF BudgetWait
<1>11. ASSUME NEW s \in Stages, BudgetAdmit(s) PROVE \A t \in Stages : Passes(t)
  BY <1>11 DEF BudgetAdmit
<1>12. ASSUME NEW s \in Stages, AdmitNode(s) PROVE \A t \in Stages : Passes(t)
  BY <1>12 DEF AdmitNode
<1>13. ASSUME NEW s \in Stages, Reduce(s) PROVE \A t \in Stages : Passes(t)
  BY <1>13 DEF Reduce, LoopHead
<1>14. ASSUME NEW s \in Stages, ReduceStops(s) PROVE \A t \in Stages : Passes(t)
  BY <1>14 DEF ReduceStops
<1>15. ASSUME NEW s \in Stages, Drain(s) PROVE \A t \in Stages : Passes(t)
  BY <1>15 DEF Drain
<1>16. ASSUME NEW s \in Stages, DropStageScoped(s) PROVE \A t \in Stages : Passes(t)
  BY <1>16 DEF DropStageScoped
<1>17. ASSUME NEW s \in Stages, GraceAbort(s) PROVE \A t \in Stages : Passes(t)
  BY <1>17 DEF GraceAbort
<1>18. ASSUME NEW s \in Stages, NEW n \in Nodes, Expire(s, n) PROVE \A t \in Stages : Passes(t)
  BY <1>18 DEF Expire, Release
<1>19. ASSUME NEW s \in Stages, NEW n \in Nodes, JoinPanic(s, n) PROVE \A t \in Stages : Passes(t)
  BY <1>19 DEF JoinPanic, LoopHead, LoopHead
<1>20. ASSUME NEW s \in Stages, NEW n \in Nodes, NEW r \in Results, Join(s, n, r) PROVE \A t \in Stages : Passes(t)
  BY <1>20 DEF Join, Release, AlreadyReduced, LoopHead, LoopHead, Release
<1>21. ASSUME BeginGroup PROVE \A t \in Stages : Passes(t)
  BY <1>21 DEF BeginGroup
<1>22. ASSUME NEW s \in Stages, StartStage(s) PROVE \A t \in Stages : Passes(t)
  BY <1>22 DEF StartStage
<1>23. ASSUME EndGroup PROVE \A t \in Stages : Passes(t)
  BY <1>23 DEF EndGroup
<1>24. ASSUME CancelBeforeGroup PROVE \A t \in Stages : Passes(t)
  BY <1>24 DEF CancelBeforeGroup
<1>25. ASSUME HandleCancellation PROVE \A t \in Stages : Passes(t)
  BY <1>25 DEF HandleCancellation
<1>26. ASSUME Conclude PROVE \A t \in Stages : Passes(t)
  BY <1>26 DEF Conclude
<1>27. ASSUME PutSummary PROVE \A t \in Stages : Passes(t)
  BY <1>27 DEF PutSummary
<1>28. ASSUME PutSnapshot PROVE \A t \in Stages : Passes(t)
  BY <1>28 DEF PutSnapshot
<1>29. ASSUME Finalize PROVE \A t \in Stages : Passes(t)
  BY <1>29 DEF Finalize
<1>30. ASSUME Cleanup PROVE \A t \in Stages : Passes(t)
  BY <1>30 DEF Cleanup
<1>31. ASSUME CancelRun PROVE \A t \in Stages : Passes(t)
  BY <1>31 DEF CancelRun
<1>32. ASSUME NEW n \in Nodes, CancelNode(n) PROVE \A t \in Stages : Passes(t)
  BY <1>32 DEF CancelNode
<1>33. CASE UNCHANGED vars
  BY <1>33 DEF vars
<1> QED
  BY <1>1, <1>2, <1>3, <1>4, <1>5, <1>6, <1>7, <1>8, <1>9, <1>10, <1>11, <1>12, <1>13, <1>14, <1>15, <1>16, <1>17, <1>18, <1>19, <1>20, <1>21, <1>22, <1>23, <1>24, <1>25, <1>26, <1>27, <1>28, <1>29, <1>30, <1>31, <1>32, <1>33
  DEF Next, StageStep, TimerStep, ExecutorStep, RunnerStep, HostStep

\* The inputs a node was bound to are still complete when it is admitted.
LEMMA PreparedStep == IInv /\ [Next]_vars => Prepared'
<1> SUFFICES ASSUME IInv, [Next]_vars, NEW s \in Stages, pc'[s] \in {"budget", "claim"},
                    NEW m \in Upstream(Next_(s))'
             PROVE  outcome'[m] = "Completed"
  BY DEF Prepared
<1>1. nextIndex'[s] = nextIndex[s] /\ (pc[s] \in {"budget", "claim"} \/ Bindable(Next_(s)))
  BY PassesStep DEF Passes
<1>2. m \in Upstream(Next_(s)) /\ m \in Nodes
  BY <1>1, UpstreamInPlan DEF Next_, Upstream
<1>3. outcome[m] = "Completed"
  BY <1>1, <1>2 DEF IInv, Prepared, Bindable, Stored
<1> QED
  BY <1>2, <1>3, CompletedStays, NodesStep DEF IInv, Settled, Terminal

-----------------------------------------------------------------------------
\* A run begins with nothing started.
LEMMA InitIInv == Init => IInv
<1> SUFFICES ASSUME Init PROVE IInv
  OBVIOUS
<1> USE DEF Init
<1>1. TypeOK
  <2>1. outcome \in [Nodes -> Outcomes] /\ events \in [Nodes -> Nat]
    BY DEF Outcomes
  <2>2. /\ pc \in [Stages -> {"idle"}] /\ nextIndex \in [Stages -> {1}]
        /\ failureCancelled \in [Stages -> BOOLEAN] /\ stageCancelled \in [Stages -> BOOLEAN]
    OBVIOUS
  <2>3. /\ inFlight \in [Stages -> SUBSET Nodes] /\ armed \in [Stages -> SUBSET Nodes]
        /\ expired \in [Stages -> SUBSET Nodes] /\ claimed \in [Stages -> SUBSET Nodes]
    OBVIOUS
  <2>5. held \in [Stages -> SUBSET [node : Nodes, result : Results, wasFailing : BOOLEAN]]
    OBVIOUS
  <2>6. /\ values \subseteq Nodes /\ failing \in BOOLEAN /\ usage \in Nat
        /\ runCancelled \in BOOLEAN /\ nodeCancelled \subseteq Nodes
        /\ runPc = "groups" /\ group \subseteq Stages
    OBVIOUS
  <2>4. {verdict, summary, snapshot} \subseteq Verdicts \cup {Limbo} /\ active \in BOOLEAN
    BY DEF Limbo
  <2> HIDE DEF Init
  <2> QED
    BY <2>1, <2>2, <2>3, <2>4, <2>5, <2>6 DEF TypeOK
<1>2. Cursor /\ Scheduled /\ Unstarted /\ HeldIsReduced /\ Ongoing /\ Prepared /\ Stored
  BY DEF Cursor, Scheduled, Unstarted, HeldIsReduced, Ongoing, OngoingIn, Prepared, Stored
<1>3. Upcoming
  BY RemainingInStage, StageNodesInPlan DEF Upcoming
<1>4. OneTerminalEvent /\ DataflowOrder
  BY DEF OneTerminalEvent, DataflowOrder, Settled, Terminal
<1> QED
  BY <1>1, <1>2, <1>3, <1>4 DEF IInv

\* The inductive invariant holds in every reachable state.
LEMMA IInvAlways == Spec => []IInv
<1>1. IInv /\ [Next]_vars => IInv'
  <2> SUFFICES ASSUME IInv, [Next]_vars PROVE IInv'
    OBVIOUS
  <2>1. TypeOK' /\ (Cursor /\ Scheduled /\ Unstarted /\ HeldIsReduced)'
    BY TypeStep, ControlStep
  <2>2. Upcoming' /\ Ongoing' /\ Prepared'
    BY UpcomingStep, OngoingStep, PreparedStep
  <2>3. (Stored /\ OneTerminalEvent /\ DataflowOrder)'
    BY HistoryStep, NodesStep
  <2> QED
    BY <2>1, <2>2, <2>3 DEF IInv
<1> QED
  BY <1>1, InitIInv, PTL DEF Spec

\* The state of a run stays within its types.
THEOREM TypeCorrect == Spec => []TypeOK
<1>1. IInv => TypeOK
  BY DEF IInv
<1> QED
  BY <1>1, IInvAlways, PTL

\* A node that was started had every upstream node completed before it, in every
\* plan and under every interleaving of stages, deadlines and cancellations.
THEOREM NodesStartOnCompleteInputs == Spec => []DataflowOrder
<1>1. IInv => DataflowOrder
  BY DEF IInv
<1> QED
  BY <1>1, IInvAlways, PTL

\* Every node publishes exactly one terminal event when it ends, whichever of a
\* result, a deadline, a skip and a cancellation comes first.
THEOREM NodesEndOnce == Spec => []OneTerminalEvent
<1>1. IInv => OneTerminalEvent
  BY DEF IInv
<1> QED
  BY <1>1, IInvAlways, PTL

\* No step changes the outcome of a node that ended: a result that arrives after
\* a deadline or a cancellation is dropped.
THEOREM OutcomesAreFinal == Spec => OutcomeFinal
<1>1. IInv /\ [Next]_vars => [\A n \in Nodes : Settled(n) => outcome'[n] = outcome[n]]_vars
  BY NodesStep, CompletedStays DEF IInv
<1> QED
  BY <1>1, IInvAlways, PTL DEF Spec, OutcomeFinal

-----------------------------------------------------------------------------
(* What a step does to the runner's accounts: a summary by kinds of step, and the
   invariants of the budget, the store and the refinement that it carries. *)

\* Its task moves from one await or test to the next.
Walks(s) ==
  /\ pc[s] \in {"admit", "decide", "prepare", "budget"}
  /\ \E label \in {"decide", "prepare", "budget", "claim", "wait", "drain"} :
       /\ Goto(s, label)
       /\ label = "drain" =>
            inFlight[s] = {} /\ (failing \/ ~More(s) \/ Cardinality(inFlight[s]) >= MaxConcurrency)
       /\ label = "claim" => ~Over(HardLimit)
  /\ UNCHANGED <<sessionVars, hostVars, flightVars, nextIndex, failureCancelled,
                 stageCancelled, storeVars, runVars>>

\* It ends its next node instead of starting it.
Refuses(s) ==
  /\ pc[s] \in {"decide", "prepare", "budget"} /\ Goto(s, "admit") /\ Advance(s)
  /\ \E o \in {"Skipped", "Cancelled", "Failed"} :
       Settle({Next_(s)}, o) /\ failing' = (failing \/ o = "Failed")
  /\ values' \in {values, values \ Consumed(Next_(s))}
  /\ UNCHANGED <<hostVars, flightVars, stageCancelled, storeVars, runVars>>

\* The runner moves on, and no stage with it.
Turns ==
  \/ BeginGroup \/ EndGroup \/ CancelBeforeGroup \/ Conclude
  \/ PutSummary \/ PutSnapshot \/ Finalize

\* The runner and its stages are left alone.
Elsewhere == UNCHANGED <<sessionVars, flightVars, stageVars, storeVars, runVars>>

StageActs(s) ==
  \/ Walks(s) \/ Refuses(s) \/ AdmitCancelled(s) \/ AdmitNode(s) \/ Reduce(s) \/ ReduceStops(s)
  \/ Drain(s) \/ DropStageScoped(s) \/ GraceAbort(s) \/ StartStage(s)
  \/ \E n \in Nodes : Expire(s, n) \/ JoinPanic(s, n) \/ \E result \in Results : Join(s, n, result)

\* The steps of a run, by what they do.
LEMMA StepKinds ==
  IInv /\ [Next]_vars =>
    \/ \E s \in Stages : StageActs(s)
    \/ Turns \/ HandleCancellation \/ Cleanup \/ Elsewhere
<1> SUFFICES ASSUME IInv, [Next]_vars
             PROVE  \/ \E s \in Stages : StageActs(s)
                    \/ Turns \/ HandleCancellation \/ Cleanup \/ Elsewhere
  OBVIOUS
<1> USE DEF sessionVars, hostVars, flightVars, stageVars, storeVars, runVars
<1>1. ASSUME NEW s \in Stages,
             AdmitNext(s) \/ AdmitNoMore(s) \/ DecideExecute(s) \/ PrepareNode(s)
               \/ BudgetWait(s) \/ BudgetAdmit(s)
      PROVE  Walks(s)
  BY <1>1 DEF AdmitNext, AdmitNoMore, DecideExecute, PrepareNode, BudgetWait, BudgetAdmit, Walks
<1>2. ASSUME NEW s \in Stages,
             DecideSkip(s) \/ PrepareCancelled(s) \/ PrepareFails(s) \/ BudgetReject(s)
      PROVE  Refuses(s)
  BY <1>2 DEF DecideSkip, PrepareCancelled, PrepareFails, BudgetReject, FailNode, Refuses, IInv, TypeOK
<1>3. HostStep \/ UNCHANGED vars => Elsewhere
  BY DEF HostStep, CancelRun, CancelNode, vars, Elsewhere
<1>4. ASSUME NEW s \in Stages, StageStep(s) \/ TimerStep(s) \/ ExecutorStep(s)
      PROVE  StageActs(s)
  BY <1>1, <1>2, <1>4 DEF StageStep, TimerStep, ExecutorStep, StageActs
<1>5. RunnerStep => (\E s \in Stages : StageActs(s)) \/ Turns \/ HandleCancellation \/ Cleanup
  BY DEF RunnerStep, StageActs, Turns
<1> QED
  BY <1>3, <1>4, <1>5 DEF Next

\* A stage acts while the runner is at its group, and on itself only.
LEMMA StageFrame ==
  ASSUME IInv, NEW s \in Stages, StageActs(s)
  PROVE  /\ runPc = "stages" /\ s \in group /\ pc[s] # "done" /\ UNCHANGED <<storeVars, runVars>>
         /\ \A t \in Stages \ {s} :
              /\ pc'[t] = pc[t] /\ nextIndex'[t] = nextIndex[t] /\ inFlight'[t] = inFlight[t]
              /\ armed'[t] = armed[t] /\ expired'[t] = expired[t] /\ claimed'[t] = claimed[t]
              /\ held'[t] = held[t] /\ stageCancelled'[t] = stageCancelled[t]
<1> USE DEF IInv, TypeOK, Scheduled, sessionVars, hostVars, flightVars, stageVars, storeVars, runVars, Goto,
            Advance, FireFailure
<1>1. CASE Walks(s) \/ Refuses(s) \/ AdmitCancelled(s) \/ AdmitNode(s)
  BY <1>1 DEF Walks, Refuses, AdmitCancelled, AdmitNode
<1>2. CASE Reduce(s) \/ ReduceStops(s) \/ Drain(s) \/ DropStageScoped(s) \/ GraceAbort(s) \/ StartStage(s)
  BY <1>2 DEF Reduce, ReduceStops, Drain, DropStageScoped, GraceAbort, StartStage
<1>3. ASSUME NEW n \in Nodes,
             Expire(s, n) \/ JoinPanic(s, n) \/ \E result \in Results : Join(s, n, result)
      PROVE  /\ runPc = "stages" /\ s \in group /\ pc[s] # "done" /\ UNCHANGED <<storeVars, runVars>>
             /\ \A t \in Stages \ {s} :
                  /\ pc'[t] = pc[t] /\ nextIndex'[t] = nextIndex[t] /\ inFlight'[t] = inFlight[t]
                  /\ armed'[t] = armed[t] /\ expired'[t] = expired[t] /\ claimed'[t] = claimed[t]
                  /\ held'[t] = held[t] /\ stageCancelled'[t] = stageCancelled[t]
  BY <1>3 DEF Expire, JoinPanic, Join, Release
<1> QED
  BY <1>1, <1>2, <1>3 DEF StageActs

\* A step of the runner itself leaves the stages and what they track alone.
LEMMA RunnerFrame ==
  ASSUME Turns \/ HandleCancellation \/ Cleanup
  PROVE  UNCHANGED <<failing, hostVars, flightVars, stageVars>>
  BY DEF Turns, HandleCancellation, Cleanup, BeginGroup, EndGroup, CancelBeforeGroup, Conclude,
         PutSummary, PutSnapshot, Finalize, sessionVars

\* What a step may not undo: a node that was started stays so, one that ended
\* has ended, and a failing run keeps failing.
LEMMA SessionGrows ==
  ASSUME IInv, [Next]_vars
  PROVE  /\ \A n \in Nodes : (outcome[n] # "None" => outcome'[n] # "None") /\ (Settled(n) => Settled(n)')
         /\ failing => failing'
<1>1. \A n \in Nodes : (outcome[n] # "None" => outcome'[n] # "None") /\ (Settled(n) => Settled(n)')
  BY NodesStep DEF IInv, TypeOK, NodeStep, Quiet, Begins, Ends, Settle, Settled, Terminal
<1>2. failing => failing'
  <2> USE DEF sessionVars, hostVars, flightVars, stageVars, storeVars, runVars
  <2>1. ASSUME NEW s \in Stages, StageActs(s), failing PROVE failing'
    <3>1. CASE Walks(s) \/ Refuses(s) \/ AdmitCancelled(s) \/ AdmitNode(s)
      BY <2>1, <3>1 DEF Walks, Refuses, AdmitCancelled, AdmitNode
    <3>2. CASE Reduce(s) \/ ReduceStops(s)
      BY <2>1, <3>2 DEF Reduce, ReduceStops, ReduceOutcome, ReduceSuccess, FailNode
    <3>3. CASE Drain(s) \/ DropStageScoped(s) \/ GraceAbort(s) \/ StartStage(s)
      BY <2>1, <3>3 DEF Drain, DropStageScoped, GraceAbort, StartStage
    <3>4. CASE \E n \in Nodes : Expire(s, n) \/ JoinPanic(s, n) \/ \E result \in Results : Join(s, n, result)
      BY <2>1, <3>4 DEF Expire, JoinPanic, Join
    <3> QED
      BY <2>1, <3>1, <3>2, <3>3, <3>4 DEF StageActs
  <2> QED
    BY <2>1, StepKinds, RunnerFrame DEF Elsewhere
<1> QED
  BY <1>1, <1>2

-----------------------------------------------------------------------------
\* The run has a verdict once it was judged, and not before.
VerdictWhenJudged == verdict = Limbo <=> runPc \in {"groups", "stages", "cancel"}

\* The run fails exactly for its failed nodes: neither a deadline nor a
\* cancellation is taken for a failure.
Blame == failing <=> \E n \in Nodes : outcome[n] = "Failed"

\* A stage that stopped the run is over, and its group is the last.
Stopped ==
  \A s \in Stages : stageCancelled[s] =>
    pc[s] \in {"drop", "done"} /\ runPc # "groups" /\ (runPc = "stages" => s \in group)

\* With deadlines every spawned node has one, unless it ended already.
TimedIn(s) ==
  pc[s] \notin {"drop", "done"} =>
    /\ armed[s] \cup expired[s] # {} => HasTimeout
    /\ HasTimeout => \A n \in inFlight[s] : n \in armed[s] \/ Settled(n)

\* A stage leaves its loop with nothing in flight, and with all nodes admitted
\* unless the run fails.
DrainedIn(s) == pc[s] = "drain" => inFlight[s] = {} /\ (failing \/ ~More(s))

\* A stage holds one result at a time.
OneHeldIn(s) == \A h, k \in held[s] : h = k

\* The invariants about the stages' loops.
LInv ==
  /\ VerdictWhenJudged /\ Stopped
  /\ \A s \in Stages : TimedIn(s) /\ DrainedIn(s) /\ OneHeldIn(s)

\* Only the judgement gives a verdict, and only the end of a group that a stage
\* stopped leaves a stopped stage behind.
LEMMA VerdictStep ==
  IInv /\ VerdictWhenJudged /\ Stopped /\ [Next]_vars => VerdictWhenJudged' /\ Stopped'
<1> SUFFICES ASSUME IInv, VerdictWhenJudged, Stopped, [Next]_vars
             PROVE  VerdictWhenJudged' /\ Stopped'
  OBVIOUS
<1> USE DEF IInv, TypeOK, VerdictWhenJudged, Stopped, sessionVars, hostVars, flightVars, stageVars,
            storeVars, runVars, Goto
<1>1. ASSUME NEW s \in Stages, StageActs(s) PROVE VerdictWhenJudged' /\ Stopped'
  <2>1. /\ runPc = "stages" /\ s \in group /\ UNCHANGED <<storeVars, runVars>>
        /\ \A t \in Stages \ {s} : pc'[t] = pc[t] /\ stageCancelled'[t] = stageCancelled[t]
    BY <1>1, StageFrame
  <2>2. stageCancelled'[s] => pc'[s] \in {"drop", "done"}
    <3>1. CASE Walks(s) \/ Refuses(s) \/ AdmitCancelled(s) \/ AdmitNode(s)
      BY <3>1 DEF Walks, Refuses, AdmitCancelled, AdmitNode
    <3>2. CASE Reduce(s) \/ ReduceStops(s) \/ Drain(s)
      BY <3>2 DEF Reduce, ReduceStops, Drain
    <3>3. CASE DropStageScoped(s) \/ GraceAbort(s) \/ StartStage(s)
      BY <3>3 DEF DropStageScoped, GraceAbort, StartStage
    <3>4. CASE \E n \in Nodes : Expire(s, n) \/ JoinPanic(s, n) \/ \E result \in Results : Join(s, n, result)
      BY <3>4 DEF Expire, JoinPanic, Join
    <3> QED
      BY <1>1, <3>1, <3>2, <3>3, <3>4 DEF StageActs
  <2> QED
    BY <2>1, <2>2
<1>2. CASE BeginGroup \/ EndGroup \/ CancelBeforeGroup \/ Conclude \/ HandleCancellation
  BY <1>2 DEF BeginGroup, EndGroup, CancelBeforeGroup, Conclude, HandleCancellation, Limbo
<1>3. CASE PutSummary \/ PutSnapshot \/ Finalize \/ Cleanup
  BY <1>3 DEF PutSummary, PutSnapshot, Finalize, Cleanup
<1>4. CASE Elsewhere
  BY <1>4 DEF Elsewhere
<1> QED
  BY <1>1, <1>2, <1>3, <1>4, StepKinds DEF Turns

\* No stage loses sight of what it spawned.
LEMMA LoopStep ==
  ASSUME IInv, LInv, [Next]_vars, NEW t \in Stages
  PROVE  TimedIn(t)' /\ DrainedIn(t)'
<1> USE DEF IInv, TypeOK, LInv, sessionVars, hostVars, flightVars, stageVars, storeVars, runVars, Goto,
            Advance, FireFailure
<1>1. TimedIn(t) /\ DrainedIn(t) /\ OngoingIn(t)
  BY DEF Ongoing
<1>2. /\ \A n \in Nodes : Settled(n) => Settled(n)'
      /\ failing => failing'
  BY SessionGrows
<1>3. ASSUME NEW s \in Stages, StageActs(s), s # t PROVE TimedIn(t)' /\ DrainedIn(t)'
  <2>1. /\ pc'[t] = pc[t] /\ nextIndex'[t] = nextIndex[t] /\ inFlight'[t] = inFlight[t]
        /\ armed'[t] = armed[t] /\ expired'[t] = expired[t]
    BY <1>3, StageFrame
  <2> QED
    BY <1>1, <1>2, <2>1 DEF TimedIn, DrainedIn, More
<1>4. ASSUME StageActs(t) PROVE TimedIn(t)' /\ DrainedIn(t)'
  <2>1. CASE Walks(t)
    <3>1. inFlight[t] = {} => ~(Cardinality(inFlight[t]) >= MaxConcurrency)
      BY FS_EmptySet, OptionsAssumption
    <3>2. TimedIn(t)'
      BY <1>1, <1>2, <2>1 DEF Walks, TimedIn
    <3>3. DrainedIn(t)'
      BY <2>1, <3>1 DEF Walks, DrainedIn, More
    <3> QED
      BY <3>2, <3>3
  <2>2. CASE Refuses(t) \/ AdmitCancelled(t)
    BY <1>1, <1>2, <2>2 DEF Refuses, AdmitCancelled, TimedIn, DrainedIn
  <2>3. CASE AdmitNode(t)
    BY <1>1, <1>2, <2>3, NextIsNode DEF AdmitNode, TimedIn, DrainedIn
  <2>4. CASE Reduce(t) \/ ReduceStops(t)
    BY <1>1, <1>2, <2>4 DEF Reduce, ReduceStops, LoopHead, TimedIn, DrainedIn
  <2>5. CASE Drain(t) \/ DropStageScoped(t) \/ GraceAbort(t) \/ StartStage(t)
    BY <1>1, <1>2, <2>5 DEF Drain, DropStageScoped, GraceAbort, StartStage, TimedIn, DrainedIn
  <2>6. ASSUME NEW n \in Nodes, Expire(t, n) PROVE TimedIn(t)' /\ DrainedIn(t)'
    <3>1. Settled(n)'
      BY <2>6 DEF Expire, Settle, Settled, Terminal
    <3> QED
      BY <1>1, <1>2, <2>6, <3>1 DEF Expire, TimedIn, DrainedIn
  <2>7. ASSUME NEW n \in Nodes, JoinPanic(t, n) PROVE TimedIn(t)' /\ DrainedIn(t)'
    BY <1>1, <1>2, <2>7 DEF JoinPanic, LoopHead, TimedIn, DrainedIn
  <2>8. ASSUME NEW n \in Nodes, NEW result \in Results, Join(t, n, result)
        PROVE  TimedIn(t)' /\ DrainedIn(t)'
    BY <1>1, <1>2, <2>8 DEF Join, LoopHead, TimedIn, DrainedIn
  <2> QED
    BY <1>4, <2>1, <2>2, <2>3, <2>4, <2>5, <2>6, <2>7, <2>8 DEF StageActs
<1>5. CASE Turns \/ HandleCancellation \/ Cleanup
  BY <1>1, <1>2, <1>5, RunnerFrame DEF TimedIn, DrainedIn, More
<1>6. CASE Elsewhere
  BY <1>1, <1>2, <1>6 DEF Elsewhere, TimedIn, DrainedIn, More
<1> QED
  BY <1>3, <1>4, <1>5, <1>6, StepKinds

\* Ending nodes keeps the blame right if the policy learns of failures and of
\* nothing else.
LEMMA BlameKept ==
  ASSUME TypeOK, Blame, NEW S \in SUBSET Nodes, NEW o, Settle(S, o), \A n \in S : ~Settled(n),
         failing' = (failing \/ (o = "Failed" /\ S # {}))
  PROVE  Blame'
  BY DEF TypeOK, Blame, Settle, Settled, Terminal

\* Reducing a result tells the policy of a failure and of nothing else.
LEMMA ReducedBlame ==
  ASSUME TypeOK, NEW s \in Stages, NEW h \in held[s], ReduceOutcome(h)
  PROVE  \E o \in Results : Settle({h.node}, o) /\ failing' = (failing \/ o = "Failed")
<1>1. h \in [node : Nodes, result : Results, wasFailing : BOOLEAN]
  BY DEF TypeOK
<1> QED
  BY <1>1 DEF ReduceOutcome, ReduceSuccess, FailNode, Results, TypeOK

\* The failing flag follows the failed nodes through every step.
LEMMA BlameStep == IInv /\ Blame /\ [Next]_vars => Blame'
<1> SUFFICES ASSUME IInv, Blame, [Next]_vars PROVE Blame'
  OBVIOUS
<1> USE DEF sessionVars, hostVars, flightVars, stageVars, storeVars, runVars
<1>1. ASSUME NEW s \in Stages, Refuses(s) PROVE Blame'
  <2>1. Next_(s) \in Nodes /\ outcome[Next_(s)] = "None"
    BY <1>1, NextIsNode DEF Refuses, IInv, Upcoming, Scheduled
  <2>2. PICK o \in {"Skipped", "Cancelled", "Failed"} :
          Settle({Next_(s)}, o) /\ failing' = (failing \/ o = "Failed")
    BY <1>1 DEF Refuses
  <2>3. \A n \in {Next_(s)} : ~Settled(n)
    BY <2>1 DEF Settled, Terminal
  <2> QED
    BY <2>1, <2>2, <2>3, BlameKept DEF IInv
<1>2. ASSUME NEW s \in Stages, Reduce(s) \/ ReduceStops(s) PROVE Blame'
  <2>1. PICK h \in held[s] : ReduceOutcome(h)
    BY <1>2 DEF Reduce, ReduceStops
  <2>2. h.node \in Nodes /\ outcome[h.node] = "Running"
    BY <1>2, <2>1, ReducedNode DEF Reduce, ReduceStops, IInv, Ongoing, OngoingIn
  <2>3. PICK o \in Results : Settle({h.node}, o) /\ failing' = (failing \/ o = "Failed")
    BY <2>1, ReducedBlame DEF IInv
  <2>4. \A n \in {h.node} : ~Settled(n)
    BY <2>2 DEF Settled, Terminal
  <2> QED
    BY <2>2, <2>3, <2>4, BlameKept DEF IInv
<1>3. ASSUME NEW s \in Stages, Drain(s) \/ GraceAbort(s) PROVE Blame'
  <2>1. UNCHANGED <<outcome, failing>> \/ (Settle(Unsettled(Remaining(s)), "Skipped") /\ UNCHANGED failing)
    BY <1>3 DEF Drain, GraceAbort
  <2>2. \A n \in Unsettled(Remaining(s)) : n \in Nodes /\ ~Settled(n)
    BY UnsettledRemaining DEF IInv, Unsettled
  <2> QED
    BY <2>1, <2>2, BlameKept DEF IInv, TypeOK, Blame
<1>4. ASSUME NEW s \in Stages, NEW n \in Nodes, Expire(s, n) PROVE Blame'
  <2>1. ~Settled(n) /\ Settle({n}, "TimedOut") /\ UNCHANGED failing
    BY <1>4 DEF Expire, IInv, Ongoing, OngoingIn, Settled, Terminal
  <2> QED
    BY <2>1, BlameKept DEF IInv, TypeOK
<1>5. CASE HandleCancellation
  <2>1. Settle(Unsettled(Nodes), "Cancelled") /\ UNCHANGED failing
    BY <1>5 DEF HandleCancellation
  <2>2. \A n \in Unsettled(Nodes) : n \in Nodes /\ ~Settled(n)
    BY DEF Unsettled
  <2> QED
    BY <2>1, <2>2, BlameKept DEF IInv, TypeOK
<1>6. ASSUME NEW s \in Stages, AdmitNode(s) PROVE Blame'
  <2>1. Next_(s) \in Nodes /\ outcome[Next_(s)] = "None"
    BY <1>6, NextIsNode DEF AdmitNode, IInv, Upcoming, Scheduled
  <2> QED
    BY <1>6, <2>1 DEF AdmitNode, Blame, IInv, TypeOK
<1>7. ASSUME NEW s \in Stages, Walks(s) \/ AdmitCancelled(s) \/ DropStageScoped(s) \/ StartStage(s)
      PROVE  Blame'
  BY <1>7 DEF Walks, AdmitCancelled, DropStageScoped, StartStage, Blame
<1>8. ASSUME NEW s \in Stages, NEW n \in Nodes,
             JoinPanic(s, n) \/ \E result \in Results : Join(s, n, result)
      PROVE  Blame'
  BY <1>8 DEF JoinPanic, Join, Blame
<1>9. CASE Turns \/ Cleanup
  <2>1. UNCHANGED <<outcome, failing>>
    BY <1>9 DEF Turns, Cleanup, BeginGroup, EndGroup, CancelBeforeGroup, Conclude, PutSummary,
                PutSnapshot, Finalize
  <2> QED
    BY <2>1 DEF Blame
<1>10. CASE Elsewhere
  BY <1>10 DEF Elsewhere, Blame
<1> QED
  BY <1>1, <1>2, <1>3, <1>4, <1>5, <1>6, <1>7, <1>8, <1>9, <1>10, StepKinds DEF StageActs

\* A second result is not joined before the first is reduced.
LEMMA OneHeldStep ==
  ASSUME IInv, LInv, [Next]_vars, NEW t \in Stages
  PROVE  OneHeldIn(t)'
<1> USE DEF IInv, TypeOK, LInv, OneHeldIn, sessionVars, hostVars, flightVars, stageVars, storeVars, runVars
<1>1. ASSUME NEW s \in Stages, StageActs(s), s # t PROVE OneHeldIn(t)'
  BY <1>1, StageFrame
<1>2. ASSUME StageActs(t) PROVE OneHeldIn(t)'
  <2>1. CASE Walks(t) \/ Refuses(t) \/ AdmitCancelled(t) \/ AdmitNode(t)
    BY <2>1 DEF Walks, Refuses, AdmitCancelled, AdmitNode
  <2>2. CASE Reduce(t) \/ ReduceStops(t) \/ Drain(t) \/ DropStageScoped(t)
    BY <2>2 DEF Reduce, ReduceStops, Drain, DropStageScoped
  <2>3. CASE GraceAbort(t) \/ StartStage(t)
    BY <2>3 DEF GraceAbort, StartStage
  <2>4. ASSUME NEW n \in Nodes,
               Expire(t, n) \/ JoinPanic(t, n) \/ \E result \in Results : Join(t, n, result)
        PROVE  OneHeldIn(t)'
    BY <2>4 DEF Expire, JoinPanic, Join
  <2> QED
    BY <1>2, <2>1, <2>2, <2>3, <2>4 DEF StageActs
<1>3. CASE Turns \/ HandleCancellation \/ Cleanup
  BY <1>3, RunnerFrame
<1>4. CASE Elsewhere
  BY <1>4 DEF Elsewhere
<1> QED
  BY <1>1, <1>2, <1>3, <1>4, StepKinds

-----------------------------------------------------------------------------
\* A node that ended, or was started and lost to a panic.
Ended(n) == Settled(n) \/ (n \in Vanished /\ outcome[n] # "None")

\* A node the stage still has to admit, to join or to reduce.
Tracked(s, n) == n \in Remaining(s) \/ n \in inFlight[s] \/ \E h \in held[s] : h.node = n

\* No node is left behind: a stage that was not stopped tracks each of its nodes
\* until the node ended.
AccountedIn(s) ==
  ~stageCancelled[s] =>
    \A n \in StageNodes(s) : Ended(n) \/ (pc[s] \notin {"drop", "done"} /\ Tracked(s, n))

\* Advancing the cursor leaves no other node behind.
LEMMA AdvanceKeeps ==
  ASSUME nextIndex \in [Stages -> Nat \ {0}], NEW s \in Stages, Advance(s)
  PROVE  Remaining(s) \ {Next_(s)} \subseteq Remaining(s)'
<1> SUFFICES ASSUME NEW i \in nextIndex[s]..Len(Order[s]), Order[s][i] # Order[s][nextIndex[s]]
             PROVE  Order[s][i] \in Remaining(s)'
  BY DEF Remaining, Next_
<1>1. nextIndex'[s] = nextIndex[s] + 1 /\ i # nextIndex[s]
  BY DEF Advance
<1>2. i \in nextIndex'[s]..Len(Order[s])
  BY <1>1, OrderFacts
<1> QED
  BY <1>2 DEF Remaining

\* Every step of a stage keeps track of its nodes.
LEMMA AccountedStep ==
  ASSUME IInv, LInv, [Next]_vars, NEW t \in Stages, AccountedIn(t)
  PROVE  AccountedIn(t)'
<1> USE DEF IInv, TypeOK, sessionVars, hostVars, flightVars, stageVars, storeVars, runVars, Goto, FireFailure
<1>1. OngoingIn(t) /\ TimedIn(t) /\ DrainedIn(t) /\ OneHeldIn(t)
  BY DEF LInv, Ongoing
<1>2. \A n \in StageNodes(t) : n \in Nodes /\ (Ended(n) => Ended(n)')
  BY SessionGrows, StageNodesInPlan DEF Ended
<1>3. held[t] # {} => pc[t] = "reduce"
  BY DEF HeldIsReduced
<1>4. ASSUME NEW s \in Stages, StageActs(s), s # t PROVE AccountedIn(t)'
  <2>1. /\ pc'[t] = pc[t] /\ nextIndex'[t] = nextIndex[t] /\ inFlight'[t] = inFlight[t]
        /\ held'[t] = held[t] /\ stageCancelled'[t] = stageCancelled[t]
    BY <1>4, StageFrame
  <2> QED
    BY <1>2, <2>1 DEF AccountedIn, Tracked, Remaining
<1>5. ASSUME StageActs(t) PROVE AccountedIn(t)'
  <2>1. CASE Walks(t) \/ StartStage(t)
    BY <1>2, <2>1, RemainingFrame DEF Walks, StartStage, AccountedIn, Tracked
  <2>2. CASE Refuses(t)
    <3>1. outcome'[Next_(t)] \in Terminal /\ Remaining(t) \ {Next_(t)} \subseteq Remaining(t)'
      BY <2>2, NextIsNode, AdvanceKeeps DEF Refuses, Settle, Terminal
    <3> QED
      BY <1>2, <2>2, <3>1 DEF Refuses, AccountedIn, Tracked, Ended, Settled
  <2>3. CASE AdmitNode(t)
    <3>1. Next_(t) \in inFlight'[t] /\ Remaining(t) \ {Next_(t)} \subseteq Remaining(t)'
      BY <2>3, NextIsNode, AdvanceKeeps DEF AdmitNode
    <3> QED
      BY <1>2, <2>3, <3>1 DEF AdmitNode, AccountedIn, Tracked
  <2>4. CASE AdmitCancelled(t) \/ ReduceStops(t)
    BY <2>4 DEF AdmitCancelled, ReduceStops, AccountedIn
  <2>5. CASE Reduce(t)
    <3>1. PICK h \in held[t] : ReduceOutcome(h)
      BY <2>5 DEF Reduce
    <3>2. Settled(h.node)'
      BY <3>1, ReducedNode DEF Settle, Settled, Terminal
    <3> QED
      BY <1>1, <1>2, <2>5, <3>1, <3>2, RemainingFrame DEF Reduce, LoopHead, AccountedIn, Tracked, Ended, OneHeldIn
  <2>6. CASE Drain(t)
    <3>1. \A n \in StageNodes(t) : Tracked(t, n) => n \in Remaining(t) /\ failing
      BY <1>1, <1>3, <2>6, OrderFacts DEF Drain, Tracked, DrainedIn, More, Remaining
    <3>2. failing => \A n \in Remaining(t) : n \in Nodes => Settled(n)'
      BY <2>6 DEF Drain, Settle, Unsettled, Settled, Terminal
    <3>3. ~stageCancelled[t]
      BY <2>6 DEF Drain, LInv, Stopped
    <3> QED
      BY <1>2, <2>6, <3>1, <3>2, <3>3 DEF Drain, AccountedIn, Ended
  <2>7. CASE DropStageScoped(t)
    BY <1>2, <2>7 DEF DropStageScoped, AccountedIn
  <2>8. CASE GraceAbort(t)
    <3>1. \A n \in inFlight[t] : Settled(n)
      BY <1>1, <2>8 DEF GraceAbort, AllOverdue, TimedIn
    <3>2. \A n \in Remaining(t) : n \in Nodes => Settled(n)'
      BY <2>8 DEF GraceAbort, Settle, Unsettled, Settled, Terminal
    <3> QED
      BY <1>2, <1>3, <2>8, <3>1, <3>2 DEF GraceAbort, AccountedIn, Tracked, Ended
  <2>9. ASSUME NEW n \in Nodes, Expire(t, n) PROVE AccountedIn(t)'
    BY <1>2, <2>9, RemainingFrame DEF Expire, AccountedIn, Tracked
  <2>10. ASSUME NEW n \in Nodes, JoinPanic(t, n) PROVE AccountedIn(t)'
    <3>1. Ended(n)'
      BY <1>1, <2>10 DEF JoinPanic, Ended, Vanished, OngoingIn
    <3> QED
      BY <1>2, <2>10, <3>1, RemainingFrame DEF JoinPanic, LoopHead, AccountedIn, Tracked
  <2>11. ASSUME NEW n \in Nodes, NEW result \in Results, Join(t, n, result) PROVE AccountedIn(t)'
    <3>1. Settled(n)' \/ \E h \in held'[t] : h.node = n
      <4> DEFINE joined == [node |-> n, result |-> result, wasFailing |-> failing]
      <4>1. Settled(n)' \/ joined \in held'[t]
        BY <2>11 DEF Join, AlreadyReduced, Settled
      <4>2. joined.node = n
        OBVIOUS
      <4> QED
        BY <4>1, <4>2
    <3> QED
      BY <1>2, <1>3, <2>11, <3>1, RemainingFrame DEF Join, LoopHead, AccountedIn, Tracked, Ended
  <2> QED
    BY <1>5, <2>1, <2>2, <2>3, <2>4, <2>5, <2>6, <2>7, <2>8, <2>9, <2>10, <2>11 DEF StageActs
<1>6. CASE Turns \/ HandleCancellation \/ Cleanup
  BY <1>2, <1>6, RunnerFrame, RemainingFrame DEF AccountedIn, Tracked
<1>7. CASE Elsewhere
  BY <1>2, <1>7, RemainingFrame DEF Elsewhere, AccountedIn, Tracked
<1> QED
  BY <1>4, <1>5, <1>6, <1>7, StepKinds

\* A run is judged when none of its nodes is still to start; one that was not
\* cancelled is judged after its stages, none of which was stopped.
Judged ==
  /\ runPc \notin {"groups", "stages", "cancel"} => \A n \in Nodes : outcome[n] # "None"
  /\ verdict \in {"Completed", "Failed"} => \A s \in Stages : pc[s] = "done" /\ ~stageCancelled[s]

\* Every node of the plan is in a stage.
LEMMA NodesInStages == \A n \in Nodes : \E s \in Stages : n \in StageNodes(s)
<1>1. \A n \in Nodes : \E s \in Stages : \E i \in 1..Len(Order[s]) : Order[s][i] = n
  BY PlanAssumption
<1> QED
  BY <1>1 DEF StageNodes

\* When no group is left, every stage is over and every node has ended.
LEMMA NothingLeft ==
  ASSUME IInv, LInv, \A s \in Stages : AccountedIn(s), runPc = "groups", Idle = {}
  PROVE  /\ \A s \in Stages : pc[s] = "done" /\ ~stageCancelled[s]
         /\ \A n \in Nodes : Ended(n)
<1>1. \A s \in Stages : pc[s] = "done" /\ ~stageCancelled[s]
  BY DEF IInv, Scheduled, LInv, Stopped, Idle
<1>2. \A n \in Nodes : Ended(n)
  BY <1>1, NodesInStages DEF AccountedIn
<1> QED
  BY <1>1, <1>2

\* Neither verdict comes too early, and nothing moves after it.
LEMMA JudgedStep ==
  ASSUME IInv, LInv, \A s \in Stages : AccountedIn(s), Judged, [Next]_vars
  PROVE  Judged'
<1> USE DEF IInv, TypeOK, sessionVars, hostVars, flightVars, stageVars, storeVars, runVars
<1>1. ASSUME NEW s \in Stages, StageActs(s) PROVE Judged'
  BY <1>1, StageFrame DEF LInv, VerdictWhenJudged, Limbo, Judged
<1>2. CASE Conclude
  <2>1. /\ \A s \in Stages : pc[s] = "done" /\ ~stageCancelled[s]
        /\ \A n \in Nodes : outcome[n] # "None"
    BY <1>2, NothingLeft DEF Conclude, Ended, Settled, Terminal
  <2> QED
    BY <1>2, <2>1 DEF Conclude, Judged
<1>3. CASE HandleCancellation
  BY <1>3 DEF HandleCancellation, Settle, Unsettled, Settled, Terminal, Judged
<1>4. CASE BeginGroup \/ EndGroup \/ CancelBeforeGroup
  BY <1>4 DEF BeginGroup, EndGroup, CancelBeforeGroup, LInv, VerdictWhenJudged, Limbo, Judged
<1>5. CASE PutSummary \/ PutSnapshot \/ Finalize \/ Cleanup
  BY <1>5 DEF PutSummary, PutSnapshot, Finalize, Cleanup, Judged
<1>6. CASE Elsewhere
  BY <1>6 DEF Elsewhere, Judged
<1> QED
  BY <1>1, <1>2, <1>3, <1>4, <1>5, <1>6, StepKinds DEF Turns

-----------------------------------------------------------------------------
\* Reducing a result takes from the store only what that node was the last to
\* read, and completes the node only with its value in the store.
LEMMA ReducedValues ==
  ASSUME TypeOK, NEW s \in Stages, NEW h \in held[s], ReduceOutcome(h)
  PROVE  /\ values \ Consumed(h.node) \subseteq values'
         /\ \E o \in Results : /\ Settle({h.node}, o)
                               /\ o = "Completed" => h.node \in values' \cup Consumed(h.node)
<1>1. h \in [node : Nodes, result : Results, wasFailing : BOOLEAN]
  BY DEF TypeOK
<1> QED
  BY <1>1 DEF ReduceOutcome, ReduceSuccess, FailNode, Results

\* The nodes that settle take only what is theirs alone to read: whoever else is
\* still to start keeps its inputs.
LEMMA RetainedBySettling ==
  ASSUME TypeOK, InputsRetained, NEW k \in Nodes, NEW o \in Terminal, Settle({k}, o),
         values \ Consumed(k) \subseteq values',
         o = "Completed" => k \in values' \cup Consumed(k),
         \A t \in Stages : pc[t] = "done" => pc'[t] = "done"
  PROVE  InputsRetained'
<1> SUFFICES ASSUME NEW n \in Nodes, NEW m \in Upstream(n),
                    outcome'[m] = "Completed", outcome'[n] = "None",
                    Scope[m] = 0 \/ pc'[Scope[m]] # "done"
             PROVE  m \in values'
  BY DEF InputsRetained
<1>1. n # k /\ outcome[n] = "None" /\ m \in Nodes
  BY UpstreamInPlan DEF Settle, Terminal, TypeOK
<1>2. m \notin Consumed(k)
  <2>1. PICK e \in Edges : e[1] = m /\ e[2] = n
    BY DEF Upstream
  <2> QED
    BY <1>1, <2>1 DEF Consumed, Consumers
<1>3. CASE m = k
  BY <1>2, <1>3 DEF Settle
<1>4. CASE m # k
  <2>1. outcome[m] = "Completed"
    BY <1>1, <1>4 DEF Settle
  <2>2. Scope[m] = 0 \/ pc[Scope[m]] # "done"
    <3>1. Scope[m] = 0 \/ Scope[m] \in Stages
      BY <1>1, PlanAssumption DEF Stages
    <3> QED
      BY <3>1
  <2> QED
    BY <1>1, <1>2, <2>1, <2>2 DEF InputsRetained
<1> QED
  BY <1>3, <1>4

\* Every input still to be read survives every step but the end of its scope.
LEMMA RetainedStep ==
  ASSUME IInv, LInv, Judged, InputsRetained, [Next]_vars
  PROVE  InputsRetained'
<1> USE DEF IInv, TypeOK, sessionVars, hostVars, flightVars, stageVars, storeVars, runVars, Goto
<1>1. \A n : \A m \in Upstream(n) : m \in Nodes /\ (Scope[m] = 0 \/ Scope[m] \in Stages)
  <2>1. \A m \in Nodes : Scope[m] = 0 \/ Scope[m] \in Stages
    BY PlanAssumption DEF Stages
  <2> QED
    BY <2>1, UpstreamInPlan
<1>2. ASSUME NEW s \in Stages, Refuses(s) PROVE InputsRetained'
  <2>1. PICK o \in {"Skipped", "Cancelled", "Failed"} : Settle({Next_(s)}, o)
    BY <1>2 DEF Refuses
  <2>2. Next_(s) \in Nodes /\ values \ Consumed(Next_(s)) \subseteq values' /\ o \in Terminal
    BY <1>2, NextIsNode DEF Refuses, Terminal
  <2>3. \A t \in Stages : pc[t] = "done" => pc'[t] = "done"
    BY <1>2 DEF Refuses
  <2> HIDE DEF IInv, TypeOK
  <2> QED
    BY <2>1, <2>2, <2>3, RetainedBySettling DEF IInv
<1>3. ASSUME NEW s \in Stages, Reduce(s) \/ ReduceStops(s) PROVE InputsRetained'
  <2>1. PICK h \in held[s] : ReduceOutcome(h)
    BY <1>3 DEF Reduce, ReduceStops
  <2>2. PICK o \in Results : /\ Settle({h.node}, o)
                             /\ o = "Completed" => h.node \in values' \cup Consumed(h.node)
    BY <2>1, ReducedValues
  <2>3. h.node \in Nodes /\ values \ Consumed(h.node) \subseteq values' /\ o \in Terminal
    BY <2>1, ReducedValues, ReducedNode DEF Terminal, Results
  <2>4. \A t \in Stages : pc[t] = "done" => pc'[t] = "done"
    BY <1>3 DEF Reduce, ReduceStops
  <2> HIDE DEF IInv, TypeOK
  <2> QED
    BY <2>2, <2>3, <2>4, RetainedBySettling DEF IInv
<1>4. ASSUME NEW s \in Stages, NEW n \in Nodes, Expire(s, n) PROVE InputsRetained'
  <2>1. Settle({n}, "TimedOut") /\ values \ Consumed(n) \subseteq values'
    BY <1>4 DEF Expire
  <2>2. \A t \in Stages : pc[t] = "done" => pc'[t] = "done"
    BY <1>4 DEF Expire
  <2> HIDE DEF IInv, TypeOK
  <2> QED
    BY <2>1, <2>2, RetainedBySettling DEF IInv, Terminal
<1>5. ASSUME NEW s \in Stages, Drain(s) \/ GraceAbort(s) PROVE InputsRetained'
  <2>1. /\ UNCHANGED values
        /\ \A t \in Stages : pc[t] = "done" => pc'[t] = "done"
    BY <1>5 DEF Drain, GraceAbort
  <2>2. \A n \in Nodes : (outcome'[n] = "Completed" => outcome[n] = "Completed")
                         /\ (outcome'[n] = "None" => outcome[n] = "None")
    BY <1>5 DEF Drain, GraceAbort, Settle
  <2> QED
    BY <1>1, <2>1, <2>2 DEF InputsRetained
<1>6. ASSUME NEW s \in Stages, DropStageScoped(s) PROVE InputsRetained'
  <2>1. 0 \notin Stages
    BY DEF Stages
  <2> QED
    BY <1>1, <1>6, <2>1 DEF DropStageScoped, EndsWith, InputsRetained
<1>7. ASSUME NEW s \in Stages, AdmitNode(s) PROVE InputsRetained'
  BY <1>1, <1>7 DEF AdmitNode, InputsRetained
<1>8. ASSUME NEW s \in Stages, Walks(s) \/ AdmitCancelled(s) \/ StartStage(s) PROVE InputsRetained'
  BY <1>1, <1>8 DEF Walks, AdmitCancelled, StartStage, InputsRetained
<1>9. ASSUME NEW s \in Stages, NEW n \in Nodes,
             JoinPanic(s, n) \/ \E result \in Results : Join(s, n, result)
      PROVE  InputsRetained'
  BY <1>1, <1>9 DEF JoinPanic, Join, InputsRetained
<1>10. CASE HandleCancellation
  BY <1>10, UpstreamInPlan DEF HandleCancellation, Settle, InputsRetained
<1>11. CASE Cleanup
  BY <1>11 DEF Cleanup, Judged, InputsRetained
<1>12. CASE Turns
  <2>1. UNCHANGED <<outcome, values, pc>>
    BY <1>12 DEF Turns, BeginGroup, EndGroup, CancelBeforeGroup, Conclude, PutSummary, PutSnapshot, Finalize
  <2> QED
    BY <2>1 DEF InputsRetained
<1>13. CASE Elsewhere
  BY <1>13 DEF Elsewhere, InputsRetained
<1> QED
  BY <1>2, <1>3, <1>4, <1>5, <1>6, <1>7, <1>8, <1>9, <1>10, <1>11, <1>12, <1>13, StepKinds DEF StageActs

-----------------------------------------------------------------------------
\* The nodes whose claim on the memory budget was not given back.
Claimed == UNION {claimed[s] : s \in Stages}

\* A claim is held for a node the stage has started; with deadlines until the
\* node's own fires, without one until its task was joined.
ClaimsIn(s) ==
  /\ \A n \in claimed[s] : n \in StageNodes(s) /\ outcome[n] # "None"
  /\ ~stageCancelled[s] =>
       claimed[s] \subseteq Vanished \cup (IF pc[s] \in {"drop", "done"} THEN {} ELSE inFlight[s])
  /\ HasTimeout /\ pc[s] \notin {"drop", "done"} => claimed[s] \subseteq armed[s]

\* The budget counts the claims.
Counted == usage = Cardinality(Claimed)

\* Every step of a stage keeps its claims in step with what it has in flight.
LEMMA ClaimsStep ==
  ASSUME IInv, LInv, [Next]_vars, NEW t \in Stages, ClaimsIn(t)
  PROVE  ClaimsIn(t)'
<1> USE DEF IInv, TypeOK, sessionVars, hostVars, flightVars, stageVars, storeVars, runVars, Goto, FireFailure
<1>1. OngoingIn(t) /\ TimedIn(t) /\ DrainedIn(t) /\ (held[t] # {} => pc[t] = "reduce")
  BY DEF LInv, Ongoing, HeldIsReduced
<1>2. \A n \in StageNodes(t) : n \in Nodes /\ (outcome[n] # "None" => outcome'[n] # "None")
  BY SessionGrows, StageNodesInPlan
<1>3. ASSUME NEW s \in Stages, StageActs(s), s # t PROVE ClaimsIn(t)'
  <2>1. /\ pc'[t] = pc[t] /\ claimed'[t] = claimed[t] /\ inFlight'[t] = inFlight[t]
        /\ armed'[t] = armed[t] /\ stageCancelled'[t] = stageCancelled[t]
    BY <1>3, StageFrame
  <2> QED
    BY <1>2, <2>1 DEF ClaimsIn
<1>4. ASSUME StageActs(t) PROVE ClaimsIn(t)'
  <2>1. CASE Walks(t) \/ Refuses(t) \/ StartStage(t)
    BY <1>2, <2>1 DEF Walks, Refuses, StartStage, ClaimsIn
  <2>2. CASE AdmitNode(t)
    <3>1. Next_(t) \in StageNodes(t) /\ outcome'[Next_(t)] # "None"
      BY <2>2, NextIsNode DEF AdmitNode
    <3> QED
      BY <1>2, <2>2, <3>1 DEF AdmitNode, ClaimsIn
  <2>3. CASE AdmitCancelled(t) \/ ReduceStops(t)
    BY <1>2, <2>3 DEF AdmitCancelled, ReduceStops, ClaimsIn
  <2>4. CASE Reduce(t)
    BY <1>2, <2>4 DEF Reduce, LoopHead, ClaimsIn
  <2>5. CASE Drain(t)
    <3>1. inFlight[t] = {} /\ ~stageCancelled[t]
      BY <1>1, <2>5 DEF Drain, DrainedIn, LInv, Stopped
    <3> QED
      BY <1>2, <2>5, <3>1 DEF Drain, ClaimsIn
  <2>6. CASE GraceAbort(t)
    <3>1. HasTimeout /\ armed[t] = {}
      BY <1>1, <2>6 DEF GraceAbort, AllOverdue, TimedIn
    <3> QED
      BY <1>2, <2>6, <3>1 DEF GraceAbort, ClaimsIn
  <2>7. CASE DropStageScoped(t)
    BY <1>2, <2>7 DEF DropStageScoped, ClaimsIn
  <2>8. ASSUME NEW n \in Nodes, Expire(t, n) PROVE ClaimsIn(t)'
    BY <1>2, <2>8 DEF Expire, Release, ClaimsIn
  <2>9. ASSUME NEW n \in Nodes, JoinPanic(t, n) PROVE ClaimsIn(t)'
    BY <1>2, <2>9 DEF JoinPanic, LoopHead, Vanished, ClaimsIn
  <2>10. ASSUME NEW n \in Nodes, NEW result \in Results, Join(t, n, result) PROVE ClaimsIn(t)'
    BY <1>2, <2>10 DEF Join, Release, LoopHead, ClaimsIn
  <2> QED
    BY <1>4, <2>1, <2>2, <2>3, <2>4, <2>5, <2>6, <2>7, <2>8, <2>9, <2>10 DEF StageActs
<1>5. CASE Turns \/ HandleCancellation \/ Cleanup
  BY <1>2, <1>5, RunnerFrame DEF ClaimsIn
<1>6. CASE Elsewhere
  BY <1>2, <1>6 DEF Elsewhere, ClaimsIn
<1> QED
  BY <1>3, <1>4, <1>5, <1>6, StepKinds

\* The claims are a finite set of the plan's nodes.
LEMMA ClaimedFinite == TypeOK => Claimed \subseteq Nodes /\ IsFiniteSet(Claimed)
<1> SUFFICES ASSUME TypeOK PROVE Claimed \subseteq Nodes /\ IsFiniteSet(Claimed)
  OBVIOUS
<1>1. Claimed \subseteq Nodes
  BY DEF TypeOK, Claimed
<1> QED
  BY <1>1, FS_Subset, PlanAssumption

\* Releasing a node's claim gives back one unit if it was held, and none if not.
LEMMA ReleaseCounts ==
  ASSUME TypeOK, Counted, NEW s \in Stages, NEW n \in StageNodes(s),
         \A t \in Stages : claimed[t] \subseteq StageNodes(t), Release(s, n)
  PROVE  Counted'
<1>1. \A t \in Stages \ {s} : n \notin claimed[t] /\ claimed'[t] = claimed[t]
  BY StagesDisjoint DEF Release, TypeOK
<1>2. claimed'[s] = claimed[s] \ {n}
  BY DEF Release, TypeOK
<1>3. Claimed' = Claimed \ {n}
  BY <1>1, <1>2 DEF Claimed
<1>4. n \in Claimed <=> n \in claimed[s]
  BY <1>1 DEF Claimed
<1>5. IsFiniteSet(Claimed) /\ (n \in Claimed => Cardinality(Claimed) > 0)
  BY ClaimedFinite, FS_EmptySet, FS_CardinalityType
<1>6. Cardinality(Claimed \ {n}) = IF n \in Claimed THEN Cardinality(Claimed) - 1 ELSE Cardinality(Claimed)
  BY <1>5, FS_RemoveElement
<1> QED
  BY <1>3, <1>4, <1>5, <1>6 DEF Counted, Release, TypeOK

\* The budget's counter follows the claims through every step.
LEMMA CountedStep ==
  ASSUME IInv, \A s \in Stages : ClaimsIn(s), Counted, [Next]_vars
  PROVE  Counted'
<1> USE DEF IInv, TypeOK, sessionVars, hostVars, flightVars, stageVars, storeVars, runVars
<1>1. \A t \in Stages : claimed[t] \subseteq StageNodes(t)
  BY DEF ClaimsIn
<1>2. UNCHANGED <<claimed, usage>> => Counted'
  BY DEF Counted, Claimed
<1>3. ASSUME NEW s \in Stages, AdmitNode(s) PROVE Counted'
  <2>1. Next_(s) \in StageNodes(s) /\ outcome[Next_(s)] = "None"
    BY <1>3, NextIsNode DEF AdmitNode, Upcoming, Scheduled
  <2>2. Next_(s) \notin Claimed
    BY <2>1 DEF Claimed, ClaimsIn
  <2>3. Claimed' = Claimed \cup {Next_(s)}
    <3>1. \A t \in Stages \ {s} : claimed'[t] = claimed[t]
      BY <1>3 DEF AdmitNode
    <3>2. claimed'[s] = claimed[s] \cup {Next_(s)}
      BY <1>3 DEF AdmitNode
    <3>3. Claimed \cup {Next_(s)} \subseteq Claimed'
      BY <3>1, <3>2 DEF Claimed
    <3>4. Claimed' \subseteq Claimed \cup {Next_(s)}
      BY <3>1, <3>2 DEF Claimed
    <3> QED
      BY <3>3, <3>4
  <2>4. Cardinality(Claimed \cup {Next_(s)}) = Cardinality(Claimed) + 1
    BY <2>2, ClaimedFinite, FS_AddElement
  <2> QED
    BY <1>3, <2>3, <2>4 DEF AdmitNode, Counted
<1>4. ASSUME NEW s \in Stages, NEW n \in Nodes,
             Expire(s, n) \/ \E result \in Results : Join(s, n, result)
      PROVE  Counted'
  <2>1. n \in StageNodes(s) /\ Release(s, n)
    BY <1>4 DEF Expire, Join, Ongoing, OngoingIn
  <2> QED
    BY <1>1, <2>1, ReleaseCounts
<1>5. ASSUME NEW s \in Stages, NEW n \in Nodes, JoinPanic(s, n) PROVE Counted'
  BY <1>2, <1>5 DEF JoinPanic
<1>6. ASSUME NEW s \in Stages, Walks(s) \/ Refuses(s) \/ AdmitCancelled(s) \/ Reduce(s) \/ ReduceStops(s)
      PROVE  Counted'
  BY <1>2, <1>6 DEF Walks, Refuses, AdmitCancelled, Reduce, ReduceStops
<1>7. ASSUME NEW s \in Stages, Drain(s) \/ DropStageScoped(s) \/ GraceAbort(s) \/ StartStage(s)
      PROVE  Counted'
  BY <1>2, <1>7 DEF Drain, DropStageScoped, GraceAbort, StartStage
<1>8. CASE Turns \/ HandleCancellation \/ Cleanup
  BY <1>2, <1>8, RunnerFrame
<1>9. CASE Elsewhere
  BY <1>2, <1>9 DEF Elsewhere
<1> QED
  BY <1>3, <1>4, <1>5, <1>6, <1>7, <1>8, <1>9, StepKinds DEF StageActs

-----------------------------------------------------------------------------
\* Stages that run one at a time.
Solo ==
  \A s, t \in Stages : pc[s] \notin {"idle", "done"} /\ pc[t] \notin {"idle", "done"} => s = t

\* What the budget admitted still fits when it is claimed.
ClaimFits == \A s \in Stages : pc[s] = "claim" => usage < HardLimit

\* Without other stages nothing comes between the admission and the claim.
LEMMA SoloStep ==
  ASSUME MaxGroup = 1, IInv, Solo, ClaimFits, HardCeiling, [Next]_vars
  PROVE  (Solo /\ ClaimFits /\ HardCeiling)'
<1> USE DEF IInv, TypeOK, sessionVars, hostVars, flightVars, stageVars, storeVars, runVars, Goto
<1>1. HardLimit \in Nat
  BY OptionsAssumption
<1>2. ASSUME NEW s \in Stages, StageActs(s), pc[s] # "idle" PROVE (Solo /\ ClaimFits /\ HardCeiling)'
  <2>1. \A t \in Stages \ {s} : pc'[t] = pc[t] /\ pc[t] \in {"idle", "done"}
    BY <1>2, StageFrame DEF Solo
  <2>2. (pc'[s] = "claim" => usage' < HardLimit) /\ usage' <= HardLimit
    <3>1. CASE Walks(s) \/ Refuses(s) \/ AdmitCancelled(s)
      BY <1>1, <3>1 DEF Walks, Refuses, AdmitCancelled, Over, HardCeiling
    <3>2. CASE AdmitNode(s)
      BY <1>1, <3>2 DEF AdmitNode, ClaimFits
    <3>3. CASE Reduce(s) \/ ReduceStops(s) \/ Drain(s) \/ DropStageScoped(s) \/ GraceAbort(s)
      BY <3>3 DEF Reduce, ReduceStops, Drain, DropStageScoped, GraceAbort, LoopHead, HardCeiling
    <3>4. ASSUME NEW n \in Nodes,
                 Expire(s, n) \/ JoinPanic(s, n) \/ \E result \in Results : Join(s, n, result)
          PROVE  (pc'[s] = "claim" => usage' < HardLimit) /\ usage' <= HardLimit
      BY <1>1, <3>4 DEF Expire, JoinPanic, Join, Release, LoopHead, HardCeiling
    <3>5. CASE StartStage(s)
      BY <1>2, <3>5 DEF StartStage
    <3> QED
      BY <1>2, <3>1, <3>2, <3>3, <3>4, <3>5 DEF StageActs
  <2>3. Solo'
    BY <2>1 DEF Solo
  <2>4. ClaimFits'
    BY <2>1, <2>2 DEF ClaimFits
  <2> QED
    BY <2>2, <2>3, <2>4 DEF HardCeiling
<1>3. ASSUME NEW s \in Stages, StartStage(s) PROVE (Solo /\ ClaimFits /\ HardCeiling)'
  <2> DEFINE busy == {t \in group : pc[t] \notin {"idle", "done"}}
  <2>1. IsFiniteSet(busy)
    <3>1. IsFiniteSet(Stages)
      BY FS_Interval, PlanAssumption DEF Stages
    <3> QED
      BY <3>1, FS_Subset
  <2>2. busy = {}
    <3>1. Cardinality(busy) < 1
      BY <1>3 DEF StartStage
    <3>2. Cardinality(busy) \in Nat /\ (Cardinality(busy) = 0 => busy = {})
      BY <2>1, FS_CardinalityType, FS_EmptySet
    <3> HIDE DEF busy
    <3> QED
      BY <3>1, <3>2
  <2>3. \A t \in Stages : pc[t] \in {"idle", "done"}
    BY <2>2 DEF Scheduled
  <2> QED
    BY <1>3, <2>3 DEF StartStage, Solo, ClaimFits, HardCeiling
<1>4. ASSUME NEW s \in Stages, StageActs(s), pc[s] = "idle" PROVE StartStage(s)
  BY <1>4 DEF StageActs, Walks, Refuses, AdmitCancelled, AdmitNode, Reduce, ReduceStops, Drain,
              DropStageScoped, GraceAbort, Expire, JoinPanic, Join
<1>5. CASE Turns \/ HandleCancellation \/ Cleanup
  BY <1>5, RunnerFrame DEF Solo, ClaimFits, HardCeiling
<1>6. CASE Elsewhere
  BY <1>6 DEF Elsewhere, Solo, ClaimFits, HardCeiling
<1> QED
  BY <1>2, <1>3, <1>4, <1>5, <1>6, StepKinds

-----------------------------------------------------------------------------
\* What the judgement of a run rests on.
JInv ==
  /\ LInv /\ Blame /\ Judged /\ Counted /\ InputsRetained
  /\ \A s \in Stages : AccountedIn(s) /\ ClaimsIn(s)

\* A run begins unjudged, with every node still to be admitted.
LEMMA InitJInv == Init => JInv
<1> SUFFICES ASSUME Init PROVE JInv
  OBVIOUS
<1>1. LInv
  BY DEF Init, LInv, VerdictWhenJudged, Stopped, TimedIn, DrainedIn, OneHeldIn, Limbo
<1>2. Blame /\ InputsRetained /\ Judged
  BY UpstreamInPlan DEF Init, Blame, InputsRetained, Judged, Limbo
<1>3. Counted
  <2>1. Claimed = {}
    BY DEF Init, Claimed
  <2> QED
    BY <2>1, FS_EmptySet DEF Init, Counted
<1>4. ASSUME NEW s \in Stages PROVE AccountedIn(s) /\ ClaimsIn(s)
  <2>1. StageNodes(s) = Remaining(s)
    BY DEF Init, StageNodes, Remaining
  <2> QED
    BY <2>1 DEF Init, AccountedIn, ClaimsIn, Tracked
<1> QED
  BY <1>1, <1>2, <1>3, <1>4 DEF JInv

\* It holds in every reachable state.
LEMMA JInvAlways == Spec => []JInv
<1>1. IInv /\ JInv /\ [Next]_vars => JInv'
  <2> SUFFICES ASSUME IInv, JInv, [Next]_vars PROVE JInv'
    OBVIOUS
  <2>1. LInv'
    BY VerdictStep, LoopStep, OneHeldStep DEF JInv, LInv
  <2>2. Blame' /\ Judged' /\ Counted' /\ InputsRetained'
    BY BlameStep, JudgedStep, CountedStep, RetainedStep DEF JInv
  <2>3. \A s \in Stages : (AccountedIn(s) /\ ClaimsIn(s))'
    BY AccountedStep, ClaimsStep DEF JInv
  <2> QED
    BY <2>1, <2>2, <2>3 DEF JInv
<1> QED
  BY <1>1, InitJInv, IInvAlways, PTL DEF Spec

\* A value that some node still has to read stays in the store until its scope
\* ends, whoever else fails, times out or is cancelled.
THEOREM InputsStay == Spec => []InputsRetained
<1>1. JInv => InputsRetained
  BY DEF JInv
<1> QED
  BY <1>1, JInvAlways, PTL

\* A run that was not cancelled has given back every claim on the memory budget
\* but those of the nodes it lost to a panic.
THEOREM BudgetIsReturned == Spec => []BudgetReturned
<1>1. IInv /\ JInv => BudgetReturned
  <2> SUFFICES ASSUME IInv, JInv, verdict \in {"Completed", "Failed"}
               PROVE  usage <= Cardinality(Vanished)
    BY DEF BudgetReturned
  <2>1. Claimed \subseteq Vanished
    BY DEF JInv, Judged, ClaimsIn, Claimed
  <2>2. IsFiniteSet(Vanished)
    BY FS_Subset, PlanAssumption DEF Vanished
  <2> QED
    BY <2>1, <2>2, FS_Subset DEF JInv, Counted
<1> QED
  BY <1>1, IInvAlways, JInvAlways, PTL

\* With one stage at a time the hard limit of the budget is a ceiling.
THEOREM HardLimitHolds == ASSUME MaxGroup = 1 PROVE Spec => []HardCeiling
<1>1. Init => Solo /\ ClaimFits /\ HardCeiling
  BY OptionsAssumption DEF Init, Solo, ClaimFits, HardCeiling
<1>2. IInv /\ (Solo /\ ClaimFits /\ HardCeiling) /\ [Next]_vars => (Solo /\ ClaimFits /\ HardCeiling)'
  BY SoloStep
<1> QED
  BY <1>1, <1>2, IInvAlways, PTL DEF Spec

-----------------------------------------------------------------------------
\* What a stage does to the nodes is something the contract lets a run do.
LEMMA StageExecutes ==
  ASSUME IInv, LInv, [Next]_vars, NEW s \in Stages, StageActs(s)
  PROVE  Contract!Execute \/ UNCHANGED <<outcome, verdict>>
<1> USE DEF Contract!Execute
<1>1. verdict = Contract!Undecided /\ UNCHANGED verdict
  BY StageFrame DEF LInv, VerdictWhenJudged, Limbo, Contract!Undecided, storeVars
<1>2. CASE Quiet
  BY <1>1, <1>2 DEF Quiet
<1>3. ASSUME NEW n \in Nodes, Begins(n) PROVE Contract!Execute
  <2>1. Contract!Start(n)
    BY <1>3 DEF Begins, Contract!Start
  <2> QED
    BY <1>1, <2>1
<1>4. ASSUME NEW S \in SUBSET Nodes, NEW o \in Terminal, Ends(S, o) PROVE Contract!Execute
  <2>1. outcome' \in [Nodes -> Contract!Outcomes]
    BY TypeStep DEF TypeOK, Outcomes, Contract!Outcomes
  <2>2. ASSUME NEW n \in Nodes, outcome'[n] # outcome[n]
        PROVE  /\ outcome[n] \in {"None", "Running"} /\ outcome'[n] = o
               /\ o \in {"Completed", "TimedOut"} => outcome[n] = "Running"
    <3>1. n \in S /\ outcome'[n] = o
      BY <1>4, <2>2 DEF Ends, Settle
    <3>2. outcome[n] \in Outcomes /\ ~Settled(n)
      BY <1>4, <3>1 DEF Ends, IInv, TypeOK
    <3> QED
      BY <1>4, <3>1, <3>2 DEF Ends, Outcomes, Settled, Terminal
  <2>3. Contract!End
    BY <2>1, <2>2 DEF Contract!End, Contract!Terminal, Terminal
  <2> QED
    BY <1>1, <2>3
<1> QED
  BY <1>2, <1>3, <1>4, NodesStep DEF NodeStep

\* Every step of the runner is a step of the contract, or invisible to it.
LEMMA ContractStep == IInv /\ JInv /\ [Next]_vars => [Contract!Next]_<<outcome, verdict>>
<1> SUFFICES ASSUME IInv, JInv, [Next]_vars
             PROVE  Contract!Next \/ UNCHANGED <<outcome, verdict>>
  OBVIOUS
<1> USE DEF Contract!Next
<1>1. ASSUME NEW s \in Stages, StageActs(s) PROVE Contract!Next \/ UNCHANGED <<outcome, verdict>>
  BY <1>1, StageExecutes DEF JInv
<1>2. CASE Conclude
  <2>1. verdict = Contract!Undecided /\ UNCHANGED outcome
    BY <1>2 DEF Conclude, JInv, LInv, VerdictWhenJudged, Limbo, Contract!Undecided, sessionVars
  <2>2. \A n \in Nodes \ Vanished : outcome[n] \in Contract!Terminal
    BY <1>2, NothingLeft DEF Conclude, JInv, Ended, Settled, Terminal, Contract!Terminal
  <2>3. verdict' = IF \E n \in Nodes : outcome[n] = "Failed" THEN "Failed" ELSE "Completed"
    BY <1>2 DEF Conclude, JInv, Blame
  <2> QED
    BY <2>1, <2>2, <2>3 DEF Contract!Conclude
<1>3. CASE HandleCancellation
  <2>1. verdict = Contract!Undecided /\ verdict' = "Cancelled"
    BY <1>3 DEF HandleCancellation, JInv, LInv, VerdictWhenJudged, Limbo, Contract!Undecided
  <2>2. outcome' = [n \in Nodes |-> IF outcome[n] \in Contract!Terminal THEN outcome[n] ELSE "Cancelled"]
    BY <1>3 DEF HandleCancellation, Settle, Unsettled, Settled, Terminal, Contract!Terminal
  <2> QED
    BY <2>1, <2>2 DEF Contract!Cancel
<1>4. CASE BeginGroup \/ EndGroup \/ CancelBeforeGroup
  BY <1>4 DEF BeginGroup, EndGroup, CancelBeforeGroup, sessionVars, storeVars
<1>5. CASE PutSummary \/ PutSnapshot \/ Finalize \/ Cleanup
  BY <1>5 DEF PutSummary, PutSnapshot, Finalize, Cleanup, sessionVars, storeVars
<1>6. CASE Elsewhere
  BY <1>6 DEF Elsewhere, sessionVars, storeVars
<1> QED
  BY <1>1, <1>2, <1>3, <1>4, <1>5, <1>6, StepKinds DEF Turns

\* The stage-based runner keeps what watchers of a run are promised: nodes start
\* on complete inputs and end once, no node is left behind, a run fails exactly
\* when one of its nodes failed, and nothing happens after the verdict.
THEOREM RunnerKeepsContract == Spec => ImplementsDataflowRun
<1>1. Init => Contract!Init
  BY DEF Init, Limbo, Contract!Init, Contract!Undecided
<1>2. IInv /\ JInv /\ [Next]_vars => [Contract!Next]_<<outcome, verdict>>
  BY ContractStep
<1> QED
  BY <1>1, <1>2, IInvAlways, JInvAlways, PTL DEF Spec, ImplementsDataflowRun, Contract!Spec

=============================================================================
