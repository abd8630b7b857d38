-------------------------- MODULE WorkerSwitchProofs --------------------------
(***************************************************************************)
(* What is proved about switching for every set of workers, runs and       *)
(* calls: type correctness, that a failed drain leaves the active worker   *)
(* open unless it is the stop that failed, that no lease outlives its run  *)
(* and that no worker is stopped under a run, but for a worker that a      *)
(* second drain had opened again.                                          *)
(***************************************************************************)
EXTENDS WorkerSwitch, TLAPS

-----------------------------------------------------------------------------
(* The inductive invariant *)

SwitchPcs == {"idle", "start", "check", "list", "cancelRuns", "wait", "giveUp", "stopTarget",
              "retire", "stopPrevious"}
RebuildPcs == {"idle", "drain", "wait", "giveUp", "shutdown", "stopActive"}

\* The transaction lock, and the steps of either kind of call.
Exclusive ==
  /\ \A c \in Switches : pc[c] \in SwitchPcs
  /\ \A c \in Rebuilds : pc[c] \in RebuildPcs
  /\ \A c, d \in Switches : pc[c] # "idle" /\ pc[d] # "idle" => c = d

\* Each call has the workers it goes on with.
Named ==
  /\ \A c \in Switches : pc[c] \notin {"idle", "start"} => target[c] \in Workers
  /\ \A c \in Rebuilds : pc[c] = "stopActive" => target[c] \in Workers
  /\ \A c \in Calls : pc[c] \in {"drain"} \cup Draining \cup Stopping => previous[c] \in Workers

\* A worker that was not started is nobody's, and a switch drains what is
\* active and commits a worker that was never active before.
Unused(w) ==
  /\ w # active /\ w # Initial /\ w \notin draining
  /\ \A d \in Calls : previous[d] # w
Fresh ==
  /\ \A w \in Workers : proc[w] = "absent" => Unused(w)
  /\ \A c \in Switches :
       /\ pc[c] \notin {"idle", "start"} => proc[target[c]] # "absent"
       /\ pc[c] \notin {"idle", "start", "stopPrevious"} => Unused(target[c])
  /\ \A c \in Switches : pc[c] \in Draining => previous[c] = active
  /\ \A c \in Switches : pc[c] = "stopPrevious" => previous[c] # active

\* Only the worker executors are routed to owns runs, and it is never
\* selected again once a switch has left it.
OnlyRouted ==
  /\ \A w \in Workers \ {Routed} : owned[w] = {}
  /\ active = Routed => \A c \in Calls : previous[c] \in {Routed, NoWorker}
  /\ \A c \in Rebuilds : pc[c] = "stopActive" /\ target[c] = Routed => previous[c] = Routed
  /\ \A r \in Runs : run[r] = "releasing" => at[r] = Routed

\* What a call found empty stays empty: its worker is closed, or was opened
\* again behind it.
Closed(w) == w \in draining \/ w \in readmitted
Idle(w) == owned[w] = {} \/ w \in readmitted
Drained ==
  /\ \A c \in Calls : pc[c] \in Draining \cup Stopping => Closed(previous[c])
  /\ \A c \in Calls : pc[c] \in {"retire", "shutdown", "stopPrevious"} => Idle(previous[c])
  /\ \A c \in Rebuilds : pc[c] = "stopActive" => Idle(target[c])
  /\ active # Routed => Closed(Routed) /\ Idle(Routed)

\* The call that keeps the active worker closed.
Draws == active \in draining =>
  \/ closed \/ active \in unstopped
  \/ \E c \in Calls : pc[c] \in Draining \cup Stopping /\ previous[c] = active

Control == TypeOK /\ Exclusive /\ Named
IInv == Control /\ Fresh /\ OnlyRouted /\ Drained /\ Draws /\ LeaseFollowsRun

\* Types, the lock and the workers each call holds are kept from themselves
\* alone.
LEMMA ControlStep ==
  ASSUME Control, [Next]_vars
  PROVE  Control'
<1> USE WorkersAssumption, CallsAssumption DEF Calls, Draining, Stopping, SwitchPcs, RebuildPcs,
     RunStates, Control, TypeOK, Exclusive, Named
<1>1. ASSUME NEW r \in Runs, BeginRun(r) PROVE Control'
  BY <1>1 DEF BeginRun, Goto, RunTo, workers, calls, runs
<1>2. ASSUME NEW r \in Runs, Invoke(r) PROVE Control'
  BY <1>2 DEF Invoke, Goto, workers, calls, runs
<1>3. ASSUME NEW r \in Runs, Reject(r) PROVE Control'
  BY <1>3 DEF Reject, Goto, RunTo, workers, calls, runs
<1>4. ASSUME NEW r \in Runs, Finish(r) PROVE Control'
  BY <1>4 DEF Finish, Goto, RunTo, workers, calls, runs
<1>5. ASSUME NEW r \in Runs, CleanupRun(r) PROVE Control'
  BY <1>5 DEF CleanupRun, Goto, RunTo, workers, calls, runs
<1>6. ASSUME NEW r \in Runs, Release(r) PROVE Control'
  BY <1>6 DEF Release, Goto, RunTo, workers, calls, runs
<1>7. ASSUME NEW c \in Calls, Switch(c) PROVE Control'
  BY <1>7 DEF Switch, Goto, workers, calls, runs
<1>8. ASSUME NEW c \in Calls, StartFails(c) PROVE Control'
  BY <1>8 DEF StartFails, Goto, Return, workers, calls, runs
<1>9. ASSUME NEW c \in Calls, TargetNotReady(c) PROVE Control'
  BY <1>9 DEF TargetNotReady, Goto, workers, calls, runs
<1>10. ASSUME NEW c \in Calls, BeginDraining(c) PROVE Control'
  BY <1>10 DEF BeginDraining, Goto, workers, calls, runs
<1>11. ASSUME NEW c \in Calls, OwnedRunIds(c) PROVE Control'
  BY <1>11 DEF OwnedRunIds, Goto, workers, calls, runs
<1>12. ASSUME NEW c \in Calls, Cancelled(c) PROVE Control'
  BY <1>12 DEF Cancelled, Goto, workers, calls, runs
<1>13. ASSUME NEW c \in Calls, Empty(c) PROVE Control'
  BY <1>13 DEF Empty, Goto, workers, calls, runs
<1>14. ASSUME NEW c \in Calls, DeadlinePasses(c) PROVE Control'
  BY <1>14 DEF DeadlinePasses, Goto, workers, calls, runs
<1>15. ASSUME NEW c \in Calls, GiveUpSwitch(c) PROVE Control'
  BY <1>15 DEF GiveUpSwitch, Goto, RestoreReady, Behind, workers, calls, runs
<1>16. ASSUME NEW c \in Calls, StopTarget(c) PROVE Control'
  BY <1>16 DEF StopTarget, Goto, Stop, Return, workers, calls, runs
<1>17. ASSUME NEW c \in Calls, Commit(c) PROVE Control'
  BY <1>17 DEF Commit, Goto, workers, calls, runs
<1>18. ASSUME NEW c \in Calls, StopPrevious(c) PROVE Control'
  BY <1>18 DEF StopPrevious, Goto, Stop, Return, workers, calls, runs
<1>19. ASSUME NEW c \in Calls, Rebuild(c) PROVE Control'
  BY <1>19 DEF Rebuild, Goto, workers, calls, runs
<1>20. ASSUME NEW c \in Calls, RebuildDrains(c) PROVE Control'
  BY <1>20 DEF RebuildDrains, Goto, workers, calls, runs
<1>21. ASSUME NEW c \in Calls, GiveUpRebuild(c) PROVE Control'
  BY <1>21 DEF GiveUpRebuild, Goto, RestoreReady, Behind, Return, workers, calls, runs
<1>22. ASSUME NEW c \in Calls, ShutdownActive(c) PROVE Control'
  BY <1>22 DEF ShutdownActive, Goto, workers, calls, runs
<1>23. ASSUME NEW c \in Calls, StopActive(c) PROVE Control'
  BY <1>23 DEF StopActive, Goto, Stop, Return, workers, calls, runs
<1>29. ASSUME NEW c \in Calls, StopActiveFails(c) PROVE Control'
  BY <1>29 DEF StopActiveFails, Goto, Stop, Return, workers, calls, runs
<1>24. ASSUME NEW c \in Calls, NEW w \in Workers, StartTarget(c, w) PROVE Control'
  BY <1>24 DEF StartTarget, Goto, workers, calls, runs
<1>25. ASSUME NEW c \in Calls, NEW r \in Runs, CancelRun(c, r) PROVE Control'
  BY <1>25 DEF CancelRun, Goto, RunTo, Known, workers, calls, runs
<1>26. ASSUME NEW c \in Calls, NEW r \in Runs, CancelFails(c, r) PROVE Control'
  BY <1>26 DEF CancelFails, Goto, Known, workers, calls, runs
<1>27. ASSUME NEW w \in Workers, WorkerFails(w) PROVE Control'
  BY <1>27 DEF WorkerFails, Goto, workers, calls, runs
<1>28. ASSUME UNCHANGED vars PROVE Control'
  BY <1>28 DEF vars, workers, calls, runs
<1> QED
    BY <1>1, <1>2, <1>3, <1>4, <1>5, <1>6, <1>7, <1>8, <1>9, <1>10, <1>11, <1>12, <1>13, <1>14,
     <1>15, <1>16, <1>17, <1>18, <1>19, <1>20, <1>21, <1>22, <1>23, <1>24, <1>25, <1>26, <1>27,
     <1>28, <1>29 DEF Next, RunStep, Step

\* A switch commits a worker that was never active.
LEMMA FreshStep ==
  ASSUME IInv, [Next]_vars
  PROVE  Fresh'
<1> USE WorkersAssumption, CallsAssumption DEF Calls, Draining, Stopping, SwitchPcs, RebuildPcs,
     IInv, Control, TypeOK, Exclusive, Named, Fresh, Unused, OnlyRouted, Routed, Drained, Closed, Idle, Draws, LeaseFollowsRun
<1>1. ASSUME NEW r \in Runs, BeginRun(r) PROVE Fresh'
  BY <1>1 DEF BeginRun, Goto, RunTo, workers, calls, runs
<1>2. ASSUME NEW r \in Runs, Invoke(r) PROVE Fresh'
  BY <1>2 DEF Invoke, Goto, workers, calls, runs
<1>3. ASSUME NEW r \in Runs, Reject(r) PROVE Fresh'
  BY <1>3 DEF Reject, Goto, RunTo, workers, calls, runs
<1>4. ASSUME NEW r \in Runs, Finish(r) PROVE Fresh'
  BY <1>4 DEF Finish, Goto, RunTo, workers, calls, runs
<1>5. ASSUME NEW r \in Runs, CleanupRun(r) PROVE Fresh'
  BY <1>5 DEF CleanupRun, Goto, RunTo, workers, calls, runs
<1>6. ASSUME NEW r \in Runs, Release(r) PROVE Fresh'
  BY <1>6 DEF Release, Goto, RunTo, workers, calls, runs
<1>7. ASSUME NEW c \in Calls, Switch(c) PROVE Fresh'
  BY <1>7 DEF Switch, Goto, workers, calls, runs
<1>8. ASSUME NEW c \in Calls, StartFails(c) PROVE Fresh'
  BY <1>8 DEF StartFails, Goto, Return, workers, calls, runs
<1>9. ASSUME NEW c \in Calls, TargetNotReady(c) PROVE Fresh'
  BY <1>9 DEF TargetNotReady, Goto, workers, calls, runs
<1>10. ASSUME NEW c \in Calls, BeginDraining(c) PROVE Fresh'
  BY <1>10 DEF BeginDraining, Goto, workers, calls, runs
<1>11. ASSUME NEW c \in Calls, OwnedRunIds(c) PROVE Fresh'
  BY <1>11 DEF OwnedRunIds, Goto, workers, calls, runs
<1>12. ASSUME NEW c \in Calls, Cancelled(c) PROVE Fresh'
  BY <1>12 DEF Cancelled, Goto, workers, calls, runs
<1>13. ASSUME NEW c \in Calls, Empty(c) PROVE Fresh'
  BY <1>13 DEF Empty, Goto, workers, calls, runs
<1>14. ASSUME NEW c \in Calls, DeadlinePasses(c) PROVE Fresh'
  BY <1>14 DEF DeadlinePasses, Goto, workers, calls, runs
<1>15. ASSUME NEW c \in Calls, GiveUpSwitch(c) PROVE Fresh'
  BY <1>15 DEF GiveUpSwitch, Goto, RestoreReady, Behind, workers, calls, runs
<1>16. ASSUME NEW c \in Calls, StopTarget(c) PROVE Fresh'
  BY <1>16 DEF StopTarget, Goto, Stop, Return, workers, calls, runs
<1>17. ASSUME NEW c \in Calls, Commit(c) PROVE Fresh'
  BY <1>17 DEF Commit, Goto, workers, calls, runs
<1>18. ASSUME NEW c \in Calls, StopPrevious(c) PROVE Fresh'
  BY <1>18 DEF StopPrevious, Goto, Stop, Return, workers, calls, runs
<1>19. ASSUME NEW c \in Calls, Rebuild(c) PROVE Fresh'
  BY <1>19 DEF Rebuild, Goto, workers, calls, runs
<1>20. ASSUME NEW c \in Calls, RebuildDrains(c) PROVE Fresh'
  BY <1>20 DEF RebuildDrains, Goto, workers, calls, runs
<1>21. ASSUME NEW c \in Calls, GiveUpRebuild(c) PROVE Fresh'
  BY <1>21 DEF GiveUpRebuild, Goto, RestoreReady, Behind, Return, workers, calls, runs
<1>22. ASSUME NEW c \in Calls, ShutdownActive(c) PROVE Fresh'
  BY <1>22 DEF ShutdownActive, Goto, workers, calls, runs
<1>23. ASSUME NEW c \in Calls, StopActive(c) PROVE Fresh'
  BY <1>23 DEF StopActive, Goto, Stop, Return, workers, calls, runs
<1>29. ASSUME NEW c \in Calls, StopActiveFails(c) PROVE Fresh'
  BY <1>29 DEF StopActiveFails, Goto, Stop, Return, workers, calls, runs
<1>24. ASSUME NEW c \in Calls, NEW w \in Workers, StartTarget(c, w) PROVE Fresh'
  BY <1>24 DEF StartTarget, Goto, workers, calls, runs
<1>25. ASSUME NEW c \in Calls, NEW r \in Runs, CancelRun(c, r) PROVE Fresh'
  BY <1>25 DEF CancelRun, Goto, RunTo, Known, workers, calls, runs
<1>26. ASSUME NEW c \in Calls, NEW r \in Runs, CancelFails(c, r) PROVE Fresh'
  BY <1>26 DEF CancelFails, Goto, Known, workers, calls, runs
<1>27. ASSUME NEW w \in Workers, WorkerFails(w) PROVE Fresh'
  BY <1>27 DEF WorkerFails, Goto, workers, calls, runs
<1>28. ASSUME UNCHANGED vars PROVE Fresh'
  BY <1>28 DEF vars, workers, calls, runs
<1> QED
    BY <1>1, <1>2, <1>3, <1>4, <1>5, <1>6, <1>7, <1>8, <1>9, <1>10, <1>11, <1>12, <1>13, <1>14,
     <1>15, <1>16, <1>17, <1>18, <1>19, <1>20, <1>21, <1>22, <1>23, <1>24, <1>25, <1>26, <1>27,
     <1>28, <1>29 DEF Next, RunStep, Step

\* Only the routed worker owns runs.
LEMMA OnlyRoutedStep ==
  ASSUME IInv, [Next]_vars
  PROVE  OnlyRouted'
<1> USE WorkersAssumption, CallsAssumption DEF Calls, Draining, Stopping, SwitchPcs, RebuildPcs,
     IInv, Control, TypeOK, Exclusive, Named, Fresh, Unused, OnlyRouted, Routed, Drained, Closed, Idle, Draws, LeaseFollowsRun
<1>1. ASSUME NEW r \in Runs, BeginRun(r) PROVE OnlyRouted'
  BY <1>1 DEF BeginRun, Goto, RunTo, workers, calls, runs
<1>2. ASSUME NEW r \in Runs, Invoke(r) PROVE OnlyRouted'
  BY <1>2 DEF Invoke, Goto, workers, calls, runs
<1>3. ASSUME NEW r \in Runs, Reject(r) PROVE OnlyRouted'
  BY <1>3 DEF Reject, Goto, RunTo, workers, calls, runs
<1>4. ASSUME NEW r \in Runs, Finish(r) PROVE OnlyRouted'
  BY <1>4 DEF Finish, Goto, RunTo, workers, calls, runs
<1>5. ASSUME NEW r \in Runs, CleanupRun(r) PROVE OnlyRouted'
  BY <1>5 DEF CleanupRun, Goto, RunTo, workers, calls, runs
<1>6. ASSUME NEW r \in Runs, Release(r) PROVE OnlyRouted'
  BY <1>6 DEF Release, Goto, RunTo, workers, calls, runs
<1>7. ASSUME NEW c \in Calls, Switch(c) PROVE OnlyRouted'
  BY <1>7 DEF Switch, Goto, workers, calls, runs
<1>8. ASSUME NEW c \in Calls, StartFails(c) PROVE OnlyRouted'
  BY <1>8 DEF StartFails, Goto, Return, workers, calls, runs
<1>9. ASSUME NEW c \in Calls, TargetNotReady(c) PROVE OnlyRouted'
  BY <1>9 DEF TargetNotReady, Goto, workers, calls, runs
<1>10. ASSUME NEW c \in Calls, BeginDraining(c) PROVE OnlyRouted'
  BY <1>10 DEF BeginDraining, Goto, workers, calls, runs
<1>11. ASSUME NEW c \in Calls, OwnedRunIds(c) PROVE OnlyRouted'
  BY <1>11 DEF OwnedRunIds, Goto, workers, calls, runs
<1>12. ASSUME NEW c \in Calls, Cancelled(c) PROVE OnlyRouted'
  BY <1>12 DEF Cancelled, Goto, workers, calls, runs
<1>13. ASSUME NEW c \in Calls, Empty(c) PROVE OnlyRouted'
  BY <1>13 DEF Empty, Goto, workers, calls, runs
<1>14. ASSUME NEW c \in Calls, DeadlinePasses(c) PROVE OnlyRouted'
  BY <1>14 DEF DeadlinePasses, Goto, workers, calls, runs
<1>15. ASSUME NEW c \in Calls, GiveUpSwitch(c) PROVE OnlyRouted'
  BY <1>15 DEF GiveUpSwitch, Goto, RestoreReady, Behind, workers, calls, runs
<1>16. ASSUME NEW c \in Calls, StopTarget(c) PROVE OnlyRouted'
  BY <1>16 DEF StopTarget, Goto, Stop, Return, workers, calls, runs
<1>17. ASSUME NEW c \in Calls, Commit(c) PROVE OnlyRouted'
  BY <1>17 DEF Commit, Goto, workers, calls, runs
<1>18. ASSUME NEW c \in Calls, StopPrevious(c) PROVE OnlyRouted'
  BY <1>18 DEF StopPrevious, Goto, Stop, Return, workers, calls, runs
<1>19. ASSUME NEW c \in Calls, Rebuild(c) PROVE OnlyRouted'
  BY <1>19 DEF Rebuild, Goto, workers, calls, runs
<1>20. ASSUME NEW c \in Calls, RebuildDrains(c) PROVE OnlyRouted'
  BY <1>20 DEF RebuildDrains, Goto, workers, calls, runs
<1>21. ASSUME NEW c \in Calls, GiveUpRebuild(c) PROVE OnlyRouted'
  BY <1>21 DEF GiveUpRebuild, Goto, RestoreReady, Behind, Return, workers, calls, runs
<1>22. ASSUME NEW c \in Calls, ShutdownActive(c) PROVE OnlyRouted'
  BY <1>22 DEF ShutdownActive, Goto, workers, calls, runs
<1>23. ASSUME NEW c \in Calls, StopActive(c) PROVE OnlyRouted'
  BY <1>23 DEF StopActive, Goto, Stop, Return, workers, calls, runs
<1>29. ASSUME NEW c \in Calls, StopActiveFails(c) PROVE OnlyRouted'
  BY <1>29 DEF StopActiveFails, Goto, Stop, Return, workers, calls, runs
<1>24. ASSUME NEW c \in Calls, NEW w \in Workers, StartTarget(c, w) PROVE OnlyRouted'
  BY <1>24 DEF StartTarget, Goto, workers, calls, runs
<1>25. ASSUME NEW c \in Calls, NEW r \in Runs, CancelRun(c, r) PROVE OnlyRouted'
  BY <1>25 DEF CancelRun, Goto, RunTo, Known, workers, calls, runs
<1>26. ASSUME NEW c \in Calls, NEW r \in Runs, CancelFails(c, r) PROVE OnlyRouted'
  BY <1>26 DEF CancelFails, Goto, Known, workers, calls, runs
<1>27. ASSUME NEW w \in Workers, WorkerFails(w) PROVE OnlyRouted'
  BY <1>27 DEF WorkerFails, Goto, workers, calls, runs
<1>28. ASSUME UNCHANGED vars PROVE OnlyRouted'
  BY <1>28 DEF vars, workers, calls, runs
<1> QED
    BY <1>1, <1>2, <1>3, <1>4, <1>5, <1>6, <1>7, <1>8, <1>9, <1>10, <1>11, <1>12, <1>13, <1>14,
     <1>15, <1>16, <1>17, <1>18, <1>19, <1>20, <1>21, <1>22, <1>23, <1>24, <1>25, <1>26, <1>27,
     <1>28, <1>29 DEF Next, RunStep, Step

\* What was found empty stays empty.
LEMMA DrainedStep ==
  ASSUME IInv, [Next]_vars
  PROVE  Drained'
<1> USE WorkersAssumption, CallsAssumption DEF Calls, Draining, Stopping, SwitchPcs, RebuildPcs,
     IInv, Control, TypeOK, Exclusive, Named, Fresh, Unused, OnlyRouted, Routed, Drained, Closed, Idle, Draws, LeaseFollowsRun
<1>1. ASSUME NEW r \in Runs, BeginRun(r) PROVE Drained'
  BY <1>1 DEF BeginRun, Goto, RunTo, workers, calls, runs
<1>2. ASSUME NEW r \in Runs, Invoke(r) PROVE Drained'
  BY <1>2 DEF Invoke, Goto, workers, calls, runs
<1>3. ASSUME NEW r \in Runs, Reject(r) PROVE Drained'
  BY <1>3 DEF Reject, Goto, RunTo, workers, calls, runs
<1>4. ASSUME NEW r \in Runs, Finish(r) PROVE Drained'
  BY <1>4 DEF Finish, Goto, RunTo, workers, calls, runs
<1>5. ASSUME NEW r \in Runs, CleanupRun(r) PROVE Drained'
  BY <1>5 DEF CleanupRun, Goto, RunTo, workers, calls, runs
<1>6. ASSUME NEW r \in Runs, Release(r) PROVE Drained'
  BY <1>6 DEF Release, Goto, RunTo, workers, calls, runs
<1>7. ASSUME NEW c \in Calls, Switch(c) PROVE Drained'
  BY <1>7 DEF Switch, Goto, workers, calls, runs
<1>8. ASSUME NEW c \in Calls, StartFails(c) PROVE Drained'
  BY <1>8 DEF StartFails, Goto, Return, workers, calls, runs
<1>9. ASSUME NEW c \in Calls, TargetNotReady(c) PROVE Drained'
  BY <1>9 DEF TargetNotReady, Goto, workers, calls, runs
<1>10. ASSUME NEW c \in Calls, BeginDraining(c) PROVE Drained'
  BY <1>10 DEF BeginDraining, Goto, workers, calls, runs
<1>11. ASSUME NEW c \in Calls, OwnedRunIds(c) PROVE Drained'
  BY <1>11 DEF OwnedRunIds, Goto, workers, calls, runs
<1>12. ASSUME NEW c \in Calls, Cancelled(c) PROVE Drained'
  BY <1>12 DEF Cancelled, Goto, workers, calls, runs
<1>13. ASSUME NEW c \in Calls, Empty(c) PROVE Drained'
  BY <1>13 DEF Empty, Goto, workers, calls, runs
<1>14. ASSUME NEW c \in Calls, DeadlinePasses(c) PROVE Drained'
  BY <1>14 DEF DeadlinePasses, Goto, workers, calls, runs
<1>15. ASSUME NEW c \in Calls, GiveUpSwitch(c) PROVE Drained'
  BY <1>15 DEF GiveUpSwitch, Goto, RestoreReady, Behind, workers, calls, runs
<1>16. ASSUME NEW c \in Calls, StopTarget(c) PROVE Drained'
  BY <1>16 DEF StopTarget, Goto, Stop, Return, workers, calls, runs
<1>17. ASSUME NEW c \in Calls, Commit(c) PROVE Drained'
  BY <1>17 DEF Commit, Goto, workers, calls, runs
<1>18. ASSUME NEW c \in Calls, StopPrevious(c) PROVE Drained'
  BY <1>18 DEF StopPrevious, Goto, Stop, Return, workers, calls, runs
<1>19. ASSUME NEW c \in Calls, Rebuild(c) PROVE Drained'
  BY <1>19 DEF Rebuild, Goto, workers, calls, runs
<1>20. ASSUME NEW c \in Calls, RebuildDrains(c) PROVE Drained'
  BY <1>20 DEF RebuildDrains, Goto, workers, calls, runs
<1>21. ASSUME NEW c \in Calls, GiveUpRebuild(c) PROVE Drained'
  BY <1>21 DEF GiveUpRebuild, Goto, RestoreReady, Behind, Return, workers, calls, runs
<1>22. ASSUME NEW c \in Calls, ShutdownActive(c) PROVE Drained'
  BY <1>22 DEF ShutdownActive, Goto, workers, calls, runs
<1>23. ASSUME NEW c \in Calls, StopActive(c) PROVE Drained'
  BY <1>23 DEF StopActive, Goto, Stop, Return, workers, calls, runs
<1>29. ASSUME NEW c \in Calls, StopActiveFails(c) PROVE Drained'
  BY <1>29 DEF StopActiveFails, Goto, Stop, Return, workers, calls, runs
<1>24. ASSUME NEW c \in Calls, NEW w \in Workers, StartTarget(c, w) PROVE Drained'
  BY <1>24 DEF StartTarget, Goto, workers, calls, runs
<1>25. ASSUME NEW c \in Calls, NEW r \in Runs, CancelRun(c, r) PROVE Drained'
  BY <1>25 DEF CancelRun, Goto, RunTo, Known, workers, calls, runs
<1>26. ASSUME NEW c \in Calls, NEW r \in Runs, CancelFails(c, r) PROVE Drained'
  BY <1>26 DEF CancelFails, Goto, Known, workers, calls, runs
<1>27. ASSUME NEW w \in Workers, WorkerFails(w) PROVE Drained'
  BY <1>27 DEF WorkerFails, Goto, workers, calls, runs
<1>28. ASSUME UNCHANGED vars PROVE Drained'
  BY <1>28 DEF vars, workers, calls, runs
<1> QED
    BY <1>1, <1>2, <1>3, <1>4, <1>5, <1>6, <1>7, <1>8, <1>9, <1>10, <1>11, <1>12, <1>13, <1>14,
     <1>15, <1>16, <1>17, <1>18, <1>19, <1>20, <1>21, <1>22, <1>23, <1>24, <1>25, <1>26, <1>27,
     <1>28, <1>29 DEF Next, RunStep, Step

\* A closed active worker has the call that closed it, or one that failed to stop it.
LEMMA DrawsStep ==
  ASSUME IInv, [Next]_vars
  PROVE  Draws'
<1> USE WorkersAssumption, CallsAssumption DEF Calls, Draining, Stopping, SwitchPcs, RebuildPcs,
     IInv, Control, TypeOK, Exclusive, Named, Fresh, Unused, OnlyRouted, Routed, Drained, Closed, Idle, Draws, LeaseFollowsRun
<1>1. ASSUME NEW r \in Runs, BeginRun(r) PROVE Draws'
  BY <1>1 DEF BeginRun, Goto, RunTo, workers, calls, runs
<1>2. ASSUME NEW r \in Runs, Invoke(r) PROVE Draws'
  BY <1>2 DEF Invoke, Goto, workers, calls, runs
<1>3. ASSUME NEW r \in Runs, Reject(r) PROVE Draws'
  BY <1>3 DEF Reject, Goto, RunTo, workers, calls, runs
<1>4. ASSUME NEW r \in Runs, Finish(r) PROVE Draws'
  BY <1>4 DEF Finish, Goto, RunTo, workers, calls, runs
<1>5. ASSUME NEW r \in Runs, CleanupRun(r) PROVE Draws'
  BY <1>5 DEF CleanupRun, Goto, RunTo, workers, calls, runs
<1>6. ASSUME NEW r \in Runs, Release(r) PROVE Draws'
  BY <1>6 DEF Release, Goto, RunTo, workers, calls, runs
<1>7. ASSUME NEW c \in Calls, Switch(c) PROVE Draws'
  BY <1>7 DEF Switch, Goto, workers, calls, runs
<1>8. ASSUME NEW c \in Calls, StartFails(c) PROVE Draws'
  BY <1>8 DEF StartFails, Goto, Return, workers, calls, runs
<1>9. ASSUME NEW c \in Calls, TargetNotReady(c) PROVE Draws'
  BY <1>9 DEF TargetNotReady, Goto, workers, calls, runs
<1>10. ASSUME NEW c \in Calls, BeginDraining(c) PROVE Draws'
  BY <1>10 DEF BeginDraining, Goto, workers, calls, runs
<1>11. ASSUME NEW c \in Calls, OwnedRunIds(c) PROVE Draws'
  BY <1>11 DEF OwnedRunIds, Goto, workers, calls, runs
<1>12. ASSUME NEW c \in Calls, Cancelled(c) PROVE Draws'
  BY <1>12 DEF Cancelled, Goto, workers, calls, runs
<1>13. ASSUME NEW c \in Calls, Empty(c) PROVE Draws'
  BY <1>13 DEF Empty, Goto, workers, calls, runs
<1>14. ASSUME NEW c \in Calls, DeadlinePasses(c) PROVE Draws'
  BY <1>14 DEF DeadlinePasses, Goto, workers, calls, runs
<1>15. ASSUME NEW c \in Calls, GiveUpSwitch(c) PROVE Draws'
  BY <1>15 DEF GiveUpSwitch, Goto, RestoreReady, Behind, workers, calls, runs
<1>16. ASSUME NEW c \in Calls, StopTarget(c) PROVE Draws'
  BY <1>16 DEF StopTarget, Goto, Stop, Return, workers, calls, runs
<1>17. ASSUME NEW c \in Calls, Commit(c) PROVE Draws'
  BY <1>17 DEF Commit, Goto, workers, calls, runs
<1>18. ASSUME NEW c \in Calls, StopPrevious(c) PROVE Draws'
  BY <1>18 DEF StopPrevious, Goto, Stop, Return, workers, calls, runs
<1>19. ASSUME NEW c \in Calls, Rebuild(c) PROVE Draws'
  BY <1>19 DEF Rebuild, Goto, workers, calls, runs
<1>20. ASSUME NEW c \in Calls, RebuildDrains(c) PROVE Draws'
  BY <1>20 DEF RebuildDrains, Goto, workers, calls, runs
<1>21. ASSUME NEW c \in Calls, GiveUpRebuild(c) PROVE Draws'
  BY <1>21 DEF GiveUpRebuild, Goto, RestoreReady, Behind, Return, workers, calls, runs
<1>22. ASSUME NEW c \in Calls, ShutdownActive(c) PROVE Draws'
  BY <1>22 DEF ShutdownActive, Goto, workers, calls, runs
<1>23. ASSUME NEW c \in Calls, StopActive(c) PROVE Draws'
  BY <1>23 DEF StopActive, Goto, Stop, Return, workers, calls, runs
<1>29. ASSUME NEW c \in Calls, StopActiveFails(c) PROVE Draws'
  BY <1>29 DEF StopActiveFails, Goto, Stop, Return, workers, calls, runs
<1>24. ASSUME NEW c \in Calls, NEW w \in Workers, StartTarget(c, w) PROVE Draws'
  BY <1>24 DEF StartTarget, Goto, workers, calls, runs
<1>25. ASSUME NEW c \in Calls, NEW r \in Runs, CancelRun(c, r) PROVE Draws'
  BY <1>25 DEF CancelRun, Goto, RunTo, Known, workers, calls, runs
<1>26. ASSUME NEW c \in Calls, NEW r \in Runs, CancelFails(c, r) PROVE Draws'
  BY <1>26 DEF CancelFails, Goto, Known, workers, calls, runs
<1>27. ASSUME NEW w \in Workers, WorkerFails(w) PROVE Draws'
  BY <1>27 DEF WorkerFails, Goto, workers, calls, runs
<1>28. ASSUME UNCHANGED vars PROVE Draws'
  BY <1>28 DEF vars, workers, calls, runs
<1> QED
    BY <1>1, <1>2, <1>3, <1>4, <1>5, <1>6, <1>7, <1>8, <1>9, <1>10, <1>11, <1>12, <1>13, <1>14,
     <1>15, <1>16, <1>17, <1>18, <1>19, <1>20, <1>21, <1>22, <1>23, <1>24, <1>25, <1>26, <1>27,
     <1>28, <1>29 DEF Next, RunStep, Step

\* A run that is over holds no lease.
LEMMA LeaseFollowsRunStep ==
  ASSUME IInv, [Next]_vars
  PROVE  LeaseFollowsRun'
<1> USE WorkersAssumption, CallsAssumption DEF Calls, Draining, Stopping, SwitchPcs, RebuildPcs,
     IInv, Control, TypeOK, Exclusive, Named, Fresh, Unused, OnlyRouted, Routed, Drained, Closed, Idle, Draws, LeaseFollowsRun
<1>1. ASSUME NEW r \in Runs, BeginRun(r) PROVE LeaseFollowsRun'
  BY <1>1 DEF BeginRun, Goto, RunTo, workers, calls, runs
<1>2. ASSUME NEW r \in Runs, Invoke(r) PROVE LeaseFollowsRun'
  BY <1>2 DEF Invoke, Goto, workers, calls, runs
<1>3. ASSUME NEW r \in Runs, Reject(r) PROVE LeaseFollowsRun'
  BY <1>3 DEF Reject, Goto, RunTo, workers, calls, runs
<1>4. ASSUME NEW r \in Runs, Finish(r) PROVE LeaseFollowsRun'
  BY <1>4 DEF Finish, Goto, RunTo, workers, calls, runs
<1>5. ASSUME NEW r \in Runs, CleanupRun(r) PROVE LeaseFollowsRun'
  BY <1>5 DEF CleanupRun, Goto, RunTo, workers, calls, runs
<1>6. ASSUME NEW r \in Runs, Release(r) PROVE LeaseFollowsRun'
  BY <1>6 DEF Release, Goto, RunTo, workers, calls, runs
<1>7. ASSUME NEW c \in Calls, Switch(c) PROVE LeaseFollowsRun'
  BY <1>7 DEF Switch, Goto, workers, calls, runs
<1>8. ASSUME NEW c \in Calls, StartFails(c) PROVE LeaseFollowsRun'
  BY <1>8 DEF StartFails, Goto, Return, workers, calls, runs
<1>9. ASSUME NEW c \in Calls, TargetNotReady(c) PROVE LeaseFollowsRun'
  BY <1>9 DEF TargetNotReady, Goto, workers, calls, runs
<1>10. ASSUME NEW c \in Calls, BeginDraining(c) PROVE LeaseFollowsRun'
  BY <1>10 DEF BeginDraining, Goto, workers, calls, runs
<1>11. ASSUME NEW c \in Calls, OwnedRunIds(c) PROVE LeaseFollowsRun'
  BY <1>11 DEF OwnedRunIds, Goto, workers, calls, runs
<1>12. ASSUME NEW c \in Calls, Cancelled(c) PROVE LeaseFollowsRun'
  BY <1>12 DEF Cancelled, Goto, workers, calls, runs
<1>13. ASSUME NEW c \in Calls, Empty(c) PROVE LeaseFollowsRun'
  BY <1>13 DEF Empty, Goto, workers, calls, runs
<1>14. ASSUME NEW c \in Calls, DeadlinePasses(c) PROVE LeaseFollowsRun'
  BY <1>14 DEF DeadlinePasses, Goto, workers, calls, runs
<1>15. ASSUME NEW c \in Calls, GiveUpSwitch(c) PROVE LeaseFollowsRun'
  BY <1>15 DEF GiveUpSwitch, Goto, RestoreReady, Behind, workers, calls, runs
<1>16. ASSUME NEW c \in Calls, StopTarget(c) PROVE LeaseFollowsRun'
  BY <1>16 DEF StopTarget, Goto, Stop, Return, workers, calls, runs
<1>17. ASSUME NEW c \in Calls, Commit(c) PROVE LeaseFollowsRun'
  BY <1>17 DEF Commit, Goto, workers, calls, runs
<1>18. ASSUME NEW c \in Calls, StopPrevious(c) PROVE LeaseFollowsRun'
  BY <1>18 DEF StopPrevious, Goto, Stop, Return, workers, calls, runs
<1>19. ASSUME NEW c \in Calls, Rebuild(c) PROVE LeaseFollowsRun'
  BY <1>19 DEF Rebuild, Goto, workers, calls, runs
<1>20. ASSUME NEW c \in Calls, RebuildDrains(c) PROVE LeaseFollowsRun'
  BY <1>20 DEF RebuildDrains, Goto, workers, calls, runs
<1>21. ASSUME NEW c \in Calls, GiveUpRebuild(c) PROVE LeaseFollowsRun'
  BY <1>21 DEF GiveUpRebuild, Goto, RestoreReady, Behind, Return, workers, calls, runs
<1>22. ASSUME NEW c \in Calls, ShutdownActive(c) PROVE LeaseFollowsRun'
  BY <1>22 DEF ShutdownActive, Goto, workers, calls, runs
<1>23. ASSUME NEW c \in Calls, StopActive(c) PROVE LeaseFollowsRun'
  BY <1>23 DEF StopActive, Goto, Stop, Return, workers, calls, runs
<1>29. ASSUME NEW c \in Calls, StopActiveFails(c) PROVE LeaseFollowsRun'
  BY <1>29 DEF StopActiveFails, Goto, Stop, Return, workers, calls, runs
<1>24. ASSUME NEW c \in Calls, NEW w \in Workers, StartTarget(c, w) PROVE LeaseFollowsRun'
  BY <1>24 DEF StartTarget, Goto, workers, calls, runs
<1>25. ASSUME NEW c \in Calls, NEW r \in Runs, CancelRun(c, r) PROVE LeaseFollowsRun'
  BY <1>25 DEF CancelRun, Goto, RunTo, Known, workers, calls, runs
<1>26. ASSUME NEW c \in Calls, NEW r \in Runs, CancelFails(c, r) PROVE LeaseFollowsRun'
  BY <1>26 DEF CancelFails, Goto, Known, workers, calls, runs
<1>27. ASSUME NEW w \in Workers, WorkerFails(w) PROVE LeaseFollowsRun'
  BY <1>27 DEF WorkerFails, Goto, workers, calls, runs
<1>28. ASSUME UNCHANGED vars PROVE LeaseFollowsRun'
  BY <1>28 DEF vars, workers, calls, runs
<1> QED
    BY <1>1, <1>2, <1>3, <1>4, <1>5, <1>6, <1>7, <1>8, <1>9, <1>10, <1>11, <1>12, <1>13, <1>14,
     <1>15, <1>16, <1>17, <1>18, <1>19, <1>20, <1>21, <1>22, <1>23, <1>24, <1>25, <1>26, <1>27,
     <1>28, <1>29 DEF Next, RunStep, Step

LEMMA InitInv == Init => IInv
<1> SUFFICES ASSUME Init PROVE IInv
  OBVIOUS
<1> USE WorkersAssumption, CallsAssumption DEF Init
<1>1. TypeOK
  BY DEF TypeOK, RunStates
<1>2. Exclusive /\ Named
  BY DEF Exclusive, Named, Calls, Draining, Stopping, SwitchPcs, RebuildPcs
<1>3. Fresh
  BY DEF Fresh, Unused, Calls, Draining
<1>4. OnlyRouted
  BY DEF OnlyRouted, Routed, Calls
<1>5. Drained /\ Draws
  BY DEF Drained, Draws, Routed, Calls, Draining, Stopping
<1>6. LeaseFollowsRun
  BY DEF LeaseFollowsRun
<1> QED
  BY <1>1, <1>2, <1>3, <1>4, <1>5, <1>6 DEF IInv, Control

LEMMA Inductive == Spec => []IInv
<1>1. IInv /\ [Next]_vars => IInv'
  BY ControlStep, FreshStep, OnlyRoutedStep, DrainedStep, DrawsStep, LeaseFollowsRunStep DEF IInv
<1> QED
  BY InitInv, <1>1, PTL DEF Spec

\* Every variable stays of its type.
THEOREM TypeCorrect == Spec => []TypeOK
<1>1. IInv => TypeOK
  BY DEF IInv, Control
<1> QED
  BY Inductive, <1>1, PTL

\* A drain that cannot cancel the runs or passes its deadline opens the active
\* worker again: it is closed only while a call drains, or since a re-bootstrap
\* drained it and its stop failed.
THEOREM DrainsRestore == Spec => []AdmissionRestored
<1>1. IInv => AdmissionRestored
  BY DEF IInv, Draws, AdmissionRestored
<1> QED
  BY Inductive, <1>1, PTL

\* No lease outlives its run, but on a worker opened again behind a switch.
THEOREM LeasesEnd == Spec => []LeaseFollowsRun
<1>1. IInv => LeaseFollowsRun
  BY DEF IInv
<1> QED
  BY Inductive, <1>1, PTL

\* Workers are stopped idle, with the same exception.
THEOREM WorkersStopIdle == Spec => StoppedIdle
<1> DEFINE Stopped ==
      \A w \in Workers : (proc[w] = "Ready" /\ proc'[w] = "Stopped") =>
         owned[w] = {} \/ w \in readmitted
<1>1. IInv /\ [Next]_vars => Stopped
  <2> SUFFICES ASSUME IInv, [Next]_vars, NEW w \in Workers,
                      proc[w] = "Ready", proc'[w] = "Stopped"
               PROVE  owned[w] = {} \/ w \in readmitted
    OBVIOUS
  <2> USE WorkersAssumption, CallsAssumption DEF IInv, Control, TypeOK
  <2>1. \/ \E c \in Calls : StopTarget(c) \/ StopPrevious(c) \/ StopActive(c) \/ StopActiveFails(c)
        \/ UNCHANGED proc \/ \E v \in Workers : WorkerFails(v)
        \/ \E c \in Calls, v \in Workers : StartTarget(c, v)
    BY DEF Next, RunStep, Step, BeginRun, Invoke, Reject, Finish, CleanupRun, Release, Switch,
           StartFails, TargetNotReady, BeginDraining, OwnedRunIds, CancelRun, CancelFails,
           Cancelled, Empty, DeadlinePasses, GiveUpSwitch, Commit, Rebuild, RebuildDrains,
           GiveUpRebuild, ShutdownActive, vars, workers
  <2>2. CASE UNCHANGED proc \/ (\E v \in Workers : WorkerFails(v))
               \/ \E c \in Calls, v \in Workers : StartTarget(c, v)
    BY <2>2 DEF WorkerFails, StartTarget
  <2>3. ASSUME NEW c \in Calls, StopTarget(c) PROVE owned[w] = {}
    BY <2>3 DEF StopTarget, Stop, Exclusive, SwitchPcs, RebuildPcs, Calls, Fresh, Unused,
       OnlyRouted,
                Routed, Named
  <2>4. ASSUME NEW c \in Calls, StopPrevious(c) PROVE owned[w] = {} \/ w \in readmitted
    BY <2>4 DEF StopPrevious, Stop, Drained, Idle, Named, Stopping
  <2>5. ASSUME NEW c \in Calls, StopActive(c) PROVE owned[w] = {} \/ w \in readmitted
    BY <2>5 DEF StopActive, Stop, Drained, Idle, Named, Calls, Exclusive, SwitchPcs
  <2>6. ASSUME NEW c \in Calls, StopActiveFails(c) PROVE owned[w] = {} \/ w \in readmitted
    BY <2>6 DEF StopActiveFails, Stop, Drained, Idle, Named, Calls, Exclusive, SwitchPcs
  <2> QED
    BY <2>1, <2>2, <2>3, <2>4, <2>5, <2>6
<1> QED
  BY Inductive, <1>1, PTL DEF Spec, StoppedIdle
=============================================================================
