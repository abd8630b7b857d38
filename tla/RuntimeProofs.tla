---------------------------- MODULE RuntimeProofs ----------------------------
(***************************************************************************)
(* Three parts of the runtime that share nothing but the runs they serve.  *)
(*                                                                         *)
(* Cancellation reaches every live derived token, and only those, for any  *)
(* number of tokens, threads and waiters.                                  *)
(*                                                                         *)
(* The ready-set runner hands out a node on completed inputs only and ends *)
(* with nothing left that it could do, for every finite graph.  Its batch  *)
(* is what is not reduced yet; the scheduler's sets are what the outcomes  *)
(* say; and two disjoint sets of nodes as large together as the plan are   *)
(* the plan.                                                               *)
(*                                                                         *)
(* The planner accepts exactly the graphs without a cycle, and levels      *)
(* them.  Its functions are recursive over natural numbers: that each      *)
(* exists, and what it computes, is shown by looking at the least number   *)
(* that would fail.                                                        *)
(***************************************************************************)
EXTENDS CancelToken, ReadySetRun, FiniteSetTheorems, TLAPS

-----------------------------------------------------------------------------
(* Cancellation tokens *)

\* Where a thread has something left to do for the propagation.
Busy(h) ==
  /\ todo[h] # {} => pc[h] \in {"cancel", "notify", "drain"}
  /\ pc[h] \in {"notify", "drain"} => cur[h] \in Tokens /\ flag[cur[h]]
  /\ pc[h] = "register" => cur[h] \in live /\ left[h] \subseteq parents[cur[h]]

\* Thread h is still deriving c.
Deriving(h, c) == pc[h] = "register" /\ cur[h] = c

\* Thread h will get from the flag of p to the flag of its child c.
Carries(h, p, c) ==
  \/ c \in todo[h]
  \/ pc[h] \in {"notify", "drain"} /\ cur[h] = p /\ c \in children[p]
  \/ Deriving(h, c)

\* A parent not cancelled yet knows its child, once the child is derived.
Known ==
  \A c \in live : \A p \in parents[c] :
    flag[p] \/ c \in children[p] \/ \E h \in Threads : Deriving(h, c)

\* A child being derived is known to the parents it has registered with.
KnownSoFar ==
  \A h \in Threads : pc[h] = "register" =>
    \A p \in parents[cur[h]] : p \in left[h] \/ cur[h] \in children[p] \/ flag[p]

\* From a cancelled parent to its child: done, or some thread carries it.
Carried ==
  \A c \in live : \A p \in parents[c] :
    flag[p] => flag[c] \/ \E h \in Threads : Carries(h, p, c)

\* A token is cancelled, or about to be, by request or from above.
Caused(t) == t \in requested \/ \E p \in parents[t] : flag[p]

FromAbove ==
  /\ \A t \in Tokens : flag[t] => t \in born /\ Caused(t)
  /\ \A h \in Threads : \A t \in todo[h] : Caused(t)
  /\ \A p \in Tokens : \A c \in children[p] : p \in parents[c]

Inv ==
  /\ TypeOK
  /\ \A h \in Threads : Busy(h)
  /\ Known /\ KnownSoFar /\ Carried /\ FromAbove

-----------------------------------------------------------------------------
\* The token allocated by any() was not created before.
LEMMA FreshIsNew == born \subseteq Tokens /\ born # Tokens => Fresh \in Tokens \ born
  BY DEF Fresh

\* Waiters and dropped handles are no part of the propagation.
LEMMA InitInv == Init => Inv
  BY NoTokenAssumption
  DEF Init, Inv, TypeOK, Busy, Known, KnownSoFar, Carried, FromAbove, Deriving

\* Every step of every call keeps the types.
LEMMA TypeStep == Inv /\ [Next]_vars => TypeOK'
<1> SUFFICES ASSUME Inv, [Next]_vars PROVE TypeOK'
  OBVIOUS
<1> USE NoTokenAssumption DEF Inv, TypeOK, Busy, tokenVars, threadVars, waiterVars, Goto, AfterCancel
<1>1. ASSUME NEW h \in Threads, NEW t \in Tokens, CallCancel(h, t) PROVE TypeOK'
  BY <1>1 DEF CallCancel
<1>2. ASSUME NEW h \in Threads, NEW t \in Tokens, SwapLost(h, t) PROVE TypeOK'
  BY <1>2 DEF SwapLost
<1>3. ASSUME NEW h \in Threads, NEW t \in Tokens, SwapWon(h, t) PROVE TypeOK'
  BY <1>3 DEF SwapWon
<1>4. ASSUME NEW h \in Threads, NotifyWaiters(h) PROVE TypeOK'
  BY <1>4 DEF NotifyWaiters, Registered
<1>5. ASSUME NEW h \in Threads, Drain(h) PROVE TypeOK'
  BY <1>5 DEF Drain, Upgraded
<1>6. ASSUME NEW h \in Threads, NEW from \in SUBSET Tokens, CallAny(h, from) PROVE TypeOK'
  BY <1>6, FreshIsNew DEF CallAny
<1>7. ASSUME NEW h \in Threads, NEW p \in Tokens, Register(h, p) PROVE TypeOK'
  BY <1>7 DEF Register
<1>8. ASSUME NEW h \in Threads, Recheck(h) PROVE TypeOK'
  BY <1>8 DEF Recheck
<1>9. ASSUME NEW w \in Waiters, NEW t \in Tokens, Wait(w, t) PROVE TypeOK'
  BY <1>9 DEF Wait
<1>10. ASSUME NEW w \in Waiters, WaiterStep(w) PROVE TypeOK'
  BY <1>10 DEF WaiterStep, CheckFlag, Await, WakeUp
<1>11. ASSUME NEW t \in Tokens, DropToken(t) PROVE TypeOK'
  BY <1>11 DEF DropToken
<1>12. CASE UNCHANGED vars
  BY <1>12 DEF vars
<1> QED
  BY <1>1, <1>2, <1>3, <1>4, <1>5, <1>6, <1>7, <1>8, <1>9, <1>10, <1>11, <1>12
  DEF Next, Call, ThreadStep

\* The token a thread works on is not dropped under it.
LEMMA WorkedOnIsInUse == \A g \in Threads : cur[g] \in InUse
<1> SUFFICES ASSUME NEW g \in Threads PROVE cur[g] \in InUse
  OBVIOUS
<1> DEFINE used(h) == todo[h] \cup left[h] \cup {cur[h]} \cup
                      (IF pc[h] = "register" THEN parents[cur[h]] ELSE {})
<1>1. cur[g] \in used(g)
  OBVIOUS
<1>2. cur[g] \in UNION {used(h) : h \in Threads}
  <2> HIDE DEF used
  <2> QED
    BY <1>1
<1> QED
  BY <1>2 DEF InUse

\* What a thread knows of the token it works on survives the others' steps:
\* in particular a token being derived cannot be dropped.
LEMMA BusyStep == Inv /\ [Next]_vars => (\A g \in Threads : Busy(g))'
<1> SUFFICES ASSUME Inv, [Next]_vars PROVE (\A g \in Threads : Busy(g))'
  OBVIOUS
<1> USE NoTokenAssumption DEF Inv, TypeOK, Busy, tokenVars, threadVars, waiterVars, Goto, AfterCancel
<1>1. ASSUME NEW h \in Threads, NEW t \in Tokens, CallCancel(h, t) PROVE (\A g \in Threads : Busy(g))'
  BY <1>1 DEF CallCancel
<1>2. ASSUME NEW h \in Threads, NEW t \in Tokens, SwapLost(h, t) PROVE (\A g \in Threads : Busy(g))'
  BY <1>2 DEF SwapLost
<1>3. ASSUME NEW h \in Threads, NEW t \in Tokens, SwapWon(h, t) PROVE (\A g \in Threads : Busy(g))'
  BY <1>3 DEF SwapWon
<1>4. ASSUME NEW h \in Threads, NotifyWaiters(h) PROVE (\A g \in Threads : Busy(g))'
  BY <1>4 DEF NotifyWaiters, Registered
<1>5. ASSUME NEW h \in Threads, Drain(h) PROVE (\A g \in Threads : Busy(g))'
  BY <1>5 DEF Drain, Upgraded
<1>6. ASSUME NEW h \in Threads, NEW from \in SUBSET Tokens, CallAny(h, from) PROVE (\A g \in Threads : Busy(g))'
  BY <1>6, FreshIsNew DEF CallAny
<1>7. ASSUME NEW h \in Threads, NEW p \in Tokens, Register(h, p) PROVE (\A g \in Threads : Busy(g))'
  BY <1>7 DEF Register
<1>8. ASSUME NEW h \in Threads, Recheck(h) PROVE (\A g \in Threads : Busy(g))'
  BY <1>8 DEF Recheck, ParentCancelled
<1>9. ASSUME NEW w \in Waiters, NEW t \in Tokens, Wait(w, t) PROVE (\A g \in Threads : Busy(g))'
  BY <1>9 DEF Wait
<1>10. ASSUME NEW w \in Waiters, WaiterStep(w) PROVE (\A g \in Threads : Busy(g))'
  BY <1>10 DEF WaiterStep, CheckFlag, Await, WakeUp
<1>11. ASSUME NEW t \in Tokens, DropToken(t) PROVE (\A g \in Threads : Busy(g))'
  <2>1. \A g \in Threads : cur[g] # t
    BY <1>11, WorkedOnIsInUse DEF DropToken
  <2> QED
    BY <1>11, <2>1 DEF DropToken
<1>12. CASE UNCHANGED vars
  BY <1>12 DEF vars
<1> QED
  BY <1>1, <1>2, <1>3, <1>4, <1>5, <1>6, <1>7, <1>8, <1>9, <1>10, <1>11, <1>12
  DEF Next, Call, ThreadStep

\* A parent forgets a live child only once its own flag is set: the drain runs
\* after the swap, and the cleaning of any() removes dead tokens alone.
LEMMA KnownStep == Inv /\ [Next]_vars => Known'
<1> SUFFICES ASSUME Inv, [Next]_vars PROVE Known'
  OBVIOUS
<1> USE NoTokenAssumption DEF Inv, TypeOK, Busy, Known, KnownSoFar, Deriving, tokenVars, threadVars, waiterVars, Goto, AfterCancel
<1>1. ASSUME NEW h \in Threads, NEW t \in Tokens, CallCancel(h, t) PROVE Known'
  BY <1>1 DEF CallCancel
<1>2. ASSUME NEW h \in Threads, NEW t \in Tokens, SwapLost(h, t) PROVE Known'
  BY <1>2 DEF SwapLost
<1>3. ASSUME NEW h \in Threads, NEW t \in Tokens, SwapWon(h, t) PROVE Known'
  BY <1>3 DEF SwapWon
<1>4. ASSUME NEW h \in Threads, NotifyWaiters(h) PROVE Known'
  BY <1>4 DEF NotifyWaiters, Registered
<1>5. ASSUME NEW h \in Threads, Drain(h) PROVE Known'
  BY <1>5 DEF Drain, Upgraded
<1>6. ASSUME NEW h \in Threads, NEW from \in SUBSET Tokens, CallAny(h, from) PROVE Known'
  BY <1>6, FreshIsNew DEF CallAny
<1>7. ASSUME NEW h \in Threads, NEW p \in Tokens, Register(h, p) PROVE Known'
  BY <1>7 DEF Register
<1>8. ASSUME NEW h \in Threads, Recheck(h) PROVE Known'
  BY <1>8 DEF Recheck, ParentCancelled
<1>9. ASSUME NEW w \in Waiters, NEW t \in Tokens, Wait(w, t) PROVE Known'
  BY <1>9 DEF Wait
<1>10. ASSUME NEW w \in Waiters, WaiterStep(w) PROVE Known'
  BY <1>10 DEF WaiterStep, CheckFlag, Await, WakeUp
<1>11. ASSUME NEW t \in Tokens, DropToken(t) PROVE Known'
  BY <1>11 DEF DropToken
<1>12. CASE UNCHANGED vars
  BY <1>12 DEF vars
<1> QED
  BY <1>1, <1>2, <1>3, <1>4, <1>5, <1>6, <1>7, <1>8, <1>9, <1>10, <1>11, <1>12
  DEF Next, Call, ThreadStep

\* Concurrent registrations with one parent do not lose each other.
LEMMA KnownSoFarStep == Inv /\ [Next]_vars => KnownSoFar'
<1> SUFFICES ASSUME Inv, [Next]_vars PROVE KnownSoFar'
  OBVIOUS
<1> USE NoTokenAssumption DEF Inv, TypeOK, Busy, KnownSoFar, tokenVars, threadVars, waiterVars, Goto, AfterCancel
<1>1. ASSUME NEW h \in Threads, NEW t \in Tokens, CallCancel(h, t) PROVE KnownSoFar'
  BY <1>1 DEF CallCancel
<1>2. ASSUME NEW h \in Threads, NEW t \in Tokens, SwapLost(h, t) PROVE KnownSoFar'
  BY <1>2 DEF SwapLost
<1>3. ASSUME NEW h \in Threads, NEW t \in Tokens, SwapWon(h, t) PROVE KnownSoFar'
  BY <1>3 DEF SwapWon
<1>4. ASSUME NEW h \in Threads, NotifyWaiters(h) PROVE KnownSoFar'
  BY <1>4 DEF NotifyWaiters, Registered
<1>5. ASSUME NEW h \in Threads, Drain(h) PROVE KnownSoFar'
  BY <1>5 DEF Drain, Upgraded
<1>6. ASSUME NEW h \in Threads, NEW from \in SUBSET Tokens, CallAny(h, from) PROVE KnownSoFar'
  BY <1>6, FreshIsNew DEF CallAny
<1>7. ASSUME NEW h \in Threads, NEW p \in Tokens, Register(h, p) PROVE KnownSoFar'
  BY <1>7 DEF Register
<1>8. ASSUME NEW h \in Threads, Recheck(h) PROVE KnownSoFar'
  BY <1>8 DEF Recheck, ParentCancelled
<1>9. ASSUME NEW w \in Waiters, NEW t \in Tokens, Wait(w, t) PROVE KnownSoFar'
  BY <1>9 DEF Wait
<1>10. ASSUME NEW w \in Waiters, WaiterStep(w) PROVE KnownSoFar'
  BY <1>10 DEF WaiterStep, CheckFlag, Await, WakeUp
<1>11. ASSUME NEW t \in Tokens, DropToken(t) PROVE KnownSoFar'
  BY <1>11 DEF DropToken
<1>12. CASE UNCHANGED vars
  BY <1>12 DEF vars
<1> QED
  BY <1>1, <1>2, <1>3, <1>4, <1>5, <1>6, <1>7, <1>8, <1>9, <1>10, <1>11, <1>12
  DEF Next, Call, ThreadStep

\* The propagation is never dropped half-way: what one thread drains it
\* cancels, and what was derived meanwhile is looked at again by any().
LEMMA CarriedStep == Inv /\ [Next]_vars => Carried'
<1> SUFFICES ASSUME Inv, [Next]_vars PROVE Carried'
  OBVIOUS
<1> USE NoTokenAssumption DEF Inv, TypeOK, Busy, Known, Carried, Carries, Deriving, tokenVars, threadVars, waiterVars, Goto, AfterCancel
<1>1. ASSUME NEW h \in Threads, NEW t \in Tokens, CallCancel(h, t) PROVE Carried'
  BY <1>1 DEF CallCancel
<1>2. ASSUME NEW h \in Threads, NEW t \in Tokens, SwapLost(h, t) PROVE Carried'
  BY <1>2 DEF SwapLost
<1>3. ASSUME NEW h \in Threads, NEW t \in Tokens, SwapWon(h, t) PROVE Carried'
  BY <1>3 DEF SwapWon
<1>4. ASSUME NEW h \in Threads, NotifyWaiters(h) PROVE Carried'
  BY <1>4 DEF NotifyWaiters, Registered
<1>5. ASSUME NEW h \in Threads, Drain(h) PROVE Carried'
  BY <1>5 DEF Drain, Upgraded
<1>6. ASSUME NEW h \in Threads, NEW from \in SUBSET Tokens, CallAny(h, from) PROVE Carried'
  BY <1>6, FreshIsNew DEF CallAny
<1>7. ASSUME NEW h \in Threads, NEW p \in Tokens, Register(h, p) PROVE Carried'
  BY <1>7 DEF Register
<1>8. ASSUME NEW h \in Threads, Recheck(h) PROVE Carried'
  BY <1>8 DEF Recheck, ParentCancelled
<1>9. ASSUME NEW w \in Waiters, NEW t \in Tokens, Wait(w, t) PROVE Carried'
  BY <1>9 DEF Wait
<1>10. ASSUME NEW w \in Waiters, WaiterStep(w) PROVE Carried'
  BY <1>10 DEF WaiterStep, CheckFlag, Await, WakeUp
<1>11. ASSUME NEW t \in Tokens, DropToken(t) PROVE Carried'
  BY <1>11 DEF DropToken
<1>12. CASE UNCHANGED vars
  BY <1>12 DEF vars
<1> QED
  BY <1>1, <1>2, <1>3, <1>4, <1>5, <1>6, <1>7, <1>8, <1>9, <1>10, <1>11, <1>12
  DEF Next, Call, ThreadStep

\* Only children of a cancelled token are ever queued to be cancelled.
LEMMA FromAboveStep == Inv /\ [Next]_vars => FromAbove'
<1> SUFFICES ASSUME Inv, [Next]_vars PROVE FromAbove'
  OBVIOUS
<1> USE NoTokenAssumption DEF Inv, TypeOK, Busy, FromAbove, Caused, tokenVars, threadVars, waiterVars, Goto, AfterCancel
<1>1. ASSUME NEW h \in Threads, NEW t \in Tokens, CallCancel(h, t) PROVE FromAbove'
  BY <1>1 DEF CallCancel
<1>2. ASSUME NEW h \in Threads, NEW t \in Tokens, SwapLost(h, t) PROVE FromAbove'
  BY <1>2 DEF SwapLost
<1>3. ASSUME NEW h \in Threads, NEW t \in Tokens, SwapWon(h, t) PROVE FromAbove'
  BY <1>3 DEF SwapWon
<1>4. ASSUME NEW h \in Threads, NotifyWaiters(h) PROVE FromAbove'
  BY <1>4 DEF NotifyWaiters, Registered
<1>5. ASSUME NEW h \in Threads, Drain(h) PROVE FromAbove'
  BY <1>5 DEF Drain, Upgraded
<1>6. ASSUME NEW h \in Threads, NEW from \in SUBSET Tokens, CallAny(h, from) PROVE FromAbove'
  BY <1>6, FreshIsNew DEF CallAny
<1>7. ASSUME NEW h \in Threads, NEW p \in Tokens, Register(h, p) PROVE FromAbove'
  <2>1. cur[h] \in Tokens /\ p \in parents[cur[h]]
    BY <1>7 DEF Register
  <2>2. UNCHANGED <<born, flag, parents, requested, todo>>
    BY <1>7 DEF Register
  <2>3. \A q \in Tokens : \A c \in children'[q] : q \in parents[c]
    BY <1>7, <2>1 DEF Register
  <2> QED
    BY <2>2, <2>3
<1>8. ASSUME NEW h \in Threads, Recheck(h) PROVE FromAbove'
  BY <1>8 DEF Recheck, ParentCancelled
<1>9. ASSUME NEW w \in Waiters, NEW t \in Tokens, Wait(w, t) PROVE FromAbove'
  BY <1>9 DEF Wait
<1>10. ASSUME NEW w \in Waiters, WaiterStep(w) PROVE FromAbove'
  BY <1>10 DEF WaiterStep, CheckFlag, Await, WakeUp
<1>11. ASSUME NEW t \in Tokens, DropToken(t) PROVE FromAbove'
  BY <1>11 DEF DropToken
<1>12. CASE UNCHANGED vars
  BY <1>12 DEF vars
<1> QED
  BY <1>1, <1>2, <1>3, <1>4, <1>5, <1>6, <1>7, <1>8, <1>9, <1>10, <1>11, <1>12
  DEF Next, Call, ThreadStep

-----------------------------------------------------------------------------
\* The inductive invariant holds in every reachable state.
LEMMA InvAlways == Spec => []Inv
<1>1. Inv /\ [Next]_vars => Inv'
  BY TypeStep, BusyStep, KnownStep, KnownSoFarStep, CarriedStep, FromAboveStep DEF Inv
<1> QED
  BY <1>1, InitInv, PTL DEF Spec

\* The state of tokens, threads and waiters stays within its types.
THEOREM TypeCorrect == Spec => []TypeOK
<1>1. Inv => TypeOK
  BY DEF Inv
<1> QED
  BY <1>1, InvAlways, PTL

\* When no call of cancel() or any() is under way, every live token derived
\* from a cancelled one is cancelled, however the calls interleaved.
THEOREM CancellationPropagates == Spec => []Propagated
<1>1. Inv => Propagated
  <2> SUFFICES ASSUME Inv, \A h \in Threads : pc[h] = "idle",
                      NEW c \in live, NEW p \in parents[c], flag[p]
               PROVE  flag[c]
    BY DEF Propagated
  <2>1. \A h \in Threads : ~Carries(h, p, c)
    BY DEF Inv, Busy, Carries, Deriving
  <2> QED
    BY <2>1 DEF Inv, Carried
<1> QED
  BY <1>1, InvAlways, PTL

\* No token is cancelled that nobody asked to cancel, itself or a parent.
THEOREM CancellationIsCaused == Spec => []NeverUpward
<1>1. Inv => NeverUpward
  BY DEF Inv, FromAbove, Caused, NeverUpward
<1> QED
  BY <1>1, InvAlways, PTL

-----------------------------------------------------------------------------
(* The ready-set runner *)

ReadyTypes ==
  /\ outcome \in [Nodes -> Terminal \cup {"None"}]
  /\ plan \subseteq Nodes /\ edges \subseteq Nodes \X Nodes
  /\ dispatched \subseteq plan \/ runPc = "plan"
  /\ dispatched \subseteq Nodes /\ batch \subseteq dispatched /\ nodeCancelled \subseteq Nodes
  /\ completed \subseteq dispatched /\ failed \subseteq dispatched
  /\ failing \in BOOLEAN /\ runCancelled \in BOOLEAN
  /\ runPc \in {"plan", "rejected", "dispatch", "batch", "done"}
  /\ verdict \in {"None", "Completed", "Failed", "Cancelled"}

\* What a batch has not reduced, and what was not dispatched, has no outcome
\* before the run is judged; the rest of what was dispatched has ended.
Reduced ==
  /\ runPc \in {"plan", "rejected"} => dispatched = {}
  /\ runPc # "done" => verdict = "None"
  /\ runPc = "dispatch" => batch = {}
  /\ verdict = "None" => \A n \in (Nodes \ dispatched) \cup batch : outcome[n] = "None"
  /\ \A n \in dispatched \ batch : Settled(n)

\* What the scheduler has marked is what it was told; between batches it has
\* been told everything.
Marked ==
  /\ \A n \in completed : outcome[n] = "Completed"
  /\ \A n \in failed : outcome[n] \in FailedOutcomes
  /\ runPc = "dispatch" => \A n \in dispatched : outcome[n] = "Completed" => n \in completed

ReadyInv ==
  /\ ReadyTypes /\ Reduced /\ Marked
  /\ DispatchedOnComplete /\ LeftBehind

\* What a node consumes is a node.
LEMMA ReadyPreds ==
  ASSUME edges \subseteq Nodes \X Nodes, NEW n
  PROVE  Preds(n, edges) \subseteq Nodes
  BY DEF Preds

\* A run starts with nothing dispatched.
LEMMA ReadyStart == ReadyInit => ReadyInv
<1> SUFFICES ASSUME ReadyInit PROVE ReadyInv
  OBVIOUS
<1> USE DEF ReadyInit
<1>1. plan \subseteq Nodes /\ edges \subseteq Nodes \X Nodes
  BY GraphAssumption
<1>2. ReadyTypes /\ Reduced /\ Marked
  BY <1>1 DEF ReadyTypes, Reduced, Marked
<1>3. DispatchedOnComplete /\ LeftBehind
  BY DEF DispatchedOnComplete, LeftBehind
<1> QED
  BY <1>2, <1>3 DEF ReadyInv

\* Nodes that had no outcome end; the scheduler is told later.
Ends(S) ==
  /\ runPc = "batch" /\ S \subseteq batch /\ batch' = batch \ S
  /\ \E end \in [Nodes -> Terminal] :
       outcome' = [n \in Nodes |-> IF n \in S THEN end[n] ELSE outcome[n]]
  /\ nodeCancelled' \subseteq Nodes /\ failing' \in BOOLEAN
  /\ UNCHANGED <<edges, plan, dispatched, completed, failed, runCancelled, runPc, verdict>>

\* Every step of a batch is of this kind.
LEMMA BatchSteps ==
  ASSUME ReadyInv, NEW n \in Nodes
  PROVE  /\ SkipNodeCancelled(n) => \E S \in SUBSET batch : Ends(S)
         /\ FailMissingInput(n) => \E S \in SUBSET batch : Ends(S)
         /\ ExecuteStuck(n) => \E S \in SUBSET batch : Ends(S)
         /\ SkipBatch => \E S \in SUBSET batch : Ends(S)
         /\ \A o \in {"Completed", "Failed", "TimedOut", "Cancelled"} :
              Execute(n, o) => \E S \in SUBSET batch : Ends(S)
<1> USE DEF ReadyInv, ReadyTypes, Ends, Terminal, Admissible, Finish,
            planVars, nodeVars, hostVars, readyVars
<1>1. ASSUME SkipNodeCancelled(n) PROVE Ends({n})
  <2> DEFINE end == [m \in Nodes |-> "Cancelled"]
  <2>1. end \in [Nodes -> Terminal]
    OBVIOUS
  <2>2. outcome' = [m \in Nodes |-> IF m \in {n} THEN end[m] ELSE outcome[m]]
    BY <1>1 DEF SkipNodeCancelled
  <2> HIDE DEF end
  <2> QED
    BY <1>1, <2>1, <2>2 DEF SkipNodeCancelled
<1>2. ASSUME FailMissingInput(n) PROVE Ends({n})
  <2> DEFINE end == [m \in Nodes |-> "Failed"]
  <2>1. end \in [Nodes -> Terminal]
    OBVIOUS
  <2>2. outcome' = [m \in Nodes |-> IF m \in {n} THEN end[m] ELSE outcome[m]]
    BY <1>2 DEF FailMissingInput
  <2> HIDE DEF end
  <2> QED
    BY <1>2, <2>1, <2>2 DEF FailMissingInput
<1>3. ASSUME ExecuteStuck(n) PROVE Ends(batch)
  <2> DEFINE end == [m \in Nodes |-> IF m = n THEN "TimedOut" ELSE "Skipped"]
  <2>1. end \in [Nodes -> Terminal]
    OBVIOUS
  <2>2. outcome' = [m \in Nodes |-> IF m \in batch THEN end[m] ELSE outcome[m]]
    BY <1>3 DEF ExecuteStuck
  <2>3. batch' = batch \ batch
    BY <1>3 DEF ExecuteStuck
  <2> HIDE DEF end
  <2> QED
    BY <1>3, <2>1, <2>2, <2>3 DEF ExecuteStuck
<1>4. ASSUME SkipBatch PROVE Ends(batch)
  <2> DEFINE end == [m \in Nodes |-> "Skipped"]
  <2>1. end \in [Nodes -> Terminal]
    OBVIOUS
  <2>2. outcome' = [m \in Nodes |-> IF m \in batch THEN end[m] ELSE outcome[m]]
    BY <1>4 DEF SkipBatch
  <2>3. batch' = batch \ batch
    BY <1>4 DEF SkipBatch
  <2> HIDE DEF end
  <2> QED
    BY <1>4, <2>1, <2>2, <2>3 DEF SkipBatch
<1>5. ASSUME NEW o \in {"Completed", "Failed", "TimedOut", "Cancelled"}, Execute(n, o)
      PROVE  Ends({n})
  <2> DEFINE end == [m \in Nodes |-> o]
  <2>1. end \in [Nodes -> Terminal]
    OBVIOUS
  <2>2. outcome' = [m \in Nodes |-> IF m \in {n} THEN end[m] ELSE outcome[m]]
    BY <1>5 DEF Execute
  <2>3. failing' \in BOOLEAN /\ nodeCancelled' \subseteq Nodes
    BY <1>5 DEF Execute
  <2> HIDE DEF end
  <2> QED
    BY <1>5, <2>1, <2>2, <2>3 DEF Execute
<1> USE DEF SkipNodeCancelled, FailMissingInput, Execute
<1> HIDE DEF ReadyInv, ReadyTypes, Ends
<1>6. SkipNodeCancelled(n) => n \in batch
  OBVIOUS
<1>7. FailMissingInput(n) => n \in batch
  OBVIOUS
<1>8. \A o \in {"Completed", "Failed", "TimedOut", "Cancelled"} : Execute(n, o) => n \in batch
  OBVIOUS
<1> HIDE DEF SkipNodeCancelled, FailMissingInput, Execute
<1> QED
  BY <1>1, <1>2, <1>3, <1>4, <1>5, <1>6, <1>7, <1>8

\* An end in a batch takes nothing from what was dispatched on.
LEMMA EndsKeeps ==
  ASSUME ReadyInv, NEW S \in SUBSET batch, Ends(S)
  PROVE  ReadyInv'
<1>1. PICK end \in [Nodes -> Terminal] :
        outcome' = [n \in Nodes |-> IF n \in S THEN end[n] ELSE outcome[n]]
  BY DEF Ends
<1>2. /\ runPc = "batch" /\ batch' = batch \ S /\ nodeCancelled' \subseteq Nodes
      /\ failing' \in BOOLEAN /\ verdict = "None" /\ batch \subseteq Nodes
      /\ UNCHANGED <<edges, plan, dispatched, completed, failed, runCancelled, runPc, verdict>>
  BY DEF Ends, ReadyInv, ReadyTypes, Reduced
<1>3. /\ \A n \in S : outcome[n] = "None" /\ outcome'[n] \in Terminal
      /\ \A n \in Nodes \ S : outcome'[n] = outcome[n]
  BY <1>1, <1>2 DEF ReadyInv, Reduced
<1>4. ReadyTypes'
  BY <1>1, <1>2 DEF ReadyInv, ReadyTypes
<1>5. Reduced'
  BY <1>2, <1>3 DEF ReadyInv, ReadyTypes, Reduced, Settled
\* What was completed, or failed, had an outcome already.
<1>6. \A n \in Nodes : outcome[n] # "None" => outcome'[n] = outcome[n]
  BY <1>3
<1>7. Marked'
  BY <1>2, <1>6 DEF ReadyInv, ReadyTypes, Marked, FailedOutcomes
<1>8. DispatchedOnComplete'
  <2>1. \A n : Preds(n, edges) \subseteq Nodes
    BY ReadyPreds DEF ReadyInv, ReadyTypes
  <2>2. \A n : Preds(n, edges)' = Preds(n, edges)
    BY <1>2 DEF Preds
  <2> QED
    BY <1>2, <1>6, <2>1, <2>2 DEF ReadyInv, DispatchedOnComplete
<1>9. LeftBehind'
  BY <1>2 DEF LeftBehind
<1> QED
  BY <1>4, <1>5, <1>7, <1>8, <1>9 DEF ReadyInv

\* The plan is built from the nodes of the document, before anything runs.
LEMMA BuildKeeps ==
  ASSUME ReadyInv, BuildPlan
  PROVE  ReadyInv'
<1>1. /\ runPc = "plan" /\ runPc' \in {"rejected", "dispatch"}
      /\ plan' \subseteq Nodes /\ edges' \subseteq edges /\ dispatched = {}
      /\ UNCHANGED <<outcome, values, failing, runCancelled, nodeCancelled, batch,
                     dispatched, completed, failed, verdict>>
  BY DEF BuildPlan, Between, nodeVars, hostVars,
         readyVars, ReadyInv, Reduced
<1>2. ReadyTypes' /\ Reduced' /\ Marked'
  BY <1>1 DEF ReadyInv, ReadyTypes, Reduced, Marked, Settled
<1>3. DispatchedOnComplete' /\ LeftBehind'
  BY <1>1 DEF ReadyInv, Reduced, DispatchedOnComplete, LeftBehind
<1> QED
  BY <1>2, <1>3 DEF ReadyInv

\* A batch is handed out: every node of it on inputs that are marked completed.
LEMMA DispatchKeeps ==
  ASSUME ReadyInv, Dispatch
  PROVE  ReadyInv'
<1>1. /\ runPc = "dispatch" /\ runPc' = "batch" /\ verdict = "None" /\ batch = {}
      /\ batch' = Ready /\ dispatched' = dispatched \cup Ready
      /\ UNCHANGED <<edges, plan, outcome, failing, runCancelled, nodeCancelled,
                     completed, failed, verdict>>
  BY DEF Dispatch, planVars, nodeVars, hostVars,
         ReadyInv, Reduced
<1>2. /\ Ready \subseteq plan \ dispatched
      /\ \A n \in Ready : Preds(n, edges) \subseteq completed
  BY DEF Ready
<1>3. ReadyTypes'
  BY <1>1, <1>2 DEF ReadyInv, ReadyTypes
<1>4. Reduced' /\ Marked'
  BY <1>1, <1>2 DEF ReadyInv, ReadyTypes, Reduced, Marked, Settled
<1>5. DispatchedOnComplete'
  <2>1. \A n : Preds(n, edges)' = Preds(n, edges)
    BY <1>1 DEF Preds
  <2>2. \A m \in completed : outcome'[m] = "Completed"
    BY <1>1 DEF ReadyInv, Marked
  <2> QED
    BY <1>1, <1>2, <2>1, <2>2 DEF ReadyInv, DispatchedOnComplete
<1>6. LeftBehind'
  BY <1>1 DEF LeftBehind
<1> QED
  BY <1>3, <1>4, <1>5, <1>6 DEF ReadyInv

\* The scheduler is told what became of the batch.
LEMMA MarkKeeps ==
  ASSUME ReadyInv, EndBatch
  PROVE  ReadyInv'
<1>1. /\ runPc = "batch" /\ runPc' = "dispatch" /\ batch = {} /\ verdict = "None"
      /\ completed' = {n \in dispatched : outcome[n] = "Completed"}
      /\ failed' = {n \in dispatched : outcome[n] \in FailedOutcomes}
      /\ UNCHANGED <<edges, plan, outcome, failing, runCancelled, nodeCancelled, batch,
                     dispatched, verdict>>
  BY DEF EndBatch, planVars, hostVars, ReadyInv, Reduced
<1>2. ReadyTypes' /\ Reduced' /\ Marked'
  BY <1>1 DEF ReadyInv, ReadyTypes, Reduced, Marked, Settled, FailedOutcomes
<1>3. DispatchedOnComplete' /\ LeftBehind'
  BY <1>1 DEF ReadyInv, DispatchedOnComplete, LeftBehind, Preds
<1> QED
  BY <1>2, <1>3 DEF ReadyInv

\* A cancelled run leaves no node of its plan without an outcome.
LEMMA CancelKeeps ==
  ASSUME ReadyInv, CancelRest
  PROVE  ReadyInv'
<1>1. /\ runPc \in {"dispatch", "batch"} /\ runPc' = "done" /\ verdict' = "Cancelled"
      /\ outcome' = [n \in Nodes |-> IF n \in plan /\ ~ Settled(n)
                                     THEN "Cancelled" ELSE outcome[n]]
      /\ UNCHANGED <<edges, plan, failing, runCancelled, nodeCancelled, batch,
                     dispatched, completed, failed>>
  BY DEF CancelRest, planVars, hostVars, readyVars
<1>2. /\ plan \subseteq Nodes /\ dispatched \subseteq plan
      /\ \A n \in Nodes : Settled(n) => outcome'[n] = outcome[n]
      /\ \A n \in plan : outcome'[n] \in Terminal
  BY <1>1 DEF ReadyInv, ReadyTypes, Settled, Terminal
<1>3. ReadyTypes'
  BY <1>1 DEF ReadyInv, ReadyTypes, Terminal
<1>4. Reduced'
  BY <1>1, <1>2 DEF Reduced, Settled
<1>5. \A n \in Nodes : outcome[n] = "Completed" \/ outcome[n] \in FailedOutcomes =>
        outcome'[n] = outcome[n]
  BY <1>2 DEF Settled, Terminal, FailedOutcomes
<1>6. Marked'
  BY <1>1, <1>5 DEF ReadyInv, ReadyTypes, Marked, FailedOutcomes
<1>7. DispatchedOnComplete'
  <2>1. \A n : Preds(n, edges) \subseteq Nodes
    BY ReadyPreds DEF ReadyInv, ReadyTypes
  <2>2. \A n : Preds(n, edges)' = Preds(n, edges)
    BY <1>1 DEF Preds
  <2> QED
    BY <1>1, <1>5, <2>1, <2>2 DEF ReadyInv, DispatchedOnComplete
<1>8. LeftBehind'
  BY <1>1, <1>2 DEF LeftBehind, Settled
<1> QED
  BY <1>3, <1>4, <1>6, <1>7, <1>8 DEF ReadyInv

\* As many nodes marked as the plan has: it is all of them.
LEMMA AllMarked ==
  ASSUME ReadyInv, runPc = "dispatch", AllDone
  PROVE  plan \subseteq dispatched
<1>1. /\ IsFiniteSet(plan) /\ IsFiniteSet(completed) /\ IsFiniteSet(failed)
      /\ completed \cup failed \subseteq plan
  <2>1. IsFiniteSet(Nodes)
    BY GraphAssumption
  <2>2. plan \subseteq Nodes /\ completed \subseteq plan /\ failed \subseteq plan
    BY DEF ReadyInv, ReadyTypes
  <2> QED
    BY <2>1, <2>2, FS_Subset
<1>2. completed \cap failed = {}
  BY DEF ReadyInv, Marked, FailedOutcomes
<1>3. /\ IsFiniteSet(completed \cup failed)
      /\ Cardinality(completed \cup failed) = Cardinality(completed) + Cardinality(failed)
  <2>1. Cardinality(completed \cap failed) = 0
    BY <1>2, FS_EmptySet
  <2>2. Cardinality(completed) \in Nat /\ Cardinality(failed) \in Nat
    BY <1>1, FS_CardinalityType
  <2> QED
    <3>1. /\ IsFiniteSet(completed \cup failed)
          /\ Cardinality(completed \cup failed)
               = Cardinality(completed) + Cardinality(failed) - Cardinality(completed \cap failed)
      BY <1>1, FS_Union
    <3> QED
      BY <2>1, <2>2, <3>1
<1>4. Cardinality(completed \cup failed) >= Cardinality(plan)
  BY <1>3 DEF AllDone
<1>5. completed \cup failed = plan
  <2>1. /\ Cardinality(completed \cup failed) <= Cardinality(plan)
        /\ Cardinality(completed \cup failed) = Cardinality(plan) => completed \cup failed = plan
    BY <1>1, FS_Subset
  <2>2. Cardinality(completed \cup failed) \in Nat /\ Cardinality(plan) \in Nat
    BY <1>1, <1>3, FS_CardinalityType
  <2> QED
    BY <1>4, <2>1, <2>2
<1> QED
  BY <1>5 DEF ReadyInv, ReadyTypes

\* The run ends by itself: what was not dispatched waits for a node that did
\* not complete.
LEMMA ConcludeKeeps ==
  ASSUME ReadyInv, Conclude
  PROVE  ReadyInv'
<1>1. /\ runPc = "dispatch" /\ runPc' = "done" /\ batch = {}
      /\ verdict' \in {"Failed", "Completed"}
      /\ AllDone \/ Ready = {}
      /\ UNCHANGED <<edges, plan, outcome, failing, runCancelled, nodeCancelled, batch,
                     dispatched, completed, failed>>
  BY DEF Conclude, Stalled, planVars, nodeVars,
         hostVars, readyVars, ReadyInv, Reduced
<1>2. ReadyTypes' /\ Reduced' /\ Marked'
  BY <1>1 DEF ReadyInv, ReadyTypes, Reduced, Marked, Settled
<1>3. DispatchedOnComplete'
  BY <1>1 DEF ReadyInv, DispatchedOnComplete, Preds
<1>4. \A n \in plan : Settled(n) \/
        \E m \in Preds(n, edges) : outcome[m] # "Completed"
  <2> SUFFICES ASSUME NEW n \in plan, n \notin dispatched
               PROVE  \E m \in Preds(n, edges) : outcome[m] # "Completed"
    BY <1>1 DEF ReadyInv, Reduced
  <2>1. Ready = {}
    BY <1>1, AllMarked
  <2>2. PICK m \in Preds(n, edges) : m \notin completed
    BY <2>1 DEF Ready
  <2>3. m \in Nodes
    BY <2>2, ReadyPreds DEF ReadyInv, ReadyTypes
  <2>4. outcome[m] # "Completed"
    BY <1>1, <2>2, <2>3 DEF ReadyInv, Reduced, Marked
  <2> QED
    BY <2>2, <2>4
<1>5. LeftBehind'
  BY <1>1, <1>4 DEF LeftBehind, Settled, Preds
<1> QED
  BY <1>2, <1>3, <1>5 DEF ReadyInv

\* The host cancels the run or a node of it.
LEMMA HostKeeps ==
  ASSUME ReadyInv, CancelRun \/ \E n \in Nodes : CancelNode(n)
  PROVE  ReadyInv'
<1>1. /\ runCancelled' \in BOOLEAN /\ nodeCancelled' \subseteq Nodes
      /\ UNCHANGED <<edges, plan, outcome, failing, batch, dispatched, completed, failed,
                     runPc, verdict>>
  BY DEF CancelRun, CancelNode, planVars, nodeVars,
         readyVars, ReadyInv, ReadyTypes
<1>2. ReadyTypes' /\ Reduced' /\ Marked'
  BY <1>1 DEF ReadyInv, ReadyTypes, Reduced, Marked, Settled
<1>3. DispatchedOnComplete' /\ LeftBehind'
  BY <1>1 DEF ReadyInv, DispatchedOnComplete, LeftBehind, Preds,
              Settled
<1> QED
  BY <1>2, <1>3 DEF ReadyInv

\* Every step keeps the invariant.
LEMMA ReadyStep ==
  ASSUME ReadyInv, [ReadyNext]_runVars
  PROVE  ReadyInv'
<1>1. CASE ReadyNext
  <2>1. ASSUME NEW n \in Nodes,
               \/ SkipNodeCancelled(n) \/ FailMissingInput(n)
               \/ ExecuteStuck(n)
               \/ \E o \in {"Completed", "Failed", "TimedOut", "Cancelled"} : Execute(n, o)
        PROVE  ReadyInv'
    BY <2>1, BatchSteps, EndsKeeps
  <2>2. CASE SkipBatch
    <3>1. PICK n \in Nodes : TRUE
      BY <2>2 DEF SkipBatch, ReadyInv, ReadyTypes
    <3> QED
      BY <2>2, <3>1, BatchSteps, EndsKeeps
  <2>3. CASE \/ BuildPlan \/ Dispatch \/ EndBatch
             \/ CancelRest \/ Conclude
    BY <2>3, BuildKeeps, DispatchKeeps, MarkKeeps, CancelKeeps, ConcludeKeeps
  <2>4. CASE CancelRun \/ \E n \in Nodes : CancelNode(n)
    BY <2>4, HostKeeps
  <2> QED
    BY <1>1, <2>1, <2>2, <2>3, <2>4 DEF ReadyNext, RunStep
<1>2. CASE UNCHANGED runVars
  <2>1. UNCHANGED <<edges, plan, outcome, failing, runCancelled, nodeCancelled, batch,
                    dispatched, completed, failed, runPc, verdict>>
    BY <1>2 DEF runVars, planVars, nodeVars, hostVars,
                readyVars
  <2>2. ReadyTypes' /\ Reduced' /\ Marked'
    BY <2>1 DEF ReadyInv, ReadyTypes, Reduced, Marked, Settled
  <2>3. DispatchedOnComplete' /\ LeftBehind'
    BY <2>1 DEF ReadyInv, DispatchedOnComplete, LeftBehind, Preds,
                Settled
  <2> QED
    BY <2>2, <2>3 DEF ReadyInv
<1> QED
  BY <1>1, <1>2

\* It holds of every behaviour of the ready-set runner.
LEMMA ReadyAlways == ReadySpec => []ReadyInv
<1>1. ReadyInv /\ [ReadyNext]_runVars => ReadyInv'
  BY ReadyStep
<1> QED
  BY <1>1, ReadyStart, PTL DEF ReadySpec

\* For every graph and every choice of targets, the ready-set scheduler hands a
\* node out only when everything it consumes has completed, and what it
\* completed stays so (scheduler/ready_set.rs ready_nodes, take_ready).
THEOREM ReadyOnComplete == ReadySpec => []DispatchedOnComplete
<1>1. ReadyInv => DispatchedOnComplete
  BY DEF ReadyInv
<1> QED
  BY <1>1, ReadyAlways, PTL

\* A run that ends leaves a node of its plan without an outcome only where
\* something that node consumes did not complete: the loop never breaks with
\* work it could do (orchestrator.rs run_to_completion_ready_set).
THEOREM NothingForgotten == ReadySpec => []LeftBehind
<1>1. ReadyInv => LeftBehind
  BY DEF ReadyInv
<1> QED
  BY <1>1, ReadyAlways, PTL

-----------------------------------------------------------------------------
(* Induction and recursion over natural numbers *)

\* A set of naturals that is not empty has a least element.
LEMMA LeastNat ==
  ASSUME NEW T, T \subseteq Nat, T # {}
  PROVE  \E x \in T : \A y \in T : x <= y
<1>1. PICK x \in T : \A y \in T : <<y, x>> \notin OpToRel(<, Nat)
  BY NatLessThanWellFounded, WFMin
<1>2. ASSUME NEW y \in T PROVE x <= y
  <2>1. <<y, x>> \in Nat \X Nat /\ <<y, x>>[1] = y /\ <<y, x>>[2] = x
    OBVIOUS
  <2>2. y < x => <<y, x>> \in OpToRel(<, Nat)
    BY <2>1 DEF OpToRel
  <2>3. ~(y < x)
    BY <1>1, <2>2, Zenon
  <2> QED
    BY <2>1, <2>3
<1> QED
  BY <1>2

\* A function on a set, iterated from one of its elements, to depth N.
Iterates(g, S, a, step, N) ==
  g \in [0..N -> S] /\ g[0] = a /\ \A k \in 1..N : g[k] = step[g[k - 1]]

\* There is one, to every depth.
LEMMA Iterated ==
  ASSUME NEW S, NEW a \in S, NEW step \in [S -> S], NEW N \in Nat
  PROVE  \E g : Iterates(g, S, a, step, N)
<1> DEFINE Upto(n) == \E g \in [0..n -> S] : g[0] = a /\ \A k \in 1..n : g[k] = step[g[k - 1]]
           bad == {n \in Nat : ~Upto(n)}
<1>1. Upto(0)
  <2> DEFINE g == [k \in 0..0 |-> a]
  <2>1. g \in [0..0 -> S] /\ g[0] = a /\ \A k \in 1..0 : g[k] = step[g[k - 1]]
    OBVIOUS
  <2> QED
    BY <2>1
<1>2. ASSUME NEW n \in Nat, Upto(n) PROVE Upto(n + 1)
  <2>1. PICK g \in [0..n -> S] : g[0] = a /\ \A k \in 1..n : g[k] = step[g[k - 1]]
    BY <1>2
  <2> DEFINE h == [k \in 0..(n + 1) |-> IF k = n + 1 THEN step[g[n]] ELSE g[k]]
  <2>2. /\ h \in [0..(n + 1) -> S]
        /\ \A k \in 0..n : h[k] = g[k]
        /\ h[n + 1] = step[h[n]]
    OBVIOUS
  <2>3. ASSUME NEW k \in 1..(n + 1) PROVE h[k] = step[h[k - 1]]
    <3> HIDE DEF h
    <3>1. CASE k = n + 1
      BY <3>1, <2>2
    <3>2. CASE k # n + 1
      <4>1. k \in 0..n /\ k - 1 \in 0..n /\ k \in 1..n
        BY <3>2
      <4> QED
        BY <4>1, <2>1, <2>2
    <3> QED
      BY <3>1, <3>2
  <2>4. h[0] = a
    BY <2>1, <2>2
  <2> HIDE DEF h
  <2> QED
    BY <2>2, <2>3, <2>4
<1>3. bad = {}
  <2> SUFFICES ASSUME bad # {} PROVE FALSE
    OBVIOUS
  <2> HIDE DEF Upto
  <2>1. PICK n \in bad : \A m \in bad : n <= m
    <3>1. bad \subseteq Nat
      OBVIOUS
    <3> HIDE DEF bad
    <3> QED
      BY <3>1, LeastNat
  <2>2. n \in Nat /\ n # 0
    BY <1>1
  <2>3. n - 1 \in Nat /\ Upto(n - 1)
    BY <2>1, <2>2
  <2> QED
    BY <1>2, <2>3, (n - 1) + 1 = n, <2>2
<1> QED
  BY <1>3 DEF Iterates

-----------------------------------------------------------------------------
(* The planner *)

\* Which nodes are scheduled after each wave.
LEMMA LeveledIs ==
  ASSUME NEW V, NEW E, Cardinality(V) \in Nat
  PROVE  LET L == Leveled(V, E) IN
         /\ L \in [0..Cardinality(V) -> SUBSET V] /\ L[0] = {}
         /\ \A k \in 1..Cardinality(V) : L[k] = {n \in V : Preds(n, E) \subseteq L[k - 1]}
<1> DEFINE N == Cardinality(V)
           step == [X \in SUBSET V |-> {n \in V : Preds(n, E) \subseteq X}]
           Waves(g) == g = [k \in 0..N |-> IF k = 0 THEN {}
                              ELSE {n \in V : Preds(n, E) \subseteq g[k - 1]}]
<1>1. \E g : Waves(g)
  <2>1. PICK g \in [0..N -> SUBSET V] : g[0] = {} /\ \A k \in 1..N : g[k] = step[g[k - 1]]
    <3>1. {} \in SUBSET V /\ step \in [SUBSET V -> SUBSET V] /\ N \in Nat
      OBVIOUS
    <3> HIDE DEF step, N
    <3>2. PICK g : Iterates(g, SUBSET V, {}, step, N)
      BY <3>1, Iterated
    <3> QED
      BY <3>2 DEF Iterates
  <2>2. ASSUME NEW k \in 0..N
        PROVE  g[k] = IF k = 0 THEN {} ELSE {n \in V : Preds(n, E) \subseteq g[k - 1]}
    <3>1. CASE k # 0
      <4>1. k \in 1..N /\ k - 1 \in 0..N
        BY <3>1
      <4> QED
        BY <4>1, <2>1
    <3> QED
      BY <2>1, <3>1
  <2>3. Waves(g)
    BY <2>2
  <2> QED
    BY <2>3
<1>2. PICK g : Waves(g) /\ g = Leveled(V, E)
  BY <1>1 DEF Leveled
<1>3. g[0] = {} /\ \A k \in 1..N : g[k] = {n \in V : Preds(n, E) \subseteq g[k - 1]}
  <2>1. \A k \in 0..N : g[k] = IF k = 0 THEN {} ELSE {n \in V : Preds(n, E) \subseteq g[k - 1]}
    BY <1>2
  <2>2. 0 \in 0..N /\ \A k \in 1..N : k \in 0..N /\ k # 0
    OBVIOUS
  <2> QED
    BY <2>1, <2>2
<1>4. g \in [0..N -> SUBSET V]
  BY <1>2
<1> QED
  BY <1>2, <1>3, <1>4

\* The waves grow, and once one adds nothing no later one does.
LEMMA WavesGrow ==
  ASSUME NEW V, NEW E, Cardinality(V) \in Nat,
         NEW i \in 0..Cardinality(V), NEW j \in i..Cardinality(V)
  PROVE  /\ Leveled(V, E)[i] \subseteq Leveled(V, E)[j]
         /\ i # 0 /\ Leveled(V, E)[i] = Leveled(V, E)[i - 1]
              => Leveled(V, E)[j] = Leveled(V, E)[i]
<1> DEFINE N == Cardinality(V)
           L == Leveled(V, E)
<1>1. /\ N \in Nat /\ L \in [0..N -> SUBSET V] /\ L[0] = {}
      /\ \A k \in 1..N : L[k] = {n \in V : Preds(n, E) \subseteq L[k - 1]}
  BY LeveledIs
<1>2. i \in 0..N /\ j \in i..N
  OBVIOUS
<1> HIDE DEF L, N
<1>3. \A k \in 1..N : L[k - 1] \subseteq L[k]
  <2> DEFINE bad == {k \in 1..N : ~(L[k - 1] \subseteq L[k])}
  <2> SUFFICES ASSUME bad # {} PROVE FALSE
    OBVIOUS
  <2>1. PICK k \in bad : \A m \in bad : k <= m
    <3>1. bad \subseteq Nat
      BY <1>1
    <3> HIDE DEF bad
    <3> QED
      BY <3>1, LeastNat
  <2>2. k \in 1..N /\ ~(L[k - 1] \subseteq L[k]) /\ k # 1
    BY <1>1
  <2>3. k - 1 \in 1..N /\ (k - 1) - 1 \in 0..N
    BY <1>1, <2>2
  <2>4. L[(k - 1) - 1] \subseteq L[k - 1]
    BY <2>1, <2>3, <1>1
  <2>5. /\ L[k] = {n \in V : Preds(n, E) \subseteq L[k - 1]}
        /\ L[k - 1] = {n \in V : Preds(n, E) \subseteq L[(k - 1) - 1]}
    BY <1>1, <2>2, <2>3
  <2> QED
    BY <2>2, <2>4, <2>5
<1>4. \A m \in i..N : /\ L[i] \subseteq L[m]
                      /\ i # 0 /\ L[i] = L[i - 1] => L[m] = L[i]
  <2> DEFINE bad == {m \in i..N : ~ /\ L[i] \subseteq L[m]
                                    /\ i # 0 /\ L[i] = L[i - 1] => L[m] = L[i]}
  <2> SUFFICES ASSUME bad # {} PROVE FALSE
    OBVIOUS
  <2>1. PICK k \in bad : \A m \in bad : k <= m
    <3>1. bad \subseteq Nat
      BY <1>1, <1>2
    <3> HIDE DEF bad
    <3> QED
      BY <3>1, LeastNat
  <2>2. k \in i..N /\ k # i
    OBVIOUS
  <2>3. k - 1 \in i..N /\ k - 1 \notin bad /\ k \in 1..N
    BY <1>1, <1>2, <2>1, <2>2
  <2>4. L[i] \subseteq L[k - 1] /\ (i # 0 /\ L[i] = L[i - 1] => L[k - 1] = L[i])
    BY <2>3
  <2>5. L[k - 1] \subseteq L[k]
    BY <1>3, <2>3
  <2>6. i # 0 /\ L[i] = L[i - 1] => L[k] = L[i]
    <3> SUFFICES ASSUME i # 0, L[i] = L[i - 1] PROVE L[k] = L[i]
      OBVIOUS
    <3>1. /\ L[k] = {n \in V : Preds(n, E) \subseteq L[k - 1]}
          /\ L[i] = {n \in V : Preds(n, E) \subseteq L[i - 1]}
      BY <1>1, <1>2, <2>3
    <3> QED
      BY <3>1, <2>4
  <2> QED
    BY <2>4, <2>5, <2>6
<1> QED
  BY <1>2, <1>4 DEF L, N

\* The stages are the waves up to the last that adds a node, and hold what the
\* waves schedule.
LEMMA StagesAre ==
  ASSUME NEW V, NEW E, Cardinality(V) \in Nat
  PROVE  \E m \in 0..Cardinality(V) :
           /\ PlanStages(V, E) = [k \in 1..m |-> Leveled(V, E)[k] \ Leveled(V, E)[k - 1]]
           /\ \A k \in 1..m : Leveled(V, E)[k] # Leveled(V, E)[k - 1]
           /\ Leveled(V, E)[m] = Leveled(V, E)[Cardinality(V)]
<1> DEFINE N == Cardinality(V)
           L == Leveled(V, E)
           wave == [k \in 1..N |-> L[k] \ L[k - 1]]
           empty == {k \in 1..N : L[k] = L[k - 1]}
           adding == {j \in DOMAIN wave : wave[j] # {}}
<1>1. /\ N \in Nat /\ L \in [0..N -> SUBSET V] /\ L[0] = {}
  BY LeveledIs
<1>2. \A i \in 0..N : \A j \in i..N :
        L[i] \subseteq L[j] /\ (i # 0 /\ L[i] = L[i - 1] => L[j] = L[i])
  BY WavesGrow
<1>3. PlanStages(V, E) = [k \in 1..Cardinality(adding) |-> wave[k]]
  BY DEF PlanStages
<1> HIDE DEF N, L
<1>4. \E m \in 0..N : /\ \A k \in 1..N : k \in empty <=> k > m
                      /\ L[m] = L[N]
  <2>1. CASE empty = {}
    <3>1. \A k \in 1..N : k \in empty <=> k > N
      <4> HIDE DEF empty
      <4> QED
        BY <2>1, <1>1
    <3> HIDE DEF empty
    <3> QED
      BY <3>1, <1>1
  <2>2. CASE empty # {}
    <3>1. PICK k \in empty : \A j \in empty : k <= j
      <4>1. empty \subseteq Nat
        BY <1>1
      <4> HIDE DEF empty
      <4> QED
        BY <4>1, <2>2, LeastNat
    <3>2. k \in 1..N /\ L[k] = L[k - 1] /\ k - 1 \in 0..N /\ k \in 0..N /\ k # 0
      BY <1>1
    <3>3. \A j \in k..N : L[j] = L[k]
      BY <1>2, <3>2
    <3>4. ASSUME NEW j \in 1..N PROVE j \in empty <=> j > k - 1
      <4>1. CASE j > k
        <5>1. j \in k..N /\ j - 1 \in k..N
          BY <4>1, <3>2, <1>1
        <5> QED
          BY <5>1, <3>2, <3>3
      <4>2. CASE j <= k
        BY <4>2, <3>1, <3>2
      <4> QED
        BY <4>1, <4>2, <3>2
    <3>5. L[k - 1] = L[N]
      BY <3>2, <3>3, <1>1
    <3> QED
      BY <3>2, <3>4, <3>5
  <2> QED
    BY <2>1, <2>2
<1>5. PICK m \in 0..N : (\A k \in 1..N : k \in empty <=> k > m) /\ L[m] = L[N]
  BY <1>4
<1>6. adding = 1..m
  <2>1. ASSUME NEW k \in 1..N PROVE wave[k] # {} <=> ~(k > m)
    <3>1. k - 1 \in 0..N /\ k \in (k - 1)..N
      BY <1>1
    <3>2. L[k - 1] \subseteq L[k]
      BY <1>2, <3>1
    <3>3. wave[k] # {} <=> L[k] # L[k - 1]
      BY <3>2
    <3> QED
      BY <3>3, <1>5
  <2>2. DOMAIN wave = 1..N
    OBVIOUS
  <2>3. \A k : k \in 1..m <=> k \in 1..N /\ ~(k > m)
    BY <1>1
  <2> HIDE DEF wave
  <2> QED
    BY <2>1, <2>2, <2>3
<1>7. Cardinality(adding) = m
  <2>1. Cardinality(1..m) = m
    BY <1>1, FS_Interval
  <2> HIDE DEF adding
  <2> QED
    BY <2>1, <1>6
<1>8. PlanStages(V, E) = [k \in 1..m |-> L[k] \ L[k - 1]]
  <2>1. \A k \in 1..m : k \in 1..N
    BY <1>1
  <2> QED
    BY <1>3, <1>7, <2>1
<1>9. \A k \in 1..m : L[k] # L[k - 1]
  BY <1>5, <1>1
<1> HIDE DEF wave, empty, adding
<1> QED
  BY <1>5, <1>8, <1>9 DEF L, N

\* The pairs joined, with those one edge further apart.
Extended(near, graph) ==
  near \cup {<<p[1][1], p[2][2]>> : p \in {q \in near \X graph : q[1][2] = q[2][1]}}

\* It adds a pair where an edge leads on.
LEMMA ExtendedIs ==
  ASSUME NEW V, NEW E \in SUBSET (V \X V), NEW J \in SUBSET (V \X V)
  PROVE  /\ Extended(J, E) \in SUBSET (V \X V)
         /\ \A a, b : <<a, b>> \in Extended(J, E) <=>
              <<a, b>> \in J \/ \E c : <<a, c>> \in J /\ <<c, b>> \in E
<1>1. ASSUME NEW x PROVE x \in Extended(J, E) <=>
        x \in J \/ \E p \in J, e \in E : p[2] = e[1] /\ x = <<p[1], e[2]>>
  <2>1. ASSUME NEW p \in J, NEW e \in E, p[2] = e[1] 
        PROVE  <<p[1], e[2]>> \in Extended(J, E)
    <3>1. <<p, e>> \in {q \in J \X E : q[1][2] = q[2][1]}
      BY <2>1
    <3> QED
      BY <3>1 DEF Extended
  <2>2. J \subseteq Extended(J, E)
    BY DEF Extended
  <2>3. x \in Extended(J, E) /\ x \notin J =>
          \E p \in J, e \in E : p[2] = e[1] /\ x = <<p[1], e[2]>>
    BY DEF Extended
  <2> QED
    BY <2>1, <2>2, <2>3
<1>2. Extended(J, E) \in SUBSET (V \X V)
  BY <1>1
<1>3. ASSUME NEW a, NEW b
      PROVE  <<a, b>> \in Extended(J, E) <=>
              <<a, b>> \in J \/ \E c : <<a, c>> \in J /\ <<c, b>> \in E
  <2>1. ASSUME NEW p \in J, NEW e \in E, p[2] = e[1], <<a, b>> = <<p[1], e[2]>>
        PROVE  <<a, e[1]>> \in J /\ <<e[1], b>> \in E
    <3>1. p = <<p[1], p[2]>> /\ e = <<e[1], e[2]>>
      OBVIOUS
    <3>2. a = p[1] /\ b = e[2]
      BY <2>1
    <3> QED
      BY <3>1, <3>2, <2>1
  <2>2. ASSUME NEW c, <<a, c>> \in J, <<c, b>> \in E
        PROVE  <<a, b>> \in Extended(J, E)
    <3>1. <<a, c>>[2] = <<c, b>>[1] /\ <<a, b>> = <<<<a, c>>[1], <<c, b>>[2]>>
      OBVIOUS
    <3> QED
      BY <3>1, <2>2, <1>1
  <2> QED
    BY <1>1, <2>1, <2>2
<1> QED
  BY <1>2, <1>3

\* Which pairs are joined at each distance.
LEMMA JoinedIs ==
  ASSUME NEW V, NEW E \in SUBSET (V \X V), NEW M \in Nat
  PROVE  LET J == Joined(E, M) IN
         /\ J \in [0..M -> SUBSET (V \X V)] /\ J[0] = E
         /\ \A k \in 1..M : \A a, b : <<a, b>> \in J[k] <=>
              <<a, b>> \in J[k - 1] \/ \E c : <<a, c>> \in J[k - 1] /\ <<c, b>> \in E
<1> DEFINE Pairs == SUBSET (V \X V)
           step == [X \in Pairs |-> Extended(X, E)]
           Grown(g) == g = [k \in 0..M |-> IF k = 0 THEN E ELSE Extended(g[k - 1], E)]
<1>1. PICK h : Iterates(h, Pairs, E, step, M)
  <2>1. E \in Pairs /\ step \in [Pairs -> Pairs]
    BY ExtendedIs
  <2> HIDE DEF step, Pairs
  <2> QED
    BY <2>1, Iterated
<1>2. Grown(h)
  <2>1. h \in [0..M -> Pairs] /\ h[0] = E /\ \A k \in 1..M : h[k] = step[h[k - 1]]
    BY <1>1 DEF Iterates
  <2>2. ASSUME NEW k \in 0..M
        PROVE  h[k] = IF k = 0 THEN E ELSE Extended(h[k - 1], E)
    <3>1. CASE k # 0
      <4>1. k \in 1..M /\ k - 1 \in 0..M
        BY <3>1
      <4> QED
        BY <4>1, <3>1, <2>1
    <3> QED
      BY <2>1, <3>1
  <2> QED
    BY <2>1, <2>2
<1>3. Joined(E, M) = CHOOSE g : Grown(g)
  BY DEF Joined, Extended
<1>4. PICK g : Grown(g) /\ g = Joined(E, M)
  BY <1>2, <1>3
<1>5. \A J \in Pairs : /\ Extended(J, E) \in Pairs
                      /\ \A a, b : <<a, b>> \in Extended(J, E) <=>
                           <<a, b>> \in J \/ \E c : <<a, c>> \in J /\ <<c, b>> \in E
  BY ExtendedIs
<1>6. \A k \in 0..M : g[k] = IF k = 0 THEN E ELSE Extended(g[k - 1], E)
  BY <1>4
<1>7. \A k \in 0..M : g[k] \in Pairs
  <2> DEFINE bad == {k \in 0..M : g[k] \notin Pairs}
  <2> SUFFICES ASSUME bad # {} PROVE FALSE
    OBVIOUS
  <2>1. PICK k \in bad : \A m \in bad : k <= m
    <3>1. bad \subseteq Nat
      OBVIOUS
    <3> HIDE DEF bad
    <3> QED
      BY <3>1, LeastNat
  <2>2. k \in 0..M /\ g[k] \notin Pairs
    OBVIOUS
  <2>3. k # 0
    BY <2>2, <1>6
  <2>4. k - 1 \in 0..M /\ g[k - 1] \in Pairs /\ g[k] = Extended(g[k - 1], E)
    BY <2>1, <2>2, <2>3, <1>6
  <2> QED
    BY <2>2, <2>4, <1>5
<1>8. g \in [0..M -> Pairs] /\ g[0] = E
  BY <1>4, <1>6, <1>7
<1>9. ASSUME NEW k \in 1..M, NEW a, NEW b
      PROVE  <<a, b>> \in g[k] <=>
               <<a, b>> \in g[k - 1] \/ \E c : <<a, c>> \in g[k - 1] /\ <<c, b>> \in E
  <2>1. k - 1 \in 0..M /\ k \in 0..M /\ k # 0
    OBVIOUS
  <2>2. g[k] = Extended(g[k - 1], E) /\ g[k - 1] \in Pairs
    BY <2>1, <1>6, <1>7
  <2> HIDE DEF Pairs
  <2>3. PICK J \in Pairs : J = g[k - 1]
    BY <2>2
  <2>4. <<a, b>> \in Extended(J, E) <=>
          <<a, b>> \in J \/ \E c : <<a, c>> \in J /\ <<c, b>> \in E
    BY <1>5, Zenon
  <2>5. Extended(J, E) = g[k]
    BY <2>2, <2>3
  <2> HIDE <2>2
  <2> QED
    BY <2>3, <2>4, <2>5
<1> QED
  BY <1>4, <1>8, <1>9

\* Stages that consume from the one before are groups of their own.
LEMMA GroupsAlone ==
  ASSUME NEW m \in Nat, NEW direct \in [1..m -> SUBSET (1..m)],
         \A k \in 2..m : k - 1 \in direct[k]
  PROVE  \A k \in 1..m : GroupStarts(direct, m)[k] = k
<1> DEFINE deps == TransitiveDeps(direct, m)
           F(T) == [i \in 1..m |-> direct[i] \cup UNION {T[j] : j \in direct[i]}]
           Tables == [1..m -> SUBSET (1..m)]
           Closed(T) == \A i \in 1..m : F(T)[i] \subseteq T[i]
           least == [i \in 1..m |-> {j \in 1..m : \A T \in Tables : Closed(T) => j \in T[i]}]
<1>1. F(least) = least
  <2>1. ASSUME NEW A \in Tables, NEW B \in Tables, \A i \in 1..m : A[i] \subseteq B[i], NEW i \in 1..m
        PROVE  F(A)[i] \subseteq F(B)[i]
    BY <2>1
  <2>2. least \in Tables
    OBVIOUS
  <2>3. \A T \in Tables : F(T) \in Tables
    OBVIOUS
  <2>4. \A T \in Tables : Closed(T) => \A i \in 1..m : least[i] \subseteq T[i]
    OBVIOUS
  <2>5. \A i \in 1..m : \A x \in 1..m : (\A T \in Tables : Closed(T) => x \in T[i]) => x \in least[i]
    OBVIOUS
  <2> HIDE DEF F, least
  <2>6. ASSUME NEW i \in 1..m PROVE F(least)[i] \subseteq least[i]
    <3>1. \A T \in Tables : Closed(T) => F(least)[i] \subseteq T[i]
      BY <2>1, <2>2, <2>4
    <3>2. F(least)[i] \subseteq 1..m
      BY <2>2, <2>3
    <3> QED
      BY <3>1, <3>2, <2>5
  <2>7. Closed(F(least))
    BY <2>1, <2>2, <2>3, <2>6
  <2>8. \A i \in 1..m : least[i] \subseteq F(least)[i]
    BY <2>2, <2>3, <2>4, <2>7
  <2>9. \A i \in 1..m : least[i] = F(least)[i]
    BY <2>6, <2>8
  <2> HIDE DEF Closed
  <2> QED
    BY <2>2, <2>3, <2>9
<1>2. PICK T : T = F(T) /\ T = deps
  BY <1>1 DEF TransitiveDeps
<1>3. \A k \in 2..m : k - 1 \in deps[k]
  BY <1>2
<1> HIDE DEF deps
<1> DEFINE Starts(s) == s = [i \in 1..m |-> IF i = 1 THEN 1
                 ELSE LET open == s[i - 1] IN IF \A d \in deps[i] : d < open THEN open ELSE i]
<1>4. Starts([i \in 1..m |-> i])
  <2> DEFINE s == [i \in 1..m |-> i]
  <2>1. ASSUME NEW i \in 1..m
        PROVE  s[i] = IF i = 1 THEN 1
                 ELSE LET open == s[i - 1] IN IF \A d \in deps[i] : d < open THEN open ELSE i
    <3>1. CASE i # 1
      <4>1. i \in 2..m /\ s[i - 1] = i - 1 /\ ~(i - 1 < i - 1)
        BY <3>1
      <4> QED
        BY <4>1, <1>3
    <3> QED
      BY <3>1
  <2> QED
    BY <2>1
<1>5. PICK s : Starts(s) /\ s = GroupStarts(direct, m)
  BY <1>4 DEF GroupStarts, deps
<1>6. \A i \in 1..m : s[i] = IF i = 1 THEN 1
        ELSE LET open == s[i - 1] IN IF \A d \in deps[i] : d < open THEN open ELSE i
  BY <1>5
<1>7. \A k \in 1..m : s[k] = k
  <2> DEFINE bad == {k \in 1..m : s[k] # k}
  <2> SUFFICES ASSUME bad # {} PROVE FALSE
    OBVIOUS
  <2>1. PICK k \in bad : \A j \in bad : k <= j
    <3>1. bad \subseteq Nat
      OBVIOUS
    <3> HIDE DEF bad
    <3> QED
      BY <3>1, LeastNat
  <2>2. k \in 1..m /\ s[k] # k /\ k # 1
    BY <1>6
  <2>3. k - 1 \in 1..m /\ s[k - 1] = k - 1 /\ k \in 2..m
    BY <2>1, <2>2
  <2>4. k - 1 \in deps[k] /\ ~(k - 1 < k - 1)
    BY <1>3, <2>3
  <2> QED
    BY <2>2, <2>3, <2>4, <1>6
<1> QED
  BY <1>5, <1>7

\* Preds, edge by edge.
LEMMA PredsAre ==
  ASSUME NEW V, NEW E \in SUBSET (V \X V), NEW n
  PROVE  /\ Preds(n, E) \subseteq V
         /\ \A x : x \in Preds(n, E) <=> <<x, n>> \in E
<1>1. ASSUME NEW e \in E PROVE e = <<e[1], e[2]>> /\ e[1] \in V
  OBVIOUS
<1>2. ASSUME NEW x, <<x, n>> \in E PROVE x \in Preds(n, E)
  <2>1. <<x, n>>[2] = n /\ <<x, n>>[1] = x
    OBVIOUS
  <2> QED
    BY <1>2, <2>1 DEF Preds
<1>3. ASSUME NEW x \in Preds(n, E) PROVE <<x, n>> \in E /\ x \in V
  <2>1. PICK e \in E : e[2] = n /\ x = e[1]
    BY DEF Preds
  <2> QED
    BY <1>1, <2>1
<1> QED
  BY <1>2, <1>3

\* What acceptance means: every node has a level, the number of its stage, and
\* every stage but the first consumes from the one before.
Levels(level, m, S, V, E) ==
  /\ level \in [V -> 1..m] /\ DOMAIN S = 1..m
  /\ \A n \in V : \A k \in 1..m : n \in S[k] <=> k = level[n]
  /\ \A k \in 1..m : S[k] \subseteq V
  /\ \A x, y \in V : <<x, y>> \in E => level[x] < level[y]
  /\ \A k \in 2..m : \E x, y \in V : <<x, y>> \in E /\ level[x] = k - 1 /\ level[y] = k

\* The stages are such levels, one for each node.
LEMMA AcceptedLevels ==
  ASSUME NEW V, NEW E \in SUBSET (V \X V), Cardinality(V) \in Nat, ~HasCycle(V, E)
  PROVE  \E m \in Nat : \E level : Levels(level, m, PlanStages(V, E), V, E)
<1> DEFINE N == Cardinality(V)
           L == Leveled(V, E)
           S == PlanStages(V, E)
<1>1. /\ N \in Nat /\ L \in [0..N -> SUBSET V] /\ L[0] = {}
      /\ \A k \in 1..N : L[k] = {n \in V : Preds(n, E) \subseteq L[k - 1]}
  BY LeveledIs
<1>2. \A i \in 0..N : \A j \in i..N : L[i] \subseteq L[j]
  BY WavesGrow
<1>3. PICK m \in 0..N : /\ S = [k \in 1..m |-> L[k] \ L[k - 1]]
                        /\ \A k \in 1..m : L[k] # L[k - 1]
                        /\ L[m] = L[N]
  BY StagesAre
<1>4. L[m] = V
  BY <1>3 DEF HasCycle
<1> HIDE DEF N, L, S
<1>5. ASSUME NEW n \in V
      PROVE  \E k \in 1..m : n \in L[k] /\ \A j \in 0..m : (n \in L[j] <=> k <= j)
  <2> DEFINE has == {k \in 0..m : n \in L[k]}
  <2>1. has # {}
    BY <1>1, <1>4
  <2>2. PICK k \in has : \A j \in has : k <= j
    <3>1. has \subseteq Nat
      BY <1>1
    <3> HIDE DEF has
    <3> QED
      BY <2>1, <3>1, LeastNat
  <2>3. k \in 1..m
    BY <1>1
  <2>4. ASSUME NEW j \in 0..m PROVE n \in L[j] <=> k <= j
    <3>1. k <= j => L[k] \subseteq L[j]
      BY <1>1, <1>2, <2>3
    <3> QED
      BY <2>2, <3>1
  <2> QED
    BY <2>3, <2>4
<1> DEFINE level == [n \in V |-> CHOOSE k \in 1..m : \A j \in 0..m : (n \in L[j] <=> k <= j)]
<1>6. ASSUME NEW n \in V
      PROVE  level[n] \in 1..m /\ \A j \in 0..m : (n \in L[j] <=> level[n] <= j)
  BY <1>5
<1>7. level \in [V -> 1..m]
  BY <1>6
<1> HIDE DEF level
<1>8. m \in Nat /\ \A k \in 1..m : k \in 0..m /\ k - 1 \in 0..m /\ k \in 1..N
  BY <1>1
<1>9. \A n \in V : \A k \in 1..m : n \in S[k] <=> k = level[n]
  BY <1>3, <1>6, <1>8
<1>10. \A k \in 1..m : S[k] \subseteq V
  BY <1>1, <1>3, <1>8
<1>11. ASSUME NEW x \in V, NEW y \in V, <<x, y>> \in E PROVE level[x] < level[y]
  <2>1. level[y] \in 1..m /\ y \in L[level[y]]
    BY <1>6, <1>8
  <2>2. x \in L[level[y] - 1]
    <3>1. x \in Preds(y, E)
      BY <1>11, PredsAre
    <3> QED
      BY <1>1, <1>8, <2>1, <3>1
  <2>3. level[x] <= level[y] - 1
    BY <1>6, <1>8, <2>1, <2>2
  <2> QED
    BY <1>6, <2>1, <2>3
<1>12. ASSUME NEW k \in 2..m
       PROVE  \E x, y \in V : <<x, y>> \in E /\ level[x] = k - 1 /\ level[y] = k
  <2>1. k \in 1..m /\ k - 1 \in 1..m /\ k \in 1..N /\ k - 1 \in 1..N
    BY <1>8
  <2>2. PICK y \in V : y \in L[k] /\ y \notin L[k - 1]
    <3>1. L[k - 1] \subseteq L[k] /\ L[k] # L[k - 1] /\ L[k] \subseteq V
      BY <1>1, <1>2, <1>3, <2>1
    <3> QED
      BY <3>1
  <2>3. Preds(y, E) \subseteq L[k - 1] /\ ~(Preds(y, E) \subseteq L[(k - 1) - 1])
    BY <1>1, <2>1, <2>2
  <2>4. PICK x : x \in Preds(y, E) /\ x \in L[k - 1] /\ x \notin L[(k - 1) - 1]
    BY <2>3
  <2>5. x \in V /\ <<x, y>> \in E
    BY <2>4, PredsAre
  <2>6. level[y] = k
    BY <1>6, <1>8, <2>1, <2>2
  <2>7. level[x] = k - 1
    BY <1>6, <1>8, <2>1, <2>4, <2>5
  <2> QED
    BY <2>5, <2>6, <2>7
<1>13. DOMAIN S = 1..m
  BY <1>3
<1>14. Levels(level, m, S, V, E)
  BY <1>7, <1>9, <1>10, <1>11, <1>12, <1>13 DEF Levels
<1> QED
  BY <1>8, <1>14 DEF S

\* A path leads to higher levels: no node of an accepted graph consumes itself.
LEMMA AcceptedAcyclic ==
  ASSUME NEW V, NEW E \in SUBSET (V \X V), NEW m \in Nat, NEW level \in [V -> 1..m],
         \A x, y \in V : <<x, y>> \in E => level[x] < level[y],
         NEW M \in Nat, NEW n
  PROVE  <<n, n>> \notin Joined(E, M)[M]
<1> DEFINE J == Joined(E, M)
           Rising(k) == \A x, y \in V : <<x, y>> \in J[k] => level[x] < level[y]
           bad == {k \in 0..M : ~Rising(k)}
<1>1. /\ J \in [0..M -> SUBSET (V \X V)] /\ J[0] = E
      /\ \A k \in 1..M : \A x, y : <<x, y>> \in J[k] <=>
           <<x, y>> \in J[k - 1] \/ \E c : <<x, c>> \in J[k - 1] /\ <<c, y>> \in E
  BY JoinedIs
<1> HIDE DEF J
<1>2. bad = {}
  <2> SUFFICES ASSUME bad # {} PROVE FALSE
    OBVIOUS
  <2>1. PICK k \in bad : \A j \in bad : k <= j
    <3>1. bad \subseteq Nat
      OBVIOUS
    <3> HIDE DEF bad
    <3> QED
      BY <3>1, LeastNat
  <2>2. k \in 1..M /\ k - 1 \in 0..M
    BY <1>1
  <2>3. Rising(k - 1)
    BY <2>1, <2>2
  <2>4. Rising(k)
    <3> SUFFICES ASSUME NEW x \in V, NEW y \in V, <<x, y>> \in J[k]
                 PROVE  level[x] < level[y]
      OBVIOUS
    <3>1. CASE <<x, y>> \in J[k - 1]
      BY <2>3, <3>1
    <3>2. ASSUME NEW c, <<x, c>> \in J[k - 1], <<c, y>> \in E
          PROVE  level[x] < level[y]
      <4>1. c \in V
        BY <3>2
      <4>2. level[x] < level[c] /\ level[c] < level[y]
        BY <2>3, <3>2, <4>1
      <4>3. level[x] \in Nat /\ level[c] \in Nat /\ level[y] \in Nat
        BY <4>1
      <4> QED
        BY <4>2, <4>3
    <3>3. <<x, y>> \in J[k - 1] \/ \E c : <<x, c>> \in J[k - 1] /\ <<c, y>> \in E
      BY <1>1, <2>2, Zenon
    <3> QED
      BY <3>1, <3>2, <3>3
  <2> HIDE DEF Rising
  <2> QED
    BY <2>4
<1>3. Rising(M)
  BY <1>2
<1>4. SUFFICES ASSUME <<n, n>> \in J[M] PROVE FALSE
  BY DEF J
<1>5. n \in V
  BY <1>1, <1>4
<1>6. level[n] < level[n] /\ level[n] \in Nat
  BY <1>3, <1>4, <1>5
<1> QED
  BY <1>6

\* Sets that grow as often as there are elements have stopped growing, or have
\* them all.
LEMMA GrowthEnds ==
  ASSUME NEW V, IsFiniteSet(V), NEW L \in [0..Cardinality(V) -> SUBSET V],
         \A k \in 1..Cardinality(V) : L[k - 1] \subseteq L[k]
  PROVE  L[Cardinality(V)] = V \/ \E k \in 1..Cardinality(V) : L[k] = L[k - 1]
<1> DEFINE N == Cardinality(V)
<1>1. N \in Nat
  BY FS_CardinalityType
<1>2. ASSUME NEW k \in 0..N
      PROVE  IsFiniteSet(L[k]) /\ Cardinality(L[k]) \in Nat /\ Cardinality(L[k]) <= N
             /\ (Cardinality(L[k]) = N => L[k] = V)
  <2>1. L[k] \in SUBSET V
    OBVIOUS
  <2> QED
    BY <2>1, FS_Subset, FS_CardinalityType
<1>3. \A k \in 1..N : L[k - 1] \subseteq L[k]
  OBVIOUS
<1> HIDE DEF N
<1>4. SUFFICES ASSUME \A k \in 1..N : L[k] # L[k - 1] PROVE L[N] = V
  BY DEF N
<1> DEFINE bad == {k \in 0..N : ~(k <= Cardinality(L[k]))}
<1>5. bad = {}
  <2> SUFFICES ASSUME bad # {} PROVE FALSE
    OBVIOUS
  <2>1. PICK k \in bad : \A j \in bad : k <= j
    <3>1. bad \subseteq Nat
      OBVIOUS
    <3> HIDE DEF bad
    <3> QED
      BY <3>1, LeastNat
  <2>2. k \in 1..N /\ k - 1 \in 0..N /\ k \in 0..N
    BY <1>1, <1>2
  <2>3. k - 1 <= Cardinality(L[k - 1])
    BY <1>1, <2>1, <2>2
  <2>4. L[k - 1] \in SUBSET L[k] /\ L[k - 1] # L[k]
    BY <1>3, <1>4, <2>2
  <2>5. Cardinality(L[k - 1]) <= Cardinality(L[k]) /\ Cardinality(L[k - 1]) # Cardinality(L[k])
    BY <1>2, <2>2, <2>4, FS_Subset
  <2>6. Cardinality(L[k - 1]) \in Nat /\ Cardinality(L[k]) \in Nat
    BY <1>2, <2>2
  <2>7. k <= Cardinality(L[k])
    BY <2>2, <2>3, <2>5, <2>6
  <2> QED
    BY <2>7
<1>6. N <= Cardinality(L[N])
  BY <1>1, <1>5
<1> QED
  BY <1>1, <1>2, <1>6

\* What is scheduled in the end is what has all its inputs scheduled.
LEMMA WavesSettle ==
  ASSUME NEW V, NEW E, IsFiniteSet(V), HasCycle(V, E)
  PROVE  /\ Leveled(V, E)[Cardinality(V)] \in SUBSET V
         /\ Leveled(V, E)[Cardinality(V)] # V
         /\ \A n \in V : n \in Leveled(V, E)[Cardinality(V)] <=>
                           Preds(n, E) \subseteq Leveled(V, E)[Cardinality(V)]
<1> DEFINE N == Cardinality(V)
           L == Leveled(V, E)
<1>0. N \in Nat
  BY FS_CardinalityType
<1>1. /\ L \in [0..N -> SUBSET V] /\ L[0] = {}
      /\ \A k \in 1..N : L[k] = {n \in V : Preds(n, E) \subseteq L[k - 1]}
  BY <1>0, LeveledIs
<1>2. \A i \in 0..N : \A j \in i..N :
        L[i] \subseteq L[j] /\ (i # 0 /\ L[i] = L[i - 1] => L[j] = L[i])
  BY <1>0, WavesGrow
<1>3. L[N] # V
  BY DEF HasCycle
<1> HIDE DEF L
<1>4. \A k \in 1..N : L[k - 1] \subseteq L[k]
  BY <1>0, <1>2
<1>5. PICK k \in 1..N : L[k] = L[k - 1]
  <2>1. L \in [0..Cardinality(V) -> SUBSET V]
    BY <1>1
  <2>2. \A k \in 1..Cardinality(V) : L[k - 1] \subseteq L[k]
    BY <1>4
  <2>3. L[Cardinality(V)] = V \/ \E k \in 1..Cardinality(V) : L[k] = L[k - 1]
    BY <2>1, <2>2, GrowthEnds
  <2> QED
    BY <1>3, <2>3
<1> HIDE DEF N
<1>6. L[N] = L[k] /\ k \in 0..N
  BY <1>0, <1>2, <1>5
<1>7. \A n \in V : n \in L[N] <=> Preds(n, E) \subseteq L[N]
  BY <1>1, <1>5, <1>6
<1> QED
  BY <1>0, <1>1, <1>3, <1>7 DEF L, N

\* Where the leveling stops short, some node consumes itself.
LEMMA RejectedCyclic ==
  ASSUME NEW V, NEW E \in SUBSET (V \X V), IsFiniteSet(V), HasCycle(V, E),
         NEW M \in Nat, Cardinality(V) <= M
  PROVE  \E n \in V : <<n, n>> \in Joined(E, M)[M]
<1> DEFINE N == Cardinality(V)
           R == V \ Leveled(V, E)[N]
           back == [n \in R |-> CHOOSE p \in R : <<p, n>> \in E]
           J == Joined(E, M)
<1>1. N \in Nat
  BY FS_CardinalityType
<1>2. R # {} /\ IsFiniteSet(R) /\ Cardinality(R) <= N
  <2>1. R # {} /\ R \in SUBSET V
    <3>1. Leveled(V, E)[N] \in SUBSET V /\ Leveled(V, E)[N] # V
      BY WavesSettle
    <3> QED
      BY <3>1
  <2> QED
    BY <2>1, FS_Subset
<1>3. ASSUME NEW n \in R PROVE \E p \in R : <<p, n>> \in E
  <2>1. PICK p \in Preds(n, E) : p \notin Leveled(V, E)[N]
    BY WavesSettle
  <2>2. p \in V /\ <<p, n>> \in E
    BY PredsAre
  <2> QED
    BY <2>1, <2>2
<1>4. \A n \in R : back[n] \in R /\ <<back[n], n>> \in E
  BY <1>3
<1>5. back \in [R -> R]
  BY <1>4
<1> HIDE DEF N, R, back
<1>6. PICK a \in R : TRUE
  BY <1>2
<1>7. PICK w : Iterates(w, R, a, back, N)
  BY <1>1, <1>5, Iterated
<1>8. w \in [0..N -> R] /\ \A k \in 1..N : <<w[k], w[k - 1]>> \in E
  <2>1. w \in [0..N -> R] /\ \A k \in 1..N : w[k] = back[w[k - 1]] /\ k - 1 \in 0..N
    BY <1>1, <1>7 DEF Iterates
  <2> QED
    BY <1>4, <2>1
<1>9. PICK i \in 0..N, j \in 0..N : i < j /\ w[i] = w[j]
  <2>1. IsFiniteSet(0..N) /\ Cardinality(0..N) = N + 1
    BY <1>1, FS_Interval
  <2>2. Cardinality(R) < Cardinality(0..N)
    BY <1>1, <1>2, <2>1, FS_CardinalityType
  <2>3. \E x, y \in 0..N : x # y /\ w[x] = w[y]
    BY <1>2, <1>8, <2>1, <2>2, FS_PigeonHole
  <2> QED
    BY <1>1, <2>3
<1>10. /\ J \in [0..M -> SUBSET (V \X V)] /\ J[0] = E
       /\ \A k \in 1..M : \A x, y : <<x, y>> \in J[k] <=>
            <<x, y>> \in J[k - 1] \/ \E c : <<x, c>> \in J[k - 1] /\ <<c, y>> \in E
  BY JoinedIs
<1> HIDE DEF J
<1> DEFINE Walks(d) == \A s \in 0..N : s + d + 1 \in 0..N => <<w[s + d + 1], w[s]>> \in J[d]
           bad == {d \in 0..M : ~Walks(d)}
<1>11. bad = {}
  <2> SUFFICES ASSUME bad # {} PROVE FALSE
    OBVIOUS
  <2>1. PICK d \in bad : \A e \in bad : d <= e
    <3>1. bad \subseteq Nat
      OBVIOUS
    <3> HIDE DEF bad
    <3> QED
      BY <3>1, LeastNat
  <2>2. d \in 0..M /\ ~Walks(d)
    OBVIOUS
  <2>3. d # 0
    <3>1. SUFFICES ASSUME d = 0, NEW s \in 0..N, s + 1 \in 0..N PROVE <<w[s + 1], w[s]>> \in E
      BY <1>1, <1>10, <2>2
    <3>2. s + 1 \in 1..N /\ (s + 1) - 1 = s
      BY <1>1, <3>1
    <3> QED
      BY <1>8, <3>2
  <2>4. d \in 1..M /\ d - 1 \in 0..M /\ Walks(d - 1)
    BY <2>1, <2>2, <2>3
  <2>5. ASSUME NEW s \in 0..N, s + d + 1 \in 0..N
        PROVE  <<w[s + d + 1], w[s]>> \in J[d]
    <3>1. s + 1 \in 0..N /\ s + 1 \in 1..N /\ (s + 1) - 1 = s /\ (s + 1) + (d - 1) + 1 = s + d + 1
      BY <1>1, <2>4, <2>5
    <3>2. <<w[s + d + 1], w[s + 1]>> \in J[d - 1]
      BY <2>4, <2>5, <3>1
    <3>3. <<w[s + 1], w[s]>> \in E
      BY <1>8, <3>1
    <3> QED
      BY <1>10, <2>4, <3>2, <3>3
  <2> HIDE DEF bad
  <2> QED
    BY <2>2, <2>5
<1> DEFINE d == j - i - 1
<1>12. d \in 0..M /\ i + d + 1 = j
  BY <1>1, <1>9 DEF N
<1> HIDE DEF d
<1>13. <<w[i], w[i]>> \in J[d]
  <2>1. Walks(d)
    BY <1>11, <1>12
  <2> QED
    BY <1>9, <1>12, <2>1
<1>14. \A k \in d..M : <<w[i], w[i]>> \in J[k]
  <2> DEFINE late == {k \in d..M : <<w[i], w[i]>> \notin J[k]}
  <2> SUFFICES ASSUME late # {} PROVE FALSE
    OBVIOUS
  <2>1. PICK k \in late : \A e \in late : k <= e
    <3>1. late \subseteq Nat
      BY <1>12
    <3> HIDE DEF late
    <3> QED
      BY <3>1, LeastNat
  <2>2. k \in d..M /\ k # d /\ <<w[i], w[i]>> \notin J[k]
    BY <1>13
  <2>3. k - 1 \in d..M /\ k \in 1..M
    BY <1>12, <2>2
  <2>4. <<w[i], w[i]>> \in J[k - 1]
    BY <2>1, <2>2, <2>3
  <2> QED
    BY <1>10, <2>2, <2>3, <2>4
<1>15. <<w[i], w[i]>> \in J[M]
  BY <1>12, <1>14
<1>16. w[i] \in V
  BY <1>8, <1>9 DEF R
<1> QED
  BY <1>15, <1>16 DEF J

\* A set of nodes that has the targets and all its nodes consume.
Enough(X, T, E) == T \subseteq X /\ \A n \in X : Preds(n, E) \subseteq X

\* What is traced is the least such set.
LEMMA TracedIs ==
  ASSUME NEW V, NEW E \in SUBSET (V \X V), NEW T \in SUBSET V, IsFiniteSet(V)
  PROVE  /\ Traced(T, E, V) \subseteq V /\ Enough(Traced(T, E, V), T, E)
         /\ \A X : Enough(X, T, E) => Traced(T, E, V) \subseteq X
<1> DEFINE N == Cardinality(V)
           Wider(X) == X \cup UNION {Preds(n, E) : n \in X}
           step == [X \in SUBSET V |-> Wider(X)]
           Within(g) == g = [k \in 0..N |-> IF k = 0 THEN T ELSE Wider(g[k - 1])]
<1>1. N \in Nat
  BY FS_CardinalityType
<1>2. \A n : Preds(n, E) \subseteq V
  BY PredsAre
<1>3. \A X \in SUBSET V : Wider(X) \in SUBSET V
  BY <1>2
<1>4. PICK h : Within(h)
  <2>1. step \in [SUBSET V -> SUBSET V]
    BY <1>3
  <2>2. PICK h : Iterates(h, SUBSET V, T, step, N)
    <3> HIDE DEF step, N
    <3> QED
      BY <1>1, <2>1, Iterated
  <2>3. h \in [0..N -> SUBSET V] /\ h[0] = T /\ \A k \in 1..N : h[k] = step[h[k - 1]]
    BY <2>2 DEF Iterates
  <2> HIDE DEF N, Wider
  <2>4. ASSUME NEW k \in 0..N PROVE h[k] = IF k = 0 THEN T ELSE Wider(h[k - 1])
    <3>1. CASE k # 0
      <4>1. k \in 1..N /\ k - 1 \in 0..N
        BY <1>1, <3>1
      <4> QED
        BY <4>1, <3>1, <2>3
    <3> QED
      BY <2>3, <3>1
  <2>5. Within(h)
    BY <2>3, <2>4
  <2> QED
    BY <2>5
<1>5. PICK g : Within(g) /\ Traced(T, E, V) = g[N]
  <2>1. Traced(T, E, V) = (CHOOSE g : Within(g))[N]
    BY DEF Traced
  <2> HIDE DEF Within
  <2> QED
    BY <1>4, <2>1
<1> HIDE DEF N
<1>6. /\ DOMAIN g = 0..N /\ g = [k \in 0..N |-> g[k]] /\ g[0] = T
      /\ \A k \in 1..N : k \in 0..N /\ k - 1 \in 0..N /\ g[k] = Wider(g[k - 1])
  <2>1. \A k \in 0..N : g[k] = IF k = 0 THEN T ELSE Wider(g[k - 1])
    BY <1>5
  <2>2. 0 \in 0..N /\ \A k \in 1..N : k \in 0..N /\ k - 1 \in 0..N /\ k # 0
    BY <1>1
  <2> HIDE DEF Wider
  <2>3. DOMAIN g = 0..N /\ g = [k \in 0..N |-> g[k]]
    BY <1>5
  <2> QED
    BY <2>1, <2>2, <2>3
<1>7. ASSUME NEW X, Enough(X, T, E) PROVE \A k \in 0..N : g[k] \subseteq X
  <2> DEFINE bad == {k \in 0..N : ~(g[k] \subseteq X)}
  <2> SUFFICES ASSUME bad # {} PROVE FALSE
    OBVIOUS
  <2>1. PICK k \in bad : \A j \in bad : k <= j
    <3>1. bad \subseteq Nat
      BY <1>1
    <3> HIDE DEF bad
    <3> QED
      BY <3>1, LeastNat
  <2>2. T \subseteq X /\ \A n \in X : Preds(n, E) \subseteq X
    BY <1>7 DEF Enough
  <2>3. k \in 1..N
    BY <1>1, <1>6, <2>2
  <2>4. g[k - 1] \subseteq X
    BY <1>1, <1>6, <2>1, <2>3
  <2>5. g[k] = Wider(g[k - 1])
    BY <1>6, <2>3
  <2> QED
    BY <2>2, <2>4, <2>5
<1>8. Enough(V, T, E)
  BY <1>2 DEF Enough
<1>9. g \in [0..N -> SUBSET V]
  BY <1>6, <1>7, <1>8
<1>10. \A k \in 1..N : g[k - 1] \subseteq g[k]
  BY <1>6
<1>11. \A n \in g[N] : Preds(n, E) \subseteq g[N]
  <2>1. CASE g[N] = V
    BY <1>2, <2>1
  <2>2. ASSUME NEW k \in 1..N, g[k] = g[k - 1] PROVE Wider(g[N]) = g[N]
    <3> HIDE DEF Wider
    <3> DEFINE late == {j \in k..N : g[j] # g[k]}
    <3>1. late = {}
      <4> SUFFICES ASSUME late # {} PROVE FALSE
        OBVIOUS
      <4>1. PICK j \in late : \A i \in late : j <= i
        <5>1. late \subseteq Nat
          BY <1>1
        <5> HIDE DEF late
        <5> QED
          BY <5>1, LeastNat
      <4>2. j \in k..N /\ j # k /\ j \in 1..N /\ j - 1 \in k..N /\ g[j] # g[k]
        BY <1>1
      <4>3. g[j - 1] = g[k]
        BY <1>1, <4>1, <4>2
      <4> QED
        BY <1>6, <2>2, <4>2, <4>3
    <3>2. g[N] = g[k]
      BY <1>1, <3>1
    <3> QED
      BY <1>6, <2>2, <3>2
  <2>3. g[N] = V \/ \E k \in 1..N : g[k] = g[k - 1]
    BY <1>9, <1>10, GrowthEnds DEF N
  <2>4. CASE Wider(g[N]) = g[N]
    BY <2>4
  <2> HIDE DEF Wider
  <2> QED
    BY <2>1, <2>2, <2>3, <2>4
<1>12. T \subseteq g[N]
  <2> DEFINE bad == {k \in 0..N : ~(T \subseteq g[k])}
  <2>1. bad = {}
    <3> SUFFICES ASSUME bad # {} PROVE FALSE
      OBVIOUS
    <3>1. PICK k \in bad : \A j \in bad : k <= j
      <4>1. bad \subseteq Nat
        BY <1>1
      <4> HIDE DEF bad
      <4> QED
        BY <4>1, LeastNat
    <3>2. k \in 1..N /\ k - 1 \in 0..N
      BY <1>1, <1>6
    <3>3. T \subseteq g[k - 1]
      BY <1>1, <3>1, <3>2
    <3> QED
      BY <1>10, <3>2, <3>3
  <2> QED
    BY <1>1, <2>1
<1>13. g[N] \subseteq V /\ \A X : Enough(X, T, E) => g[N] \subseteq X
  <2>1. N \in 0..N
    BY <1>1
  <2> QED
    BY <1>7, <1>9, <2>1
<1>14. Enough(g[N], T, E)
  BY <1>11, <1>12 DEF Enough
<1> HIDE DEF Within
<1> QED
  BY <1>5, <1>13, <1>14

\* The planner keeps what the targets need.
LEMMA BuildNeeded == ReadyInv /\ BuildPlan => PlanNeeded
<1> SUFFICES ASSUME ReadyInv, BuildPlan PROVE PlanNeeded
  OBVIOUS
<1>1. edges \in SUBSET (Nodes \X Nodes) /\ plan \in SUBSET Nodes /\ IsFiniteSet(Nodes)
  BY GraphAssumption DEF ReadyInv, ReadyTypes
<1>2. PICK P : P = Traced(plan, edges, Nodes)
  OBVIOUS
<1>3. P \subseteq Nodes /\ Enough(P, plan, edges) /\ \A X : Enough(X, plan, edges) => P \subseteq X
  BY <1>1, <1>2, TracedIs
<1>4. plan' = P /\ edges' = Between(P, edges)
  <2>1. Nodes \cap P = P
    BY <1>3
  <2> QED
    BY <1>2, <2>1 DEF BuildPlan
<1>5. Between(P, edges) = {e \in edges : e[2] \in P}
  <2>1. ASSUME NEW e \in edges, e[2] \in P PROVE e[1] \in P
    <3>1. e[1] \in Preds(e[2], edges)
      BY DEF Preds
    <3> QED
      BY <1>3, <2>1, <3>1 DEF Enough
  <2> QED
    BY <2>1 DEF Between
<1> QED
  BY <1>3, <1>4, <1>5 DEF Enough, PlanNeeded

\* An accepted plan is what PlanLeveled says, from the levels of its nodes.
LEMMA AcceptedSound ==
  ASSUME plan \subseteq Nodes, edges \in SUBSET (plan \X plan), stage = PlanStages(plan, edges),
         ~HasCycle(plan, edges)
  PROVE  /\ ~ \E n \in Nodes : <<n, n>> \in Joined(edges, Cardinality(Nodes))[Cardinality(Nodes)]
         /\ UNION {stage[k] : k \in DOMAIN stage} = plan
         /\ \A e \in edges : StageOf(e[1]) < StageOf(e[2])
         /\ \A k \in DOMAIN stage : GroupStarts(DirectStages, Cardinality(DOMAIN stage))[k] = k
<1>1. Cardinality(plan) \in Nat /\ Cardinality(Nodes) \in Nat
  BY GraphAssumption, FS_Subset, FS_CardinalityType
<1>2. PICK m \in Nat : \E level : Levels(level, m, stage, plan, edges)
  BY <1>1, AcceptedLevels
<1>3. PICK level : Levels(level, m, stage, plan, edges)
  BY <1>2
<1>4. /\ level \in [plan -> 1..m] /\ DOMAIN stage = 1..m
      /\ \A n \in plan : \A k \in 1..m : n \in stage[k] <=> k = level[n]
      /\ \A k \in 1..m : stage[k] \subseteq plan
      /\ \A x, y \in plan : <<x, y>> \in edges => level[x] < level[y]
      /\ \A k \in 2..m : \E x, y \in plan : <<x, y>> \in edges /\ level[x] = k - 1 /\ level[y] = k
  BY <1>3 DEF Levels
<1>5. ~ \E n \in Nodes : <<n, n>> \in Joined(edges, Cardinality(Nodes))[Cardinality(Nodes)]
  <2>1. level \in [plan -> 1..m] /\ \A x, y \in plan : <<x, y>> \in edges => level[x] < level[y]
    BY <1>4
  <2>2. \A M \in Nat : \A n : <<n, n>> \notin Joined(edges, M)[M]
    BY <2>1, AcceptedAcyclic
  <2> QED
    BY <1>1, <2>2
<1>6. UNION {stage[k] : k \in DOMAIN stage} = plan
  BY <1>4
<1>7. ASSUME NEW n \in plan PROVE StageOf(n) = level[n]
  BY <1>4 DEF StageOf
<1>8. ASSUME NEW e \in edges PROVE StageOf(e[1]) < StageOf(e[2])
  <2>1. e = <<e[1], e[2]>> /\ e[1] \in plan /\ e[2] \in plan
    OBVIOUS
  <2> QED
    BY <1>4, <1>7, <2>1
<1>9. \A k \in DOMAIN stage : GroupStarts(DirectStages, Cardinality(DOMAIN stage))[k] = k
  <2>1. Cardinality(DOMAIN stage) = m
    <3>1. Cardinality(1..m) = m
      BY FS_Interval
    <3> QED
      BY <1>4, <3>1
  <2>2. DirectStages \in [1..m -> SUBSET (1..m)]
    BY <1>4 DEF DirectStages
  <2>3. ASSUME NEW k \in 2..m PROVE k - 1 \in DirectStages[k]
    <3>1. k \in 1..m /\ k - 1 \in 1..m
      OBVIOUS
    <3>2. PICK x \in plan, y \in plan : <<x, y>> \in edges /\ level[x] = k - 1 /\ level[y] = k
      BY <1>4
    <3>3. x \in stage[k - 1] /\ y \in stage[k]
      BY <1>4, <3>1, <3>2
    <3>4. <<x, y>>[1] = x /\ <<x, y>>[2] = y
      OBVIOUS
    <3>5. \E e \in edges : e[1] \in stage[k - 1] /\ e[2] \in stage[k]
      BY <3>2, <3>3, <3>4
    <3> QED
      BY <1>4, <3>1, <3>5 DEF DirectStages
  <2>4. \A k \in 1..m : GroupStarts(DirectStages, m)[k] = k
    BY <2>2, <2>3, GroupsAlone
  <2> QED
    BY <1>4, <2>1, <2>4
<1> QED
  BY <1>5, <1>6, <1>8, <1>9

\* Once there is a plan, it is what the planner makes of its nodes and edges.
PlanBuilt ==
  runPc # "plan" =>
    /\ plan \subseteq Nodes /\ edges \in SUBSET (plan \X plan)
    /\ stage = PlanStages(plan, edges)
    /\ runPc = "rejected" <=> HasCycle(plan, edges)

\* A plan is built once, on edges between its nodes, and then stays.
LEMMA PlanStep == ReadyInv /\ PlanBuilt /\ [ReadyNext]_runVars => PlanBuilt'
<1> SUFFICES ASSUME ReadyInv, PlanBuilt, [ReadyNext]_runVars PROVE PlanBuilt'
  OBVIOUS
<1>1. CASE BuildPlan
  <2>1. /\ plan' \subseteq Nodes /\ edges' = Between(plan', edges)
        /\ stage' = PlanStages(plan', edges')
        /\ runPc' = IF HasCycle(plan', edges') THEN "rejected" ELSE "dispatch"
    BY <1>1 DEF BuildPlan
  <2>2. edges \subseteq Nodes \X Nodes
    BY DEF ReadyInv, ReadyTypes
  <2>3. edges' \in SUBSET (plan' \X plan')
    <3>1. ASSUME NEW e \in edges' PROVE e \in plan' \X plan'
      BY <2>1, <2>2 DEF Between
    <3> QED
      BY <3>1
  <2> QED
    BY <2>1, <2>3 DEF PlanBuilt
<1>2. CASE ~BuildPlan
  <2>1. UNCHANGED <<plan, edges, stage>>
    BY <1>2 DEF ReadyNext, RunStep, Dispatch, SkipBatch, EndBatch, CancelRest, Conclude,
      SkipNodeCancelled, FailMissingInput, ExecuteStuck, Execute, Finish, CancelRun, CancelNode,
      runVars, planVars
  <2>2. runPc' = runPc \/ (runPc \notin {"plan", "rejected"} /\ runPc' \notin {"plan", "rejected"})
    BY <1>2 DEF ReadyNext, RunStep, Dispatch, SkipBatch, EndBatch, CancelRest, Conclude,
      SkipNodeCancelled, FailMissingInput, ExecuteStuck, Execute, Finish, CancelRun, CancelNode,
      runVars
  <2> QED
    BY <2>1, <2>2 DEF PlanBuilt
<1> QED
  BY <1>1, <1>2

\* And so it is rejected for a cycle, or leveled.
LEMMA BuiltLeveled == PlanBuilt /\ runPc \in {"rejected", "dispatch"} => PlanLeveled
<1> SUFFICES ASSUME PlanBuilt, runPc \in {"rejected", "dispatch"} PROVE PlanLeveled
  OBVIOUS
<1>1. /\ plan \subseteq Nodes /\ edges \in SUBSET (plan \X plan)
      /\ stage = PlanStages(plan, edges)
      /\ runPc = "rejected" <=> HasCycle(plan, edges)
  BY DEF PlanBuilt
<1>2. CASE HasCycle(plan, edges)
  <2>1. /\ IsFiniteSet(plan) /\ Cardinality(Nodes) \in Nat
        /\ Cardinality(plan) <= Cardinality(Nodes)
    BY <1>1, GraphAssumption, FS_Subset, FS_CardinalityType
  <2>2. \E n \in plan : <<n, n>> \in Joined(edges, Cardinality(Nodes))[Cardinality(Nodes)]
    BY <1>1, <1>2, <2>1, RejectedCyclic
  <2> QED
    BY <1>1, <1>2, <2>2 DEF PlanLeveled
<1>3. CASE ~HasCycle(plan, edges)
  BY <1>1, <1>3, AcceptedSound DEF PlanLeveled
<1> QED
  BY <1>2, <1>3

\* For every graph and every choice of targets, the plan is the least set of
\* nodes with the targets and all its nodes consume; it is rejected exactly when
\* a node of it consumes itself, and otherwise its waves hold every node once,
\* after all it consumes, each wave a group of its own (readiness/planner.rs
\* trace_execution_subgraph, has_cycle, build_plan, build_stages).
THEOREM PlansAreSound == ReadySpec => PlanSound
<1> DEFINE Leveling == runPc \in {"rejected", "dispatch"} => PlanLeveled
<1>1. ReadyInit => PlanBuilt
  BY DEF ReadyInit, PlanBuilt
<1>2. PlanBuilt => Leveling
  BY BuiltLeveled
<1>3. ReadyInv /\ Leveling' /\ [ReadyNext]_runVars =>
        [runPc = "plan" => PlanNeeded /\ PlanLeveled']_runVars
  <2> SUFFICES ASSUME ReadyInv, Leveling', ReadyNext, runPc = "plan"
               PROVE  PlanNeeded /\ PlanLeveled'
    OBVIOUS
  <2>1. BuildPlan
    BY DEF ReadyNext, RunStep, Dispatch, SkipBatch, EndBatch, CancelRest, Conclude,
      SkipNodeCancelled, FailMissingInput, ExecuteStuck, Execute, Admissible, CancelRun, CancelNode
  <2>2. runPc' \in {"rejected", "dispatch"}
    BY <2>1 DEF BuildPlan
  <2> QED
    BY <2>1, <2>2, BuildNeeded
<1> HIDE DEF Leveling
<1> QED
  BY <1>1, <1>2, <1>3, PlanStep, ReadyAlways, PTL DEF ReadySpec, PlanSound
=============================================================================
