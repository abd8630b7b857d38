----------------------------- MODULE CancelToken -----------------------------
(***************************************************************************)
(* The cooperative cancellation token every run, node, operation and mod   *)
(* call of the system is stopped with (core/src/task/cancellation.rs).     *)
(*                                                                         *)
(* Threads cancel tokens and derive tokens from others at the same time;   *)
(* what one of them does under no common lock is a step of its own.        *)
(* Parents hold their children weakly: a token all of whose handles were   *)
(* dropped is gone, with the list of its own children.                     *)
(***************************************************************************)
EXTENDS Naturals

CONSTANTS Tokens, NoToken, Threads, Waiters

ASSUME NoTokenAssumption == NoToken \notin Tokens

VARIABLES
  born,      \* tokens that were created
  live,      \* those of which a handle is left
  flag,      \* CancelTokenInner::cancelled
  children,  \* CancelTokenInner::children
  parents,   \* what each token was derived from
  requested, \* tokens a user called cancel() on
  pc,        \* where each thread is
  cur,       \* the token it works on
  todo,      \* tokens it still has to cancel, upgraded to strong handles
  left,      \* parents it still has to register with
  waiting,   \* where each cancelled() future is
  on,        \* the token it waits for
  woken      \* Notify has woken it

tokenVars == <<born, live, flag, children, parents, requested>>
threadVars == <<pc, cur, todo, left>>
waiterVars == <<waiting, on, woken>>
vars == <<tokenVars, threadVars, waiterVars>>

Init ==
  /\ born = {} /\ live = {} /\ requested = {}
  /\ flag = [t \in Tokens |-> FALSE]
  /\ children = [t \in Tokens |-> {}] /\ parents = [t \in Tokens |-> {}]
  /\ pc = [h \in Threads |-> "idle"] /\ cur = [h \in Threads |-> NoToken]
  /\ todo = [h \in Threads |-> {}] /\ left = [h \in Threads |-> {}]
  /\ waiting = [w \in Waiters |-> "idle"] /\ on = [w \in Waiters |-> NoToken]
  /\ woken = [w \in Waiters |-> FALSE]

Goto(h, label) == pc' = [pc EXCEPT ![h] = label]

\* A call returns when no token is left to it.
AfterCancel(rest) == IF rest = {} THEN "idle" ELSE "cancel"

-----------------------------------------------------------------------------
(* cancel() *)

CallCancel(h, t) ==
  /\ pc[h] = "idle" /\ t \in live
  /\ todo' = [todo EXCEPT ![h] = {t}] /\ requested' = requested \cup {t}
  /\ Goto(h, "cancel")
  /\ UNCHANGED <<born, live, flag, children, parents, cur, left, waiterVars>>

\* The swap found the flag set: someone else propagates, or has.
SwapLost(h, t) ==
  /\ pc[h] = "cancel" /\ t \in todo[h] /\ flag[t]
  /\ todo' = [todo EXCEPT ![h] = @ \ {t}]
  /\ Goto(h, AfterCancel(todo'[h]))
  /\ UNCHANGED <<tokenVars, cur, left, waiterVars>>

SwapWon(h, t) ==
  /\ pc[h] = "cancel" /\ t \in todo[h] /\ ~flag[t]
  /\ flag' = [flag EXCEPT ![t] = TRUE]
  /\ todo' = [todo EXCEPT ![h] = @ \ {t}]
  /\ cur' = [cur EXCEPT ![h] = t] /\ Goto(h, "notify")
  /\ UNCHANGED <<born, live, children, parents, requested, left, waiterVars>>

\* A future registers with the Notify when it is awaited, or by enable() before.
RegisteredOnAwait(w) == waiting[w] = "parked"
Registered(w) == waiting[w] \in {"enabled", "checked", "parked"}

\* notify_waiters wakes every future registered by now.
NotifyWaiters(h) ==
  /\ pc[h] = "notify"
  /\ woken' = [w \in Waiters |-> woken[w] \/ (on[w] = cur[h] /\ Registered(w))]
  /\ Goto(h, "drain")
  /\ UNCHANGED <<tokenVars, cur, todo, left, waiting, on>>

\* A drain that takes what the token was derived from along.
UpgradedWithParents(t) == (children[t] \cup parents[t]) \cap live
Upgraded(t) == children[t] \cap live

\* The children that can be upgraded are cancelled next.
Drain(h) ==
  /\ pc[h] = "drain"
  /\ todo' = [todo EXCEPT ![h] = @ \cup Upgraded(cur[h])]
  /\ children' = [children EXCEPT ![cur[h]] = {}]
  /\ cur' = [cur EXCEPT ![h] = NoToken] /\ Goto(h, AfterCancel(todo'[h]))
  /\ UNCHANGED <<born, live, flag, parents, requested, left, waiterVars>>

-----------------------------------------------------------------------------
(* any(): child() is any() of one parent, new() of none. *)

\* Which token is allocated next does not matter.
Fresh == CHOOSE t \in Tokens : t \notin born

CallAny(h, from) ==
  LET c == Fresh IN
  /\ pc[h] = "idle" /\ born # Tokens /\ from \subseteq live
  /\ born' = born \cup {c} /\ live' = live \cup {c}
  /\ parents' = [parents EXCEPT ![c] = from]
  /\ cur' = [cur EXCEPT ![h] = c] /\ left' = [left EXCEPT ![h] = from]
  /\ Goto(h, "register")
  /\ UNCHANGED <<flag, children, requested, todo, waiterVars>>

\* One parent at a time, under its lock, dropping the dead from its list.
Register(h, p) ==
  /\ pc[h] = "register" /\ p \in left[h]
  /\ children' = [children EXCEPT ![p] = (@ \cap live) \cup {cur[h]}]
  /\ left' = [left EXCEPT ![h] = @ \ {p}]
  /\ UNCHANGED <<born, live, flag, parents, requested, pc, cur, todo, waiterVars>>

\* A parent cancelled since; an any() that does not look again.
NoRecheck(c) == FALSE
ParentCancelled(c) == \E p \in parents[c] : flag[p]

Recheck(h) ==
  /\ pc[h] = "register" /\ left[h] = {}
  /\ todo' = [todo EXCEPT ![h] = IF ParentCancelled(cur[h]) THEN {cur[h]} ELSE {}]
  /\ cur' = [cur EXCEPT ![h] = NoToken] /\ Goto(h, AfterCancel(todo'[h]))
  /\ UNCHANGED <<tokenVars, left, waiterVars>>

-----------------------------------------------------------------------------
(* cancelled() *)

\* notified() and enable()
Wait(w, t) ==
  /\ waiting[w] = "idle" /\ t \in live
  /\ waiting' = [waiting EXCEPT ![w] = "enabled"] /\ on' = [on EXCEPT ![w] = t]
  /\ UNCHANGED <<tokenVars, threadVars, woken>>

CheckFlag(w) ==
  /\ waiting[w] = "enabled"
  /\ waiting' = [waiting EXCEPT ![w] = IF flag[on[w]] THEN "done" ELSE "checked"]
  /\ UNCHANGED <<tokenVars, threadVars, on, woken>>

Await(w) ==
  /\ waiting[w] = "checked"
  /\ waiting' = [waiting EXCEPT ![w] = "parked"]
  /\ UNCHANGED <<tokenVars, threadVars, on, woken>>

WakeUp(w) ==
  /\ waiting[w] = "parked" /\ woken[w]
  /\ waiting' = [waiting EXCEPT ![w] = "done"]
  /\ UNCHANGED <<tokenVars, threadVars, on, woken>>

-----------------------------------------------------------------------------
\* Handles in use: by a call under way, or by a future that waits.
InUse ==
  UNION {todo[h] \cup left[h] \cup {cur[h]} \cup
         (IF pc[h] = "register" THEN parents[cur[h]] ELSE {}) : h \in Threads}
    \cup {on[w] : w \in {v \in Waiters : waiting[v] \in {"enabled", "checked", "parked"}}}

\* The last handle of a token goes.
DropToken(t) ==
  /\ t \in live \ InUse
  /\ live' = live \ {t}
  /\ UNCHANGED <<born, flag, children, parents, requested, threadVars, waiterVars>>

ThreadStep(h) ==
  \/ NotifyWaiters(h) \/ Drain(h) \/ Recheck(h)
  \/ \E t \in Tokens : SwapLost(h, t) \/ SwapWon(h, t) \/ Register(h, t)

WaiterStep(w) == CheckFlag(w) \/ Await(w) \/ WakeUp(w)

Call ==
  \/ \E h \in Threads, t \in Tokens : CallCancel(h, t)
  \/ \E h \in Threads, from \in SUBSET Tokens : CallAny(h, from)
  \/ \E w \in Waiters, t \in Tokens : Wait(w, t)

Next ==
  \/ Call
  \/ \E h \in Threads : ThreadStep(h)
  \/ \E w \in Waiters : WaiterStep(w)
  \/ \E t \in Tokens : DropToken(t)

Spec == Init /\ [][Next]_vars

\* Calls that were made are executed; nobody has to make one.
FairSpec ==
  /\ Spec
  /\ \A h \in Threads : WF_vars(ThreadStep(h))
  /\ \A w \in Waiters : WF_vars(WaiterStep(w))

-----------------------------------------------------------------------------
TypeOK ==
  /\ live \subseteq born /\ born \subseteq Tokens /\ requested \subseteq Tokens
  /\ flag \in [Tokens -> BOOLEAN]
  /\ children \in [Tokens -> SUBSET born] /\ parents \in [Tokens -> SUBSET Tokens]
  /\ pc \in [Threads -> {"idle", "cancel", "notify", "drain", "register"}]
  /\ cur \in [Threads -> Tokens \cup {NoToken}]
  /\ todo \in [Threads -> SUBSET born] /\ \A h \in Threads : pc[h] = "idle" => todo[h] = {}
  /\ left \in [Threads -> SUBSET Tokens]
  /\ waiting \in [Waiters -> {"idle", "enabled", "checked", "parked", "done"}]
  /\ on \in [Waiters -> Tokens \cup {NoToken}] /\ woken \in [Waiters -> BOOLEAN]

\* When no call is under way, a token derived from a cancelled one is cancelled,
\* whatever the order in which they were derived and cancelled.
Propagated ==
  (\A h \in Threads : pc[h] = "idle") =>
    \A c \in live : \A p \in parents[c] : flag[p] => flag[c]

\* A token is cancelled by request or from above, never from below.
NeverUpward ==
  \A t \in Tokens : flag[t] => t \in requested \/ \E p \in parents[t] : flag[p]

\* A future that waits for a cancelled token resolves.
NoLostWakeup ==
  \A w \in Waiters : (on[w] # NoToken /\ flag[on[w]]) ~> waiting[w] = "done"
=============================================================================
