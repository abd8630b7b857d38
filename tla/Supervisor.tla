------------------------------ MODULE Supervisor ------------------------------
(***************************************************************************)
(* The supervisor of one worker and the requests to it                     *)
(* (backend-worker-host/src/supervisor.rs, transport.rs).                  *)
(*                                                                         *)
(* Each start draws a generation.  Whoever changes the supervisor's state  *)
(* on behalf of a generation first looks whether it still is the current   *)
(* one, and stores then: two atomic accesses, with anything in between.    *)
(* A request has a task that drives its stream, a handle that waits for    *)
(* what the task sends, and cancellers; a worker process may die, or spoil *)
(* a stream, at any time.                                                  *)
(***************************************************************************)
EXTENDS Naturals, FiniteSets

CONSTANTS MaxStarts, Requests

ASSUME ActorsAssumption == MaxStarts \in Nat /\ Requests \cap 0 .. MaxStarts = {}

\* The calls of start that get past AlreadyStarted, in that order.
Starts == 1 .. MaxStarts
Nobody == 0

VARIABLES
  state,      \* WorkerProcessState of the supervisor
  current,    \* current_generation
  overtaken,  \* a store hit the state of a start that came after its look
  worker,     \* where each start is, and then its StartedWorker
  generation, \* the generation of each start, 0 before it draws one
  process,    \* its worker process
  alive,      \* its WorkerClientInner::alive
  client,     \* its WorkerClientInner has not been dropped
  shutdown,   \* where its shutdown is
  request,    \* where each request is, and then what its caller was told
  to,         \* the start whose worker it goes to
  driver,     \* the task that drives its stream
  event,      \* what the driver has sent to the handle
  cancelled, aborted,
  storing     \* calls of store_state_if_current that have not returned

supervisor == <<state, current, overtaken, storing>>
workers == <<worker, generation, process, alive, client, shutdown>>
requests == <<request, to, driver, event, cancelled, aborted>>
vars == <<supervisor, workers, requests>>

Starting == {"acquired", "drawn", "connected"}
Told == {"terminal", "lost", "cancelled", "timeout", "dropped"}

Init ==
  /\ state = "Stopped" /\ current = 0 /\ overtaken = FALSE /\ storing = {}
  /\ worker = [s \in Starts |-> "new"] /\ generation = [s \in Starts |-> 0]
  /\ process = [s \in Starts |-> "none"] /\ alive = [s \in Starts |-> FALSE]
  /\ client = [s \in Starts |-> FALSE] /\ shutdown = [s \in Starts |-> "none"]
  /\ request = [r \in Requests |-> "new"] /\ to = [r \in Requests |-> Nobody]
  /\ driver = [r \in Requests |-> "none"] /\ event = [r \in Requests |-> "none"]
  /\ cancelled = {} /\ aborted = {}

-----------------------------------------------------------------------------
(* store_state_if_current *)

\* Begun by an actor for the generation of s.
Storing(by, s, next) ==
  storing' = storing \cup {[by |-> by, of |-> generation[s], next |-> next, seen |-> 0]}
Busy(by) == \E call \in storing : call.by = by

LookAnyhow(call) ==
  /\ call \in storing /\ call.seen = 0
  /\ storing' = (storing \ {call}) \cup {[call EXCEPT !.seen = current]}
  /\ UNCHANGED <<state, current, overtaken, workers, requests>>
Look(call) ==
  /\ call \in storing /\ call.seen = 0
  /\ storing' = (storing \ {call}) \cup
                  (IF current = call.of THEN {[call EXCEPT !.seen = current]} ELSE {})
  /\ UNCHANGED <<state, current, overtaken, workers, requests>>

\* A start that came after the look.
Overtakes(call) ==
  call.seen = call.of /\ (current # call.of \/ \E s \in Starts : worker[s] = "acquired")

\* The end of a client only turns Ready into Stopped.
Store(call) ==
  LET hits == call.next = "dropped" => state = "Ready" IN
  /\ call \in storing /\ call.seen # 0 /\ storing' = storing \ {call}
  /\ state' = IF ~hits THEN state ELSE IF call.next = "dropped" THEN "Stopped" ELSE call.next
  /\ overtaken' = (overtaken \/ (hits /\ Overtakes(call)))
  /\ UNCHANGED <<current, workers, requests>>

-----------------------------------------------------------------------------
(* WorkerSupervisor::start *)

FirstNew(s) == \A t \in Starts : worker[t] = "new" <=> t >= s
AcquireOverStart(s) ==
  /\ FirstNew(s) /\ state # "Ready"
  /\ state' = "Starting" /\ worker' = [worker EXCEPT ![s] = "acquired"]
  /\ UNCHANGED <<current, overtaken, storing, generation, process, alive, client, shutdown, requests>>
\* The exchange of StartGuard::acquire; AlreadyStarted changes nothing.
Acquire(s) ==
  /\ FirstNew(s) /\ state \notin {"Ready", "Starting"}
  /\ state' = "Starting" /\ worker' = [worker EXCEPT ![s] = "acquired"]
  /\ UNCHANGED <<current, overtaken, storing, generation, process, alive, client, shutdown, requests>>

Draw(s) ==
  /\ worker[s] = "acquired" /\ worker' = [worker EXCEPT ![s] = "drawn"]
  /\ current' = current + 1 /\ generation' = [generation EXCEPT ![s] = current + 1]
  /\ UNCHANGED <<state, overtaken, storing, process, alive, client, shutdown, requests>>

\* connect and hello.
Connect(s) ==
  /\ worker[s] = "drawn" /\ worker' = [worker EXCEPT ![s] = "connected"]
  /\ process' = [process EXCEPT ![s] = "up"]
  /\ UNCHANGED <<supervisor, generation, alive, client, shutdown, requests>>

\* An error, the startup timeout, a caller that gives up: the process is
\* killed with its connection, then the guard is dropped.
StartFails(s) ==
  /\ worker[s] \in {"drawn", "connected"} /\ worker' = [worker EXCEPT ![s] = "failed"]
  /\ process' = [process EXCEPT ![s] = "gone"]
  /\ Storing(s, s, "Stopped")
  /\ UNCHANGED <<state, current, overtaken, generation, alive, client, shutdown, requests>>

\* The caller has its StartedWorker once the state is stored.
Commit(s) ==
  /\ worker[s] = "connected" /\ worker' = [worker EXCEPT ![s] = "held"]
  /\ alive' = [alive EXCEPT ![s] = TRUE] /\ client' = [client EXCEPT ![s] = TRUE]
  /\ Storing(s, s, "Ready")
  /\ UNCHANGED <<state, current, overtaken, generation, process, shutdown, requests>>
Held(s) == worker[s] = "held" /\ ~Busy(s)

ProcessDies(s) ==
  /\ process[s] = "up" /\ process' = [process EXCEPT ![s] = "gone"]
  /\ UNCHANGED <<supervisor, worker, generation, alive, client, shutdown, requests>>

-----------------------------------------------------------------------------
(* StartedWorker::shutdown, one at a time, and the drop of the last handle *)

CallShutdown(s) ==
  /\ Held(s) /\ shutdown[s] = "none" /\ alive[s]
  /\ shutdown' = [shutdown EXCEPT ![s] = "asked"]
  /\ UNCHANGED <<supervisor, worker, generation, process, alive, client, requests>>

\* The call fails, or its caller gives up: the worker is left as it is.
ShutdownRefused(s) ==
  /\ shutdown[s] \in {"asked", "killed"} /\ shutdown' = [shutdown EXCEPT ![s] = "none"]
  /\ UNCHANGED <<supervisor, worker, generation, process, alive, client, requests>>

\* Acknowledged or timed out.
KillProcess(s) ==
  /\ shutdown[s] = "asked" /\ shutdown' = [shutdown EXCEPT ![s] = "killed"]
  /\ process' = [process EXCEPT ![s] = "gone"]
  /\ UNCHANGED <<supervisor, worker, generation, alive, client, requests>>
ShutdownStops(s) ==
  /\ shutdown[s] = "killed" /\ shutdown' = [shutdown EXCEPT ![s] = "storing"]
  /\ alive' = [alive EXCEPT ![s] = FALSE] /\ Storing(s, s, "Stopped")
  /\ UNCHANGED <<state, current, overtaken, worker, generation, process, client, requests>>
ShutdownReturns(s) ==
  /\ shutdown[s] = "storing" /\ ~Busy(s) /\ shutdown' = [shutdown EXCEPT ![s] = "none"]
  /\ UNCHANGED <<supervisor, worker, generation, process, alive, client, requests>>

\* A request's handle and cancellers keep the client.
Keeps(r, s) == to[r] = s /\ request[r] \notin Told
Borrowed(s) ==
  \/ shutdown[s] # "none"
  \/ \E r \in Requests : to[r] = s /\ request[r] \in {"calling", "failing"}

DropClientQuietly(s) ==
  /\ worker[s] = "dropped" /\ client[s] /\ \A r \in Requests : ~Keeps(r, s)
  /\ client' = [client EXCEPT ![s] = FALSE] /\ alive' = [alive EXCEPT ![s] = FALSE]
  /\ UNCHANGED <<supervisor, worker, generation, process, shutdown, requests>>

\* The client goes first when nobody else keeps it, then the process.
DropWorker(s) ==
  /\ Held(s) /\ ~Borrowed(s)
  /\ IF \E r \in Requests : Keeps(r, s)
       THEN /\ worker' = [worker EXCEPT ![s] = "dropped"]
            /\ process' = [process EXCEPT ![s] = "gone"] /\ UNCHANGED <<alive, client, storing>>
       ELSE /\ worker' = [worker EXCEPT ![s] = "dropping"]
            /\ client' = [client EXCEPT ![s] = FALSE] /\ alive' = [alive EXCEPT ![s] = FALSE]
            /\ Storing(s, s, "dropped") /\ UNCHANGED process
  /\ UNCHANGED <<state, current, overtaken, generation, shutdown, requests>>
DropProcess(s) ==
  /\ worker[s] = "dropping" /\ ~Busy(s) /\ worker' = [worker EXCEPT ![s] = "dropped"]
  /\ process' = [process EXCEPT ![s] = "gone"]
  /\ UNCHANGED <<supervisor, generation, alive, client, shutdown, requests>>
\* By the last request that kept it.
DropClient(s) ==
  /\ worker[s] = "dropped" /\ client[s] /\ \A r \in Requests : ~Keeps(r, s)
  /\ client' = [client EXCEPT ![s] = FALSE] /\ alive' = [alive EXCEPT ![s] = FALSE]
  /\ Storing(s, s, "dropped")
  /\ UNCHANGED <<state, current, overtaken, worker, generation, process, shutdown, requests>>

-----------------------------------------------------------------------------
(* begin_request *)

CallRequest(r, s) ==
  /\ request[r] = "new" /\ Held(s) /\ alive[s]
  /\ request' = [request EXCEPT ![r] = "calling"] /\ to' = [to EXCEPT ![r] = s]
  /\ UNCHANGED <<supervisor, workers, driver, event, cancelled, aborted>>

StreamOpens(r) ==
  /\ request[r] = "calling" /\ process[to[r]] = "up"
  /\ request' = [request EXCEPT ![r] = "open"] /\ driver' = [driver EXCEPT ![r] = "reading"]
  /\ UNCHANGED <<supervisor, workers, to, event, cancelled, aborted>>

\* fail_client: the call got no stream.
CallFails(r) ==
  /\ request[r] = "calling" /\ request' = [request EXCEPT ![r] = "failing"]
  /\ alive' = [alive EXCEPT ![to[r]] = FALSE] /\ Storing(r, to[r], "Failed")
  /\ UNCHANGED <<state, current, overtaken, worker, generation, process, client, shutdown,
                 to, driver, event, cancelled, aborted>>
CallDropped(r) ==
  /\ request[r] = "calling" /\ request' = [request EXCEPT ![r] = "dropped"]
  /\ UNCHANGED <<supervisor, workers, to, driver, event, cancelled, aborted>>
CallReturns(r) ==
  /\ request[r] = "failing" /\ ~Busy(r) /\ request' = [request EXCEPT ![r] = "lost"]
  /\ UNCHANGED <<supervisor, workers, to, driver, event, cancelled, aborted>>

-----------------------------------------------------------------------------
(* drive_execute *)

DriverEnds(r, label, what) ==
  /\ driver[r] = "reading"
  /\ driver' = [driver EXCEPT ![r] = label] /\ event' = [event EXCEPT ![r] = what]
  /\ UNCHANGED <<supervisor, workers, request, to, cancelled, aborted>>

\* What the worker sent before it died may still be read.
Terminal(r) == DriverEnds(r, "ended", "terminal")
\* The stream fails or ends without a result: the handle hears of it first.
StreamLost(r) == DriverEnds(r, "failing", "lost")
FailReader(r) ==
  /\ driver[r] = "failing" /\ driver' = [driver EXCEPT ![r] = "ended"]
  /\ alive' = [alive EXCEPT ![to[r]] = FALSE] /\ Storing(r, to[r], "Failed")
  /\ UNCHANGED <<state, current, overtaken, worker, generation, process, client, shutdown,
                 request, to, event, cancelled, aborted>>
\* An abort ends it at its await; its sender is dropped.
Abort(r) == r \in aborted /\ DriverEnds(r, "ended", "none")

-----------------------------------------------------------------------------
(* finish, cancel, and the drop of a handle *)

Tell(r, what) ==
  /\ request[r] = "open" /\ request' = [request EXCEPT ![r] = what]
  /\ UNCHANGED <<supervisor, workers, to, driver, event, cancelled>>

FinishTerminal(r) == event[r] = "terminal" /\ Tell(r, "terminal") /\ UNCHANGED aborted

LossSent(r) == event[r] = "lost"
Loss(r) == event[r] = "lost" \/ (event[r] = "none" /\ driver[r] = "ended")
\* transport_lost_or_cancelled, also of a closed channel.
FinishLost(r) ==
  /\ Loss(r) /\ Tell(r, IF r \in cancelled THEN "cancelled" ELSE "lost")
  /\ UNCHANGED aborted
RequestTimeout(r) == Tell(r, "timeout") /\ aborted' = aborted \cup {r}
DropHandle(r) == Tell(r, "dropped") /\ aborted' = aborted \cup {r}

\* cancel_request: the flag, then the abort.
Cancel(r) ==
  /\ request[r] = "open" /\ alive[to[r]] /\ r \notin cancelled
  /\ cancelled' = cancelled \cup {r}
  /\ UNCHANGED <<supervisor, workers, request, to, driver, event, aborted>>
CancelAborts(r) ==
  /\ r \in cancelled /\ request[r] = "open" /\ aborted' = aborted \cup {r}
  /\ UNCHANGED <<supervisor, workers, request, to, driver, event, cancelled>>

-----------------------------------------------------------------------------
StartStep(s) ==
  \/ Acquire(s) \/ Draw(s) \/ Connect(s) \/ StartFails(s) \/ Commit(s) \/ ProcessDies(s)
  \/ CallShutdown(s) \/ ShutdownRefused(s) \/ KillProcess(s) \/ ShutdownStops(s)
  \/ ShutdownReturns(s) \/ DropWorker(s) \/ DropProcess(s) \/ DropClient(s)
RequestStep(r) ==
  \/ \E s \in Starts : CallRequest(r, s)
  \/ StreamOpens(r) \/ CallFails(r) \/ CallDropped(r) \/ CallReturns(r)
  \/ Terminal(r) \/ StreamLost(r) \/ FailReader(r) \/ Abort(r)
  \/ FinishTerminal(r) \/ FinishLost(r) \/ RequestTimeout(r) \/ DropHandle(r)
  \/ Cancel(r) \/ CancelAborts(r)
Next ==
  \/ \E call \in storing : Look(call) \/ Store(call)
  \/ \E s \in Starts : StartStep(s)
  \/ \E r \in Requests : RequestStep(r)

\* Tasks are polled; the stream to a process that is gone fails.  No timeout
\* is counted on.
Fairness ==
  /\ WF_vars(\E call \in storing : Look(call) \/ Store(call))
  /\ \A r \in Requests :
       /\ WF_vars(request[r] = "calling" /\ process[to[r]] = "gone" /\ CallFails(r))
       /\ WF_vars(CallReturns(r)) /\ WF_vars(FailReader(r)) /\ WF_vars(Abort(r))
       /\ WF_vars(request[r] = "open" /\ process[to[r]] = "gone" /\ StreamLost(r))
       /\ WF_vars(FinishTerminal(r)) /\ WF_vars(FinishLost(r)) /\ WF_vars(CancelAborts(r))

Spec == Init /\ [][Next]_vars /\ Fairness

-----------------------------------------------------------------------------
(* Properties *)

\* A worker somebody holds and can call.
Serving(s) == worker[s] = "held" /\ alive[s]

\* The supervisor never serves through two workers at a time, unless a store
\* landed on the state of a start that came after its look.
OneServing == \A s, t \in Starts : Serving(s) /\ Serving(t) => s = t \/ overtaken

\* The state is true of the current generation: the worker that serves is
\* reported Ready, whatever becomes of older ones; Ready means that its client
\* is there, or that somebody is about to store that it is not; Starting that
\* somebody starts, so that starts are not refused for ever.
StateHonest ==
  /\ \A s \in Starts :
       Serving(s) /\ Held(s) /\ generation[s] = current => state = "Ready" \/ overtaken
  /\ state = "Ready" =>
       \/ overtaken
       \/ \E s \in Starts : generation[s] = current /\ (alive[s] \/ \E call \in storing : call.of = current)
  /\ state = "Starting" =>
       \E s \in Starts : worker[s] \in Starting \/ (worker[s] \in {"held", "failed"} /\ Busy(s))

\* A crash ends every pending request, the cancelled and the half-begun ones
\* too, without any timeout.
CrashEnds ==
  \A r \in Requests :
    (request[r] \in {"calling", "open"} /\ process[to[r]] = "gone") ~> request[r] \in Told
=============================================================================
