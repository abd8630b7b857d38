----------------------------- MODULE ModProcess ------------------------------
(***************************************************************************)
(* A mod in a child process (mod-sdk/src/process.rs) and the registry that *)
(* starts, calls and stops it (registry.rs).                               *)
(*                                                                         *)
(* Requests go through a bounded queue to the writer task, which writes    *)
(* them to the child's input; the reader task takes the child's answers    *)
(* and hands each to the request waiting under its id.  The child is       *)
(* anything: it reads or not, answers in any order or never, closes its    *)
(* output, exits.  Calls are cancelled by their tokens, and a stop may be  *)
(* dropped at each of its awaits.                                          *)
(***************************************************************************)
EXTENDS Naturals, Sequences, FiniteSets

CONSTANTS Calls, Stops, Nobody, QueueSize, PipeSize

ASSUME ActorsAssumption ==
  /\ Nobody \notin Stops \cup {"mod"} /\ "mod" \notin Stops
  /\ Calls \cap {"initialize", "start", "stop", "cancel", "close"} = {}
ASSUME SizesAssumption == QueueSize \in Nat \ {0} /\ PipeSize \in Nat \ {0}

VARIABLES
  child,    \* "alive", "killed" (signalled) or "exited"
  output,   \* its standard output: "open" or "closed"
  inbox,    \* lines in the pipe the child has not read
  working,  \* requests it has read and not answered
  answers,  \* lines it has written and the reader has not read
  queue,    \* commands for the writer
  writer, reader,
  exited,   \* the flag the reader sets at the end of the output
  pending,  \* requests waiting for an answer
  result,   \* what each request was told
  boot,     \* the start of the mod, then whether it is available
  pc,       \* where each call is
  stop,     \* where each ModRegistry::stop is
  stopLock, stopped,
  handle    \* who owns the child: "mod", a stop that took it, or Nobody

process == <<child, output, inbox, working, answers>>
tasks == <<queue, writer, reader, exited>>
requests == <<pending, result>>
stopping == <<stop, stopLock, stopped, handle>>
vars == <<process, tasks, requests, boot, pc, stopping>>

Requests == {"initialize", "start", "stop"} \cup Calls
Commands == Requests \cup {"cancel", "close"}
Results == {"none", "ok", "error", "exited"}

Init ==
  /\ child = "alive" /\ output = "open" /\ inbox = <<>> /\ working = {} /\ answers = <<>>
  /\ queue = <<"initialize">> /\ writer = "running" /\ reader = "reading" /\ exited = FALSE
  /\ pending = {"initialize"} /\ result = [r \in Requests |-> "none"]
  /\ boot = "initialize"
  /\ pc = [c \in Calls |-> "idle"]
  /\ stop = [s \in Stops |-> "idle"] /\ stopLock = Nobody /\ stopped = FALSE
  /\ handle = "mod"

-----------------------------------------------------------------------------
(* The child process *)

Read ==
  /\ child = "alive" /\ inbox # <<>>
  /\ inbox' = Tail(inbox) /\ working' = working \cup ({Head(inbox)} \cap Requests)
  /\ UNCHANGED <<child, output, answers, tasks, requests, boot, pc, stopping>>

Answer ==
  /\ child = "alive" /\ output = "open"
  /\ \E r \in working : working' = working \ {r} /\ answers' = Append(answers, r)
  /\ UNCHANGED <<child, output, inbox, tasks, requests, boot, pc, stopping>>

CloseOutput ==
  /\ child = "alive" /\ output = "open" /\ output' = "closed"
  /\ UNCHANGED <<child, inbox, working, answers, tasks, requests, boot, pc, stopping>>

\* By itself, or because it was killed; what it wrote can still be read.
Exit ==
  /\ child # "exited" /\ child' = "exited" /\ output' = "closed"
  /\ inbox' = <<>> /\ working' = {}
  /\ UNCHANGED <<answers, tasks, requests, boot, pc, stopping>>

\* start_kill, or kill_on_drop.
Kill == child' = IF child = "alive" THEN "killed" ELSE child

-----------------------------------------------------------------------------
(* The writer and the reader task *)

Queued(command) ==
  writer = "running" /\ Len(queue) < QueueSize /\ queue' = Append(queue, command)

\* A line for a child that is there.
Write ==
  /\ writer = "running" /\ queue # <<>> /\ Head(queue) # "close"
  /\ child # "exited" /\ Len(inbox) < PipeSize
  /\ inbox' = Append(inbox, Head(queue)) /\ queue' = Tail(queue)
  /\ UNCHANGED <<child, output, working, answers, writer, reader, exited, requests, boot, pc, stopping>>

\* Close, or a broken pipe: what is still queued goes with the receiver.
WriterEnds ==
  /\ writer = "running" /\ queue # <<>>
  /\ Head(queue) = "close" \/ child = "exited"
  /\ writer' = "ended" /\ queue' = <<>>
  /\ UNCHANGED <<process, reader, exited, requests, boot, pc, stopping>>

\* What an answer says makes a difference to a start only.
Said(r) == IF r \in {"initialize", "start"} THEN {"ok", "error"} ELSE {"ok"}

\* An answer goes to the request under its id, if it is still there.
Deliver ==
  /\ reader = "reading" /\ answers # <<>>
  /\ answers' = Tail(answers) /\ pending' = pending \ {Head(answers)}
  /\ IF Head(answers) \in pending
       THEN \E said \in Said(Head(answers)) : result' = [result EXCEPT ![Head(answers)] = said]
       ELSE UNCHANGED result
  /\ UNCHANGED <<child, output, inbox, working, tasks, boot, pc, stopping>>

EndOfOutput ==
  /\ reader = "reading" /\ answers = <<>> /\ output = "closed"
  /\ exited' = TRUE /\ reader' = "draining"
  /\ UNCHANGED <<process, queue, writer, requests, boot, pc, stopping>>

DrainNobody ==
  /\ reader = "draining" /\ reader' = "ended"
  /\ UNCHANGED <<process, queue, writer, exited, requests, boot, pc, stopping>>

\* 50 ms later everybody who waits is told.
Drain ==
  /\ reader = "draining" /\ reader' = "ended"
  /\ result' = [r \in Requests |-> IF r \in pending THEN "exited" ELSE result[r]]
  /\ pending' = {}
  /\ UNCHANGED <<process, queue, writer, exited, boot, pc, stopping>>

-----------------------------------------------------------------------------
(* ProcessMod::spawn, ProcessMod::start and ModRegistry::start *)

\* The mod is given up: its instance is dropped, the child with it.
GiveUp == boot' = "unavailable" /\ handle' = Nobody /\ Kill

Initialized ==
  /\ boot = "initialize" /\ result["initialize"] = "ok" /\ boot' = "started"
  /\ UNCHANGED <<process, tasks, requests, pc, stopping>>

\* An error, another protocol, an exit, or the startup timeout.
InitializeFails ==
  /\ boot = "initialize" /\ GiveUp
  /\ UNCHANGED <<output, inbox, working, answers, tasks, requests, pc, stop, stopLock, stopped>>

\* The exit flag is looked at before the request is registered.
StartChecked ==
  /\ boot = "started" /\ ~exited /\ boot' = "start"
  /\ UNCHANGED <<process, tasks, requests, pc, stopping>>

StartRequested ==
  /\ boot = "start" /\ Queued("start")
  /\ pending' = pending \cup {"start"} /\ boot' = "starting"
  /\ UNCHANGED <<process, writer, reader, exited, result, pc, stopping>>

Started ==
  /\ boot = "starting" /\ result["start"] = "ok" /\ boot' = "available"
  /\ UNCHANGED <<process, tasks, requests, pc, stopping>>

\* The child had exited, the pipe was closed, the mod failed or did not
\* answer in time; terminate, or the drop, kills it.
StartFails ==
  /\ \/ boot = "started" /\ exited
     \/ boot = "start" /\ writer = "ended"
     \/ boot = "starting" /\ result["start"] # "ok"
  /\ GiveUp /\ pending' = pending \ {"start"}
  /\ UNCHANGED <<output, inbox, working, answers, tasks, result, pc, stop, stopLock, stopped>>

-----------------------------------------------------------------------------
(* ModRegistry::invoke and ProcessMod::invoke *)

Goto(c, label) == pc' = [pc EXCEPT ![c] = label]

Invoke(c) ==
  /\ pc[c] = "idle" /\ boot = "available"
  /\ Goto(c, IF exited THEN "done" ELSE "insert")
  /\ UNCHANGED <<process, tasks, requests, boot, stopping>>

Insert(c) ==
  /\ pc[c] = "insert" /\ pending' = pending \cup {c} /\ Goto(c, "send")
  /\ UNCHANGED <<process, tasks, result, boot, stopping>>

Send(c) ==
  /\ pc[c] = "send" /\ Queued(c) /\ Goto(c, "wait")
  /\ UNCHANGED <<process, writer, reader, exited, requests, boot, stopping>>
SendFails(c) ==
  /\ pc[c] = "send" /\ writer = "ended"
  /\ pending' = pending \ {c} /\ Goto(c, "done")
  /\ UNCHANGED <<process, tasks, result, boot, stopping>>

Return(c) ==
  /\ pc[c] \in {"wait", "settle"} /\ result[c] # "none" /\ Goto(c, "done")
  /\ UNCHANGED <<process, tasks, requests, boot, stopping>>

\* The token fires while the call waits.
Cancel(c) ==
  /\ pc[c] = "wait" /\ Goto(c, "cancel")
  /\ UNCHANGED <<process, tasks, requests, boot, stopping>>

SendCancelForgetting(c) ==
  /\ pc[c] = "cancel" /\ Goto(c, "settle") /\ pending' = pending \ {c}
  /\ Queued("cancel") \/ (writer = "ended" /\ UNCHANGED queue)
  /\ UNCHANGED <<process, writer, reader, exited, result, boot, stopping>>

\* The mod is told, and its answer awaited without a timeout.
SendCancel(c) ==
  /\ pc[c] = "cancel" /\ Goto(c, "settle")
  /\ Queued("cancel") \/ (writer = "ended" /\ UNCHANGED queue)
  /\ UNCHANGED <<process, writer, reader, exited, requests, boot, stopping>>

-----------------------------------------------------------------------------
(* ModRegistry::stop and ProcessMod::stop *)

StopGoto(s, label) == stop' = [stop EXCEPT ![s] = label]

CallStop(s) ==
  /\ stop[s] = "idle" /\ boot = "available" /\ StopGoto(s, "lock")
  /\ UNCHANGED <<process, tasks, requests, boot, pc, stopLock, stopped, handle>>

LockFlagging(s) ==
  /\ stop[s] = "lock" /\ stopLock = Nobody
  /\ IF stopped THEN StopGoto(s, "done") /\ UNCHANGED stopLock
     ELSE StopGoto(s, "take") /\ stopLock' = s
  /\ stopped' = TRUE
  /\ UNCHANGED <<process, tasks, requests, boot, pc, handle>>

\* A stop that was completed leaves nothing to do.
Lock(s) ==
  /\ stop[s] = "lock" /\ stopLock = Nobody
  /\ IF stopped THEN StopGoto(s, "done") /\ UNCHANGED stopLock
     ELSE StopGoto(s, "take") /\ stopLock' = s
  /\ UNCHANGED <<process, tasks, requests, boot, pc, stopped, handle>>

\* The child is taken first: nobody asks it to stop twice.
Take(s) ==
  /\ stop[s] = "take" /\ handle = "mod"
  /\ handle' = s /\ pending' = pending \cup {"stop"} /\ StopGoto(s, "send")
  /\ UNCHANGED <<process, tasks, result, boot, pc, stopLock, stopped>>
TakenBefore(s) ==
  /\ stop[s] = "take" /\ handle # "mod" /\ StopGoto(s, "finish")
  /\ UNCHANGED <<process, tasks, requests, boot, pc, stopLock, stopped, handle>>

SendStop(s) ==
  /\ stop[s] = "send" /\ Queued("stop") /\ StopGoto(s, "reply")
  /\ UNCHANGED <<process, writer, reader, exited, requests, boot, pc, stopLock, stopped, handle>>
SendStopFails(s) ==
  /\ stop[s] = "send" /\ writer = "ended"
  /\ pending' = pending \ {"stop"} /\ StopGoto(s, "close")
  /\ UNCHANGED <<process, tasks, result, boot, pc, stopLock, stopped, handle>>

\* Whatever the mod said, or the shutdown timeout.
StopAnswered(s) ==
  /\ stop[s] = "reply" /\ StopGoto(s, "close")
  /\ UNCHANGED <<process, tasks, requests, boot, pc, stopLock, stopped, handle>>

CloseInput(s) ==
  /\ stop[s] = "close" /\ StopGoto(s, "reap")
  /\ Queued("close") \/ (writer = "ended" /\ UNCHANGED queue)
  /\ UNCHANGED <<process, writer, reader, exited, requests, boot, pc, stopLock, stopped, handle>>

Reap(s) ==
  /\ stop[s] \in {"reap", "killed"} /\ child = "exited"
  /\ handle' = Nobody /\ StopGoto(s, "finish")
  /\ UNCHANGED <<process, tasks, requests, boot, pc, stopLock, stopped>>

ReapPatiently(s) ==
  /\ stop[s] = "reap" /\ child = "exited" /\ Kill /\ StopGoto(s, "killed")
  /\ UNCHANGED <<output, inbox, working, answers, tasks, requests, boot, pc, stopLock, stopped, handle>>
ReapTimeout(s) ==
  /\ stop[s] = "reap" /\ Kill /\ StopGoto(s, "killed")
  /\ UNCHANGED <<output, inbox, working, answers, tasks, requests, boot, pc, stopLock, stopped, handle>>

Finish(s) ==
  /\ stop[s] = "finish" /\ stopped' = TRUE /\ stopLock' = Nobody /\ StopGoto(s, "done")
  /\ UNCHANGED <<process, tasks, requests, boot, pc, handle>>

\* The future is dropped at an await: the lock is released, and a child that
\* was taken dies with it.
DropStop(s) ==
  /\ stop[s] \in {"lock", "send", "reply", "close", "reap", "killed"} /\ StopGoto(s, "done")
  /\ stopLock' = IF stopLock = s THEN Nobody ELSE stopLock
  /\ IF handle = s THEN handle' = Nobody /\ Kill ELSE UNCHANGED <<handle, child>>
  /\ UNCHANGED <<output, inbox, working, answers, tasks, requests, boot, pc, stopped>>

-----------------------------------------------------------------------------
BootNext ==
  \/ Initialized \/ InitializeFails
  \/ StartChecked \/ StartRequested \/ Started \/ StartFails
CallNext(c) ==
  \/ Invoke(c) \/ Insert(c) \/ Send(c) \/ SendFails(c) \/ Return(c) \/ SendCancel(c)
StopNext(s) ==
  \/ Lock(s) \/ Take(s) \/ TakenBefore(s) \/ SendStop(s) \/ SendStopFails(s)
  \/ StopAnswered(s) \/ CloseInput(s) \/ Reap(s) \/ ReapTimeout(s) \/ Finish(s)

Next ==
  \/ Read \/ Answer \/ CloseOutput \/ Exit
  \/ Write \/ WriterEnds \/ Deliver \/ EndOfOutput \/ Drain
  \/ BootNext
  \/ \E c \in Calls : CallNext(c) \/ Cancel(c)
  \/ \E s \in Stops : StopNext(s) \/ CallStop(s) \/ DropStop(s)

\* The tasks and the callers are polled and timers run out.  Nothing is asked
\* of the child but that a killed process ends, and nobody must start, cancel
\* or drop a call.
Fairness ==
  /\ WF_vars(Write) /\ WF_vars(WriterEnds)
  /\ WF_vars(Deliver) /\ WF_vars(EndOfOutput) /\ WF_vars(Drain)
  /\ WF_vars(child = "killed" /\ Exit)
  /\ WF_vars(BootNext)
  /\ \A c \in Calls : WF_vars(pc[c] # "idle" /\ CallNext(c))
  /\ \A s \in Stops : WF_vars(StopNext(s))

Spec == Init /\ [][Next]_vars /\ Fairness

-----------------------------------------------------------------------------
(* Properties *)

TypeOK ==
  /\ child \in {"alive", "killed", "exited"} /\ output \in {"open", "closed"}
  /\ inbox \in Seq(Commands \ {"close"}) /\ Len(inbox) <= PipeSize
  /\ working \subseteq Requests /\ answers \in Seq(Requests)
  /\ queue \in Seq(Commands) /\ Len(queue) <= QueueSize
  /\ writer \in {"running", "ended"} /\ reader \in {"reading", "draining", "ended"}
  /\ exited = (reader # "reading")
  /\ pending \subseteq Requests /\ result \in [Requests -> Results]
  /\ boot \in {"initialize", "started", "start", "starting", "available", "unavailable"}
  /\ pc \in [Calls -> {"idle", "insert", "send", "wait", "cancel", "settle", "done"}]
  /\ stop \in [Stops -> {"idle", "lock", "take", "send", "reply", "close", "reap", "killed",
                         "finish", "done"}]
  /\ stopLock \in Stops \cup {Nobody} /\ stopped \in BOOLEAN
  /\ handle \in {"mod", Nobody} \cup Stops

\* A mod that could not be started, and one whose stop was completed, have no
\* running process, whichever stops were dropped half-way before.
NoOrphan == stopped \/ boot = "unavailable" => child # "alive"

\* A call that waits is either still registered, so that an answer or the end
\* of the output reaches it, or has been told already: a cancelled one too.
Waiting(c) == pc[c] \in {"send", "wait", "cancel", "settle"}
StillListed == \A c \in Calls : Waiting(c) => c \in pending \/ result[c] # "none"

\* When the child is gone every call registered before the reader tells the
\* waiting ones returns.  A call that looked at the flag before and registers
\* after is not among them: it waits for ever.
GoneReturns ==
  \A c \in Calls :
    (child = "exited" /\ reader # "ended" /\ c \in pending) ~> pc[c] = "done"

\* A stop ends although the child neither answers nor exits; only a queue full
\* of lines nobody reads can hold it, the timeouts do not cover that wait.
QueueFull == Len(queue) = QueueSize
StopEnds == \A s \in Stops : []<>(stop[s] \in {"idle", "done"} \/ QueueFull)
=============================================================================
