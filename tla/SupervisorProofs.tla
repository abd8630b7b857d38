-------------------------- MODULE SupervisorProofs --------------------------
(***************************************************************************)
(* For any number of starts and requests: two workers never serve at a     *)
(* time, and the reported state is true of the current generation, but for *)
(* the store that lands on a start that came after its look.               *)
(*                                                                         *)
(* The argument follows the current generation.  A start that is under way *)
(* keeps the state at Starting until its own store, so no other start gets *)
(* in; the worker it leaves keeps it at Ready until its client is marked   *)
(* dead, which comes before anybody begins to store so.  A store that      *)
(* hits, and is not overtaken, is of the current generation and so of that *)
(* very start.                                                             *)
(***************************************************************************)
EXTENDS Supervisor, TLAPS

Gone == {"dropping", "dropped"}
Storers == Starts \cup Requests
Calls == [by : Storers, of : Nat, next : {"Ready", "Stopped", "Failed", "dropped"}, seen : Nat]

TypeOK ==
  /\ state \in {"Stopped", "Starting", "Ready", "Failed"}
  /\ current \in Nat /\ overtaken \in BOOLEAN /\ storing \subseteq Calls
  /\ worker \in [Starts -> Starting \cup Gone \cup {"new", "failed", "held"}]
  /\ generation \in [Starts -> Nat] /\ process \in [Starts -> {"none", "up", "gone"}]
  /\ alive \in [Starts -> BOOLEAN] /\ client \in [Starts -> BOOLEAN]
  /\ shutdown \in [Starts -> {"none", "asked", "killed", "storing"}]
  /\ request \in [Requests -> {"new", "calling", "failing", "open"} \cup Told]
  /\ to \in [Requests -> Starts \cup {Nobody}]
  /\ driver \in [Requests -> {"none", "reading", "failing", "ended"}]
  /\ event \in [Requests -> {"none", "terminal", "lost"}]
  /\ cancelled \subseteq Requests /\ aborted \subseteq Requests

\* A start that has drawn has a generation of its own.
Generations ==
  /\ \A s \in Starts :
       /\ generation[s] <= current
       /\ generation[s] = 0 <=> worker[s] \in {"new", "acquired"}
  /\ \A s, t \in Starts : generation[s] = generation[t] /\ generation[s] # 0 => s = t

\* A request that was made went to a worker somebody held.
Addressed ==
  \A r \in Requests :
    /\ request[r] # "new" \/ driver[r] # "none" => to[r] # Nobody
    /\ to[r] # Nobody => worker[to[r]] \in Gone \cup {"held"}
\* So did a shutdown, and only such a worker has a live client.
Shut ==
  \A s \in Starts :
    /\ shutdown[s] # "none" => worker[s] = "held"
    /\ alive[s] => worker[s] \in Gone \cup {"held"}

\* Nobody has called the worker.
Untouched(s) == shutdown[s] = "none" /\ \A r \in Requests : to[r] # s

\* Whose end or success a store reports: nobody has called a worker before it
\* is stored as Ready, and a client is dead before its end is.
About(call, s) ==
  /\ call.of = generation[s] /\ worker[s] \in Gone \cup {"held", "failed"}
  /\ call.by \in Starts => call.by = s
  /\ call.seen \in {0, call.of}
  /\ call.next = "dropped" /\ call.by = s => worker[s] \in Gone
  /\ call.next = "Ready" =>
       call.by = s /\ worker[s] = "held" /\ alive[s] /\ Untouched(s)
  /\ call.next # "Ready" => ~alive[s]
StoresHonest == \A call \in storing : \E s \in Starts : About(call, s)

\* A start under way is alone, current once it has drawn, and reported.
StartAlone ==
  overtaken \/
    \A s \in Starts :
      worker[s] \in Starting =>
        /\ state = "Starting"
        /\ worker[s] # "acquired" => generation[s] = current
        /\ \A t \in Starts : worker[t] \in Starting => t = s
\* A worker that serves is current, and keeps any start away.
ServesAlone ==
  overtaken \/
    \A s \in Starts :
      Serving(s) =>
        /\ generation[s] = current
        /\ \A t \in Starts : worker[t] \notin Starting
        /\ \/ state = "Ready"
           \/ state = "Starting" /\ \E call \in storing : call.by = s /\ call.next = "Ready"
\* Ready is true of the current generation, or about to be corrected.
ReadyTrue ==
  state = "Ready" =>
    \/ overtaken
    \/ \E s \in Starts : generation[s] = current /\ (alive[s] \/ \E call \in storing : call.of = current)
\* Starting is the word of a start that has yet to draw, or of the current one.
StartingTrue ==
  state = "Starting" =>
    \E s \in Starts :
      \/ worker[s] = "acquired"
      \/ /\ generation[s] = current
         /\ worker[s] \in {"drawn", "connected"} \/ (worker[s] \in {"held", "failed"} /\ Busy(s))

IInv ==
  /\ TypeOK /\ Generations /\ Addressed /\ Shut /\ StoresHonest
  /\ StartAlone /\ ServesAlone /\ ReadyTrue /\ StartingTrue

-----------------------------------------------------------------------------
(* What a step does to starts, calls and state *)

Known == TypeOK /\ Addressed /\ Shut

\* A call to store is a record of its own kind.
LEMMA StoringType ==
  ASSUME TypeOK, NEW by \in Storers, NEW s \in Starts,
         NEW next \in {"Ready", "Stopped", "Failed", "dropped"}, Storing(by, s, next)
  PROVE  storing' \subseteq Calls
<1>1. generation[s] \in Nat
  BY DEF TypeOK
<1> QED
  BY <1>1 DEF TypeOK, Storing, Calls

\* Types, and who was called, are kept from themselves alone.
LEMMA KnownStep ==
  ASSUME Known, [Next]_vars
  PROVE  Known'
<1> USE ActorsAssumption DEF Known, TypeOK, Addressed, Shut, Starts, Nobody, Starting, Gone, Told
<1>1. ASSUME NEW call \in storing, Look(call) PROVE Known'
  <2>1. [call EXCEPT !.seen = current] \in Calls
    <3>1. call \in Calls /\ current \in Nat
      OBVIOUS
    <3> QED
      BY <3>1 DEF Calls
  <2> QED
    BY <1>1, <2>1 DEF Look, workers, requests
<1>2. ASSUME NEW call \in storing, Store(call) PROVE Known'
  <2>1. call.next \in {"Ready", "Stopped", "Failed", "dropped"}
    BY DEF Calls
  <2> QED
    BY <1>2, <2>1 DEF Store, Overtakes, workers, requests
<1>3. ASSUME NEW s \in Starts, Acquire(s) PROVE Known'
  <2>1. worker[s] = "new"
    BY <1>3 DEF Acquire, FirstNew
  <2> QED
    BY <1>3, <2>1 DEF Acquire, supervisor, workers, requests
<1>4. ASSUME NEW s \in Starts, Draw(s) PROVE Known'
  BY <1>4 DEF Draw, supervisor, workers, requests
<1>5. ASSUME NEW s \in Starts, Connect(s) PROVE Known'
  BY <1>5 DEF Connect, supervisor, workers, requests
<1>6. ASSUME NEW s \in Starts, StartFails(s) PROVE Known'
  <2>1. storing' \subseteq Calls
    BY <1>6, StoringType DEF StartFails, Storers
  <2> QED
    BY <1>6, <2>1 DEF StartFails, supervisor, workers, requests
<1>7. ASSUME NEW s \in Starts, Commit(s) PROVE Known'
  <2>1. storing' \subseteq Calls
    BY <1>7, StoringType DEF Commit, Storers
  <2> QED
    BY <1>7, <2>1 DEF Commit, supervisor, workers, requests
<1>8. ASSUME NEW s \in Starts, ProcessDies(s) PROVE Known'
  BY <1>8 DEF ProcessDies, supervisor, workers, requests
<1>9. ASSUME NEW s \in Starts, CallShutdown(s) PROVE Known'
  BY <1>9 DEF CallShutdown, Held, supervisor, workers, requests
<1>10. ASSUME NEW s \in Starts, ShutdownRefused(s) PROVE Known'
  BY <1>10 DEF ShutdownRefused, supervisor, workers, requests
<1>11. ASSUME NEW s \in Starts, KillProcess(s) PROVE Known'
  BY <1>11 DEF KillProcess, supervisor, workers, requests
<1>12. ASSUME NEW s \in Starts, ShutdownStops(s) PROVE Known'
  <2>1. storing' \subseteq Calls
    BY <1>12, StoringType DEF ShutdownStops, Storers
  <2> QED
    BY <1>12, <2>1 DEF ShutdownStops, supervisor, workers, requests
<1>13. ASSUME NEW s \in Starts, ShutdownReturns(s) PROVE Known'
  BY <1>13 DEF ShutdownReturns, Busy, supervisor, workers, requests
<1>14. ASSUME NEW s \in Starts, DropWorker(s) PROVE Known'
  <2>1. storing' \subseteq Calls
    BY <1>14, StoringType DEF DropWorker, Storers
  <2>2. worker[s] = "held" /\ \E label \in Gone : worker' = [worker EXCEPT ![s] = label]
    BY <1>14 DEF DropWorker, Held
  <2>3. process' \in [Starts -> {"none", "up", "gone"}] /\ alive' \in [Starts -> BOOLEAN]
        /\ client' \in [Starts -> BOOLEAN] /\ shutdown[s] = "none"
    <3>1. CASE \E r \in Requests : Keeps(r, s)
      BY <1>14, <3>1 DEF DropWorker, Borrowed
    <3>2. CASE ~\E r \in Requests : Keeps(r, s)
      BY <1>14, <3>2 DEF DropWorker, Borrowed
    <3> QED
      BY <3>1, <3>2
  <2> HIDE DEF Gone
  <2>4. worker' \in [Starts -> Starting \cup Gone \cup {"new", "failed", "held"}]
    BY <2>2
  <2>5. Addressed' /\ Shut'
    BY <1>14, <2>2, <2>3 DEF DropWorker, requests
  <2> QED
    BY <1>14, <2>1, <2>3, <2>4, <2>5 DEF DropWorker, requests
<1>15. ASSUME NEW s \in Starts, DropProcess(s) PROVE Known'
  BY <1>15 DEF DropProcess, Busy, supervisor, workers, requests
<1>16. ASSUME NEW s \in Starts, DropClient(s) PROVE Known'
  <2>1. storing' \subseteq Calls
    BY <1>16, StoringType DEF DropClient, Storers
  <2> QED
    BY <1>16, <2>1 DEF DropClient, Keeps, supervisor, workers, requests
<1>17. ASSUME NEW r \in Requests, NEW s \in Starts, CallRequest(r, s) PROVE Known'
  BY <1>17 DEF CallRequest, Held, supervisor, workers, requests
<1>18. ASSUME NEW r \in Requests, StreamOpens(r) PROVE Known'
  BY <1>18 DEF StreamOpens, supervisor, workers, requests
<1>19. ASSUME NEW r \in Requests, CallFails(r) PROVE Known'
  <2>1. to[r] \in Starts /\ worker[to[r]] \in Gone \cup {"held"}
    BY <1>19 DEF CallFails
  <2>2. storing' \subseteq Calls
    BY <1>19, <2>1, StoringType DEF CallFails, Storers
  <2> QED
    BY <1>19, <2>1, <2>2 DEF CallFails, supervisor, workers, requests
<1>20. ASSUME NEW r \in Requests, CallDropped(r) PROVE Known'
  BY <1>20 DEF CallDropped, supervisor, workers, requests
<1>21. ASSUME NEW r \in Requests, CallReturns(r) PROVE Known'
  BY <1>21 DEF CallReturns, Busy, supervisor, workers, requests
<1>22. ASSUME NEW r \in Requests, Terminal(r) PROVE Known'
  BY <1>22 DEF Terminal, DriverEnds, supervisor, workers, requests
<1>23. ASSUME NEW r \in Requests, StreamLost(r) PROVE Known'
  BY <1>23 DEF StreamLost, DriverEnds, supervisor, workers, requests
<1>24. ASSUME NEW r \in Requests, FailReader(r) PROVE Known'
  <2>1. to[r] \in Starts /\ worker[to[r]] \in Gone \cup {"held"}
    BY <1>24 DEF FailReader
  <2>2. storing' \subseteq Calls
    BY <1>24, <2>1, StoringType DEF FailReader, Storers
  <2> QED
    BY <1>24, <2>1, <2>2 DEF FailReader, supervisor, workers, requests
<1>25. ASSUME NEW r \in Requests, Abort(r) PROVE Known'
  BY <1>25 DEF Abort, DriverEnds, supervisor, workers, requests
<1>26. ASSUME NEW r \in Requests, FinishTerminal(r) PROVE Known'
  BY <1>26 DEF FinishTerminal, Tell, supervisor, workers, requests
<1>27. ASSUME NEW r \in Requests, FinishLost(r) PROVE Known'
  BY <1>27 DEF FinishLost, Tell, Loss, supervisor, workers, requests
<1>28. ASSUME NEW r \in Requests, RequestTimeout(r) PROVE Known'
  BY <1>28 DEF RequestTimeout, Tell, supervisor, workers, requests
<1>29. ASSUME NEW r \in Requests, DropHandle(r) PROVE Known'
  BY <1>29 DEF DropHandle, Tell, supervisor, workers, requests
<1>30. ASSUME NEW r \in Requests, Cancel(r) PROVE Known'
  BY <1>30 DEF Cancel, supervisor, workers, requests
<1>31. ASSUME NEW r \in Requests, CancelAborts(r) PROVE Known'
  BY <1>31 DEF CancelAborts, supervisor, workers, requests
<1>32. CASE UNCHANGED vars
  BY <1>32 DEF vars, supervisor, workers, requests
<1> QED
  BY <1>1, <1>2, <1>3, <1>4, <1>5, <1>6, <1>7, <1>8, <1>9, <1>10, <1>11, <1>12, <1>13, <1>14, <1>15, <1>16, <1>17, <1>18, <1>19, <1>20, <1>21, <1>22, <1>23, <1>24, <1>25, <1>26, <1>27, <1>28, <1>29, <1>30, <1>31, <1>32 DEF Next, StartStep, RequestStep
\* Somebody marks the client of s dead and begins to store it.
Ends(s, by) ==
  /\ worker[s] \in Gone \cup {"held"} /\ (Untouched(s) => worker[s] \in Gone \/ ~Busy(s))
  /\ by \in Starts => by = s
  /\ \/ worker' = worker
     \/ worker[s] = "held" /\ ~Busy(s) /\ worker' = [worker EXCEPT ![s] = "dropping"]
  /\ alive' = [alive EXCEPT ![s] = FALSE]
  /\ \E next \in {"Stopped", "Failed", "dropped"} :
       Storing(by, s, next) /\ (next = "dropped" => worker'[s] \in Gone)
  /\ to' = to /\ \A t \in Starts : shutdown[t] = "none" => shutdown'[t] = "none"
  /\ UNCHANGED <<state, current, overtaken, generation>>
\* A worker is called or let go of.
Elsewhere ==
  /\ UNCHANGED <<supervisor, generation, alive>>
  /\ \A s \in Starts :
       /\ \/ worker'[s] = worker[s]
          \/ worker[s] \in Gone \cup {"held"} /\ worker'[s] \in Gone /\ ~Busy(s)
       /\ Busy(s) /\ Untouched(s) => Untouched(s)'

LEMMA StepKinds ==
  ASSUME Known, Next
  PROVE  \/ \E call \in storing : Look(call) \/ Store(call)
         \/ \E s \in Starts : Acquire(s) \/ Draw(s) \/ Connect(s) \/ StartFails(s) \/ Commit(s)
         \/ \E s \in Starts : \E by \in Storers : Ends(s, by)
         \/ Elsewhere
<1> DEFINE Goal == \/ \E call \in storing : Look(call) \/ Store(call)
                   \/ \E s \in Starts : Acquire(s) \/ Draw(s) \/ Connect(s) \/ StartFails(s) \/ Commit(s)
                   \/ \E s \in Starts : \E by \in Storers : Ends(s, by)
                   \/ Elsewhere
<1> SUFFICES Goal
  OBVIOUS
<1>1. CASE \E call \in storing : Look(call) \/ Store(call)
  BY <1>1
<1>2. ASSUME NEW s \in Starts, StartStep(s) PROVE Goal
  <2> USE DEF Known, TypeOK, Shut
  <2>1. CASE Acquire(s) \/ Draw(s) \/ Connect(s) \/ StartFails(s) \/ Commit(s)
    BY <2>1
  <2>2. CASE ProcessDies(s) \/ ShutdownRefused(s) \/ KillProcess(s) \/ ShutdownReturns(s)
    <3>1. Elsewhere
      BY <2>2 DEF Elsewhere, ProcessDies, ShutdownRefused, KillProcess, ShutdownReturns, Untouched,
                  supervisor, requests, Busy
    <3> QED
      BY <3>1
  <2>3. CASE CallShutdown(s)
    <3>1. Elsewhere
      BY <2>3 DEF Elsewhere, CallShutdown, Held, Untouched, supervisor, requests, Busy
    <3> QED
      BY <3>1
  <2>4. CASE ShutdownStops(s)
    <3>1. Ends(s, s)
      BY <2>4 DEF Ends, ShutdownStops, Untouched, requests
    <3> QED
      BY <3>1 DEF Storers
  <2>5. CASE DropWorker(s)
    <3>1. CASE \E r \in Requests : Keeps(r, s)
      <4>1. Elsewhere
        BY <2>5, <3>1 DEF Elsewhere, DropWorker, Held, Untouched, supervisor, requests, Busy, Gone
      <4> QED
        BY <4>1
    <3>2. CASE ~\E r \in Requests : Keeps(r, s)
      <4>1. Ends(s, s)
        BY <2>5, <3>2 DEF Ends, DropWorker, Held, requests, Gone
      <4> QED
        BY <4>1 DEF Storers
    <3> QED
      BY <3>1, <3>2
  <2>6. CASE DropProcess(s)
    <3>1. Elsewhere
      BY <2>6 DEF Elsewhere, DropProcess, Untouched, supervisor, requests, Busy, Gone
    <3> QED
      BY <3>1
  <2>7. CASE DropClient(s)
    <3>1. Ends(s, s)
      BY <2>7 DEF Ends, DropClient, requests, Gone
    <3> QED
      BY <3>1 DEF Storers
  <2> QED
    BY <1>2, <2>1, <2>2, <2>3, <2>4, <2>5, <2>6, <2>7 DEF StartStep
<1>3. ASSUME NEW r \in Requests, RequestStep(r) PROVE Goal
  <2> USE DEF Known, TypeOK, Addressed
  <2>1. ASSUME NEW s \in Starts, CallRequest(r, s) PROVE Goal
    <3>1. Elsewhere
      BY <2>1 DEF Elsewhere, CallRequest, Held, Untouched, supervisor, workers, Busy
    <3> QED
      BY <3>1
  <2>2. CASE CallFails(r) \/ FailReader(r)
    <3>1. to[r] \in Starts /\ worker[to[r]] \in Gone \cup {"held"}
      BY <2>2 DEF CallFails, FailReader
    <3>2. Ends(to[r], r)
      BY <2>2, <3>1, ActorsAssumption DEF Ends, CallFails, FailReader, Untouched, Starts
    <3> QED
      BY <3>1, <3>2 DEF Storers
  <2>3. CASE UNCHANGED <<supervisor, workers, to>>
    <3>1. Elsewhere
      BY <2>3 DEF Elsewhere, Untouched, supervisor, workers, Busy
    <3> QED
      BY <3>1
  <2> QED
    BY <1>3, <2>1, <2>2, <2>3 DEF RequestStep, StreamOpens, CallDropped, CallReturns, Terminal, StreamLost,
       Abort, DriverEnds, FinishTerminal, FinishLost, RequestTimeout, DropHandle, Tell, Cancel, CancelAborts
<1> QED
  BY <1>1, <1>2, <1>3 DEF Next
LEMMA FirstIsNew ==
  ASSUME NEW s \in Starts, FirstNew(s)
  PROVE  worker[s] = "new"
  BY ActorsAssumption DEF FirstNew, Starts

\* What each kind of step does to the generations.
LEMMA GenerationsStep ==
  ASSUME Known, Generations, [Next]_vars
  PROVE  Generations'
<1> USE DEF Known, TypeOK, Generations, Starting, Gone
<1>1. ASSUME NEW call \in storing, Look(call) \/ Store(call) PROVE Generations'
  BY <1>1 DEF Look, Store, workers
<1>2. ASSUME NEW s \in Starts, Acquire(s) PROVE Generations'
  BY <1>2, FirstIsNew DEF Acquire
<1>3. ASSUME NEW s \in Starts, Draw(s) PROVE Generations'
  BY <1>3 DEF Draw
<1>4. ASSUME NEW s \in Starts, Connect(s) \/ StartFails(s) \/ Commit(s) PROVE Generations'
  BY <1>4 DEF Connect, StartFails, Commit, supervisor
<1>5. ASSUME NEW s \in Starts, NEW by \in Storers, Ends(s, by) PROVE Generations'
  BY <1>5 DEF Ends
<1>6. CASE Elsewhere
  BY <1>6 DEF Elsewhere, supervisor
<1>7. CASE UNCHANGED vars
  BY <1>7 DEF vars, supervisor, workers
<1> QED
  BY <1>1, <1>2, <1>3, <1>4, <1>5, <1>6, <1>7, StepKinds

\* A call that is stored keeps what it was begun with, and what it reports
\* stays so until it is stored.
LEMMA StoresHonestStep ==
  ASSUME Known, Generations, StoresHonest, [Next]_vars
  PROVE  StoresHonest'
<1> USE ActorsAssumption DEF Known, TypeOK, Starting, Gone
<1>0. \A call \in storing : call \in Calls /\ \E s \in Starts : About(call, s)
  BY DEF StoresHonest
<1>1. ASSUME NEW call \in storing, Look(call) PROVE StoresHonest'
  <2>1. PICK seen : seen = [call EXCEPT !.seen = current]
    OBVIOUS
  <2>2. storing' = (storing \ {call}) \cup (IF current = call.of THEN {seen} ELSE {})
    BY <1>1, <2>1 DEF Look
  <2>3. ASSUME NEW c \in storing, NEW s \in Starts, About(c, s) PROVE About(c, s)'
    BY <1>1, <2>3 DEF Look, workers, requests, About, Untouched
  <2>4. ASSUME current = call.of, NEW s \in Starts, About(call, s) PROVE About(seen, s)'
    <3>1. seen.by = call.by /\ seen.of = call.of /\ seen.next = call.next /\ seen.seen = call.of
      BY <1>0, <2>1, <2>4 DEF Calls
    <3> QED
      BY <1>1, <2>4, <3>1 DEF Look, workers, requests, About, Untouched
  <2> QED
    BY <1>0, <2>2, <2>3, <2>4 DEF StoresHonest
<1>2. ASSUME NEW call \in storing, Store(call) PROVE StoresHonest'
  <2>1. ASSUME NEW c \in storing, NEW s \in Starts, About(c, s) PROVE About(c, s)'
    BY <1>2, <2>1 DEF Store, workers, requests, About, Untouched
  <2> QED
    BY <1>0, <1>2, <2>1 DEF StoresHonest, Store
<1>3. ASSUME NEW s \in Starts, Acquire(s) \/ Draw(s) \/ Connect(s) PROVE StoresHonest'
  <2>1. worker[s] \notin Gone \cup {"held", "failed"} /\ storing' = storing
    BY <1>3, FirstIsNew DEF Acquire, Draw, Connect, supervisor
  <2>2. ASSUME NEW c \in storing, NEW t \in Starts, About(c, t) PROVE About(c, t)'
    <3>1. t # s
      BY <2>1, <2>2 DEF About
    <3>2. worker'[t] = worker[t] /\ generation'[t] = generation[t] /\ alive' = alive /\ shutdown' = shutdown /\ to' = to
      <4>1. CASE Acquire(s)
        BY <3>1, <4>1 DEF Acquire, requests
      <4>2. CASE Draw(s)
        BY <3>1, <4>2 DEF Draw, requests
      <4>3. CASE Connect(s)
        BY <3>1, <4>3 DEF Connect, requests
      <4> QED
        BY <1>3, <4>1, <4>2, <4>3
    <3> QED
      BY <2>2, <3>2 DEF About, Untouched
  <2> QED
    BY <1>0, <2>1, <2>2 DEF StoresHonest
<1>4. ASSUME NEW s \in Starts, StartFails(s) \/ Commit(s) PROVE StoresHonest'
  <2>0. PICK c0 : c0 = [by |-> s, of |-> generation[s], next |-> IF StartFails(s) THEN "Stopped" ELSE "Ready",
                       seen |-> 0]
    OBVIOUS
  <2>1. worker[s] \in {"drawn", "connected"}
    BY <1>4 DEF StartFails, Commit
  <2>2. ASSUME NEW c \in storing, NEW t \in Starts, About(c, t) PROVE About(c, t)'
    <3>1. t # s
      BY <2>1, <2>2 DEF About
    <3>2. worker'[t] = worker[t] /\ generation' = generation /\ alive'[t] = alive[t] /\ shutdown' = shutdown /\ to' = to
      BY <1>4, <3>1 DEF StartFails, Commit, requests
    <3> QED
      BY <2>2, <3>2 DEF About, Untouched
  <2>3. storing' = storing \cup {c0}
    BY <1>4, <2>0 DEF StartFails, Commit, Storing
  <2>4. StartFails(s) => worker'[s] = "failed" /\ ~alive'[s]
    BY <2>1 DEF StartFails, Shut
  <2>5. ~StartFails(s) => worker'[s] = "held" /\ alive'[s]
    BY <1>4 DEF Commit
  <2>6. Untouched(s)' /\ generation'[s] = generation[s]
    <3>1. Untouched(s)
      <4>1. s # Nobody
        BY DEF Nobody, Starts
      <4> QED
        BY <2>1, <4>1 DEF Untouched, Addressed, Shut
    <3>2. shutdown' = shutdown /\ to' = to /\ generation' = generation
      BY <1>4 DEF StartFails, Commit, requests
    <3> QED
      BY <3>1, <3>2 DEF Untouched
  <2>7. c0.by = s /\ c0.of = generation[s] /\ c0.seen = 0
        /\ c0.next = IF StartFails(s) THEN "Stopped" ELSE "Ready"
    BY <2>0
  <2>8. About(c0, s)'
    BY <1>4, <2>4, <2>5, <2>6, <2>7 DEF About
  <2> QED
    BY <1>0, <2>2, <2>3, <2>8 DEF StoresHonest
<1>5. ASSUME NEW s \in Starts, NEW by \in Storers, Ends(s, by) PROVE StoresHonest'
  <2>1. PICK next \in {"Stopped", "Failed", "dropped"} :
          Storing(by, s, next) /\ (next = "dropped" => worker'[s] \in Gone)
    BY <1>5 DEF Ends
  <2>0. PICK c0 : c0 = [by |-> by, of |-> generation[s], next |-> next, seen |-> 0]
    OBVIOUS
  <2>2. storing' = storing \cup {c0}
    BY <2>0, <2>1 DEF Storing
  <2>3. worker'[s] \in Gone \cup {"held"} /\ ~alive'[s] /\ generation' = generation
    BY <1>5 DEF Ends
  <2>4. About(c0, s)'
    <3>1. c0.by = by /\ c0.of = generation[s] /\ c0.seen = 0 /\ c0.next = next
      BY <2>0
    <3> QED
      BY <1>5, <2>1, <2>3, <3>1 DEF About, Ends
  <2>5. ASSUME NEW c \in storing, NEW t \in Starts, About(c, t) PROVE About(c, t)'
    <3>1. CASE t # s
      <4>1. worker'[t] = worker[t] /\ alive'[t] = alive[t] /\ (Untouched(t) => Untouched(t)')
        BY <1>5, <3>1 DEF Ends, Untouched
      <4> QED
        BY <2>3, <2>5, <4>1 DEF About
    <3>2. CASE t = s
      <4>1. c.next # "Ready"
        <5>1. c.next = "Ready" => Busy(s)
          BY <2>5, <3>2 DEF About, Busy
        <5> QED
          BY <1>5, <2>5, <3>2, <5>1 DEF About, Ends
      <4>2. worker[s] \in Gone => worker'[s] \in Gone
        BY <1>5 DEF Ends
      <4> QED
        BY <2>3, <2>5, <3>2, <4>1, <4>2 DEF About
    <3> QED
      BY <3>1, <3>2
  <2> QED
    BY <1>0, <2>2, <2>4, <2>5 DEF StoresHonest
<1>6. CASE Elsewhere
  <2>1. ASSUME NEW c \in storing, NEW s \in Starts, About(c, s) PROVE About(c, s)'
    <3>1. c.next = "Ready" => Busy(s)
      BY <2>1 DEF About, Busy
    <3>2. c.next = "Ready" => Untouched(s)' /\ worker'[s] = "held"
      BY <1>6, <2>1, <3>1 DEF Elsewhere, About
    <3>3. worker'[s] \in Gone \cup {"held", "failed"} /\ (worker[s] \in Gone => worker'[s] \in Gone)
      BY <1>6, <2>1 DEF Elsewhere, About
    <3> QED
      BY <1>6, <2>1, <3>2, <3>3 DEF Elsewhere, About
  <2> QED
    BY <1>0, <1>6, <2>1 DEF StoresHonest, Elsewhere, supervisor
<1>7. CASE UNCHANGED vars
  BY <1>7 DEF vars, supervisor, workers, requests, StoresHonest, About, Untouched
<1> QED
  BY <1>1, <1>2, <1>3, <1>4, <1>5, <1>6, <1>7, StepKinds
-----------------------------------------------------------------------------
(* The current generation *)

\* A store that hits and is not overtaken is about the current start, and no
\* other has begun.
LEMMA StoreHits ==
  ASSUME Known, Generations, StoresHonest, NEW call \in storing, Store(call), ~overtaken'
  PROVE  /\ ~overtaken
         /\ \/ call.next = "dropped" /\ state # "Ready" /\ state' = state
            \/ \E s \in Starts :
                 /\ About(call, s) /\ generation[s] = current /\ generation[s] # 0
                 /\ \A t \in Starts : generation[t] = current => t = s
                 /\ \A t \in Starts : worker[t] # "acquired"
                 /\ state' = IF call.next = "dropped" THEN "Stopped" ELSE call.next
<1>1. PICK s \in Starts : About(call, s)
  BY DEF StoresHonest
<1>2. call.seen = call.of /\ generation[s] # 0
  BY <1>1 DEF About, Store, Generations, Known, TypeOK, Gone
<1>3. ~overtaken /\ ((call.next = "dropped" => state = "Ready") => ~Overtakes(call))
  BY DEF Store, Known, TypeOK
<1>4. CASE call.next = "dropped" => state = "Ready"
  <2>1. call.of = current /\ \A t \in Starts : worker[t] # "acquired"
    BY <1>2, <1>3, <1>4 DEF Overtakes
  <2>2. generation[s] = current /\ \A t \in Starts : generation[t] = current => t = s
    BY <1>1, <1>2, <2>1 DEF About, Generations
  <2>3. state' = IF call.next = "dropped" THEN "Stopped" ELSE call.next
    BY <1>4 DEF Store
  <2> QED
    BY <1>1, <1>2, <1>3, <2>1, <2>2, <2>3
<1>5. CASE ~(call.next = "dropped" => state = "Ready")
  BY <1>3, <1>5 DEF Store
<1> QED
  BY <1>4, <1>5

LEMMA StartAloneStep ==
  ASSUME IInv, [Next]_vars
  PROVE  StartAlone'
<1> DEFINE Goal(s) ==
      /\ state' = "Starting"
      /\ worker'[s] # "acquired" => generation'[s] = current'
      /\ \A t \in Starts : worker'[t] \in Starting => t = s
<1> SUFFICES ASSUME ~overtaken', NEW s \in Starts, worker'[s] \in Starting
             PROVE  Goal(s)
  BY DEF StartAlone
<1> USE DEF IInv, Known, TypeOK, Starting, Gone
<1>1. ASSUME NEW call \in storing, Look(call) PROVE Goal(s)
  BY <1>1 DEF Look, workers, StartAlone
<1>2. ASSUME NEW call \in storing, Store(call) PROVE Goal(s)
  <2>1. worker' = worker /\ generation' = generation /\ current' = current /\ ~overtaken
    BY <1>2, StoreHits DEF Store, workers
  <2>2. state' = "Starting"
    <3>1. ASSUME NEW t \in Starts, About(call, t), generation[t] = current, 
                 \A u \in Starts : generation[u] = current => u = t,
                 \A u \in Starts : worker[u] # "acquired"
          PROVE  FALSE
      <4>1. s = t
        BY <2>1, <3>1 DEF StartAlone
      <4> QED
        BY <2>1, <3>1, <4>1 DEF About
    <3> QED
      BY <1>2, <2>1, <3>1, StoreHits DEF StartAlone
  <2> QED
    BY <2>1, <2>2 DEF StartAlone
<1>3. ASSUME NEW t \in Starts, Acquire(t) PROVE Goal(s)
  BY <1>3 DEF Acquire, StartAlone
<1>4. ASSUME NEW t \in Starts, Draw(t) PROVE Goal(s)
  BY <1>4 DEF Draw, StartAlone
<1>5. ASSUME NEW t \in Starts, Connect(t) \/ StartFails(t) \/ Commit(t) PROVE Goal(s)
  BY <1>5 DEF Connect, StartFails, Commit, supervisor, StartAlone
<1>6. ASSUME NEW t \in Starts, NEW by \in Storers, Ends(t, by) PROVE Goal(s)
  BY <1>6 DEF Ends, StartAlone
<1>7. CASE Elsewhere
  BY <1>7 DEF Elsewhere, supervisor, StartAlone
<1>8. CASE UNCHANGED vars
  BY <1>8 DEF vars, supervisor, workers, StartAlone
<1> QED
  BY <1>1, <1>2, <1>3, <1>4, <1>5, <1>6, <1>7, <1>8, StepKinds

LEMMA ServesAloneStep ==
  ASSUME IInv, [Next]_vars
  PROVE  ServesAlone'
<1> DEFINE Goal(s) ==
      /\ generation'[s] = current'
      /\ \A t \in Starts : worker'[t] \notin Starting
      /\ \/ state' = "Ready"
         \/ state' = "Starting" /\ \E call \in storing' : call.by = s /\ call.next = "Ready"
<1> SUFFICES ASSUME ~overtaken', NEW s \in Starts, worker'[s] = "held", alive'[s]
             PROVE  Goal(s)
  BY DEF ServesAlone, Serving
<1> USE DEF IInv, Known, TypeOK, Starting, Gone
<1>0. ASSUME ~overtaken, Serving(s)
      PROVE  /\ generation[s] = current
             /\ \A t \in Starts : worker[t] \notin Starting
             /\ \/ state = "Ready"
                \/ state = "Starting" /\ \E call \in storing : call.by = s /\ call.next = "Ready"
  BY <1>0 DEF ServesAlone
<1>1. ASSUME NEW call \in storing, Look(call) PROVE Goal(s)
  <2>1. worker' = worker /\ generation' = generation /\ current' = current /\ overtaken' = overtaken
        /\ state' = state /\ alive' = alive
    BY <1>1 DEF Look, workers
  <2>2. ASSUME NEW c \in storing, c.by = s, c.next = "Ready"
        PROVE  \E d \in storing' : d.by = s /\ d.next = "Ready"
    <3>1. CASE c # call
      BY <1>1, <2>2, <3>1 DEF Look
    <3>2. CASE c = call
      <4>1. call.of = current
        BY <1>0, <2>1, <2>2, <3>2 DEF StoresHonest, About, Serving
      <4>2. PICK d : d = [call EXCEPT !.seen = current]
        OBVIOUS
      <4>3. d \in storing'
        BY <1>1, <4>1, <4>2 DEF Look
      <4>4. d.by = s /\ d.next = "Ready"
        BY <2>2, <3>2, <4>2 DEF Calls
      <4> QED
        BY <4>3, <4>4
    <3> QED
      BY <3>1, <3>2
  <2> QED
    BY <1>0, <2>1, <2>2 DEF Serving
<1>2. ASSUME NEW call \in storing, Store(call) PROVE Goal(s)
  <2>1. worker' = worker /\ generation' = generation /\ current' = current /\ alive' = alive
        /\ storing' = storing \ {call} /\ ~overtaken
    BY <1>2, StoreHits DEF Store, workers
  <2>2. Serving(s)
    BY <2>1 DEF Serving
  <2>3. CASE call.next = "dropped" /\ state # "Ready" /\ state' = state
    BY <1>0, <2>1, <2>2, <2>3
  <2>4. ASSUME NEW t \in Starts, About(call, t), generation[t] = current,
               \A u \in Starts : generation[u] = current => u = t,
               state' = IF call.next = "dropped" THEN "Stopped" ELSE call.next
        PROVE  state' = "Ready"
    <3>1. s = t
      BY <1>0, <2>1, <2>2, <2>4
    <3> QED
      BY <2>2, <2>4, <3>1 DEF About, Serving
  <2>5. CASE state' = "Ready"
    BY <1>0, <2>1, <2>2, <2>5
  <2> QED
    BY <1>2, <2>3, <2>4, <2>5, StoreHits
<1>3. ASSUME NEW t \in Starts, Acquire(t) PROVE Goal(s)
  BY <1>0, <1>3 DEF Acquire, Serving
<1>4. ASSUME NEW t \in Starts, Draw(t) PROVE Goal(s)
  BY <1>0, <1>4 DEF Draw, Serving
<1>5. ASSUME NEW t \in Starts, Connect(t) \/ StartFails(t) PROVE Goal(s)
  BY <1>0, <1>5 DEF Connect, StartFails, supervisor, Serving
<1>6. ASSUME NEW t \in Starts, Commit(t) PROVE Goal(s)
  <2>1. s = t
    BY <1>0, <1>6 DEF Commit, Serving
  <2>2. PICK c : c = [by |-> t, of |-> generation[t], next |-> "Ready", seen |-> 0]
    OBVIOUS
  <2>3. c \in storing' /\ c.by = s /\ c.next = "Ready"
    BY <1>6, <2>1, <2>2 DEF Commit, Storing
  <2>4. /\ state = "Starting" /\ generation[t] = current
        /\ \A u \in Starts : worker[u] \in Starting => u = t
    BY <1>6 DEF Commit, StartAlone
  <2>5. \A u \in Starts : worker'[u] \notin Starting
    BY <1>6, <2>4 DEF Commit
  <2> QED
    BY <1>6, <2>1, <2>3, <2>4, <2>5 DEF Commit
<1>7. ASSUME NEW t \in Starts, NEW by \in Storers, Ends(t, by) PROVE Goal(s)
  <2>1. Serving(s) /\ storing \subseteq storing'
    BY <1>7 DEF Ends, Serving, Storing
  <2> QED
    BY <1>0, <1>7, <2>1 DEF Ends
<1>8. CASE Elsewhere
  BY <1>0, <1>8 DEF Elsewhere, supervisor, Serving
<1>9. CASE UNCHANGED vars
  BY <1>0, <1>9 DEF vars, supervisor, workers, Serving
<1> QED
  BY <1>1, <1>2, <1>3, <1>4, <1>5, <1>6, <1>7, <1>8, <1>9, StepKinds
LEMMA ReadyTrueStep ==
  ASSUME IInv, [Next]_vars
  PROVE  ReadyTrue'
<1> DEFINE Goal == \E s \in Starts :
                     generation'[s] = current' /\ (alive'[s] \/ \E call \in storing' : call.of = current')
<1> SUFFICES ASSUME ~overtaken', state' = "Ready"
             PROVE  Goal
  BY DEF ReadyTrue
<1> USE DEF IInv, Known, TypeOK, Starting, Gone
<1>0. ASSUME ~overtaken, state = "Ready"
      PROVE  \E s \in Starts : generation[s] = current /\ (alive[s] \/ \E call \in storing : call.of = current)
  BY <1>0 DEF ReadyTrue
<1>1. ASSUME NEW call \in storing, Look(call) PROVE Goal
  <2>1. generation' = generation /\ current' = current /\ overtaken' = overtaken
        /\ state' = state /\ alive' = alive
    BY <1>1 DEF Look, workers
  <2>2. ASSUME NEW c \in storing, c.of = current PROVE \E d \in storing' : d.of = current
    <3>1. CASE c # call
      BY <1>1, <2>2, <3>1 DEF Look
    <3>2. CASE c = call
      <4>1. PICK d : d = [call EXCEPT !.seen = current]
        OBVIOUS
      <4>2. d \in storing' /\ d.of = current
        BY <1>1, <2>2, <3>2, <4>1 DEF Look, Calls
      <4> QED
        BY <4>2
    <3> QED
      BY <3>1, <3>2
  <2> QED
    BY <1>0, <2>1, <2>2
<1>2. ASSUME NEW call \in storing, Store(call) PROVE Goal
  <2>1. ASSUME NEW s \in Starts, About(call, s), generation[s] = current,
               state' = IF call.next = "dropped" THEN "Stopped" ELSE call.next
        PROVE  Goal
    <3>1. call.next = "Ready" /\ alive[s]
      BY <2>1 DEF About
    <3> QED
      BY <1>2, <2>1, <3>1 DEF Store, workers
  <2>2. ~(state # "Ready" /\ state' = state)
    OBVIOUS
  <2> QED
    BY <1>2, <2>1, <2>2, StoreHits
<1>3. ASSUME NEW s \in Starts, Acquire(s) PROVE Goal
  BY <1>3 DEF Acquire
<1>4. ASSUME NEW s \in Starts, Draw(s) PROVE Goal
  BY <1>4 DEF Draw, StartAlone
<1>5. ASSUME NEW s \in Starts, Connect(s) PROVE Goal
  BY <1>0, <1>5 DEF Connect, supervisor
<1>6. ASSUME NEW s \in Starts, StartFails(s) \/ Commit(s) PROVE Goal
  BY <1>6 DEF StartFails, Commit, StartAlone
<1>7. ASSUME NEW s \in Starts, NEW by \in Storers, Ends(s, by) PROVE Goal
  <2>1. PICK next, c : c = [by |-> by, of |-> generation[s], next |-> next, seen |-> 0] /\ Storing(by, s, next)
    BY <1>7 DEF Ends
  <2>2. storing \subseteq storing' /\ c \in storing' /\ c.of = generation[s]
    BY <2>1 DEF Storing
  <2>3. PICK t \in Starts : generation[t] = current /\ (alive[t] \/ \E call \in storing : call.of = current)
    BY <1>0, <1>7 DEF Ends
  <2>4. generation'[t] = current' /\ (t # s => alive'[t] = alive[t])
    BY <1>7, <2>3 DEF Ends
  <2> QED
    BY <1>7, <2>2, <2>3, <2>4 DEF Ends
<1>8. CASE Elsewhere
  BY <1>0, <1>8 DEF Elsewhere, supervisor
<1>9. CASE UNCHANGED vars
  BY <1>0, <1>9 DEF vars, supervisor, workers
<1> QED
  BY <1>1, <1>2, <1>3, <1>4, <1>5, <1>6, <1>7, <1>8, <1>9, StepKinds

LEMMA StartingTrueStep ==
  ASSUME IInv, [Next]_vars
  PROVE  StartingTrue'
<1> DEFINE Stands(s) ==
      \/ worker[s] = "acquired"
      \/ /\ generation[s] = current
         /\ worker[s] \in {"drawn", "connected"} \/ (worker[s] \in {"held", "failed"} /\ Busy(s))
<1> DEFINE Goal == \E s \in Starts : Stands(s)'
<1> SUFFICES ASSUME state' = "Starting"
             PROVE  Goal
  BY DEF StartingTrue
<1> USE DEF IInv, Known, TypeOK, Starting, Gone
<1>0. ASSUME state = "Starting" PROVE \E s \in Starts : Stands(s)
  BY <1>0 DEF StartingTrue
<1>1. ASSUME NEW call \in storing, Look(call) PROVE Goal
  <2>1. worker' = worker /\ generation' = generation /\ current' = current /\ state' = state
    BY <1>1 DEF Look, workers
  <2>2. ASSUME NEW s \in Starts, generation[s] = current, Busy(s) PROVE Busy(s)'
    <3>1. PICK c \in storing : c.by = s
      BY <2>2 DEF Busy
    <3>2. CASE c # call
      BY <1>1, <3>1, <3>2 DEF Look, Busy
    <3>3. CASE c = call
      <4>1. call.of = current
        BY <2>2, <3>1, <3>3 DEF StoresHonest, About
      <4>2. PICK d : d = [call EXCEPT !.seen = current]
        OBVIOUS
      <4>3. d \in storing' /\ d.by = s
        BY <1>1, <3>1, <3>3, <4>1, <4>2 DEF Look, Calls
      <4> QED
        BY <4>3 DEF Busy
    <3> QED
      BY <3>2, <3>3
  <2>3. ASSUME NEW s \in Starts, Stands(s) PROVE Stands(s)'
    BY <2>1, <2>2, <2>3
  <2> QED
    BY <1>0, <2>1, <2>3
<1>2. ASSUME NEW call \in storing, Store(call) PROVE Goal
  <2>1. worker' = worker /\ generation' = generation /\ current' = current /\ storing' = storing \ {call}
    BY <1>2 DEF Store, workers
  <2>2. call.next = "dropped" /\ state = "Starting"
    BY <1>2 DEF Store, Calls
  <2>3. ASSUME NEW s \in Starts, Busy(s), worker[s] \notin Gone PROVE Busy(s)'
    <3>1. PICK c \in storing : c.by = s
      BY <2>3 DEF Busy
    <3>2. c # call
      BY <2>2, <2>3, <3>1 DEF StoresHonest, About
    <3> QED
      BY <2>1, <3>1, <3>2 DEF Busy
  <2>4. ASSUME NEW s \in Starts, Stands(s) PROVE Stands(s)'
    BY <2>1, <2>3, <2>4
  <2> QED
    BY <1>0, <2>2, <2>4
<1>3. ASSUME NEW s \in Starts, Acquire(s) PROVE Goal
  <2>1. worker'[s] = "acquired"
    BY <1>3 DEF Acquire
  <2> QED
    BY <2>1
<1>4. ASSUME NEW s \in Starts, Draw(s) PROVE Goal
  <2>1. generation'[s] = current' /\ worker'[s] = "drawn"
    BY <1>4 DEF Draw
  <2> QED
    BY <2>1
<1>5. ASSUME NEW s \in Starts, Connect(s) PROVE Goal
  <2>1. ASSUME NEW t \in Starts, Stands(t) PROVE Stands(t)'
    BY <1>5, <2>1 DEF Connect, supervisor, Busy
  <2> QED
    BY <1>0, <1>5, <2>1 DEF Connect, supervisor
<1>6. ASSUME NEW s \in Starts, StartFails(s) \/ Commit(s) PROVE Goal
  <2>1. PICK next, c : c = [by |-> s, of |-> generation[s], next |-> next, seen |-> 0] /\ Storing(s, s, next)
    BY <1>6 DEF StartFails, Commit
  <2>2. storing \subseteq storing' /\ c \in storing' /\ c.by = s
    BY <2>1 DEF Storing
  <2>3. Busy(s)' /\ \A t \in Starts : Busy(t) => Busy(t)'
    BY <2>2 DEF Busy
  <2>4. /\ worker'[s] \in {"held", "failed"} /\ generation' = generation /\ current' = current /\ state' = state
        /\ \A t \in Starts : t # s => worker'[t] = worker[t]
    BY <1>6 DEF StartFails, Commit
  <2>5. ASSUME NEW t \in Starts, Stands(t) PROVE Stands(t)'
    <3>1. CASE t = s
      <4>1. generation[s] = current
        BY <1>6, <2>5, <3>1 DEF StartFails, Commit
      <4> QED
        BY <2>3, <2>4, <3>1, <4>1
    <3>2. CASE t # s
      BY <2>3, <2>4, <2>5, <3>2
    <3> QED
      BY <3>1, <3>2
  <2> QED
    BY <1>0, <2>4, <2>5
<1>7. ASSUME NEW s \in Starts, NEW by \in Storers, Ends(s, by) PROVE Goal
  <2>1. storing \subseteq storing'
    BY <1>7 DEF Ends, Storing
  <2>2. ASSUME NEW t \in Starts, Stands(t) PROVE Stands(t)'
    <3>1. Busy(t) => Busy(t)'
      BY <2>1 DEF Busy
    <3>2. worker'[t] = worker[t]
      BY <1>7, <2>2 DEF Ends
    <3> QED
      BY <1>7, <2>2, <3>1, <3>2 DEF Ends
  <2> QED
    BY <1>0, <1>7, <2>2 DEF Ends
<1>8. CASE Elsewhere
  <2>1. ASSUME NEW t \in Starts, Stands(t) PROVE Stands(t)'
    <3>1. worker'[t] = worker[t] /\ (Busy(t) <=> Busy(t)')
      BY <1>8, <2>1 DEF Elsewhere, supervisor, Busy
    <3> QED
      BY <1>8, <2>1, <3>1 DEF Elsewhere, supervisor
  <2> QED
    BY <1>0, <1>8, <2>1 DEF Elsewhere, supervisor
<1>9. CASE UNCHANGED vars
  BY <1>0, <1>9 DEF vars, supervisor, workers, Busy
<1> QED
  BY <1>1, <1>2, <1>3, <1>4, <1>5, <1>6, <1>7, <1>8, <1>9, StepKinds

-----------------------------------------------------------------------------
(* Theorems *)

LEMMA InitIInv == Init => IInv
<1> SUFFICES ASSUME Init PROVE IInv
  OBVIOUS
<1> USE DEF Init, Starting, Gone, Told, Nobody
<1>1. TypeOK
  BY DEF TypeOK
<1>2. Generations /\ Addressed /\ Shut
  BY DEF Generations, Addressed, Shut
<1>3. StoresHonest /\ StartAlone /\ ServesAlone /\ ReadyTrue /\ StartingTrue
  BY DEF StoresHonest, StartAlone, ServesAlone, ReadyTrue, StartingTrue, Serving
<1> QED
  BY <1>1, <1>2, <1>3 DEF IInv

LEMMA StepIInv ==
  ASSUME IInv, [Next]_vars
  PROVE  IInv'
<1>1. Known
  BY DEF IInv, Known
<1>2. TypeOK' /\ Addressed' /\ Shut'
  BY <1>1, KnownStep DEF Known
<1>3. Generations' /\ StoresHonest'
  BY <1>1, GenerationsStep, StoresHonestStep DEF IInv
<1>4. StartAlone' /\ ServesAlone' /\ ReadyTrue' /\ StartingTrue'
  BY StartAloneStep, ServesAloneStep, ReadyTrueStep, StartingTrueStep
<1> QED
  BY <1>2, <1>3, <1>4 DEF IInv

LEMMA IInvAlways == Spec => []IInv
  BY InitIInv, StepIInv, PTL DEF Spec

\* The variables keep their types.
THEOREM SupervisorTypes == Spec => []TypeOK
<1>1. IInv => TypeOK
  BY DEF IInv
<1> QED
  BY <1>1, IInvAlways, PTL

\* Two workers never serve at a time, whatever starts, shutdowns, failing
\* requests and drops do in between, unless a store was overtaken.
THEOREM OneServes == Spec => []OneServing
<1>1. IInv => OneServing
  BY DEF IInv, OneServing, ServesAlone, Generations, TypeOK, Serving
<1> QED
  BY <1>1, IInvAlways, PTL

\* The reported state is true of the current generation, and nobody refuses
\* starts for ever.
THEOREM StateIsHonest == Spec => []StateHonest
<1>1. ASSUME IInv PROVE StateHonest
  <2>1. ASSUME NEW s \in Starts, Serving(s), Held(s), ~overtaken PROVE state = "Ready"
    BY <1>1, <2>1 DEF IInv, ServesAlone, Held, Busy
  <2>2. state = "Starting" =>
          \E s \in Starts : worker[s] \in Starting \/ (worker[s] \in {"held", "failed"} /\ Busy(s))
    BY <1>1 DEF IInv, StartingTrue, Starting
  <2> QED
    BY <1>1, <2>1, <2>2 DEF IInv, ReadyTrue, StateHonest
<1> QED
  BY <1>1, IInvAlways, PTL
=============================================================================
