--------------------------- MODULE ModProcessProofs ---------------------------
(***************************************************************************)
(* What is proved about a mod's process for every set of calls and stops   *)
(* and every size of the queue and the pipe: type correctness, that a mod  *)
(* given up or stopped has no running process, and that a waiting call is  *)
(* never forgotten.                                                        *)
(***************************************************************************)
EXTENDS ModProcess, TLAPS

-----------------------------------------------------------------------------
(* The inductive invariant *)

Owning == {"send", "reply", "close", "reap", "killed"}
Holding == Owning \cup {"take", "finish"}

\* One stop at a time is behind the lock, and the child is in the hands of a
\* stop exactly while it asks, waits and reaps.
Behind == \A s \in Stops : stop[s] \in Holding => stopLock = s
Owner == \A s \in Stops : handle = s <=> stop[s] \in Owning
NotBefore == boot # "available" => \A s \in Stops : stop[s] = "idle"

\* A child nobody owns any more was killed or has exited, and a completed
\* stop and a failed start leave none that is owned.
Gone ==
  /\ handle = Nobody => child # "alive"
  /\ stopped \/ boot = "unavailable" => handle = Nobody
  /\ \A s \in Stops : stop[s] = "finish" => handle = Nobody

IInv == TypeOK /\ Behind /\ Owner /\ NotBefore /\ Gone

\* What the queue operations return.
LEMMA TailType ==
  ASSUME NEW S, NEW q \in Seq(S), q # <<>>
  PROVE  Head(q) \in S /\ Tail(q) \in Seq(S) /\ Len(Tail(q)) = Len(q) - 1
  OBVIOUS
LEMMA AppendType ==
  ASSUME NEW S, NEW q \in Seq(S), NEW e \in S
  PROVE  Append(q, e) \in Seq(S) /\ Len(Append(q, e)) = Len(q) + 1
  OBVIOUS
LEMMA LenType ==
  ASSUME NEW S, NEW q \in Seq(S)
  PROVE  Len(q) \in Nat
  OBVIOUS

\* Types are kept from themselves alone.
LEMMA TypeStep ==
  ASSUME TypeOK, [Next]_vars
  PROVE  TypeOK'
<1> USE ActorsAssumption, SizesAssumption DEF TypeOK, Requests, Commands,
     Results
<1>1. ASSUME Read PROVE TypeOK'
  <2>1. inbox \in Seq(Commands \ {"close"}) /\ inbox # <<>> /\ Len(inbox) \in Nat
    BY <1>1, LenType DEF Read
  <2>2. inbox' \in Seq(Commands \ {"close"}) /\ Len(inbox') <= PipeSize
    BY <1>1, <2>1, TailType DEF Read
  <2> QED
    BY <1>1, <2>2 DEF Read, tasks, requests, stopping
<1>2. ASSUME Answer PROVE TypeOK'
  BY <1>2 DEF Answer, process, tasks, requests, stopping
<1>3. ASSUME CloseOutput PROVE TypeOK'
  BY <1>3 DEF CloseOutput, process, tasks, requests, stopping
<1>4. ASSUME Exit PROVE TypeOK'
  BY <1>4 DEF Exit, process, tasks, requests, stopping
<1>5. ASSUME Write PROVE TypeOK'
  BY <1>5 DEF Write, process, tasks, requests, stopping
<1>6. ASSUME WriterEnds PROVE TypeOK'
  BY <1>6 DEF WriterEnds, process, tasks, requests, stopping
<1>7. ASSUME Deliver PROVE TypeOK'
  <2>1. Head(answers) \in Requests /\ answers' \in Seq(Requests)
    BY <1>7, TailType DEF Deliver
  <2>2. result' \in [Requests -> Results]
    BY <1>7, <2>1 DEF Deliver, Said
  <2> QED
    BY <1>7, <2>1, <2>2 DEF Deliver, tasks, stopping
<1>8. ASSUME EndOfOutput PROVE TypeOK'
  BY <1>8 DEF EndOfOutput, process, tasks, requests, stopping
<1>9. ASSUME Drain PROVE TypeOK'
  BY <1>9 DEF Drain, process, tasks, requests, stopping
<1>10. ASSUME Initialized PROVE TypeOK'
  BY <1>10 DEF Initialized, process, tasks, requests, stopping
<1>11. ASSUME InitializeFails PROVE TypeOK'
  BY <1>11 DEF InitializeFails, GiveUp, Kill, process, tasks, requests, stopping
<1>12. ASSUME StartChecked PROVE TypeOK'
  BY <1>12 DEF StartChecked, process, tasks, requests, stopping
<1>13. ASSUME StartRequested PROVE TypeOK'
  BY <1>13 DEF StartRequested, Queued, process, tasks, requests, stopping
<1>14. ASSUME Started PROVE TypeOK'
  BY <1>14 DEF Started, process, tasks, requests, stopping
<1>15. ASSUME StartFails PROVE TypeOK'
  BY <1>15 DEF StartFails, GiveUp, Kill, process, tasks, requests, stopping
<1>16. ASSUME NEW c \in Calls, Invoke(c) PROVE TypeOK'
  BY <1>16 DEF Invoke, Goto, process, tasks, requests, stopping
<1>17. ASSUME NEW c \in Calls, Insert(c) PROVE TypeOK'
  <2>1. pending' \subseteq Requests
    BY <1>17 DEF Insert
  <2>2. pc' \in [Calls -> {"idle", "insert", "send", "wait", "cancel", "settle", "done"}]
    BY <1>17 DEF Insert, Goto
  <2> QED
    BY <1>17, <2>1, <2>2 DEF Insert, process, tasks, stopping
<1>18. ASSUME NEW c \in Calls, Send(c) PROVE TypeOK'
  BY <1>18 DEF Send, Queued, Goto, process, tasks, requests, stopping
<1>19. ASSUME NEW c \in Calls, SendFails(c) PROVE TypeOK'
  BY <1>19 DEF SendFails, Goto, process, tasks, requests, stopping
<1>20. ASSUME NEW c \in Calls, Return(c) PROVE TypeOK'
  BY <1>20 DEF Return, Goto, process, tasks, requests, stopping
<1>21. ASSUME NEW c \in Calls, SendCancel(c) PROVE TypeOK'
  <2>1. queue' \in Seq(Commands) /\ Len(queue') <= QueueSize
    <3>1. "cancel" \in Commands /\ queue \in Seq(Commands) /\ Len(queue) \in Nat
      BY LenType
    <3>2. CASE UNCHANGED queue
      BY <3>2
    <3>3. CASE queue' = Append(queue, "cancel") /\ Len(queue) < QueueSize
      BY <3>1, <3>3, AppendType
    <3> QED
      BY <1>21, <3>2, <3>3 DEF SendCancel, Queued
  <2>2. pc' \in [Calls -> {"idle", "insert", "send", "wait", "cancel", "settle", "done"}]
    BY <1>21 DEF SendCancel, Goto
  <2> QED
    BY <1>21, <2>1, <2>2 DEF SendCancel, process, requests, stopping
<1>22. ASSUME NEW c \in Calls, Cancel(c) PROVE TypeOK'
  BY <1>22 DEF Cancel, Goto, process, tasks, requests, stopping
<1>23. ASSUME NEW s \in Stops, Lock(s) PROVE TypeOK'
  BY <1>23 DEF Lock, StopGoto, process, tasks, requests, stopping
<1>24. ASSUME NEW s \in Stops, Take(s) PROVE TypeOK'
  BY <1>24 DEF Take, StopGoto, process, tasks, requests, stopping
<1>25. ASSUME NEW s \in Stops, TakenBefore(s) PROVE TypeOK'
  BY <1>25 DEF TakenBefore, StopGoto, process, tasks, requests, stopping
<1>26. ASSUME NEW s \in Stops, SendStop(s) PROVE TypeOK'
  BY <1>26 DEF SendStop, Queued, StopGoto, process, tasks, requests, stopping
<1>27. ASSUME NEW s \in Stops, SendStopFails(s) PROVE TypeOK'
  BY <1>27 DEF SendStopFails, StopGoto, process, tasks, requests, stopping
<1>28. ASSUME NEW s \in Stops, StopAnswered(s) PROVE TypeOK'
  BY <1>28 DEF StopAnswered, StopGoto, process, tasks, requests, stopping
<1>29. ASSUME NEW s \in Stops, CloseInput(s) PROVE TypeOK'
  <2>1. queue' \in Seq(Commands) /\ Len(queue') <= QueueSize
    BY <1>29, AppendType, LenType DEF CloseInput, Queued
  <2> QED
    BY <1>29, <2>1 DEF CloseInput, StopGoto, process, requests
<1>30. ASSUME NEW s \in Stops, Reap(s) PROVE TypeOK'
  BY <1>30 DEF Reap, StopGoto, process, tasks, requests, stopping
<1>31. ASSUME NEW s \in Stops, ReapTimeout(s) PROVE TypeOK'
  BY <1>31 DEF ReapTimeout, Kill, StopGoto, process, tasks, requests, stopping
<1>32. ASSUME NEW s \in Stops, Finish(s) PROVE TypeOK'
  BY <1>32 DEF Finish, StopGoto, process, tasks, requests, stopping
<1>33. ASSUME NEW s \in Stops, CallStop(s) PROVE TypeOK'
  BY <1>33 DEF CallStop, StopGoto, process, tasks, requests, stopping
<1>34. ASSUME NEW s \in Stops, DropStop(s) PROVE TypeOK'
  BY <1>34 DEF DropStop, Kill, StopGoto, process, tasks, requests, stopping
<1>35. ASSUME UNCHANGED vars PROVE TypeOK'
  BY <1>35 DEF vars, process, tasks, requests, stopping
<1> QED
  BY <1>1, <1>2, <1>3, <1>4, <1>5, <1>6, <1>7, <1>8, <1>9, <1>10, <1>11, <1>12, <1>13,
     <1>14, <1>15, <1>16, <1>17, <1>18, <1>19, <1>20, <1>21, <1>22, <1>23, <1>24, <1>25,
     <1>26, <1>27, <1>28, <1>29, <1>30, <1>31, <1>32, <1>33, <1>34, <1>35 DEF Next,
     BootNext, CallNext, StopNext

\* So is the lock of the stops.
LEMMA LockStep ==
  ASSUME TypeOK /\ Behind /\ NotBefore, [Next]_vars
  PROVE  (Behind /\ NotBefore)'
<1> USE ActorsAssumption, SizesAssumption DEF TypeOK, Behind, NotBefore,
     Owning, Holding
<1>1. ASSUME Read PROVE (Behind /\ NotBefore)'
  BY <1>1 DEF Read, process, tasks, requests, stopping
<1>2. ASSUME Answer PROVE (Behind /\ NotBefore)'
  BY <1>2 DEF Answer, process, tasks, requests, stopping
<1>3. ASSUME CloseOutput PROVE (Behind /\ NotBefore)'
  BY <1>3 DEF CloseOutput, process, tasks, requests, stopping
<1>4. ASSUME Exit PROVE (Behind /\ NotBefore)'
  BY <1>4 DEF Exit, process, tasks, requests, stopping
<1>5. ASSUME Write PROVE (Behind /\ NotBefore)'
  BY <1>5 DEF Write, process, tasks, requests, stopping
<1>6. ASSUME WriterEnds PROVE (Behind /\ NotBefore)'
  BY <1>6 DEF WriterEnds, process, tasks, requests, stopping
<1>7. ASSUME Deliver PROVE (Behind /\ NotBefore)'
  BY <1>7 DEF Deliver, Said, process, tasks, requests, stopping
<1>8. ASSUME EndOfOutput PROVE (Behind /\ NotBefore)'
  BY <1>8 DEF EndOfOutput, process, tasks, requests, stopping
<1>9. ASSUME Drain PROVE (Behind /\ NotBefore)'
  BY <1>9 DEF Drain, process, tasks, requests, stopping
<1>10. ASSUME Initialized PROVE (Behind /\ NotBefore)'
  BY <1>10 DEF Initialized, process, tasks, requests, stopping
<1>11. ASSUME InitializeFails PROVE (Behind /\ NotBefore)'
  BY <1>11 DEF InitializeFails, GiveUp, Kill, process, tasks, requests, stopping
<1>12. ASSUME StartChecked PROVE (Behind /\ NotBefore)'
  BY <1>12 DEF StartChecked, process, tasks, requests, stopping
<1>13. ASSUME StartRequested PROVE (Behind /\ NotBefore)'
  BY <1>13 DEF StartRequested, Queued, process, tasks, requests, stopping
<1>14. ASSUME Started PROVE (Behind /\ NotBefore)'
  BY <1>14 DEF Started, process, tasks, requests, stopping
<1>15. ASSUME StartFails PROVE (Behind /\ NotBefore)'
  BY <1>15 DEF StartFails, GiveUp, Kill, process, tasks, requests, stopping
<1>16. ASSUME NEW c \in Calls, Invoke(c) PROVE (Behind /\ NotBefore)'
  BY <1>16 DEF Invoke, Goto, process, tasks, requests, stopping
<1>17. ASSUME NEW c \in Calls, Insert(c) PROVE (Behind /\ NotBefore)'
  BY <1>17 DEF Insert, Goto, process, tasks, requests, stopping
<1>18. ASSUME NEW c \in Calls, Send(c) PROVE (Behind /\ NotBefore)'
  BY <1>18 DEF Send, Queued, Goto, process, tasks, requests, stopping
<1>19. ASSUME NEW c \in Calls, SendFails(c) PROVE (Behind /\ NotBefore)'
  BY <1>19 DEF SendFails, Goto, process, tasks, requests, stopping
<1>20. ASSUME NEW c \in Calls, Return(c) PROVE (Behind /\ NotBefore)'
  BY <1>20 DEF Return, Goto, process, tasks, requests, stopping
<1>21. ASSUME NEW c \in Calls, SendCancel(c) PROVE (Behind /\ NotBefore)'
  BY <1>21 DEF SendCancel, Queued, Goto, process, tasks, requests, stopping
<1>22. ASSUME NEW c \in Calls, Cancel(c) PROVE (Behind /\ NotBefore)'
  BY <1>22 DEF Cancel, Goto, process, tasks, requests, stopping
<1>23. ASSUME NEW s \in Stops, Lock(s) PROVE (Behind /\ NotBefore)'
  BY <1>23 DEF Lock, StopGoto, process, tasks, requests, stopping
<1>24. ASSUME NEW s \in Stops, Take(s) PROVE (Behind /\ NotBefore)'
  BY <1>24 DEF Take, StopGoto, process, tasks, requests, stopping
<1>25. ASSUME NEW s \in Stops, TakenBefore(s) PROVE (Behind /\ NotBefore)'
  BY <1>25 DEF TakenBefore, StopGoto, process, tasks, requests, stopping
<1>26. ASSUME NEW s \in Stops, SendStop(s) PROVE (Behind /\ NotBefore)'
  BY <1>26 DEF SendStop, Queued, StopGoto, process, tasks, requests, stopping
<1>27. ASSUME NEW s \in Stops, SendStopFails(s) PROVE (Behind /\ NotBefore)'
  BY <1>27 DEF SendStopFails, StopGoto, process, tasks, requests, stopping
<1>28. ASSUME NEW s \in Stops, StopAnswered(s) PROVE (Behind /\ NotBefore)'
  BY <1>28 DEF StopAnswered, StopGoto, process, tasks, requests, stopping
<1>29. ASSUME NEW s \in Stops, CloseInput(s) PROVE (Behind /\ NotBefore)'
  BY <1>29 DEF CloseInput, Queued, StopGoto, process, tasks, requests, stopping
<1>30. ASSUME NEW s \in Stops, Reap(s) PROVE (Behind /\ NotBefore)'
  BY <1>30 DEF Reap, StopGoto, process, tasks, requests, stopping
<1>31. ASSUME NEW s \in Stops, ReapTimeout(s) PROVE (Behind /\ NotBefore)'
  BY <1>31 DEF ReapTimeout, Kill, StopGoto, process, tasks, requests, stopping
<1>32. ASSUME NEW s \in Stops, Finish(s) PROVE (Behind /\ NotBefore)'
  BY <1>32 DEF Finish, StopGoto, process, tasks, requests, stopping
<1>33. ASSUME NEW s \in Stops, CallStop(s) PROVE (Behind /\ NotBefore)'
  BY <1>33 DEF CallStop, StopGoto, process, tasks, requests, stopping
<1>34. ASSUME NEW s \in Stops, DropStop(s) PROVE (Behind /\ NotBefore)'
  BY <1>34 DEF DropStop, Kill, StopGoto, process, tasks, requests, stopping
<1>35. ASSUME UNCHANGED vars PROVE (Behind /\ NotBefore)'
  BY <1>35 DEF vars, process, tasks, requests, stopping
<1> QED
  BY <1>1, <1>2, <1>3, <1>4, <1>5, <1>6, <1>7, <1>8, <1>9, <1>10, <1>11, <1>12, <1>13,
     <1>14, <1>15, <1>16, <1>17, <1>18, <1>19, <1>20, <1>21, <1>22, <1>23, <1>24, <1>25,
     <1>26, <1>27, <1>28, <1>29, <1>30, <1>31, <1>32, <1>33, <1>34, <1>35 DEF Next,
     BootNext, CallNext, StopNext

\* Who owns the child, and that it is gone when nobody does.
LEMMA GoneStep ==
  ASSUME IInv, [Next]_vars
  PROVE  (Owner /\ Gone)'
<1> USE ActorsAssumption, SizesAssumption DEF IInv, TypeOK, Behind, NotBefore,
     Owner, Gone, Owning, Holding
<1>1. ASSUME Read PROVE (Owner /\ Gone)'
  BY <1>1 DEF Read, process, tasks, requests, stopping
<1>2. ASSUME Answer PROVE (Owner /\ Gone)'
  BY <1>2 DEF Answer, process, tasks, requests, stopping
<1>3. ASSUME CloseOutput PROVE (Owner /\ Gone)'
  BY <1>3 DEF CloseOutput, process, tasks, requests, stopping
<1>4. ASSUME Exit PROVE (Owner /\ Gone)'
  BY <1>4 DEF Exit, process, tasks, requests, stopping
<1>5. ASSUME Write PROVE (Owner /\ Gone)'
  BY <1>5 DEF Write, process, tasks, requests, stopping
<1>6. ASSUME WriterEnds PROVE (Owner /\ Gone)'
  BY <1>6 DEF WriterEnds, process, tasks, requests, stopping
<1>7. ASSUME Deliver PROVE (Owner /\ Gone)'
  BY <1>7 DEF Deliver, Said, process, tasks, requests, stopping
<1>8. ASSUME EndOfOutput PROVE (Owner /\ Gone)'
  BY <1>8 DEF EndOfOutput, process, tasks, requests, stopping
<1>9. ASSUME Drain PROVE (Owner /\ Gone)'
  BY <1>9 DEF Drain, process, tasks, requests, stopping
<1>10. ASSUME Initialized PROVE (Owner /\ Gone)'
  BY <1>10 DEF Initialized, process, tasks, requests, stopping
<1>11. ASSUME InitializeFails PROVE (Owner /\ Gone)'
  BY <1>11 DEF InitializeFails, GiveUp, Kill, process, tasks, requests, stopping
<1>12. ASSUME StartChecked PROVE (Owner /\ Gone)'
  BY <1>12 DEF StartChecked, process, tasks, requests, stopping
<1>13. ASSUME StartRequested PROVE (Owner /\ Gone)'
  BY <1>13 DEF StartRequested, Queued, process, tasks, requests, stopping
<1>14. ASSUME Started PROVE (Owner /\ Gone)'
  BY <1>14 DEF Started, process, tasks, requests, stopping
<1>15. ASSUME StartFails PROVE (Owner /\ Gone)'
  BY <1>15 DEF StartFails, GiveUp, Kill, process, tasks, requests, stopping
<1>16. ASSUME NEW c \in Calls, Invoke(c) PROVE (Owner /\ Gone)'
  BY <1>16 DEF Invoke, Goto, process, tasks, requests, stopping
<1>17. ASSUME NEW c \in Calls, Insert(c) PROVE (Owner /\ Gone)'
  BY <1>17 DEF Insert, Goto, process, tasks, requests, stopping
<1>18. ASSUME NEW c \in Calls, Send(c) PROVE (Owner /\ Gone)'
  BY <1>18 DEF Send, Queued, Goto, process, tasks, requests, stopping
<1>19. ASSUME NEW c \in Calls, SendFails(c) PROVE (Owner /\ Gone)'
  BY <1>19 DEF SendFails, Goto, process, tasks, requests, stopping
<1>20. ASSUME NEW c \in Calls, Return(c) PROVE (Owner /\ Gone)'
  BY <1>20 DEF Return, Goto, process, tasks, requests, stopping
<1>21. ASSUME NEW c \in Calls, SendCancel(c) PROVE (Owner /\ Gone)'
  BY <1>21 DEF SendCancel, Queued, Goto, process, tasks, requests, stopping
<1>22. ASSUME NEW c \in Calls, Cancel(c) PROVE (Owner /\ Gone)'
  BY <1>22 DEF Cancel, Goto, process, tasks, requests, stopping
<1>23. ASSUME NEW s \in Stops, Lock(s) PROVE (Owner /\ Gone)'
  BY <1>23 DEF Lock, StopGoto, process, tasks, requests, stopping
<1>24. ASSUME NEW s \in Stops, Take(s) PROVE (Owner /\ Gone)'
  BY <1>24 DEF Take, StopGoto, process, tasks, requests, stopping
<1>25. ASSUME NEW s \in Stops, TakenBefore(s) PROVE (Owner /\ Gone)'
  BY <1>25 DEF TakenBefore, StopGoto, process, tasks, requests, stopping
<1>26. ASSUME NEW s \in Stops, SendStop(s) PROVE (Owner /\ Gone)'
  BY <1>26 DEF SendStop, Queued, StopGoto, process, tasks, requests, stopping
<1>27. ASSUME NEW s \in Stops, SendStopFails(s) PROVE (Owner /\ Gone)'
  BY <1>27 DEF SendStopFails, StopGoto, process, tasks, requests, stopping
<1>28. ASSUME NEW s \in Stops, StopAnswered(s) PROVE (Owner /\ Gone)'
  BY <1>28 DEF StopAnswered, StopGoto, process, tasks, requests, stopping
<1>29. ASSUME NEW s \in Stops, CloseInput(s) PROVE (Owner /\ Gone)'
  BY <1>29 DEF CloseInput, Queued, StopGoto, process, tasks, requests, stopping
<1>30. ASSUME NEW s \in Stops, Reap(s) PROVE (Owner /\ Gone)'
  BY <1>30 DEF Reap, StopGoto, process, tasks, requests, stopping
<1>31. ASSUME NEW s \in Stops, ReapTimeout(s) PROVE (Owner /\ Gone)'
  BY <1>31 DEF ReapTimeout, Kill, StopGoto, process, tasks, requests, stopping
<1>32. ASSUME NEW s \in Stops, Finish(s) PROVE (Owner /\ Gone)'
  BY <1>32 DEF Finish, StopGoto, process, tasks, requests, stopping
<1>33. ASSUME NEW s \in Stops, CallStop(s) PROVE (Owner /\ Gone)'
  BY <1>33 DEF CallStop, StopGoto, process, tasks, requests, stopping
<1>34. ASSUME NEW s \in Stops, DropStop(s) PROVE (Owner /\ Gone)'
  BY <1>34 DEF DropStop, Kill, StopGoto, process, tasks, requests, stopping
<1>35. ASSUME UNCHANGED vars PROVE (Owner /\ Gone)'
  BY <1>35 DEF vars, process, tasks, requests, stopping
<1> QED
  BY <1>1, <1>2, <1>3, <1>4, <1>5, <1>6, <1>7, <1>8, <1>9, <1>10, <1>11, <1>12, <1>13,
     <1>14, <1>15, <1>16, <1>17, <1>18, <1>19, <1>20, <1>21, <1>22, <1>23, <1>24, <1>25,
     <1>26, <1>27, <1>28, <1>29, <1>30, <1>31, <1>32, <1>33, <1>34, <1>35 DEF Next,
     BootNext, CallNext, StopNext

\* A call is taken off the list as it is told, or as it returns.
LEMMA ListedStep ==
  ASSUME TypeOK /\ StillListed, [Next]_vars
  PROVE  StillListed'
<1> USE ActorsAssumption, SizesAssumption DEF TypeOK, StillListed, Waiting,
     Requests, Results
<1>1. ASSUME Read PROVE StillListed'
  BY <1>1 DEF Read, process, tasks, requests, stopping
<1>2. ASSUME Answer PROVE StillListed'
  BY <1>2 DEF Answer, process, tasks, requests, stopping
<1>3. ASSUME CloseOutput PROVE StillListed'
  BY <1>3 DEF CloseOutput, process, tasks, requests, stopping
<1>4. ASSUME Exit PROVE StillListed'
  BY <1>4 DEF Exit, process, tasks, requests, stopping
<1>5. ASSUME Write PROVE StillListed'
  BY <1>5 DEF Write, process, tasks, requests, stopping
<1>6. ASSUME WriterEnds PROVE StillListed'
  BY <1>6 DEF WriterEnds, process, tasks, requests, stopping
<1>7. ASSUME Deliver PROVE StillListed'
  BY <1>7 DEF Deliver, Said, process, tasks, requests, stopping
<1>8. ASSUME EndOfOutput PROVE StillListed'
  BY <1>8 DEF EndOfOutput, process, tasks, requests, stopping
<1>9. ASSUME Drain PROVE StillListed'
  BY <1>9 DEF Drain, process, tasks, requests, stopping
<1>10. ASSUME Initialized PROVE StillListed'
  BY <1>10 DEF Initialized, process, tasks, requests, stopping
<1>11. ASSUME InitializeFails PROVE StillListed'
  BY <1>11 DEF InitializeFails, GiveUp, Kill, process, tasks, requests, stopping
<1>12. ASSUME StartChecked PROVE StillListed'
  BY <1>12 DEF StartChecked, process, tasks, requests, stopping
<1>13. ASSUME StartRequested PROVE StillListed'
  BY <1>13 DEF StartRequested, Queued, process, tasks, requests, stopping
<1>14. ASSUME Started PROVE StillListed'
  BY <1>14 DEF Started, process, tasks, requests, stopping
<1>15. ASSUME StartFails PROVE StillListed'
  BY <1>15 DEF StartFails, GiveUp, Kill, process, tasks, requests, stopping
<1>16. ASSUME NEW c \in Calls, Invoke(c) PROVE StillListed'
  BY <1>16 DEF Invoke, Goto, process, tasks, requests, stopping
<1>17. ASSUME NEW c \in Calls, Insert(c) PROVE StillListed'
  BY <1>17 DEF Insert, Goto, process, tasks, requests, stopping
<1>18. ASSUME NEW c \in Calls, Send(c) PROVE StillListed'
  BY <1>18 DEF Send, Queued, Goto, process, tasks, requests, stopping
<1>19. ASSUME NEW c \in Calls, SendFails(c) PROVE StillListed'
  BY <1>19 DEF SendFails, Goto, process, tasks, requests, stopping
<1>20. ASSUME NEW c \in Calls, Return(c) PROVE StillListed'
  BY <1>20 DEF Return, Goto, process, tasks, requests, stopping
<1>21. ASSUME NEW c \in Calls, SendCancel(c) PROVE StillListed'
  BY <1>21 DEF SendCancel, Queued, Goto, process, tasks, requests, stopping
<1>22. ASSUME NEW c \in Calls, Cancel(c) PROVE StillListed'
  BY <1>22 DEF Cancel, Goto, process, tasks, requests, stopping
<1>23. ASSUME NEW s \in Stops, Lock(s) PROVE StillListed'
  BY <1>23 DEF Lock, StopGoto, process, tasks, requests, stopping
<1>24. ASSUME NEW s \in Stops, Take(s) PROVE StillListed'
  BY <1>24 DEF Take, StopGoto, process, tasks, requests, stopping
<1>25. ASSUME NEW s \in Stops, TakenBefore(s) PROVE StillListed'
  BY <1>25 DEF TakenBefore, StopGoto, process, tasks, requests, stopping
<1>26. ASSUME NEW s \in Stops, SendStop(s) PROVE StillListed'
  BY <1>26 DEF SendStop, Queued, StopGoto, process, tasks, requests, stopping
<1>27. ASSUME NEW s \in Stops, SendStopFails(s) PROVE StillListed'
  BY <1>27 DEF SendStopFails, StopGoto, process, tasks, requests, stopping
<1>28. ASSUME NEW s \in Stops, StopAnswered(s) PROVE StillListed'
  BY <1>28 DEF StopAnswered, StopGoto, process, tasks, requests, stopping
<1>29. ASSUME NEW s \in Stops, CloseInput(s) PROVE StillListed'
  BY <1>29 DEF CloseInput, Queued, StopGoto, process, tasks, requests, stopping
<1>30. ASSUME NEW s \in Stops, Reap(s) PROVE StillListed'
  BY <1>30 DEF Reap, StopGoto, process, tasks, requests, stopping
<1>31. ASSUME NEW s \in Stops, ReapTimeout(s) PROVE StillListed'
  BY <1>31 DEF ReapTimeout, Kill, StopGoto, process, tasks, requests, stopping
<1>32. ASSUME NEW s \in Stops, Finish(s) PROVE StillListed'
  BY <1>32 DEF Finish, StopGoto, process, tasks, requests, stopping
<1>33. ASSUME NEW s \in Stops, CallStop(s) PROVE StillListed'
  BY <1>33 DEF CallStop, StopGoto, process, tasks, requests, stopping
<1>34. ASSUME NEW s \in Stops, DropStop(s) PROVE StillListed'
  BY <1>34 DEF DropStop, Kill, StopGoto, process, tasks, requests, stopping
<1>35. ASSUME UNCHANGED vars PROVE StillListed'
  BY <1>35 DEF vars, process, tasks, requests, stopping
<1> QED
  BY <1>1, <1>2, <1>3, <1>4, <1>5, <1>6, <1>7, <1>8, <1>9, <1>10, <1>11, <1>12, <1>13,
     <1>14, <1>15, <1>16, <1>17, <1>18, <1>19, <1>20, <1>21, <1>22, <1>23, <1>24, <1>25,
     <1>26, <1>27, <1>28, <1>29, <1>30, <1>31, <1>32, <1>33, <1>34, <1>35 DEF Next,
     BootNext, CallNext, StopNext

LEMMA InitInv == Init => IInv /\ StillListed
<1> SUFFICES ASSUME Init PROVE IInv /\ StillListed
  OBVIOUS
<1> USE ActorsAssumption, SizesAssumption DEF Init, Requests
<1>1. TypeOK
  <2>1. queue \in Seq(Commands) /\ Len(queue) <= QueueSize
    BY DEF Commands
  <2>2. inbox \in Seq(Commands \ {"close"}) /\ Len(inbox) <= PipeSize /\ answers \in Seq(Requests)
    BY DEF Commands
  <2> QED
    BY <2>1, <2>2 DEF TypeOK, Results
<1>2. Behind /\ Owner /\ NotBefore /\ Gone
  BY DEF Behind, Owner, NotBefore, Gone, Owning, Holding
<1>3. StillListed
  BY DEF StillListed, Waiting
<1> QED
  BY <1>1, <1>2, <1>3 DEF IInv

LEMMA InductiveInv == Spec => [](IInv /\ StillListed)
<1>1. ASSUME IInv /\ StillListed, [Next]_vars PROVE (IInv /\ StillListed)'
  BY <1>1, TypeStep, LockStep, GoneStep, ListedStep DEF IInv
<1> QED
  BY <1>1, InitInv, PTL DEF Spec

-----------------------------------------------------------------------------
\* Every value stays in its type, and the queue and the pipe within bounds.
THEOREM TypeCorrect == Spec => []TypeOK
<1>1. IInv => TypeOK
  BY DEF IInv
<1> QED
  BY <1>1, InductiveInv, PTL

\* A mod that could not be started, or was stopped, leaves no running process,
\* although stops may be dropped at each of their awaits.
THEOREM OrphanNever == Spec => []NoOrphan
<1>1. IInv => NoOrphan
  BY DEF IInv, Gone, NoOrphan
<1> QED
  BY <1>1, InductiveInv, PTL

\* A call that waits can still be answered or has been.
THEOREM ListedAlways == Spec => []StillListed
  BY InductiveInv, PTL
=============================================================================
