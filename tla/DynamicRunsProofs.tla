-------------------------- MODULE DynamicRunsProofs --------------------------
(***************************************************************************)
(* For any number of items, calls, tasks, faults and crashes: after a      *)
(* shutdown nothing executes, a run is executed by the registered task     *)
(* alone and its file says so, what cannot be repeated is carried out      *)
(* once, what succeeded is not repeated, and no cancel misses the end.     *)
(*                                                                         *)
(* Two facts carry the rest.  The guard makes the claim window one call's: *)
(* while a call holds a task it claimed, nobody else registers one.  And   *)
(* only the registered task is under way, so that the step records it read *)
(* when it began are the log until it writes them itself.                  *)
(***************************************************************************)
EXTENDS DynamicRuns, TLAPS

Outcomes == {"none", "Running", "Succeeded", "Failed", "Cancelled"}
Labels == {"new", "step", "output", "record", "call", "finish", "fail", "failed", "done", "panicked"}
Closing == {"create", "creating", "created", "keep", "settle"}
Moving == Closing \cup {"begin", "items", "error", "leave"}
Records ==
  [pc : Moving \cup Over \cup {"gated"}, cancelled : BOOLEAN, verdict : RunStates, doc : Documents,
   records : [Keys -> Outcomes], item : [Items -> Labels]]
Guarded == {"load", "normalize", "reload", "claim", "insert", "write"}
Claimed == {"insert", "write"}
Cancelling == {"settled", "arm", "wait"}
CallStates == Guarded \cup Cancelling \cup {"idle", "guard", "guardAgain", "look", "find"}

TypeOK ==
  /\ disk \in Documents \cup {NoDoc} /\ log \in [Keys -> Outcomes] /\ effects \in [Keys -> Nat]
  /\ closing \in {"no", "flagged", "drained"} /\ active \in {0} \cup DOMAIN tasks
  /\ guard \in Calls \cup {NoCall} /\ tasks \in Seq(Records)
  /\ pc \in [Calls -> CallStates]
  /\ op \in [Calls -> {"none", "run", "get", "resume", "cancel"}]
  /\ mine \in [Calls -> Nat] /\ read \in [Calls -> Documents \cup {NoDoc}] /\ woken \subseteq Calls
  /\ replayable \subseteq Items /\ faults \in Nat /\ crashes \in Nat

\* The window of a claim is one call's.
Held == \A c \in Calls : pc[c] \in Guarded => guard = c

\* Only the call that creates the run may find no document, and a call that
\* is about to write one has read one.
Found ==
  \A c \in Calls :
    /\ pc[c] # "idle" /\ op[c] # "run" => disk # NoDoc
    /\ pc[c] \in {"find", "look", "guardAgain", "load", "normalize", "reload"} => op[c] # "run"
    /\ pc[c] = "normalize" \/ (pc[c] = "claim" /\ op[c] # "run") => read[c] # NoDoc

\* What becomes of a task a call has in its hands: it waits, registered or
\* not, for that call alone, or it was aborted.
InHand ==
  \A c \in Calls :
    /\ pc[c] \in Claimed \cup Cancelling => mine[c] \in DOMAIN tasks
    /\ pc[c] = "normalize" => active = 0
    /\ pc[c] = "insert" => tasks[mine[c]].pc = "gated" /\ active # mine[c]
    /\ pc[c] = "write" =>
         \/ tasks[mine[c]].pc = "gated" /\ active = mine[c]
         \/ tasks[mine[c]].pc = "aborted" /\ active = 0

\* Only the registered task is under way, and none after a shutdown.
Registered == \A t \in DOMAIN tasks : Underway(t) => active = t
Drained == closing = "drained" => active = 0

\* The states of a task's copy.
Copies ==
  \A t \in DOMAIN tasks :
    /\ tasks[t].pc = "gated" => tasks[t].doc.state = "Running"
    /\ tasks[t].pc \in Closing => tasks[t].verdict \notin Active
    /\ tasks[t].pc \in {"leave", "over"} => tasks[t].doc.state \notin Active
    /\ Underway(t) => tasks[t].doc.state # "Queued"
OnDisk ==
  \A t \in DOMAIN tasks :
    Underway(t) /\ Doc(t).state \in Active => disk # NoDoc /\ disk.state = "Running"

\* What a task knows of the log.
Logged(t) ==
  /\ tasks[t].pc \in {"gated", "begin"} => \A i \in Items : tasks[t].item[i] = "new"
  /\ tasks[t].pc = "items" =>
       /\ tasks[t].records[TheCollection] = log[TheCollection]
       /\ \A i \in Items :
            /\ tasks[t].item[i] \in {"new", "step"} => tasks[t].records[i] = log[i]
            /\ tasks[t].item[i] \in {"record", "call", "finish", "fail"} => log[i] # "Succeeded"
            /\ tasks[t].item[i] = "record" /\ i \notin replayable => log[i] = "none"
            /\ tasks[t].item[i] = "call" /\ i \notin replayable => effects[i] = 0
            /\ tasks[t].item[i] = "call" => log[i] # "none"
  /\ tasks[t].pc \in {"create", "creating", "created"} => log[TheCollection] # "Succeeded"
LogKnown == \A t \in DOMAIN tasks : Logged(t)
\* An effect leaves a record.
Recorded == \A i \in Items \ replayable : effects[i] <= 1 /\ (log[i] = "none" => effects[i] = 0)

IInv ==
  /\ TypeOK /\ Held /\ Found /\ InHand /\ Registered /\ Drained /\ Copies /\ OnDisk
  /\ LogKnown /\ Recorded /\ CancelWoken
-----------------------------------------------------------------------------
(* What a step does to the tasks *)

\* The tasks are numbered from 1.
LEMMA TaskNumbers ==
  ASSUME TypeOK
  PROVE  /\ DOMAIN tasks = 1 .. Len(tasks) /\ Len(tasks) \in Nat /\ 0 \notin DOMAIN tasks
         /\ \A t \in DOMAIN tasks : t \in Nat \ {0} /\ tasks[t] \in Records
  BY DEF TypeOK

\* One task is replaced by a record of the same kind.
LEMMA TaskSet ==
  ASSUME TypeOK, NEW t \in DOMAIN tasks, NEW x \in Records, tasks' = [tasks EXCEPT ![t] = x]
  PROVE  /\ tasks' \in Seq(Records) /\ DOMAIN tasks' = DOMAIN tasks /\ tasks'[t] = x
         /\ \A u \in DOMAIN tasks : u # t => tasks'[u] = tasks[u]
  BY DEF TypeOK

\* A field of it is.
LEMMA FieldSet ==
  ASSUME NEW x \in Records
  PROVE  /\ \A label \in Moving \cup Over : [x EXCEPT !.pc = label] \in Records
         /\ [x EXCEPT !.cancelled = TRUE] \in Records
         /\ \A label \in Labels, i \in Items : [x EXCEPT !.item[i] = label] \in Records
         /\ \A label \in Labels, i \in Items, state \in SlotStates :
              [x EXCEPT !.doc.items[i] = state, !.item[i] = label] \in Records
         /\ \A label \in Moving, doc \in Documents : [x EXCEPT !.doc = doc, !.pc = label] \in Records
         /\ \A label \in Moving, state \in RunStates : [x EXCEPT !.verdict = state, !.pc = label] \in Records
         /\ \A new \in [Keys -> Outcomes], label \in Moving : [x EXCEPT !.pc = label, !.records = new] \in Records
  BY DEF Records, Documents

LEMMA GatedType ==
  ASSUME NEW doc \in Documents
  PROVE  /\ Gated(doc) \in Records /\ Gated(doc).pc = "gated" /\ Gated(doc).doc.state = "Running"
         /\ \A i \in Items : Gated(doc).item[i] = "new"
  BY DEF Gated, Records, Documents, RunStates, Active, Outcomes, Labels

LEMMA NewDocType == NewDoc \in Documents /\ NewDoc # NoDoc
<1>1. NewDoc \in Documents
  BY DEF NewDoc, Documents, RunStates, SlotStates, Active
<1> QED
  BY <1>1, DocAssumption

\* A task that ended keeps its state alone.
LEMMA EndsType ==
  ASSUME TypeOK, NEW t \in DOMAIN tasks, NEW label \in Over, NEW state \in RunStates, Ends(t, label, state)
  PROVE  /\ tasks' \in Seq(Records) /\ DOMAIN tasks' = DOMAIN tasks
         /\ tasks'[t].pc = label /\ tasks'[t].doc.state = state
         /\ \A u \in DOMAIN tasks : u # t => tasks'[u] = tasks[u]
<1> DEFINE x == [Gated(NewDoc) EXCEPT !.pc = label, !.doc.state = state]
<1>1. x \in Records /\ x.pc = label /\ x.doc.state = state
  BY NewDocType, GatedType DEF Records, Documents
<1>2. tasks' = [tasks EXCEPT ![t] = x]
  BY DEF Ends
<1> HIDE DEF x
<1> QED
  BY <1>1, <1>2, TaskSet
\* A task that is under way moves, and writes its copy or nothing.
Works(t) ==
  /\ Underway(t) /\ tasks'[t].pc \in Moving
  /\ tasks' \in Seq(Records) /\ DOMAIN tasks' = DOMAIN tasks
  /\ \A u \in DOMAIN tasks : u # t => tasks'[u] = tasks[u]
  /\ tasks'[t].doc.state \in {tasks[t].doc.state} \cup (RunStates \ Active)
  /\ tasks'[t].pc \in Closing => tasks'[t].verdict \notin Active
  /\ tasks'[t].pc = "leave" => tasks'[t].doc.state \notin Active
  /\ disk' \in {disk, tasks'[t].doc}
  /\ log' \in [Keys -> Outcomes] /\ effects' \in [Keys -> Nat] /\ faults' \in Nat
  /\ UNCHANGED <<service, calls, replayable, crashes>>

\* An item of it moves to a label; the outcome of its step record and the
\* effect of its operation are written as its last label allows.
ItemGoes(t, i, label) ==
  /\ tasks[t].pc = "items" /\ tasks[t].item[i] # "done"
  /\ tasks'[t].pc = "items" /\ tasks'[t].records = tasks[t].records
  /\ tasks'[t].verdict = tasks[t].verdict /\ tasks'[t].doc.state = tasks[t].doc.state
  /\ tasks'[t].item = [tasks[t].item EXCEPT ![i] = label]
  /\ \/ /\ UNCHANGED <<log, effects>>
        /\ label \in {"output", "done", "failed", "panicked"} \/ (label = "step" /\ tasks[t].item[i] = "new")
     \/ /\ tasks[t].item[i] = "step" /\ label = "record" /\ UNCHANGED <<log, effects>>
        /\ tasks[t].records[i] # "Succeeded"
        /\ tasks[t].records[i] \notin {"Failed", "Cancelled"}
        /\ tasks[t].records[i] = "none" \/ i \in replayable
     \/ /\ tasks[t].item[i] = "record" /\ label = "call"
        /\ log' = [log EXCEPT ![i] = "Running"] /\ UNCHANGED effects
     \/ /\ tasks[t].item[i] = "call" /\ label \in {"finish", "fail"}
        /\ \E acted \in {0, 1} : effects' = [effects EXCEPT ![i] = @ + acted]
        /\ UNCHANGED log
     \/ /\ tasks[t].item[i] \in {"finish", "fail"} /\ label \in {"output", "failed"}
        /\ \E outcome \in {"Succeeded", "Failed", "Cancelled"} : log' = [log EXCEPT ![i] = outcome]
        /\ UNCHANGED effects

\* What the two ways to move an item do to the task.
LEMMA MoveItem ==
  ASSUME TypeOK, NEW t \in DOMAIN tasks, NEW i \in Items, NEW label \in Labels, tasks[t].pc = "items",
         tasks' = [tasks EXCEPT ![t] = [tasks[t] EXCEPT !.item[i] = label]],
         disk' = disk, faults' \in Nat, UNCHANGED unmoved,
         log' \in [Keys -> Outcomes], effects' \in [Keys -> Nat]
  PROVE  /\ Works(t) /\ tasks'[t].pc = "items" /\ tasks'[t].records = tasks[t].records
         /\ tasks'[t].verdict = tasks[t].verdict /\ tasks'[t].doc = tasks[t].doc
         /\ tasks'[t].item = [tasks[t].item EXCEPT ![i] = label]
<1> DEFINE x == [tasks[t] EXCEPT !.item[i] = label]
<1>1. tasks[t] \in Records
  BY TaskNumbers
<1>2. /\ x \in Records /\ x.pc = "items" /\ x.records = tasks[t].records /\ x.verdict = tasks[t].verdict
      /\ x.doc = tasks[t].doc /\ x.item = [tasks[t].item EXCEPT ![i] = label]
  BY <1>1, FieldSet DEF Records
<1>3. tasks' = [tasks EXCEPT ![t] = x]
  OBVIOUS
<1> HIDE DEF x
<1>4. /\ tasks' \in Seq(Records) /\ DOMAIN tasks' = DOMAIN tasks /\ tasks'[t] = x
      /\ \A u \in DOMAIN tasks : u # t => tasks'[u] = tasks[u]
  BY <1>2, <1>3, TaskSet
<1> QED
  BY <1>2, <1>4 DEF Works, Underway, Over, Moving, Closing, unmoved

LEMMA UpdateOfItem ==
  ASSUME TypeOK, NEW t \in DOMAIN tasks, NEW i \in Items, NEW label \in Labels, NEW state \in SlotStates,
         tasks[t].pc = "items", UpdateItem(t, i, state, label)
  PROVE  /\ Works(t) /\ tasks'[t].pc = "items" /\ tasks'[t].records = tasks[t].records
         /\ tasks'[t].verdict = tasks[t].verdict /\ tasks'[t].doc.state = tasks[t].doc.state
         /\ tasks'[t].item = [tasks[t].item EXCEPT ![i] = label]
         /\ UNCHANGED <<log, effects>>
<1> DEFINE x == [tasks[t] EXCEPT !.doc.items[i] = state, !.item[i] = label]
<1>1. tasks[t] \in Records
  BY TaskNumbers
<1>2. /\ x \in Records /\ x.pc = "items" /\ x.records = tasks[t].records /\ x.verdict = tasks[t].verdict
      /\ x.doc.state = tasks[t].doc.state /\ x.item = [tasks[t].item EXCEPT ![i] = label]
  <2>1. x \in Records
    BY <1>1, FieldSet
  <2>2. x.pc = "items" /\ x.records = tasks[t].records /\ x.verdict = tasks[t].verdict
    BY <1>1 DEF Records
  <2>3. x.doc.state = tasks[t].doc.state
    BY <1>1 DEF Records, Documents
  <2>4. x.item = [tasks[t].item EXCEPT ![i] = label]
    BY <1>1 DEF Records
  <2> QED
    BY <2>1, <2>2, <2>3, <2>4
<1>3. /\ tasks' = [tasks EXCEPT ![t] = x]
      /\ \/ disk' = disk /\ faults' = faults
         \/ disk' = x.doc /\ faults' = faults
         \/ disk' = disk /\ faults' = faults + 1
      /\ UNCHANGED <<log, effects, unmoved>>
  BY DEF UpdateItem, Task, Written, Refused, Fault
<1> HIDE DEF x
<1>4. /\ tasks' \in Seq(Records) /\ DOMAIN tasks' = DOMAIN tasks /\ tasks'[t] = x
      /\ \A u \in DOMAIN tasks : u # t => tasks'[u] = tasks[u]
  BY <1>2, <1>3, TaskSet
<1>5. log' \in [Keys -> Outcomes] /\ effects' \in [Keys -> Nat] /\ faults' \in Nat
  BY <1>3 DEF TypeOK
<1> QED
  BY <1>2, <1>3, <1>4, <1>5 DEF Works, Underway, Over, Moving, Closing, unmoved

LEMMA ItemKinds ==
  ASSUME TypeOK, NEW t \in DOMAIN tasks, NEW i \in Items, ItemStep(t, i)
  PROVE  Works(t) /\ \E label \in Labels : ItemGoes(t, i, label)
<1> DEFINE Goal == Works(t) /\ \E label \in Labels : ItemGoes(t, i, label)
<1>l. {"output", "done", "failed", "panicked", "step", "record", "call", "finish", "fail"} \subseteq Labels
  BY DEF Labels
<1>a. ASSUME NEW label \in {"output", "done", "failed", "panicked", "step", "record"}, Move(t, i, label),
             tasks[t].pc = "items", tasks[t].item[i] # "done",
             \/ label \in {"output", "done", "failed", "panicked"} \/ (label = "step" /\ tasks[t].item[i] = "new")
             \/ /\ tasks[t].item[i] = "step" /\ label = "record" /\ tasks[t].records[i] # "Succeeded"
                /\ tasks[t].records[i] \notin {"Failed", "Cancelled"}
                /\ tasks[t].records[i] = "none" \/ i \in replayable
      PROVE  Goal
  <2>1. /\ tasks' = [tasks EXCEPT ![t] = [tasks[t] EXCEPT !.item[i] = label]]
        /\ UNCHANGED <<files, unmoved, faults>>
    BY <1>a DEF Move
  <2>2. /\ log' \in [Keys -> Outcomes] /\ effects' \in [Keys -> Nat] /\ faults' \in Nat /\ disk' = disk
        /\ label \in Labels /\ UNCHANGED unmoved
    BY <1>l, <2>1 DEF TypeOK, files
  <2>3. /\ Works(t) /\ tasks'[t].pc = "items" /\ tasks'[t].records = tasks[t].records
        /\ tasks'[t].verdict = tasks[t].verdict /\ tasks'[t].doc = tasks[t].doc
        /\ tasks'[t].item = [tasks[t].item EXCEPT ![i] = label]
    BY <1>a, <2>1, <2>2, MoveItem
  <2>4. ItemGoes(t, i, label)
    BY <1>a, <2>1, <2>3 DEF ItemGoes, files
  <2> QED
    BY <2>2, <2>3, <2>4
<1>b. ASSUME NEW label \in {"done", "step"}, NEW state \in SlotStates, UpdateItem(t, i, state, label),
             tasks[t].pc = "items", tasks[t].item[i] # "done", label = "step" => tasks[t].item[i] = "new"
      PROVE  Goal
  <2>1. /\ Works(t) /\ tasks'[t].pc = "items" /\ tasks'[t].records = tasks[t].records
        /\ tasks'[t].verdict = tasks[t].verdict /\ tasks'[t].doc.state = tasks[t].doc.state
        /\ tasks'[t].item = [tasks[t].item EXCEPT ![i] = label]
        /\ UNCHANGED <<log, effects>> /\ label \in Labels
    BY <1>b, <1>l, UpdateOfItem
  <2>2. ItemGoes(t, i, label)
    BY <1>b, <2>1 DEF ItemGoes
  <2> QED
    BY <2>1, <2>2
<1>c. ASSUME NEW label \in Labels, Task(t, [tasks[t] EXCEPT !.item[i] = label]),
             tasks[t].pc = "items", UNCHANGED <<disk, unmoved>>, faults' \in Nat,
             log' \in [Keys -> Outcomes], effects' \in [Keys -> Nat],
             tasks[t].item[i] # "done",
             \/ label = "panicked" /\ UNCHANGED <<log, effects>>
             \/ label = "failed" /\ UNCHANGED <<log, effects>>
             \/ /\ tasks[t].item[i] = "record" /\ label = "call"
                /\ log' = [log EXCEPT ![i] = "Running"] /\ UNCHANGED effects
             \/ /\ tasks[t].item[i] = "call" /\ label \in {"finish", "fail"}
                /\ \E acted \in {0, 1} : effects' = [effects EXCEPT ![i] = @ + acted]
                /\ UNCHANGED log
             \/ /\ tasks[t].item[i] \in {"finish", "fail"} /\ label \in {"output", "failed"}
                /\ \E outcome \in {"Succeeded", "Failed", "Cancelled"} : log' = [log EXCEPT ![i] = outcome]
                /\ UNCHANGED effects
      PROVE  Goal
  <2>1. tasks' = [tasks EXCEPT ![t] = [tasks[t] EXCEPT !.item[i] = label]] /\ disk' = disk /\ UNCHANGED unmoved
    BY <1>c DEF Task
  <2>2. /\ Works(t) /\ tasks'[t].pc = "items" /\ tasks'[t].records = tasks[t].records
        /\ tasks'[t].verdict = tasks[t].verdict /\ tasks'[t].doc = tasks[t].doc
        /\ tasks'[t].item = [tasks[t].item EXCEPT ![i] = label]
    BY <1>c, <2>1, MoveItem
  <2>3. ItemGoes(t, i, label)
    BY <1>c, <2>2 DEF ItemGoes
  <2> QED
    BY <2>2, <2>3
<1>0. /\ i \in Keys /\ faults \in Nat /\ log \in [Keys -> Outcomes] /\ effects \in [Keys -> Nat]
      /\ \A outcome \in Outcomes : [log EXCEPT ![i] = outcome] \in [Keys -> Outcomes]
      /\ \A acted \in {0, 1} : [effects EXCEPT ![i] = @ + acted] \in [Keys -> Nat]
  BY DEF TypeOK, Keys
<1>1. CASE BeginItem(t, i)
  <2>1. \/ Move(t, i, "done") \/ Move(t, i, "step")
        \/ UpdateItem(t, i, "Cancelled", "done") \/ UpdateItem(t, i, "Running", "step")
    BY <1>1 DEF BeginItem
  <2> QED
    BY <1>a, <1>b, <1>1, <2>1 DEF BeginItem, Executing, SlotStates, Active
<1>2. CASE Step(t, i)
  <2>1. \/ UpdateItem(t, i, "Cancelled", "done") \/ Move(t, i, "output")
        \/ UpdateItem(t, i, "Failed", "done") \/ UpdateItem(t, i, "NeedsConfirmation", "done")
        \/ /\ Move(t, i, "record") /\ tasks[t].records[i] # "Succeeded"
           /\ tasks[t].records[i] \notin {"Failed", "Cancelled"}
           /\ tasks[t].records[i] = "none" \/ i \in replayable
    BY <1>2 DEF Step, SucceededBefore, MayRerun
  <2>2. tasks[t].pc = "items" /\ tasks[t].item[i] = "step"
    BY <1>2 DEF Step, Executing
  <2> QED
    BY <1>a, <1>b, <2>1, <2>2 DEF SlotStates, Active
<1>3. CASE StepUnavailable(t, i)
  BY <1>b, <1>3 DEF StepUnavailable, Executing, SlotStates
<1>4. CASE RecordStart(t, i)
  BY <1>0, <1>l, <1>c, <1>4 DEF RecordStart, Executing, Record, NoRecord, Fault, Outcomes
<1>5. CASE CallProvider(t, i)
  <2>1. PICK acted \in {0, 1}, label \in {"finish", "fail"} :
          effects' = [effects EXCEPT ![i] = @ + acted] /\ Task(t, [tasks[t] EXCEPT !.item[i] = label])
    BY <1>5 DEF CallProvider
  <2>2. tasks[t].pc = "items" /\ tasks[t].item[i] = "call" /\ UNCHANGED <<disk, log, unmoved, faults>>
    BY <1>5 DEF CallProvider, Executing
  <2> QED
    BY <1>0, <1>l, <1>c, <2>1, <2>2
<1>6. CASE RecordFinish(t, i)
  BY <1>0, <1>l, <1>c, <1>6 DEF RecordFinish, Executing, Record, NoRecord, Fault, Outcomes
<1>7. CASE RecordFailure(t, i)
  BY <1>0, <1>l, <1>c, <1>7 DEF RecordFailure, Executing, Record, NoRecord, Fault, Outcomes, Ended
<1>8. CASE ItemFails(t, i)
  <2>1. Ended(t) \in SlotStates
    BY DEF Ended, SlotStates
  <2> QED
    BY <1>b, <1>8, <2>1 DEF ItemFails, Executing
<1>9. CASE Output(t, i)
  BY <1>b, <1>9 DEF Output, Executing, SlotStates
<1>10. CASE ItemPanics(t, i)
  BY <1>0, <1>l, <1>c, <1>10 DEF ItemPanics, Fault, files
<1> QED
  BY <1>1, <1>2, <1>3, <1>4, <1>5, <1>6, <1>7, <1>8, <1>9, <1>10 DEF ItemStep
\* The task itself moves; the collection's step is written as its last state
\* allows.
RunGoes(t) ==
  \/ /\ tasks[t].pc = "begin" /\ tasks'[t].pc = "items" /\ UNCHANGED <<log, effects>>
     /\ tasks'[t].records = log /\ tasks'[t].item = tasks[t].item
  \/ /\ tasks'[t].pc \in {"keep", "settle", "leave", "error"} /\ UNCHANGED effects
     /\ \/ UNCHANGED log
        \/ /\ tasks[t].pc \in {"create", "creating", "created"}
           /\ \E outcome \in Outcomes : log' = [log EXCEPT ![TheCollection] = outcome]
  \/ /\ tasks[t].pc = "items" /\ tasks'[t].pc = "create" /\ UNCHANGED <<log, effects>>
     /\ tasks[t].records[TheCollection] # "Succeeded"
  \/ /\ tasks[t].pc = "create" /\ tasks'[t].pc = "creating" /\ UNCHANGED effects
     /\ log' = [log EXCEPT ![TheCollection] = "Running"]
  \/ /\ tasks[t].pc = "creating" /\ tasks'[t].pc = "created" /\ UNCHANGED log
     /\ effects' = [effects EXCEPT ![TheCollection] = @ + 1]

LEMMA Replaced ==
  ASSUME TypeOK, NEW t \in DOMAIN tasks, NEW x \in Records, Task(t, x),
         tasks[t].pc \in Moving, x.pc \in Moving,
         x.doc.state \in {tasks[t].doc.state} \cup (RunStates \ Active),
         x.pc \in Closing => x.verdict \notin Active,
         x.pc = "leave" => x.doc.state \notin Active,
         disk' \in {disk, x.doc}, log' \in [Keys -> Outcomes], effects' \in [Keys -> Nat],
         faults' \in Nat, UNCHANGED unmoved
  PROVE  Works(t) /\ tasks'[t] = x
<1>1. /\ tasks' \in Seq(Records) /\ DOMAIN tasks' = DOMAIN tasks /\ tasks'[t] = x
      /\ \A u \in DOMAIN tasks : u # t => tasks'[u] = tasks[u]
  BY TaskSet DEF Task
<1>2. Underway(t)
  BY DEF Underway, Moving, Closing, Over
<1> QED
  BY <1>1, <1>2 DEF Works, unmoved

LEMMA RunKinds ==
  ASSUME TypeOK, Copies, NEW t \in DOMAIN tasks, TaskStep(t), ~Leave(t), \A i \in Items : ~ItemStep(t, i)
  PROVE  Works(t) /\ RunGoes(t)
<1> DEFINE Goal == Works(t) /\ RunGoes(t)
<1>0. tasks[t] \in Records
  BY TaskNumbers
<1>1. /\ TheCollection \in Keys /\ faults \in Nat /\ log \in [Keys -> Outcomes] /\ effects \in [Keys -> Nat]
      /\ \A outcome \in Outcomes : [log EXCEPT ![TheCollection] = outcome] \in [Keys -> Outcomes]
      /\ [effects EXCEPT ![TheCollection] = @ + 1] \in [Keys -> Nat]
  BY DEF TypeOK, Keys
<1>2. \A label \in Moving : LET x == [tasks[t] EXCEPT !.pc = label] IN
        /\ x \in Records /\ x.pc = label /\ x.doc = tasks[t].doc /\ x.verdict = tasks[t].verdict
        /\ x.records = tasks[t].records /\ x.item = tasks[t].item
  BY <1>0, FieldSet DEF Records
<1>3. \A label \in Moving, state \in RunStates : LET x == [tasks[t] EXCEPT !.verdict = state, !.pc = label] IN
        x \in Records /\ x.pc = label /\ x.doc = tasks[t].doc /\ x.verdict = state
  BY <1>0, FieldSet DEF Records
<1>4. \A label \in Moving, doc \in Documents : LET x == [tasks[t] EXCEPT !.doc = doc, !.pc = label] IN
        x \in Records /\ x.pc = label /\ x.doc = doc /\ x.verdict = tasks[t].verdict
  BY <1>0, FieldSet DEF Records
<1>5. /\ tasks[t].doc \in Documents /\ tasks[t].doc.state \in RunStates /\ tasks[t].verdict \in RunStates
      /\ \A state \in RunStates : LET doc == [tasks[t].doc EXCEPT !.state = state] IN
           doc \in Documents /\ doc.state = state
      /\ [tasks[t].doc EXCEPT !.collection = TRUE] \in Documents
      /\ [tasks[t].doc EXCEPT !.collection = TRUE].state = tasks[t].doc.state
  BY <1>0 DEF Records, Documents
<1>6. /\ \A label \in Moving \cup Over : SetTask(t, label) => Task(t, [tasks[t] EXCEPT !.pc = label])
      /\ NoCollection(t) => Task(t, [tasks[t] EXCEPT !.verdict = "Failed", !.pc = "settle"])
  BY DEF SetTask, Task, NoCollection
<1>7. /\ tasks[t].pc \in Closing => tasks[t].verdict \notin Active
      /\ {"items", "begin", "error", "leave", "create", "creating", "created", "keep", "settle"} \subseteq Moving
      /\ {"create", "creating", "created", "keep", "settle"} = Closing
      /\ {"Failed", "Running", "Completed", "Cancelled", "NeedsConfirmation"} \subseteq RunStates
      /\ {"Failed", "Completed", "Cancelled", "NeedsConfirmation"} \cap Active = {}
  BY DEF Copies, Moving, Closing, RunStates, Active
<1>d. /\ "error" \in Moving \ Closing /\ "leave" \in Moving \ Closing
      /\ "begin" \in Moving /\ "items" \in Moving /\ "error" # "leave"
  BY DEF Moving, Closing
<1>8. CASE ExecuteInner(t)
  <2> DEFINE x == [tasks[t] EXCEPT !.pc = "items", !.records = log]
  <2>1. CASE Task(t, x) /\ UNCHANGED faults
    <3>1. x \in Records /\ x.pc = "items" /\ x.records = log /\ x.item = tasks[t].item /\ x.doc = tasks[t].doc
      BY <1>0, <1>1, <1>7, FieldSet DEF Records
    <3>2. tasks[t].pc = "begin" /\ UNCHANGED <<disk, log, effects, unmoved>>
      BY <1>8 DEF ExecuteInner, files
    <3> HIDE DEF x
    <3>3. Works(t) /\ tasks'[t] = x
      BY <1>1, <1>5, <1>7, <2>1, <3>1, <3>2, Replaced
    <3> QED
      BY <3>1, <3>2, <3>3 DEF RunGoes
  <2>2. CASE SetTask(t, "error") /\ Fault
    <3>1. PICK y : y = [tasks[t] EXCEPT !.pc = "error"]
      OBVIOUS
    <3>2. tasks[t].pc = "begin" /\ UNCHANGED <<disk, log, effects, unmoved>> /\ Task(t, y) /\ faults' \in Nat
      BY <1>1, <1>6, <1>7, <1>8, <2>2, <3>1 DEF ExecuteInner, files, Fault
    <3>3. y \in Records /\ y.pc = "error" /\ y.pc \notin Closing /\ y.doc = tasks[t].doc
      BY <1>2, <1>d, <3>1
    <3>4. Works(t) /\ tasks'[t] = y
      BY <1>1, <1>d, <3>2, <3>3, Replaced
    <3> QED
      BY <3>2, <3>3, <3>4 DEF RunGoes
  <2> QED
    BY <1>8, <2>1, <2>2 DEF ExecuteInner
<1>9. CASE Derive(t)
  <2>1. DeriveRunState(t) \in {"Failed", "Completed", "Cancelled", "NeedsConfirmation"}
    BY DEF DeriveRunState
  <2>2. PICK label \in {"settle", "keep", "create"} :
          /\ Task(t, [tasks[t] EXCEPT !.verdict = DeriveRunState(t), !.pc = label])
          /\ label = "create" => tasks[t].records[TheCollection] # "Succeeded"
    BY <1>9 DEF Derive, SucceededBefore
  <2>3. tasks[t].pc = "items" /\ UNCHANGED <<disk, log, effects, unmoved, faults>>
    BY <1>9 DEF Derive, files
  <2>4. PICK y : y = [tasks[t] EXCEPT !.verdict = DeriveRunState(t), !.pc = label]
    OBVIOUS
  <2>7. label \in Moving /\ DeriveRunState(t) \in RunStates /\ DeriveRunState(t) \notin Active
    BY <1>7, <2>1, <2>2
  <2>5. y \in Records /\ y.pc = label /\ y.doc = tasks[t].doc /\ y.verdict = DeriveRunState(t)
    BY <1>3, <2>4, <2>7
  <2>6. Works(t) /\ tasks'[t] = y
    <3>1. Task(t, y) /\ tasks[t].pc \in Moving /\ y.pc \in Moving /\ y.pc # "leave" /\ y.verdict \notin Active
      BY <1>d, <2>2, <2>3, <2>4, <2>5, <2>7
    <3> QED
      BY <1>1, <2>3, <2>5, <3>1, Replaced
  <2> QED
    BY <2>2, <2>3, <2>5, <2>6 DEF RunGoes
<1>a. ASSUME NEW label \in Moving, SetTask(t, label), tasks[t].pc \in Moving, UNCHANGED <<disk, unmoved>>,
             label = "leave" => tasks[t].doc.state \notin Active,
             label \in Closing => tasks[t].pc \in Closing,
             log' \in [Keys -> Outcomes], effects' \in [Keys -> Nat], faults' \in Nat
      PROVE  Works(t) /\ tasks'[t].pc = label
  <2>1. PICK y : y = [tasks[t] EXCEPT !.pc = label]
    OBVIOUS
  <2>2. y \in Records /\ y.pc = label /\ y.doc = tasks[t].doc /\ y.verdict = tasks[t].verdict /\ Task(t, y)
    BY <1>2, <1>6, <1>a, <2>1
  <2>3. Works(t) /\ tasks'[t] = y
    BY <1>5, <1>7, <1>a, <2>2, Replaced
  <2> QED
    BY <2>2, <2>3
<1>b. ASSUME NoCollection(t), tasks[t].pc \in Moving, UNCHANGED <<disk, unmoved>>,
             log' \in [Keys -> Outcomes], effects' \in [Keys -> Nat], faults' \in Nat
      PROVE  Works(t) /\ tasks'[t].pc = "settle"
  <2>1. PICK y : y = [tasks[t] EXCEPT !.verdict = "Failed", !.pc = "settle"]
    OBVIOUS
  <2>2. y \in Records /\ y.pc = "settle" /\ y.doc = tasks[t].doc /\ y.verdict = "Failed" /\ Task(t, y)
    BY <1>3, <1>6, <1>7, <1>b, <2>1
  <2>3. Works(t) /\ tasks'[t] = y
    BY <1>5, <1>7, <1>b, <2>2, Replaced
  <2> QED
    BY <2>2, <2>3
<1>10. CASE CreateStart(t)
  <2>1. tasks[t].pc = "create" /\ UNCHANGED <<disk, effects, unmoved>>
    BY <1>10 DEF CreateStart
  <2>2. CASE Record(TheCollection, "Running") /\ SetTask(t, "creating")
    <3>1. log' \in [Keys -> Outcomes] /\ log' = [log EXCEPT ![TheCollection] = "Running"] /\ faults' \in Nat
      BY <1>1, <2>2 DEF Record, Outcomes
    <3>2. Works(t) /\ tasks'[t].pc = "creating"
      BY <1>1, <1>7, <1>a, <2>1, <2>2, <3>1
    <3> QED
      BY <2>1, <3>1, <3>2 DEF RunGoes
  <2>3. CASE NoRecord /\ NoCollection(t)
    <3>1. log' = log /\ faults' \in Nat
      BY <1>1, <2>3 DEF NoRecord, Fault
    <3>2. Works(t) /\ tasks'[t].pc = "settle"
      BY <1>1, <1>7, <1>b, <2>1, <2>3, <3>1
    <3> QED
      BY <2>1, <3>1, <3>2 DEF RunGoes
  <2> QED
    BY <1>10, <2>2, <2>3 DEF CreateStart
<1>11. CASE CreateCollection(t)
  <2>1. /\ tasks[t].pc = "creating" /\ SetTask(t, "created") /\ UNCHANGED <<disk, log, unmoved, faults>>
        /\ effects' = [effects EXCEPT ![TheCollection] = @ + 1]
    BY <1>11 DEF CreateCollection
  <2>2. Works(t) /\ tasks'[t].pc = "created"
    BY <1>1, <1>7, <1>a, <2>1
  <2> QED
    BY <2>1, <2>2 DEF RunGoes
<1>12. CASE CreateFails(t)
  <2>1. tasks[t].pc = "creating" /\ NoCollection(t) /\ UNCHANGED <<disk, effects, unmoved>>
    BY <1>12 DEF CreateFails
  <2>2. /\ log' = log \/ \E outcome \in Outcomes : log' = [log EXCEPT ![TheCollection] = outcome]
        /\ log' \in [Keys -> Outcomes] /\ faults' \in Nat
    BY <1>1, <1>12 DEF CreateFails, Record, NoRecord, Fault, Outcomes
  <2>3. Works(t) /\ tasks'[t].pc = "settle"
    BY <1>1, <1>7, <1>b, <2>1, <2>2
  <2> QED
    BY <2>1, <2>2, <2>3 DEF RunGoes
<1>13. CASE CreateFinish(t)
  <2>1. tasks[t].pc = "created" /\ UNCHANGED <<disk, effects, unmoved>>
    BY <1>13 DEF CreateFinish
  <2>2. CASE Record(TheCollection, "Succeeded") /\ SetTask(t, "keep")
    <3>1. /\ \E outcome \in Outcomes : log' = [log EXCEPT ![TheCollection] = outcome]
          /\ log' \in [Keys -> Outcomes] /\ faults' \in Nat
      BY <1>1, <2>2 DEF Record, Outcomes
    <3>2. Works(t) /\ tasks'[t].pc = "keep"
      BY <1>1, <1>7, <1>a, <2>1, <2>2, <3>1
    <3> QED
      BY <2>1, <3>1, <3>2 DEF RunGoes
  <2>3. CASE NoRecord /\ NoCollection(t)
    <3>1. log' = log /\ faults' \in Nat
      BY <1>1, <2>3 DEF NoRecord, Fault
    <3>2. Works(t) /\ tasks'[t].pc = "settle"
      BY <1>1, <1>7, <1>b, <2>1, <2>3, <3>1
    <3> QED
      BY <2>1, <3>1, <3>2 DEF RunGoes
  <2> QED
    BY <1>13, <2>2, <2>3 DEF CreateFinish
<1>c. ASSUME NEW doc \in Documents, NEW label \in {"settle", "leave"}, WriteEnd(t, doc, label),
             tasks[t].pc \in {"keep", "settle"},
             doc.state = IF label = "leave" THEN tasks[t].verdict ELSE tasks[t].doc.state
      PROVE  Goal
  <2>1. PICK to_ \in {label, "error"} :
          /\ Task(t, [tasks[t] EXCEPT !.doc = doc, !.pc = to_]) /\ disk' \in {disk, doc} /\ faults' \in Nat
          /\ UNCHANGED <<log, effects, unmoved>>
    BY <1>1, <1>c DEF WriteEnd, Written, Refused, Fault
  <2>2. PICK y : y = [tasks[t] EXCEPT !.doc = doc, !.pc = to_]
    OBVIOUS
  <2>6. to_ \in Moving /\ tasks[t].pc \in Moving
    BY <1>7, <1>c, <2>1
  <2>3. y \in Records /\ y.pc = to_ /\ y.doc = doc /\ y.verdict = tasks[t].verdict
    BY <1>4, <1>c, <2>2, <2>6
  <2>7. (y.pc \in Closing => y.verdict \notin Active) /\ (y.pc = "leave" => label = "leave")
    BY <1>7, <1>c, <2>1, <2>3
  <2>4. doc.state \in {tasks[t].doc.state} \cup (RunStates \ Active)
        /\ (label = "leave" => doc.state \notin Active)
    BY <1>5, <1>7, <1>c
  <2>5. Works(t) /\ tasks'[t] = y
    BY <1>1, <2>1, <2>2, <2>3, <2>4, <2>6, <2>7, Replaced
  <2> QED
    BY <2>1, <2>3, <2>5 DEF RunGoes
<1>14. CASE KeepCollection(t)
  BY <1>5, <1>c, <1>14 DEF KeepCollection, Doc
<1>15. CASE Settle(t)
  BY <1>5, <1>c, <1>15 DEF Settle, Doc
<1>16. CASE FailRun(t)
  <2>1. tasks[t].pc = "error" /\ UNCHANGED <<log, effects, unmoved>>
    BY <1>16 DEF FailRun
  <2>2. CASE tasks[t].doc.state \in Active
    <3>1. PICK doc : doc = [Doc(t) EXCEPT !.state = "Failed",
                              !.items = [i \in Items |-> IF @[i] \in Active THEN "Failed" ELSE @[i]]]
      OBVIOUS
    <3>2. doc \in Documents /\ doc.state = "Failed"
      BY <1>5, <3>1 DEF Doc, Documents, RunStates, SlotStates
    <3>3. /\ Task(t, [tasks[t] EXCEPT !.doc = doc, !.pc = "leave"])
          /\ disk' \in {disk, doc} /\ faults' \in Nat
      BY <1>1, <1>16, <2>2, <3>1 DEF FailRun, Written, Refused, Fault, Doc
    <3>4. PICK y : y = [tasks[t] EXCEPT !.doc = doc, !.pc = "leave"]
      OBVIOUS
    <3>5. y \in Records /\ y.pc = "leave" /\ y.doc = doc /\ y.pc \notin Closing /\ y.pc \in Moving
      BY <1>4, <1>d, <3>2, <3>4
    <3>7. doc.state \in RunStates \ Active /\ tasks[t].pc \in Moving
      BY <1>7, <2>1, <3>2
    <3>6. Works(t) /\ tasks'[t] = y
      BY <1>1, <2>1, <3>3, <3>4, <3>5, <3>7, Replaced
    <3> QED
      BY <2>1, <3>5, <3>6 DEF RunGoes
  <2>3. CASE tasks[t].doc.state \notin Active
    <3>1. SetTask(t, "leave") /\ UNCHANGED <<disk, faults>>
      BY <1>16, <2>3 DEF FailRun, Doc
    <3>2. Works(t) /\ tasks'[t].pc = "leave"
      BY <1>1, <1>7, <1>a, <2>1, <2>3, <3>1
    <3> QED
      BY <2>1, <3>2 DEF RunGoes
  <2> QED
    BY <2>2, <2>3
<1> QED
  BY <1>8, <1>9, <1>10, <1>11, <1>12, <1>13, <1>14, <1>15, <1>16 DEF TaskStep
-----------------------------------------------------------------------------
(* What a call's step does *)

\* It touches no other call, nor another's guard or wake-up.
Own(c) ==
  /\ pc' \in [Calls -> CallStates]
  /\ op' \in [Calls -> {"none", "run", "get", "resume", "cancel"}]
  /\ mine' \in [Calls -> Nat] /\ read' \in [Calls -> Documents \cup {NoDoc}] /\ woken' \subseteq Calls
  /\ guard' \in Calls \cup {NoCall}
  /\ \A d \in Calls : d # c =>
       /\ pc'[d] = pc[d] /\ op'[d] = op[d] /\ mine'[d] = mine[d] /\ read'[d] = read[d]
       /\ (guard = d => guard' = d) /\ (d \in woken => d \in woken')

\* It leaves what the calls and the tasks share alone.
Quiet == UNCHANGED <<files, closing, active, tasks, replayable, faults, crashes>>

LEMMA ReturnOwn ==
  ASSUME TypeOK, NEW c \in Calls, Return(c)
  PROVE  Own(c) /\ pc'[c] = "idle" /\ op'[c] = "none"
<1>1. /\ pc' = [pc EXCEPT ![c] = "idle"] /\ op' = [op EXCEPT ![c] = "none"]
      /\ mine' = [mine EXCEPT ![c] = 0] /\ read' = [read EXCEPT ![c] = NoDoc]
      /\ woken' = woken \ {c} /\ guard' = IF guard = c THEN NoCall ELSE guard
  BY DEF Return, Reset, Release, Goto
<1>2. pc' \in [Calls -> CallStates]
  BY <1>1 DEF TypeOK, CallStates
<1> QED
  BY <1>1, <1>2 DEF TypeOK, Own, CallStates

\* It goes to a label, perhaps with another claim in hand or document read,
\* and holds or gives back its guard.
LEMMA GotoOwn ==
  ASSUME TypeOK, NEW c \in Calls, NEW label \in CallStates, Goto(c, label),
         UNCHANGED guard \/ Release(c) \/ (guard = NoCall /\ guard' = c),
         UNCHANGED op \/ \E what \in {"none", "run", "get", "resume", "cancel"} : op' = [op EXCEPT ![c] = what],
         UNCHANGED mine \/ \E t \in Nat : mine' = [mine EXCEPT ![c] = t],
         UNCHANGED read \/ \E doc \in Documents \cup {NoDoc} : read' = [read EXCEPT ![c] = doc],
         woken \subseteq woken', woken' \subseteq Calls
  PROVE  Own(c) /\ pc'[c] = label
<1>1. pc' \in [Calls -> CallStates] /\ pc'[c] = label /\ \A d \in Calls : d # c => pc'[d] = pc[d]
  BY DEF TypeOK, CallStates, Goto
<1>2. /\ op' \in [Calls -> {"none", "run", "get", "resume", "cancel"}]
      /\ \A d \in Calls : d # c => op'[d] = op[d]
  BY DEF TypeOK
<1>3. mine' \in [Calls -> Nat] /\ \A d \in Calls : d # c => mine'[d] = mine[d]
  BY DEF TypeOK
<1>4. read' \in [Calls -> Documents \cup {NoDoc}] /\ \A d \in Calls : d # c => read'[d] = read[d]
  BY DEF TypeOK
<1>5. guard' \in Calls \cup {NoCall} /\ \A d \in Calls : d # c /\ guard = d => guard' = d
  BY CallsAssumption DEF TypeOK, Release
<1> QED
  BY <1>1, <1>2, <1>3, <1>4, <1>5 DEF Own

LEMMA CallFrames ==
  ASSUME TypeOK, NEW c \in Calls, CallStep(c)
  PROVE  /\ Own(c) /\ faults' \in Nat /\ UNCHANGED <<log, effects, closing, replayable, crashes>>
         /\ \/ Quiet \/ Normalize(c) \/ Claim(c) \/ Insert(c)
            \/ WriteClaim(c) \/ WriteClaimFails(c) \/ Cancel(c)
<1> DEFINE Frame == Own(c) /\ faults' \in Nat /\ UNCHANGED <<log, effects, closing, replayable, crashes>>
<1>0. /\ active \in Nat /\ Len(tasks) + 1 \in Nat /\ faults \in Nat /\ disk \in Documents \cup {NoDoc}
      /\ woken \subseteq Calls /\ 0 \in Nat
      /\ \A l \in {"idle", "guard", "guardAgain", "look", "find", "settled", "arm", "wait"} : l \in CallStates
      /\ \A l \in {"load", "normalize", "reload", "claim", "insert", "write"} : l \in CallStates
  BY TaskNumbers DEF TypeOK, CallStates, Guarded, Cancelling
<1>1. CASE CallRun(c) \/ CallGet(c) \/ CallResume(c) \/ CallCancel(c)
  <2>1. \E what \in {"run", "get", "resume", "cancel"}, l \in {"guard", "look", "find"} : Call(c, what, l)
    BY <1>1 DEF CallRun, CallGet, CallResume, CallCancel
  <2> QED
    BY <1>0, <2>1, GotoOwn DEF Call, Quiet, files, service
<1>2. CASE Look(c)
  BY <1>0, <1>2, ReturnOwn, GotoOwn DEF Look, Quiet, files
<1>3. CASE TakeGuard(c)
  BY <1>0, <1>3, GotoOwn DEF TakeGuard, Quiet, files
<1>4. CASE Load(c)
  BY <1>0, <1>4, ReturnOwn, GotoOwn DEF Load, Again, Quiet, files
<1>5. CASE Reload(c)
  BY <1>0, <1>5, ReturnOwn, GotoOwn DEF Reload, Quiet, files
<1>6. CASE ClaimRefused(c) \/ CancelReturns(c) \/ SettledBefore(c)
  BY <1>0, <1>6, ReturnOwn, GotoOwn DEF ClaimRefused, CancelReturns, SettledBefore, Quiet, files
<1>7. CASE Find(c)
  BY <1>0, <1>7, GotoOwn DEF Find, Quiet, files, service
<1>8. CASE Normalize(c)
  <2>1. faults' \in Nat
    BY <1>0, <1>8 DEF Normalize, Written, Refused, Fault
  <2>2. Own(c)
    BY <1>0, <1>8, ReturnOwn, GotoOwn DEF Normalize, Again
  <2> QED
    BY <1>8, <2>1, <2>2 DEF Normalize
<1>9. CASE Claim(c)
  BY <1>0, <1>9, GotoOwn DEF Claim, files, service
<1>10. CASE Insert(c)
  BY <1>0, <1>10, ReturnOwn, GotoOwn DEF Insert, files
<1>11. CASE WriteClaim(c)
  BY <1>0, <1>11, ReturnOwn DEF WriteClaim, Written
<1>12. CASE WriteClaimFails(c)
  <2>1. faults' \in Nat /\ woken \subseteq woken' /\ woken' \subseteq Calls
    BY <1>0, <1>12 DEF WriteClaimFails, Refused, Fault, NotifyWaiters
  <2> QED
    BY <1>0, <1>12, <2>1, GotoOwn DEF WriteClaimFails
<1>13. CASE Cancel(c)
  BY <1>0, <1>13, ReturnOwn, GotoOwn DEF Cancel, files
<1> QED
  BY <1>1, <1>2, <1>3, <1>4, <1>5, <1>6, <1>7, <1>8, <1>9, <1>10, <1>11, <1>12, <1>13 DEF CallStep

\* What a call still claims or waits for after its step, and what it needs
\* for that.
LEMMA CallOwn ==
  ASSUME TypeOK, Held, Found, NEW c \in Calls, CallStep(c)
  PROVE  /\ pc'[c] \in Guarded => guard' = c
         /\ pc'[c] # "idle" /\ op'[c] # "run" => disk' # NoDoc
         /\ pc'[c] \in {"find", "look", "guardAgain", "load", "normalize", "reload"} => op'[c] # "run"
         /\ pc'[c] = "normalize" \/ (pc'[c] = "claim" /\ op'[c] # "run") => read'[c] # NoDoc
         /\ pc'[c] = "insert" => Claim(c)
         /\ pc'[c] = "write" => Insert(c) /\ pc[c] = "insert" /\ closing = "no" /\ active = 0
         /\ pc'[c] = "settled" => mine'[c] = active /\ active # 0
         /\ pc'[c] = "arm" => pc[c] = "settled" /\ mine'[c] = mine[c]
         /\ pc'[c] = "wait" => pc[c] = "arm" /\ mine'[c] = mine[c] /\ Cancel(c)
         /\ pc'[c] = "normalize" => active = 0 /\ active' = 0
<1> USE DEF TypeOK, Guarded, Cancelling, Goto, Release, Reset, Return, Held, Found
<1>1. CASE CallRun(c) \/ CallGet(c) \/ CallResume(c) \/ CallCancel(c)
  BY <1>1 DEF CallRun, CallGet, CallResume, CallCancel, Call, files
<1>2. CASE Look(c)
  BY <1>2 DEF Look, files
<1>3. CASE TakeGuard(c)
  BY <1>3 DEF TakeGuard, files
<1>4. CASE Load(c)
  BY <1>4 DEF Load, Again, files
<1>5. CASE Reload(c)
  BY <1>5 DEF Reload, files
<1>6. CASE ClaimRefused(c) \/ CancelReturns(c) \/ SettledBefore(c)
  BY <1>6 DEF ClaimRefused, CancelReturns, SettledBefore, files
<1>7. CASE Find(c)
  BY <1>7 DEF Find, files
<1>8. CASE Normalize(c)
  <2>1. pc'[c] = "guardAgain" \/ pc'[c] = "idle"
    BY <1>8 DEF Normalize, Again
  <2>2. pc'[c] = "guardAgain" => disk' = [read[c] EXCEPT !.state = "Interrupted"] /\ op'[c] = op[c]
    BY <1>8 DEF Normalize, Again, Written
  <2>3. [read[c] EXCEPT !.state = "Interrupted"] \in Documents
    <3>1. read[c] \in Documents
      BY <1>8 DEF Normalize
    <3> QED
      BY <3>1 DEF Documents, RunStates
  <2>4. pc'[c] = "guardAgain" => disk' # NoDoc /\ op'[c] # "run"
    BY <1>8, <2>2, <2>3, DocAssumption DEF Normalize
  <2> QED
    BY <2>1, <2>4
<1>9. CASE Claim(c)
  BY <1>9 DEF Claim, files, service
<1>10. CASE Insert(c)
  BY <1>10 DEF Insert, files
<1>11. CASE WriteClaim(c)
  BY <1>11 DEF WriteClaim
<1>12. CASE WriteClaimFails(c)
  BY <1>12 DEF WriteClaimFails
<1>13. CASE Cancel(c)
  BY <1>13 DEF Cancel, files
<1> QED
  BY <1>1, <1>2, <1>3, <1>4, <1>5, <1>6, <1>7, <1>8, <1>9, <1>10, <1>11, <1>12, <1>13 DEF CallStep
\* What becomes of a task in a step that is not its own.
Kept(t) ==
  /\ tasks'[t].pc = tasks[t].pc /\ tasks'[t].doc = tasks[t].doc /\ tasks'[t].verdict = tasks[t].verdict
  /\ tasks'[t].records = tasks[t].records /\ tasks'[t].item = tasks[t].item
Begun(t) ==
  /\ tasks[t].pc = "gated" /\ tasks'[t].pc = "begin"
  /\ tasks'[t].doc = tasks[t].doc /\ tasks'[t].item = tasks[t].item
Others(S) == \A u \in DOMAIN tasks \ S : Kept(u)

\* A call does nothing to the tasks, or normalizes a document that has none,
Passes(c) ==
  /\ DOMAIN tasks' = DOMAIN tasks /\ Others({}) /\ active' = active
  /\ disk' = disk \/ (pc[c] = "normalize" /\ disk' \in Documents)
  /\ pc'[c] \notin {"insert", "write"}
\* has a task spawned,
Spawns(c) ==
  \E t \in Nat \ DOMAIN tasks :
    /\ DOMAIN tasks' = DOMAIN tasks \cup {t} /\ Others({})
    /\ tasks'[t].pc = "gated" /\ tasks'[t].doc.state = "Running" /\ \A i \in Items : tasks'[t].item[i] = "new"
    /\ active' = active /\ disk' = disk /\ active # t /\ pc'[c] = "insert" /\ mine'[c] = t
\* registers it,
Registers(c) ==
  /\ pc[c] = "insert" /\ closing = "no" /\ active = 0 /\ active' = mine[c]
  /\ tasks' = tasks /\ disk' = disk /\ pc'[c] = "write" /\ mine'[c] = mine[c]
\* gives it up,
GivesUp(c) ==
  /\ DOMAIN tasks' = DOMAIN tasks /\ Others({mine[c]}) /\ tasks'[mine[c]].pc = "aborted"
  /\ (pc[c] = "insert" /\ active' = active) \/ (pc[c] = "write" /\ active' = 0)
  /\ disk' = disk /\ pc'[c] = "idle"
\* or lets it begin.
LetsBegin(c) ==
  /\ DOMAIN tasks' = DOMAIN tasks /\ Others({mine[c]})
  /\ Kept(mine[c]) \/ Begun(mine[c])
  /\ tasks'[mine[c]].pc # "gated"
  /\ active' = active /\ pc[c] = "write" /\ disk' = tasks[mine[c]].doc /\ pc'[c] = "idle"

LEMMA CallEffects ==
  ASSUME TypeOK, Held, Found, InHand, NEW c \in Calls, CallStep(c)
  PROVE  /\ tasks' \in Seq(Records) /\ disk' \in Documents \cup {NoDoc}
         /\ Passes(c) \/ Spawns(c) \/ Registers(c) \/ GivesUp(c) \/ LetsBegin(c)
<1> DEFINE Goal ==
      /\ tasks' \in Seq(Records) /\ disk' \in Documents \cup {NoDoc}
      /\ Passes(c) \/ Spawns(c) \/ Registers(c) \/ GivesUp(c) \/ LetsBegin(c)
<1>0. /\ tasks \in Seq(Records) /\ disk \in Documents \cup {NoDoc}
      /\ pc[c] \in Claimed \cup Cancelling => mine[c] \in DOMAIN tasks
  BY DEF TypeOK, InHand
<1>1. CASE Quiet
  <2>1. pc'[c] \notin {"insert", "write"}
    <3>1. pc'[c] = "insert" => tasks' # tasks
      <4>1. Claim(c) => tasks' # tasks
        <5>1. ASSUME Claim(c) PROVE Len(tasks') = Len(tasks) + 1
          BY <5>1, <1>0, TaskNumbers DEF Claim
        <5> QED
          BY <5>1, TaskNumbers
      <4> QED
        BY <4>1, CallOwn
    <3>2. pc'[c] = "write" => active' # active
      <4>1. ASSUME pc'[c] = "write" PROVE active' # active
        <5>1. Insert(c) /\ pc[c] = "insert" /\ closing = "no" /\ active = 0
          BY <4>1, CallOwn
        <5>2. active' = mine[c]
          BY <5>1 DEF Insert
        <5> QED
          BY <1>0, <5>1, <5>2, TaskNumbers DEF Claimed
      <4> QED
        BY <4>1
    <3> QED
      BY <1>1, <3>1, <3>2 DEF Quiet
  <2>2. Passes(c)
    BY <1>1, <2>1 DEF Passes, Quiet, Others, Kept, files
  <2> QED
    BY <1>0, <1>1, <2>2 DEF Quiet, files
<1>2. CASE Normalize(c)
  <2>1. read[c] \in Documents
    BY <1>2 DEF Normalize, TypeOK, Found
  <2>2. disk' \in Documents \/ disk' = disk
    BY <1>2, <2>1 DEF Normalize, Written, Refused, Documents, RunStates
  <2>3. pc'[c] \in {"guardAgain", "idle"}
    BY <1>2 DEF Normalize, Again, Return, Reset, Goto, TypeOK
  <2>4. Passes(c)
    BY <1>2, <2>2, <2>3 DEF Normalize, Passes, Others, Kept
  <2> QED
    BY <1>0, <1>2, <2>2, <2>4 DEF Normalize
<1>3. CASE Claim(c)
  <2>1. PICK doc \in Documents : tasks' = Append(tasks, Gated(doc))
    <3>1. (IF op[c] = "run" THEN NewDoc ELSE read[c]) \in Documents
      BY <1>3, NewDocType DEF Claim, TypeOK, Found
    <3> QED
      BY <1>3, <3>1 DEF Claim
  <2>2. PICK x \in Records : x = Gated(doc)
    BY GatedType
  <2>3. /\ tasks' \in Seq(Records) /\ DOMAIN tasks' = DOMAIN tasks \cup {Len(tasks) + 1}
        /\ tasks'[Len(tasks) + 1] = x /\ \A u \in DOMAIN tasks : tasks'[u] = tasks[u]
        /\ Len(tasks) + 1 \in Nat \ DOMAIN tasks /\ active # Len(tasks) + 1
    <3>1. tasks' = Append(tasks, x) /\ Len(tasks) \in Nat /\ active \in {0} \cup DOMAIN tasks
      BY <2>1, <2>2, TaskNumbers DEF TypeOK
    <3> QED
      BY <1>0, <3>1
  <2>4. x.pc = "gated" /\ x.doc.state = "Running" /\ \A i \in Items : x.item[i] = "new"
    BY <2>2, GatedType
  <2>5. Spawns(c)
    <3>1. /\ active' = active /\ disk' = disk /\ pc'[c] = "insert" /\ mine'[c] = Len(tasks) + 1
      BY <1>3 DEF Claim, Goto, service, files, TypeOK
    <3> QED
      BY <2>3, <2>4, <3>1 DEF Spawns, Others, Kept
  <2> QED
    BY <1>0, <1>3, <2>3, <2>5 DEF Claim, files
<1>4. CASE Insert(c)
  <2>1. CASE closing = "no" /\ active = 0
    <3>1. Registers(c)
      BY <1>4, <2>1 DEF Insert, Registers, files, Goto, TypeOK
    <3> QED
      BY <1>0, <1>4, <3>1 DEF Insert, files, Registers
  <2>2. CASE ~(closing = "no" /\ active = 0)
    <3>1. /\ mine[c] \in DOMAIN tasks /\ Ends(mine[c], "aborted", tasks[mine[c]].doc.state)
          /\ tasks[mine[c]].doc.state \in RunStates
      BY <1>0, <1>4, <2>2, TaskNumbers DEF Insert, Aborts, Claimed, Records, Documents
    <3>2. /\ tasks' \in Seq(Records) /\ DOMAIN tasks' = DOMAIN tasks /\ tasks'[mine[c]].pc = "aborted"
          /\ \A u \in DOMAIN tasks : u # mine[c] => tasks'[u] = tasks[u]
      BY <3>1, EndsType DEF Over
    <3>3. GivesUp(c)
      BY <1>4, <2>2, <3>2, ReturnOwn DEF Insert, GivesUp, Others, Kept, files
    <3> QED
      BY <1>0, <1>4, <3>2, <3>3 DEF Insert, files
  <2> QED
    BY <2>1, <2>2
<1>5. CASE WriteClaim(c)
  <2>1. mine[c] \in DOMAIN tasks /\ tasks[mine[c]] \in Records /\ pc[c] = "write"
    BY <1>0, <1>5, TaskNumbers DEF WriteClaim, Claimed
  <2>2. /\ tasks' \in Seq(Records) /\ DOMAIN tasks' = DOMAIN tasks /\ Others({mine[c]})
        /\ Kept(mine[c]) \/ Begun(mine[c])
        /\ tasks'[mine[c]].pc # "gated"
    <3>1. CASE tasks[mine[c]].pc = "gated"
      <4>1. PICK x : x = [tasks[mine[c]] EXCEPT !.pc = "begin"]
        OBVIOUS
      <4>2. /\ x \in Records /\ x.pc = "begin" /\ x.doc = tasks[mine[c]].doc /\ x.item = tasks[mine[c]].item
        BY <2>1, <4>1, FieldSet DEF Records, Moving
      <4>3. tasks' = [tasks EXCEPT ![mine[c]] = x]
        BY <1>5, <3>1, <4>1 DEF WriteClaim, Start, SetTask
      <4> QED
        BY <2>1, <3>1, <4>2, <4>3, TaskSet DEF Others, Kept, Begun
    <3>2. CASE tasks[mine[c]].pc # "gated"
      <4>1. tasks' = tasks
        BY <1>5, <3>2 DEF WriteClaim, Start
      <4> QED
        BY <1>0, <3>2, <4>1 DEF Others, Kept
    <3> QED
      BY <3>1, <3>2
  <2>3. disk' = tasks[mine[c]].doc /\ active' = active /\ pc'[c] = "idle" /\ tasks[mine[c]].doc \in Documents
    BY <1>5, <2>1, ReturnOwn DEF WriteClaim, Written, Records
  <2>4. LetsBegin(c)
    BY <2>1, <2>2, <2>3 DEF LetsBegin
  <2> QED
    BY <2>2, <2>3, <2>4
<1>6. CASE WriteClaimFails(c)
  <2>1. mine[c] \in DOMAIN tasks /\ Ends(mine[c], "aborted", "Failed") /\ pc[c] = "write"
    BY <1>0, <1>6 DEF WriteClaimFails, Claimed
  <2>2. /\ tasks' \in Seq(Records) /\ DOMAIN tasks' = DOMAIN tasks /\ tasks'[mine[c]].pc = "aborted"
        /\ \A u \in DOMAIN tasks : u # mine[c] => tasks'[u] = tasks[u]
    BY <2>1, EndsType DEF Over, RunStates
  <2>3. GivesUp(c)
    BY <1>6, <2>1, <2>2 DEF WriteClaimFails, GivesUp, Others, Kept, Refused, Goto, TypeOK
  <2> QED
    BY <1>0, <1>6, <2>2, <2>3 DEF WriteClaimFails, Refused
<1>7. CASE Cancel(c)
  <2>1. mine[c] \in DOMAIN tasks /\ tasks[mine[c]] \in Records
    BY <1>0, <1>7, TaskNumbers DEF Cancel, Cancelling
  <2>2. tasks' \in Seq(Records) /\ DOMAIN tasks' = DOMAIN tasks /\ Others({})
    <3>1. CASE tasks' = tasks
      BY <1>0, <3>1 DEF Others, Kept
    <3>2. CASE tasks' = [tasks EXCEPT ![mine[c]].cancelled = TRUE]
      <4>1. PICK x : x = [tasks[mine[c]] EXCEPT !.cancelled = TRUE]
        OBVIOUS
      <4>2. /\ x \in Records /\ x.pc = tasks[mine[c]].pc /\ x.doc = tasks[mine[c]].doc
            /\ x.item = tasks[mine[c]].item /\ x.verdict = tasks[mine[c]].verdict
            /\ x.records = tasks[mine[c]].records
        BY <2>1, <4>1, FieldSet DEF Records
      <4>3. tasks' = [tasks EXCEPT ![mine[c]] = x]
        BY <3>2, <4>1
      <4>4. /\ tasks' \in Seq(Records) /\ DOMAIN tasks' = DOMAIN tasks /\ tasks'[mine[c]] = x
            /\ \A u \in DOMAIN tasks : u # mine[c] => tasks'[u] = tasks[u]
        BY <2>1, <4>2, <4>3, TaskSet
      <4> QED
        BY <4>2, <4>4 DEF Others, Kept
    <3> QED
      BY <1>7, <3>1, <3>2 DEF Cancel
  <2>3. pc'[c] \in {"wait", "idle"} /\ disk' = disk /\ active' = active
    BY <1>7 DEF Cancel, Goto, Return, Reset, TypeOK, files
  <2>4. Passes(c)
    BY <2>2, <2>3 DEF Passes
  <2> QED
    BY <1>0, <2>2, <2>3, <2>4
<1> QED
  BY <1>1, <1>2, <1>3, <1>4, <1>5, <1>6, <1>7, CallFrames
-----------------------------------------------------------------------------
(* The other steps *)

\* The registered task stops, by itself or aborted, and its waiters wake up.
Stops(t) ==
  /\ t \in DOMAIN tasks /\ active = t /\ active' = 0
  /\ tasks' \in Seq(Records) /\ DOMAIN tasks' = DOMAIN tasks /\ Others({t})
  /\ \/ tasks[t].pc = "leave" /\ tasks'[t].pc = "over" /\ tasks'[t].doc.state = tasks[t].doc.state
     \/ tasks'[t].pc = "aborted"
  /\ woken \subseteq woken' /\ woken' \subseteq Calls
  /\ \A c \in Calls : pc[c] = "wait" /\ mine[c] = t => c \in woken'
  /\ closing' \in {"no", "flagged", "drained"}
  /\ UNCHANGED <<files, guard, pc, op, mine, read, replayable, faults, crashes>>

\* The workspace goes on closing.
Closes ==
  /\ closing' \in {"no", "flagged", "drained"} /\ (closing' = "drained" => closing = "drained" \/ active = 0)
  /\ UNCHANGED <<files, active, guard, tasks, calls, replayable, faults, crashes>>

LEMMA LeaveStops ==
  ASSUME TypeOK, Registered, NEW t \in DOMAIN tasks, Leave(t)
  PROVE  Stops(t)
<1>1. /\ tasks[t].pc = "leave" /\ Ends(t, "over", tasks[t].doc.state) /\ active' = 0 /\ NotifyWaiters(t)
      /\ UNCHANGED <<files, closing, guard, pc, op, mine, read, replayable, faults, crashes>>
  BY DEF Leave, Doc
<1>2. tasks[t].doc.state \in RunStates
  BY TaskNumbers DEF Records, Documents
<1>3. /\ tasks' \in Seq(Records) /\ DOMAIN tasks' = DOMAIN tasks
      /\ tasks'[t].pc = "over" /\ tasks'[t].doc.state = tasks[t].doc.state
      /\ \A u \in DOMAIN tasks : u # t => tasks'[u] = tasks[u]
  BY <1>1, <1>2, EndsType DEF Over
<1>4. Others({t})
  BY <1>3 DEF Others, Kept
<1>5. active = t
  BY <1>1 DEF Registered, Underway, Over
<1> QED
  BY <1>1, <1>3, <1>4, <1>5 DEF Stops, NotifyWaiters, TypeOK

LEMMA DrainStops ==
  ASSUME TypeOK, ShutdownDrain
  PROVE  Closes \/ Stops(active)
<1>1. CASE active = 0
  BY <1>1 DEF ShutdownDrain, Closes, calls
<1>2. CASE active # 0
  <2>1. active \in DOMAIN tasks /\ Ends(active, "aborted", tasks[active].doc.state) /\ NotifyWaiters(active)
    BY <1>2 DEF ShutdownDrain, Aborts, TypeOK
  <2>2. tasks[active].doc.state \in RunStates
    BY <2>1, TaskNumbers DEF Records, Documents
  <2>3. /\ tasks' \in Seq(Records) /\ DOMAIN tasks' = DOMAIN tasks
        /\ tasks'[active].pc = "aborted" /\ \A u \in DOMAIN tasks : u # active => tasks'[u] = tasks[u]
    BY <2>1, <2>2, EndsType DEF Over
  <2>4. Others({active})
    BY <2>3 DEF Others, Kept
  <2> QED
    BY <2>1, <2>3, <2>4 DEF Stops, ShutdownDrain, NotifyWaiters, TypeOK
<1> QED
  BY <1>1, <1>2

\* The kinds of a step.
LEMMA StepKinds ==
  ASSUME TypeOK, Registered, Copies, [Next]_vars
  PROVE  \/ \E c \in Calls : CallStep(c)
         \/ \E t \in DOMAIN tasks : Works(t) /\ \E i \in Items, label \in Labels : ItemGoes(t, i, label)
         \/ \E t \in DOMAIN tasks : Works(t) /\ RunGoes(t)
         \/ \E t \in DOMAIN tasks : Stops(t)
         \/ Closes \/ Crash
<1> DEFINE Goal ==
      \/ \E c \in Calls : CallStep(c)
      \/ \E t \in DOMAIN tasks : Works(t) /\ \E i \in Items, label \in Labels : ItemGoes(t, i, label)
      \/ \E t \in DOMAIN tasks : Works(t) /\ RunGoes(t)
      \/ \E t \in DOMAIN tasks : Stops(t)
      \/ Closes \/ Crash
<1>1. ASSUME NEW t \in DOMAIN tasks, TaskStep(t) PROVE Goal
  <2>1. CASE Leave(t)
    BY <2>1, LeaveStops
  <2>2. ASSUME NEW i \in Items, ItemStep(t, i) PROVE Goal
    BY <2>2, ItemKinds
  <2>3. CASE ~Leave(t) /\ \A i \in Items : ~ItemStep(t, i)
    BY <1>1, <2>3, RunKinds
  <2> QED
    BY <2>1, <2>2, <2>3
<1>2. ASSUME ShutdownDrain PROVE Goal
  <2>1. CASE active \in DOMAIN tasks
    BY <1>2, <2>1, DrainStops
  <2>2. CASE active \notin DOMAIN tasks
    BY <1>2, <2>2, DrainStops DEF Stops
  <2> QED
    BY <2>1, <2>2
<1>3. ASSUME ShutdownFlag \/ UNCHANGED vars PROVE Goal
  BY <1>3 DEF ShutdownFlag, Closes, TypeOK, vars, files, service, calls
<1> QED
  BY <1>1, <1>2, <1>3 DEF Next
-----------------------------------------------------------------------------
(* The inductive invariant *)

LEMMA IInvInit == Init => IInv
<1> SUFFICES ASSUME Init PROVE IInv
  OBVIOUS
<1>1. TypeOK
  BY CallsAssumption, DocAssumption DEF Init, TypeOK, CallStates, Outcomes
<1>2. DOMAIN tasks = {}
  BY DEF Init
<1>3. Held /\ Found /\ InHand /\ Drained
  BY DEF Init, Held, Found, InHand, Drained, Guarded, Claimed, Cancelling
<1>4. Registered /\ Copies /\ OnDisk /\ LogKnown
  BY <1>2 DEF Registered, Copies, OnDisk, LogKnown
<1>5. Recorded
  BY DEF Init, Recorded, Keys
<1>6. CancelWoken
  BY DEF Init, CancelWoken
<1> QED
  BY <1>1, <1>3, <1>4, <1>5, <1>6 DEF IInv

\* A document once written stays; the tasks only grow in a call's step.
LEMMA CallKeeps ==
  ASSUME IInv, NEW c \in Calls, CallStep(c)
  PROVE  /\ disk # NoDoc => disk' # NoDoc
         /\ DOMAIN tasks \subseteq DOMAIN tasks'
         /\ \A u \in DOMAIN tasks :
              tasks[u].pc # "gated" \/ u # mine[c] => tasks'[u].pc \in {tasks[u].pc, "aborted"}
<1>1. TypeOK /\ InHand
  BY DEF IInv
<1>2. Passes(c) \/ Spawns(c) \/ Registers(c) \/ GivesUp(c) \/ LetsBegin(c)
  BY CallEffects DEF IInv
<1>3. pc[c] = "write" => tasks[mine[c]].doc \in Documents /\ mine[c] \in DOMAIN tasks
  BY <1>1, TaskNumbers DEF InHand, Claimed, Records
<1>4. pc[c] = "insert" => mine[c] \in DOMAIN tasks
  BY <1>1 DEF InHand, Claimed
<1>a. CASE Passes(c)
  BY <1>a, DocAssumption DEF Passes, Others, Kept
<1>b. CASE Spawns(c)
  BY <1>b DEF Spawns, Others, Kept
<1>c. CASE Registers(c)
  BY <1>c DEF Registers
<1>d. CASE GivesUp(c)
  BY <1>d DEF GivesUp, Others, Kept
<1>e. CASE LetsBegin(c)
  BY <1>3, <1>e, DocAssumption DEF LetsBegin, Others, Kept, Begun
<1> QED
  BY <1>2, <1>a, <1>b, <1>c, <1>d, <1>e

LEMMA TypeStep == IInv /\ [Next]_vars => TypeOK'
<1> SUFFICES ASSUME IInv, [Next]_vars PROVE TypeOK'
  OBVIOUS
<1>0. TypeOK /\ Registered /\ Copies
  BY DEF IInv
<1>1. ASSUME NEW c \in Calls, CallStep(c) PROVE TypeOK'
  <2>1. Own(c) /\ faults' \in Nat /\ UNCHANGED <<log, effects, closing, replayable, crashes>>
    BY <1>0, <1>1, CallFrames
  <2>2. tasks' \in Seq(Records) /\ disk' \in Documents \cup {NoDoc}
    BY <1>1, CallEffects DEF IInv
  <2>3. active' \in {0} \cup DOMAIN tasks'
    <3>1. Passes(c) \/ Spawns(c) \/ Registers(c) \/ GivesUp(c) \/ LetsBegin(c)
      BY <1>1, CallEffects DEF IInv
    <3>2. DOMAIN tasks \subseteq DOMAIN tasks'
      BY <1>1, CallKeeps
    <3>3. pc[c] = "insert" => mine[c] \in DOMAIN tasks
      BY DEF IInv, InHand, Claimed
    <3> QED
      BY <1>0, <3>1, <3>2, <3>3 DEF TypeOK, Passes, Spawns, Registers, GivesUp, LetsBegin
  <2> QED
    BY <1>0, <2>1, <2>2, <2>3 DEF TypeOK, Own
<1>2. ASSUME NEW t \in DOMAIN tasks, Works(t) PROVE TypeOK'
  <2>1. tasks'[t].doc \in Documents
    <3>1. tasks'[t] \in Records
      BY <1>2 DEF Works
    <3> QED
      BY <3>1 DEF Records
  <2> QED
    BY <1>0, <1>2, <2>1 DEF TypeOK, Works, service, calls
<1>3. ASSUME NEW t \in DOMAIN tasks, Stops(t) PROVE TypeOK'
  BY <1>0, <1>3 DEF TypeOK, Stops, files
<1>4. CASE Closes
  BY <1>0, <1>4 DEF TypeOK, Closes, files, calls
<1>5. CASE Crash
  BY <1>0, <1>5 DEF TypeOK, Crash, files, CallStates
<1> QED
  BY <1>0, <1>1, <1>2, <1>3, <1>4, <1>5, StepKinds

LEMMA HeldStep == IInv /\ [Next]_vars => Held' /\ Found'
<1> SUFFICES ASSUME IInv, [Next]_vars PROVE Held' /\ Found'
  OBVIOUS
<1>0. TypeOK /\ Registered /\ Copies /\ Held /\ Found
  BY DEF IInv
<1>1. ASSUME NEW c \in Calls, CallStep(c) PROVE Held' /\ Found'
  <2>1. Own(c)
    BY <1>0, <1>1, CallFrames
  <2>2. disk # NoDoc => disk' # NoDoc
    BY <1>1, CallKeeps
  <2>3. /\ pc'[c] \in Guarded => guard' = c
        /\ pc'[c] # "idle" /\ op'[c] # "run" => disk' # NoDoc
        /\ pc'[c] \in {"find", "look", "guardAgain", "load", "normalize", "reload"} => op'[c] # "run"
        /\ pc'[c] = "normalize" \/ (pc'[c] = "claim" /\ op'[c] # "run") => read'[c] # NoDoc
    BY <1>0, <1>1, CallOwn
  <2>4. Held'
    BY <1>0, <2>1, <2>3 DEF Own, Held
  <2>5. Found'
    BY <1>0, <2>1, <2>2, <2>3 DEF Own, Found
  <2> QED
    BY <2>4, <2>5
<1>2. ASSUME NEW t \in DOMAIN tasks, Works(t) PROVE Held' /\ Found'
  <2>1. disk # NoDoc => disk' # NoDoc
    <3>1. tasks'[t] \in Records
      BY <1>2 DEF Works
    <3> QED
      BY <1>2, <3>1, DocAssumption DEF Works, Records
  <2> QED
    BY <1>0, <1>2, <2>1 DEF Works, service, calls, Held, Found
<1>3. ASSUME NEW t \in DOMAIN tasks, Stops(t) PROVE Held' /\ Found'
  BY <1>0, <1>3 DEF Stops, files, Held, Found
<1>4. CASE Closes
  BY <1>0, <1>4 DEF Closes, files, calls, Held, Found
<1>5. CASE Crash
  BY <1>0, <1>5 DEF Crash, Held, Found, Guarded
<1> QED
  BY <1>0, <1>1, <1>2, <1>3, <1>4, <1>5, StepKinds

LEMMA InHandStep == IInv /\ [Next]_vars => InHand'
<1> SUFFICES ASSUME IInv, [Next]_vars PROVE InHand'
  OBVIOUS
<1>0. TypeOK /\ Registered /\ Copies /\ Held /\ Found /\ InHand
  BY DEF IInv
<1>1. ASSUME NEW c \in Calls, CallStep(c) PROVE InHand'
  <2>1. Own(c)
    BY <1>0, <1>1, CallFrames
  <2>2. Passes(c) \/ Spawns(c) \/ Registers(c) \/ GivesUp(c) \/ LetsBegin(c)
    BY <1>0, <1>1, CallEffects
  <2>3. DOMAIN tasks \subseteq DOMAIN tasks'
    BY <1>1, CallKeeps
  <2>4. ASSUME NEW d \in Calls, d # c
        PROVE  /\ pc'[d] \in Claimed \cup Cancelling => mine'[d] \in DOMAIN tasks'
               /\ pc'[d] = "normalize" => active' = 0
               /\ pc'[d] = "insert" => tasks'[mine'[d]].pc = "gated" /\ active' # mine'[d]
               /\ pc'[d] = "write" =>
                    \/ tasks'[mine'[d]].pc = "gated" /\ active' = mine'[d]
                    \/ tasks'[mine'[d]].pc = "aborted" /\ active' = 0
    <3>1. pc'[d] = pc[d] /\ mine'[d] = mine[d]
      BY <2>1, <2>4 DEF Own
    <3>2. pc'[d] \in Claimed \cup Cancelling => mine'[d] \in DOMAIN tasks'
      BY <1>0, <2>3, <3>1 DEF InHand
    <3>3. CASE pc[d] \in Guarded
      <4>1. pc[c] \notin Guarded
        BY <1>0, <2>4, <3>3 DEF Held
      <4>2. Passes(c) \/ Spawns(c)
        BY <2>2, <4>1 DEF Guarded, Registers, GivesUp, LetsBegin
      <4>3. Others({}) /\ active' = active
        BY <4>2 DEF Passes, Spawns
      <4> QED
        BY <1>0, <3>1, <3>2, <4>3 DEF InHand, Claimed, Others, Kept
    <3> QED
      BY <3>1, <3>2, <3>3 DEF Guarded
  <2>5. /\ pc'[c] \in Claimed \cup Cancelling => mine'[c] \in DOMAIN tasks'
        /\ pc'[c] = "normalize" => active' = 0
        /\ pc'[c] = "insert" => tasks'[mine'[c]].pc = "gated" /\ active' # mine'[c]
        /\ pc'[c] = "write" => tasks'[mine'[c]].pc = "gated" /\ active' = mine'[c]
    <3>1. /\ pc'[c] = "settled" => mine'[c] = active /\ active # 0
          /\ pc'[c] = "arm" => pc[c] = "settled" /\ mine'[c] = mine[c]
          /\ pc'[c] = "wait" => pc[c] = "arm" /\ mine'[c] = mine[c]
          /\ pc'[c] = "normalize" => active' = 0
      BY <1>0, <1>1, CallOwn
    <3>2. pc'[c] = "insert" => /\ mine'[c] \in DOMAIN tasks' /\ tasks'[mine'[c]].pc = "gated"
                               /\ active' # mine'[c]
      BY <2>2 DEF Passes, Spawns, Registers, GivesUp, LetsBegin
    <3>3. pc'[c] = "write" => /\ mine'[c] \in DOMAIN tasks' /\ tasks'[mine'[c]].pc = "gated"
                              /\ active' = mine'[c]
      BY <1>0, <2>2 DEF Passes, Spawns, Registers, GivesUp, LetsBegin, InHand, Claimed
    <3>4. pc'[c] \in Cancelling => mine'[c] \in DOMAIN tasks
      BY <1>0, <3>1 DEF InHand, Cancelling, TypeOK
    <3> QED
      BY <2>3, <3>1, <3>2, <3>3, <3>4 DEF Claimed
  <2> QED
    BY <2>4, <2>5 DEF InHand
<1>2. ASSUME NEW t \in DOMAIN tasks, Works(t) PROVE InHand'
  <2>1. /\ active = t /\ tasks[t].pc # "gated" /\ tasks[t].pc # "aborted" /\ t # 0
    BY <1>0, <1>2, TaskNumbers DEF Works, Registered, Underway, Over
  <2>2. pc' = pc /\ mine' = mine /\ active' = active
    BY <1>2 DEF Works, service, calls
  <2>3. DOMAIN tasks' = DOMAIN tasks /\ \A u \in DOMAIN tasks : u # t => tasks'[u] = tasks[u]
    BY <1>2 DEF Works
  <2> QED
    BY <1>0, <2>1, <2>2, <2>3 DEF InHand, Claimed
<1>3. ASSUME NEW t \in DOMAIN tasks, Stops(t) PROVE InHand'
  <2>1. active = t /\ active' = 0 /\ DOMAIN tasks' = DOMAIN tasks /\ 0 \notin DOMAIN tasks
    BY <1>0, <1>3, TaskNumbers DEF Stops
  <2>2. pc' = pc /\ mine' = mine /\ \A u \in DOMAIN tasks : u # t => tasks'[u].pc = tasks[u].pc
    BY <1>3 DEF Stops, Others, Kept
  <2>3. tasks[t].pc = "gated" => tasks'[t].pc = "aborted"
    BY <1>3 DEF Stops
  <2> QED
    BY <1>0, <2>1, <2>2, <2>3 DEF InHand, Claimed
<1>4. CASE Closes
  BY <1>0, <1>4 DEF Closes, calls, InHand
<1>5. CASE Crash
  BY <1>0, <1>5 DEF Crash, InHand, Claimed, Cancelling
<1> QED
  BY <1>0, <1>1, <1>2, <1>3, <1>4, <1>5, StepKinds

LEMMA RegisteredStep == IInv /\ [Next]_vars => Registered' /\ Drained'
<1> SUFFICES ASSUME IInv, [Next]_vars PROVE Registered' /\ Drained'
  OBVIOUS
<1>0. /\ TypeOK /\ Registered /\ Copies /\ InHand /\ Drained /\ 0 \notin DOMAIN tasks
  BY TaskNumbers DEF IInv
<1>1. ASSUME NEW c \in Calls, CallStep(c) PROVE Registered' /\ Drained'
  <2>1. closing' = closing
    BY <1>0, <1>1, CallFrames
  <2>2. CASE Passes(c) \/ Spawns(c)
    BY <1>0, <2>1, <2>2 DEF Passes, Spawns, Others, Kept, Registered, Drained, Underway
  <2>3. CASE Registers(c)
    BY <1>0, <2>1, <2>3 DEF Registers, Registered, Drained, Underway
  <2>4. CASE GivesUp(c)
    <3>1. \A u \in DOMAIN tasks' : Underway(u)' => active = u /\ u # mine[c]
      BY <1>0, <2>4 DEF GivesUp, Others, Kept, Registered, Underway, Over
    <3>2. pc[c] = "write" => active \in {mine[c], 0}
      BY <1>0 DEF InHand
    <3>3. Registered'
      BY <1>0, <2>4, <3>1, <3>2 DEF Registered, GivesUp
    <3> QED
      BY <1>0, <2>1, <2>4, <3>3 DEF GivesUp, Drained
  <2>5. CASE LetsBegin(c)
    <3>1. tasks[mine[c]].pc = "gated" => active = mine[c]
      BY <1>0, <2>5 DEF InHand, LetsBegin
    <3>2. Registered'
      BY <1>0, <2>5, <3>1 DEF LetsBegin, Others, Kept, Begun, Registered, Underway
    <3> QED
      BY <1>0, <2>1, <2>5, <3>2 DEF LetsBegin, Drained
  <2> QED
    BY <1>1, <2>2, <2>3, <2>4, <2>5, CallEffects DEF IInv
<1>2. ASSUME NEW t \in DOMAIN tasks, Works(t) PROVE Registered' /\ Drained'
  <2>1. active = t
    BY <1>0, <1>2 DEF Works, Registered
  <2> QED
    BY <1>0, <1>2, <2>1 DEF Works, service, Registered, Drained, Underway
<1>3. ASSUME NEW t \in DOMAIN tasks, Stops(t) PROVE Registered' /\ Drained'
  BY <1>0, <1>3 DEF Stops, Others, Kept, Registered, Drained, Underway, Over
<1>4. CASE Closes
  BY <1>0, <1>4 DEF Closes, Registered, Drained, Underway
<1>5. CASE Crash
  BY <1>0, <1>5 DEF Crash, Registered, Drained
<1> QED
  BY <1>0, <1>1, <1>2, <1>3, <1>4, <1>5, StepKinds

\* A task keeps the copy it had, or one its own step made.
LEMMA CopiesStep == IInv /\ [Next]_vars => Copies'
<1> SUFFICES ASSUME IInv, [Next]_vars PROVE Copies'
  OBVIOUS
<1> DEFINE Copy(t) ==
      /\ tasks[t].pc = "gated" => tasks[t].doc.state = "Running"
      /\ tasks[t].pc \in Closing => tasks[t].verdict \notin Active
      /\ tasks[t].pc \in {"leave", "over"} => tasks[t].doc.state \notin Active
      /\ Underway(t) => tasks[t].doc.state # "Queued"
<1>0. TypeOK /\ Registered /\ Copies
  BY DEF IInv
<1>k. ASSUME NEW u \in DOMAIN tasks, Kept(u) PROVE Copy(u)'
  BY <1>0, <1>k DEF Kept, Copies, Underway
<1>1. ASSUME NEW c \in Calls, CallStep(c) PROVE Copies'
  <2>1. CASE Passes(c) \/ Registers(c)
    <3>1. DOMAIN tasks' = DOMAIN tasks /\ \A u \in DOMAIN tasks : Kept(u)
      BY <2>1 DEF Passes, Registers, Others, Kept
    <3> QED
      BY <1>k, <3>1 DEF Copies
  <2>2. CASE Spawns(c)
    <3>1. PICK t \in Nat \ DOMAIN tasks :
            /\ DOMAIN tasks' = DOMAIN tasks \cup {t} /\ Others({})
            /\ tasks'[t].pc = "gated" /\ tasks'[t].doc.state = "Running"
      BY <2>2 DEF Spawns
    <3>2. \A u \in DOMAIN tasks : Copy(u)'
      BY <1>k, <3>1 DEF Others
    <3>3. Copy(t)'
      BY <3>1 DEF Closing, Underway
    <3> QED
      BY <3>1, <3>2, <3>3 DEF Copies
  <2>3. CASE GivesUp(c)
    <3>0. PICK m : m = mine[c]
      OBVIOUS
    <3>1. \A u \in DOMAIN tasks \ {m} : Copy(u)'
      BY <1>k, <2>3, <3>0 DEF GivesUp, Others
    <3>2. Copy(m)'
      BY <2>3, <3>0 DEF GivesUp, Closing, Underway, Over
    <3> QED
      BY <2>3, <3>0, <3>1, <3>2 DEF GivesUp, Copies
  <2>4. CASE LetsBegin(c)
    <3>0. PICK m : m = mine[c]
      OBVIOUS
    <3>1. \A u \in DOMAIN tasks \ {m} : Copy(u)'
      BY <1>k, <2>4, <3>0 DEF LetsBegin, Others
    <3>2. m \in DOMAIN tasks
      BY <2>4, <3>0 DEF LetsBegin, IInv, InHand, Claimed
    <3>3. CASE Begun(m)
      <4>1. Copy(m)'
        BY <1>0, <3>2, <3>3 DEF Begun, Copies, Closing
      <4> QED
        BY <2>4, <3>0, <3>1, <4>1 DEF LetsBegin, Copies
    <3>4. CASE Kept(m)
      <4>1. Copy(m)'
        BY <1>k, <3>2, <3>4
      <4> QED
        BY <2>4, <3>0, <3>1, <4>1 DEF LetsBegin, Copies
    <3> QED
      BY <2>4, <3>0, <3>3, <3>4 DEF LetsBegin
  <2> QED
    BY <1>1, <2>1, <2>2, <2>3, <2>4, CallEffects DEF IInv
<1>2. ASSUME NEW t \in DOMAIN tasks, Works(t) PROVE Copies'
  <2>1. \A u \in DOMAIN tasks \ {t} : Copy(u)'
    BY <1>k, <1>2 DEF Works, Kept
  <2>2. Copy(t)'
    <3>1. tasks'[t].pc \notin Over \cup {"gated"}
      BY <1>2 DEF Works, Moving, Closing, Over
    <3>2. tasks[t].doc.state # "Queued"
      BY <1>0, <1>2 DEF Works, Copies
    <3> QED
      BY <1>2, <3>1, <3>2 DEF Works, Over, Active
  <2> QED
    BY <1>2, <2>1, <2>2 DEF Works, Copies
<1>3. ASSUME NEW t \in DOMAIN tasks, Stops(t) PROVE Copies'
  <2>1. \A u \in DOMAIN tasks \ {t} : Copy(u)'
    BY <1>k, <1>3 DEF Stops, Others
  <2>2. Copy(t)'
    BY <1>0, <1>3 DEF Stops, Copies, Closing, Underway, Over
  <2> QED
    BY <1>3, <2>1, <2>2 DEF Stops, Copies
<1>4. CASE Closes
  BY <1>0, <1>4 DEF Closes, Copies, Underway
<1>5. CASE Crash
  BY <1>5 DEF Crash, Copies
<1> QED
  BY <1>0, <1>1, <1>2, <1>3, <1>4, <1>5, StepKinds

LEMMA OnDiskStep == IInv /\ [Next]_vars => OnDisk'
<1> SUFFICES ASSUME IInv, [Next]_vars PROVE OnDisk'
  OBVIOUS
<1>0. TypeOK /\ Registered /\ Copies /\ InHand /\ OnDisk /\ 0 \notin DOMAIN tasks
  BY TaskNumbers DEF IInv
<1>1. ASSUME NEW c \in Calls, CallStep(c) PROVE OnDisk'
  <2>1. CASE Passes(c)
    <3>1. CASE disk' = disk
      BY <1>0, <2>1, <3>1 DEF Passes, Others, Kept, OnDisk, Underway, Doc
    <3>2. CASE pc[c] = "normalize"
      <4>1. \A t \in DOMAIN tasks : ~Underway(t)
        BY <1>0, <3>2 DEF InHand, Registered
      <4> QED
        BY <2>1, <4>1 DEF Passes, Others, Kept, OnDisk, Underway
    <3> QED
      BY <2>1, <3>1, <3>2 DEF Passes
  <2>2. CASE Spawns(c) \/ Registers(c)
    BY <1>0, <2>2 DEF Spawns, Registers, Others, Kept, OnDisk, Underway, Doc
  <2>3. CASE GivesUp(c)
    BY <1>0, <2>3 DEF GivesUp, Others, Kept, OnDisk, Underway, Doc, Over
  <2>4. CASE LetsBegin(c)
    <3>1. /\ mine[c] \in DOMAIN tasks
          /\ active = mine[c] \/ active = 0
          /\ tasks[mine[c]].pc \in {"gated", "aborted"}
      BY <1>0, <2>4 DEF LetsBegin, InHand, Claimed
    <3>2. \A u \in DOMAIN tasks : ~Underway(u)
      BY <1>0, <3>1 DEF Registered, Underway, Over
    <3>3. ASSUME NEW t \in DOMAIN tasks', Underway(t)' PROVE Begun(mine[c]) /\ t = mine[c]
      BY <2>4, <3>2, <3>3 DEF LetsBegin, Others, Kept, Underway
    <3>4. Begun(mine[c]) => disk'.state = "Running" /\ disk' # NoDoc
      <4>1. disk' = tasks[mine[c]].doc /\ tasks[mine[c]].doc \in Documents
        BY <1>0, <2>4, <3>1, TaskNumbers DEF LetsBegin, Records
      <4> QED
        BY <1>0, <3>1, <4>1, DocAssumption DEF Begun, Copies
    <3> QED
      BY <3>3, <3>4 DEF OnDisk
  <2> QED
    BY <1>1, <2>1, <2>2, <2>3, <2>4, CallEffects DEF IInv
<1>2. ASSUME NEW t \in DOMAIN tasks, Works(t) PROVE OnDisk'
  <2>1. active = t /\ \A u \in DOMAIN tasks : u # t => ~Underway(u)
    BY <1>0, <1>2 DEF Works, Registered
  <2>2. \A u \in DOMAIN tasks' : Underway(u)' => u = t
    BY <1>2, <2>1 DEF Works, Underway
  <2>3. ASSUME tasks'[t].doc.state \in Active PROVE disk' # NoDoc /\ disk'.state = "Running"
    <3>1. tasks'[t].doc.state = tasks[t].doc.state /\ Underway(t)
      BY <1>2, <2>3 DEF Works
    <3>2. tasks[t].doc.state = "Running" /\ disk # NoDoc /\ disk.state = "Running"
      BY <1>0, <2>3, <3>1 DEF Copies, OnDisk, Doc, Active
    <3>3. disk' = disk \/ disk' = tasks'[t].doc
      BY <1>2 DEF Works
    <3>4. tasks'[t].doc \in Documents
      <4>1. tasks'[t] \in Records
        BY <1>2 DEF Works
      <4> QED
        BY <4>1 DEF Records
    <3> QED
      BY <3>1, <3>2, <3>3, <3>4, DocAssumption
  <2> QED
    BY <2>2, <2>3 DEF OnDisk, Doc
<1>3. ASSUME NEW t \in DOMAIN tasks, Stops(t) PROVE OnDisk'
  BY <1>0, <1>3 DEF Stops, Others, Kept, OnDisk, Underway, Doc, Over, files
<1>4. CASE Closes
  BY <1>0, <1>4 DEF Closes, OnDisk, Underway, Doc, files
<1>5. CASE Crash
  BY <1>5 DEF Crash, OnDisk
<1> QED
  BY <1>0, <1>1, <1>2, <1>3, <1>4, <1>5, StepKinds

\* An item's step keeps what the task knows of the log.
LEMMA ItemLogged ==
  ASSUME IInv, NEW t \in DOMAIN tasks, Works(t), NEW i \in Items, NEW label \in Labels, ItemGoes(t, i, label)
  PROVE  Logged(t)' /\ Recorded'
<1>0. /\ TypeOK /\ Logged(t) /\ Recorded /\ TheCollection \notin Items /\ Items \subseteq Keys
      /\ log \in [Keys -> Outcomes] /\ effects \in [Keys -> Nat] /\ TheCollection \in Keys
      /\ tasks[t].item \in [Items -> Labels] /\ replayable' = replayable
  <2>1. TypeOK /\ Logged(t) /\ Recorded
    BY DEF IInv, LogKnown
  <2>2. tasks[t].item \in [Items -> Labels]
    BY <2>1, TaskNumbers DEF Records
  <2>3. TheCollection \notin Items /\ Items \subseteq Keys /\ TheCollection \in Keys
    BY ItemsAssumption DEF Items, Keys, TheCollection
  <2> QED
    BY <2>1, <2>2, <2>3 DEF TypeOK, Works
<1>1. /\ tasks[t].pc = "items" /\ tasks'[t].pc = "items" /\ tasks'[t].records = tasks[t].records
      /\ tasks'[t].item[i] = label
      /\ \A j \in Items \ {i} : tasks'[t].item[j] = tasks[t].item[j]
  BY <1>0 DEF ItemGoes
<1>2. \A k \in Keys \ {i} : log'[k] = log[k] /\ effects'[k] = effects[k]
  BY <1>0 DEF ItemGoes
<1>3. tasks'[t].records[TheCollection] = log'[TheCollection]
  BY <1>0, <1>1, <1>2 DEF Logged
<1>4. ASSUME NEW j \in Items, j # i
      PROVE  /\ tasks'[t].item[j] \in {"new", "step"} => tasks'[t].records[j] = log'[j]
             /\ tasks'[t].item[j] \in {"record", "call", "finish", "fail"} => log'[j] # "Succeeded"
             /\ tasks'[t].item[j] = "record" /\ j \notin replayable => log'[j] = "none"
             /\ tasks'[t].item[j] = "call" /\ j \notin replayable => effects'[j] = 0
             /\ tasks'[t].item[j] = "call" => log'[j] # "none"
             /\ j \notin replayable => effects'[j] <= 1 /\ (log'[j] = "none" => effects'[j] = 0)
  BY <1>0, <1>1, <1>2, <1>4 DEF Logged, Recorded
<1> DEFINE Mine ==
      /\ label \in {"new", "step"} => tasks'[t].records[i] = log'[i]
      /\ label \in {"record", "call", "finish", "fail"} => log'[i] # "Succeeded"
      /\ label = "record" /\ i \notin replayable => log'[i] = "none"
      /\ label = "call" /\ i \notin replayable => effects'[i] = 0
      /\ label = "call" => log'[i] # "none"
      /\ i \notin replayable => effects'[i] <= 1 /\ (log'[i] = "none" => effects'[i] = 0)
<1>5. Mine
  <2>0. /\ tasks[t].item[i] \in {"new", "step"} => tasks[t].records[i] = log[i]
        /\ tasks[t].item[i] \in {"record", "call", "finish", "fail"} => log[i] # "Succeeded"
        /\ tasks[t].item[i] = "record" /\ i \notin replayable => log[i] = "none"
        /\ tasks[t].item[i] = "call" /\ i \notin replayable => effects[i] = 0
        /\ tasks[t].item[i] = "call" => log[i] # "none"
        /\ i \notin replayable => effects[i] <= 1 /\ (log[i] = "none" => effects[i] = 0)
        /\ i \in Keys /\ effects[i] \in Nat
    BY <1>0, <1>1 DEF Logged, Recorded
  <2>1. CASE /\ UNCHANGED <<log, effects>>
             /\ label \in {"output", "done", "failed", "panicked"} \/ (label = "step" /\ tasks[t].item[i] = "new")
    BY <1>1, <2>0, <2>1
  <2>2. CASE /\ tasks[t].item[i] = "step" /\ label = "record" /\ UNCHANGED <<log, effects>>
             /\ tasks[t].records[i] # "Succeeded" /\ (tasks[t].records[i] = "none" \/ i \in replayable)
    BY <1>1, <2>0, <2>2
  <2>3. CASE /\ tasks[t].item[i] = "record" /\ label = "call"
             /\ log' = [log EXCEPT ![i] = "Running"] /\ UNCHANGED effects
    <3>1. log'[i] = "Running"
      BY <1>0, <2>0, <2>3
    <3> QED
      BY <2>0, <2>3, <3>1
  <2>4. CASE /\ tasks[t].item[i] = "call" /\ label \in {"finish", "fail"}
             /\ \E acted \in {0, 1} : effects' = [effects EXCEPT ![i] = @ + acted]
             /\ UNCHANGED log
    <3>1. effects'[i] \in {effects[i], effects[i] + 1}
      BY <1>0, <2>0, <2>4
    <3> QED
      BY <2>0, <2>4, <3>1
  <2>5. CASE /\ tasks[t].item[i] \in {"finish", "fail"} /\ label \in {"output", "failed"}
             /\ \E outcome \in {"Succeeded", "Failed", "Cancelled"} : log' = [log EXCEPT ![i] = outcome]
             /\ UNCHANGED effects
    <3>1. log'[i] # "none"
      BY <1>0, <2>0, <2>5
    <3> QED
      BY <2>0, <2>5, <3>1
  <2> QED
    BY <2>1, <2>2, <2>3, <2>4, <2>5 DEF ItemGoes
<1>6. Logged(t)'
  BY <1>0, <1>1, <1>3, <1>4, <1>5 DEF Logged
<1>7. Recorded'
  BY <1>0, <1>4, <1>5 DEF Recorded
<1> QED
  BY <1>6, <1>7

\* So does the task's own step.
LEMMA RunLogged ==
  ASSUME IInv, NEW t \in DOMAIN tasks, Works(t), RunGoes(t)
  PROVE  Logged(t)' /\ Recorded'
<1>0. /\ TypeOK /\ Logged(t) /\ Recorded /\ TheCollection \notin Items /\ Items \subseteq Keys
      /\ log \in [Keys -> Outcomes] /\ effects \in [Keys -> Nat] /\ TheCollection \in Keys
      /\ replayable' = replayable
  BY ItemsAssumption DEF IInv, LogKnown, Items, Keys, TheCollection, TypeOK, Works
<1>1. \A i \in Items : log'[i] = log[i] /\ effects'[i] = effects[i]
  BY <1>0 DEF RunGoes
<1>2. Recorded'
  BY <1>0, <1>1 DEF Recorded
<1>3. CASE /\ tasks[t].pc = "begin" /\ tasks'[t].pc = "items" /\ UNCHANGED <<log, effects>>
           /\ tasks'[t].records = log /\ tasks'[t].item = tasks[t].item
  BY <1>0, <1>2, <1>3 DEF Logged
<1>4. CASE tasks'[t].pc \in {"keep", "settle", "leave", "error"}
  BY <1>2, <1>4 DEF Logged
<1>5. CASE /\ tasks[t].pc = "items" /\ tasks'[t].pc = "create" /\ UNCHANGED log
           /\ tasks[t].records[TheCollection] # "Succeeded"
  BY <1>0, <1>2, <1>5 DEF Logged
<1>6. CASE /\ tasks'[t].pc = "creating" /\ log' = [log EXCEPT ![TheCollection] = "Running"]
  BY <1>0, <1>2, <1>6 DEF Logged
<1>7. CASE tasks[t].pc = "creating" /\ tasks'[t].pc = "created" /\ UNCHANGED log
  BY <1>0, <1>2, <1>7 DEF Logged
<1> QED
  BY <1>2, <1>3, <1>4, <1>5, <1>6, <1>7 DEF RunGoes

LEMMA LogStep == IInv /\ [Next]_vars => LogKnown' /\ Recorded'
<1> SUFFICES ASSUME IInv, [Next]_vars PROVE LogKnown' /\ Recorded'
  OBVIOUS
<1>0. TypeOK /\ Registered /\ Copies /\ InHand /\ LogKnown /\ Recorded
  BY DEF IInv
<1>k. ASSUME NEW u \in DOMAIN tasks, Kept(u), UNCHANGED <<log, effects, replayable>> PROVE Logged(u)'
  BY <1>0, <1>k DEF Kept, LogKnown, Logged
<1>r. UNCHANGED <<log, effects, replayable>> => Recorded'
  BY <1>0 DEF Recorded
<1>1. ASSUME NEW c \in Calls, CallStep(c) PROVE LogKnown' /\ Recorded'
  <2>1. UNCHANGED <<log, effects, replayable>>
    BY <1>0, <1>1, CallFrames
  <2>2. PICK m : m = mine[c]
    OBVIOUS
  <2>3. CASE Passes(c) \/ Registers(c)
    <3>1. DOMAIN tasks' = DOMAIN tasks /\ \A u \in DOMAIN tasks : Kept(u)
      BY <2>3 DEF Passes, Registers, Others, Kept
    <3> QED
      BY <1>k, <1>r, <2>1, <3>1 DEF LogKnown
  <2>4. CASE Spawns(c)
    <3>1. PICK t \in Nat \ DOMAIN tasks :
            /\ DOMAIN tasks' = DOMAIN tasks \cup {t} /\ Others({})
            /\ tasks'[t].pc = "gated" /\ \A i \in Items : tasks'[t].item[i] = "new"
      BY <2>4 DEF Spawns
    <3>2. \A u \in DOMAIN tasks : Logged(u)'
      BY <1>k, <2>1, <3>1 DEF Others
    <3>3. Logged(t)'
      BY <3>1 DEF Logged
    <3> QED
      BY <1>r, <2>1, <3>1, <3>2, <3>3 DEF LogKnown
  <2>5. CASE GivesUp(c)
    <3>1. \A u \in DOMAIN tasks \ {m} : Logged(u)'
      BY <1>k, <2>1, <2>2, <2>5 DEF GivesUp, Others
    <3>2. Logged(m)'
      BY <2>2, <2>5 DEF GivesUp, Logged
    <3> QED
      BY <1>r, <2>1, <2>5, <3>1, <3>2 DEF GivesUp, LogKnown
  <2>6. CASE LetsBegin(c)
    <3>0. m \in DOMAIN tasks
      BY <1>0, <2>2, <2>6 DEF LetsBegin, InHand, Claimed
    <3>1. \A u \in DOMAIN tasks \ {m} : Logged(u)'
      BY <1>k, <2>1, <2>2, <2>6 DEF LetsBegin, Others
    <3>2. CASE Begun(m)
      <4>1. Logged(m)'
        BY <1>0, <3>0, <3>2 DEF Begun, LogKnown, Logged
      <4> QED
        BY <1>r, <2>1, <2>6, <3>1, <4>1 DEF LetsBegin, LogKnown
    <3>3. CASE Kept(m)
      <4>1. Logged(m)'
        BY <1>k, <2>1, <3>0, <3>3
      <4> QED
        BY <1>r, <2>1, <2>6, <3>1, <4>1 DEF LetsBegin, LogKnown
    <3> QED
      BY <2>2, <2>6, <3>2, <3>3 DEF LetsBegin
  <2> QED
    BY <1>1, <2>3, <2>4, <2>5, <2>6, CallEffects DEF IInv
<1>2. ASSUME NEW t \in DOMAIN tasks, Works(t), Logged(t)', Recorded' PROVE LogKnown' /\ Recorded'
  <2>1. ASSUME NEW u \in DOMAIN tasks, u # t PROVE Logged(u)'
    <3>1. tasks[u].pc \in Over \cup {"gated"}
      BY <1>0, <1>2, <2>1 DEF Works, Registered, Underway
    <3>2. tasks'[u] = tasks[u]
      BY <1>2, <2>1 DEF Works
    <3> QED
      BY <1>0, <2>1, <3>1, <3>2 DEF Over, LogKnown, Logged
  <2> QED
    BY <1>2, <2>1 DEF Works, LogKnown
<1>3. ASSUME NEW t \in DOMAIN tasks, Stops(t) PROVE LogKnown' /\ Recorded'
  <2>1. UNCHANGED <<log, effects, replayable>>
    BY <1>3 DEF Stops, files
  <2>2. \A u \in DOMAIN tasks \ {t} : Logged(u)'
    BY <1>k, <1>3, <2>1 DEF Stops, Others
  <2>3. Logged(t)'
    BY <1>3 DEF Stops, Logged
  <2> QED
    BY <1>r, <1>3, <2>1, <2>2, <2>3 DEF Stops, LogKnown
<1>4. CASE Closes
  BY <1>0, <1>r, <1>4 DEF Closes, files, LogKnown, Logged
<1>5. CASE Crash
  BY <1>r, <1>5 DEF Crash, files, LogKnown
<1> QED
  BY <1>0, <1>1, <1>2, <1>3, <1>4, <1>5, StepKinds, ItemLogged, RunLogged

LEMMA WokenStep == IInv /\ [Next]_vars => CancelWoken'
<1> SUFFICES ASSUME IInv, [Next]_vars PROVE CancelWoken'
  OBVIOUS
<1>0. /\ TypeOK /\ Registered /\ Copies /\ Held /\ Found /\ InHand /\ CancelWoken
  BY DEF IInv
<1>1. ASSUME NEW c \in Calls, CallStep(c) PROVE CancelWoken'
  <2>1. Own(c)
    BY <1>0, <1>1, CallFrames
  <2>2. \A u \in DOMAIN tasks : tasks'[u].pc = "over" => tasks[u].pc = "over"
    <3>1. Passes(c) \/ Spawns(c) \/ Registers(c) \/ GivesUp(c) \/ LetsBegin(c)
      BY <1>0, <1>1, CallEffects
    <3> QED
      BY <3>1 DEF Passes, Spawns, Registers, GivesUp, LetsBegin, Others, Kept, Begun
  <2>3. ASSUME NEW d \in Calls, d # c, pc'[d] = "wait", tasks'[mine'[d]].pc = "over" PROVE d \in woken'
    <3>1. pc[d] = "wait" /\ mine'[d] = mine[d] /\ mine[d] \in DOMAIN tasks
      BY <1>0, <2>1, <2>3 DEF Own, InHand, Cancelling
    <3> QED
      BY <1>0, <2>1, <2>2, <2>3, <3>1 DEF Own, CancelWoken
  <2>4. pc'[c] = "wait" => tasks'[mine'[c]].pc # "over"
    <3>1. ASSUME pc'[c] = "wait" PROVE tasks'[mine'[c]].pc # "over"
      <4>1. pc[c] = "arm" /\ mine'[c] = mine[c] /\ Cancel(c)
        BY <1>0, <1>1, <3>1, CallOwn
      <4>2. tasks[mine[c]].doc.state \in Active
        BY <1>0, <3>1, <4>1 DEF Cancel, Return, Reset, Goto, TypeOK
      <4>3. mine[c] \in DOMAIN tasks
        BY <1>0, <4>1 DEF InHand, Cancelling
      <4>4. tasks[mine[c]].pc # "over"
        BY <1>0, <4>2, <4>3 DEF Copies
      <4> QED
        BY <2>2, <4>1, <4>3, <4>4
    <3> QED
      BY <3>1
  <2> QED
    BY <2>3, <2>4 DEF CancelWoken
<1>2. ASSUME NEW t \in DOMAIN tasks, Works(t) PROVE CancelWoken'
  <2>1. /\ \A u \in DOMAIN tasks : tasks'[u].pc = "over" => tasks[u].pc = "over"
        /\ pc' = pc /\ mine' = mine /\ woken' = woken
    BY <1>2 DEF Works, Moving, Closing, calls
  <2>2. \A d \in Calls : pc[d] = "wait" => mine[d] \in DOMAIN tasks
    BY <1>0 DEF InHand, Cancelling
  <2> QED
    BY <1>0, <2>1, <2>2 DEF CancelWoken
<1>3. ASSUME NEW t \in DOMAIN tasks, Stops(t) PROVE CancelWoken'
  <2>1. \A d \in Calls : pc[d] = "wait" => mine[d] \in DOMAIN tasks
    BY <1>0 DEF InHand, Cancelling
  <2> QED
    BY <1>0, <1>3, <2>1 DEF Stops, Others, Kept, CancelWoken
<1>4. CASE Closes
  BY <1>0, <1>4 DEF Closes, calls, CancelWoken
<1>5. CASE Crash
  BY <1>5 DEF Crash, CancelWoken
<1> QED
  BY <1>0, <1>1, <1>2, <1>3, <1>4, <1>5, StepKinds

LEMMA Inductive == Spec => []IInv
<1>1. Init => IInv
  BY IInvInit
<1>2. IInv /\ [Next]_vars => IInv'
  BY TypeStep, HeldStep, InHandStep, RegisteredStep, CopiesStep, OnDiskStep, LogStep, WokenStep DEF IInv
<1> QED
  BY <1>1, <1>2, PTL DEF Spec
-----------------------------------------------------------------------------
(* What follows *)

\* The variables keep their types: the run document's file, the step records,
\* the registry of active runs, the transition guard and every call's state.
THEOREM DynamicRunsTypes == Spec => []TypeOK
<1>1. IInv => TypeOK
  BY DEF IInv
<1> QED
  BY <1>1, Inductive, PTL

\* shutdown: once the registry is drained nothing is registered and no
\* task executes, whichever claims were in flight.
THEOREM ShutdownHolds == Spec => []ShutdownReaches
<1>1. IInv => ShutdownReaches
  BY TaskNumbers DEF IInv, ShutdownReaches, Drained, Registered
<1> QED
  BY <1>1, Inductive, PTL

\* begin_task and load_run: a run is executed by the registered task alone,
\* and while it is not settled its file says running.
THEOREM ClaimHolds == Spec => []ClaimDurable
<1>1. IInv => ClaimDurable
  BY DEF IInv, ClaimDurable, Registered, OnDisk
<1> QED
  BY <1>1, Inductive, PTL

\* execute_item and interrupted_step_may_rerun: an operation that may not be
\* repeated is carried out at most once over all attempts, crashes and resumes.
THEOREM OnceOnly == Spec => []ExternalOnce
<1>1. IInv => ExternalOnce
  BY DEF IInv, ExternalOnce, Recorded
<1> QED
  BY <1>1, Inductive, PTL

\* cancel: a call that waits for a task which has left was notified.
THEOREM CancelNotMissed == Spec => []CancelWoken
<1>1. IInv => CancelWoken
  BY DEF IInv
<1> QED
  BY <1>1, Inductive, PTL

\* The step log: what a record says succeeded, an item's operation or the
\* run's collection, stays so and is not carried out again.
THEOREM SuccessStays == Spec => SuccessKept
<1> DEFINE Kept_ == \A k \in Keys : log[k] = "Succeeded" => log'[k] = "Succeeded" /\ effects'[k] = effects[k]
<1>1. IInv /\ [Next]_vars => Kept_
  <2> SUFFICES ASSUME IInv, [Next]_vars PROVE Kept_
    OBVIOUS
  <2>0. /\ TypeOK /\ Registered /\ Copies /\ LogKnown /\ Items \subseteq Keys /\ TheCollection \in Keys
        /\ log \in [Keys -> Outcomes] /\ effects \in [Keys -> Nat]
    BY DEF IInv, TypeOK, Keys
  <2>1. ASSUME NEW c \in Calls, CallStep(c) PROVE Kept_
    BY <2>0, <2>1, CallFrames
  <2>2. ASSUME NEW t \in DOMAIN tasks, NEW i \in Items, NEW label \in Labels, ItemGoes(t, i, label)
        PROVE  Kept_
    <3>1. \A k \in Keys \ {i} : log'[k] = log[k] /\ effects'[k] = effects[k]
      BY <2>0, <2>2 DEF ItemGoes
    <3>2. tasks[t].item[i] \in {"record", "call", "finish", "fail"} => log[i] # "Succeeded"
      BY <2>0, <2>2 DEF ItemGoes, LogKnown, Logged
    <3>3. UNCHANGED <<log, effects>> \/ tasks[t].item[i] \in {"record", "call", "finish", "fail"}
      BY <2>2 DEF ItemGoes
    <3> QED
      BY <3>1, <3>2, <3>3
  <2>3. ASSUME NEW t \in DOMAIN tasks, RunGoes(t) PROVE Kept_
    <3>1. \A k \in Keys \ {TheCollection} : log'[k] = log[k] /\ effects'[k] = effects[k]
      BY <2>0, <2>3 DEF RunGoes
    <3>2. tasks[t].pc \in {"create", "creating", "created"} => log[TheCollection] # "Succeeded"
      BY <2>0, <2>3 DEF LogKnown, Logged
    <3>3. UNCHANGED <<log, effects>> \/ tasks[t].pc \in {"create", "creating", "created"}
      BY <2>3 DEF RunGoes
    <3> QED
      BY <3>1, <3>2, <3>3
  <2>4. (\E t \in DOMAIN tasks : Stops(t)) \/ Closes \/ Crash => UNCHANGED <<log, effects>>
    BY DEF Stops, Closes, Crash, files
  <2> QED
    BY <2>0, <2>1, <2>2, <2>3, <2>4, StepKinds
<1>2. IInv /\ [Next]_vars => [Kept_]_vars
  BY <1>1
<1> QED
  BY <1>2, Inductive, PTL DEF Spec, SuccessKept
=============================================================================
