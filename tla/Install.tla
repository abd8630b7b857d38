------------------------------- MODULE Install -------------------------------
(***************************************************************************)
(* Installing, removing and listing worker packages, and the recovery of   *)
(* what a crash interrupted (backend-worker-host/src/install.rs,           *)
(* install/promote.rs, install/staging.rs, inventory/store.rs).            *)
(*                                                                         *)
(* One process serves concurrent calls.  The files outlive it: per package *)
(* a staging directory, the installed directory and its backup, the intent *)
(* journal and the inventory record; and the index of the inventory.  A    *)
(* rename and the replacement of a file are atomic; what lies between two  *)
(* of them is where a crash or another call may come.  Any operation on a  *)
(* file may be refused: some refusals end the call, others are ignored,    *)
(* and then the file stays and the call goes on.                           *)
(***************************************************************************)
EXTENDS Naturals, FiniteSets

CONSTANTS Ids, NoId, Calls, NoCall, Writers, Readers, MaxCrashes, MaxFaults

ASSUME IdsAssumption == NoId \notin Ids
\* The calls that install and remove, and those that list; one may do both.
ASSUME CallsAssumption == NoCall \notin Calls /\ Writers \subseteq Calls /\ Readers \subseteq Calls
ASSUME BoundsAssumption == MaxCrashes \in Nat /\ MaxFaults \in Nat

VARIABLES
  staging,   \* the tree in the staging directory of each package
  target,    \* the tree in its installed directory
  backup,    \* the tree in the installed directory's .bak
  journal,   \* JournalState of its intent file, or "none"
  kept,      \* history: journals that are there because deleting them was refused
  outlived,  \* history: journals that were there when their package was removed
  records,   \* packages with a record file
  index,     \* installation_ids of index.json
  indexed,   \* index.json exists
  lost,      \* history: recorded packages that an overlapping rebuild, or a
             \* removal that could not delete the record, left out of the index
  service,   \* the process and its WorkerManagementService
  lock,      \* the call holding the install lock
  pc,        \* where each call is
  want,      \* the package it installs or removes; NoId at start-up
  at,        \* the package whose transaction it works on
  role,      \* why: its own install, or what recovery decided
  todo,      \* journals recovery still has to look at
  seen,      \* the index as the call read it
  crashes, faults

trees == <<staging, target, backup>>
intents == <<journal, kept, outlived>>
inventory == <<records, index, indexed, lost>>
frame == <<want, at, role, todo, seen>>
bounds == <<crashes, faults>>
vars == <<trees, intents, inventory, service, lock, pc, frame, bounds>>

\* "raw" is extracted but not checked, "checked" passed the self-check,
\* "torn" is what an interrupted or refused removal leaves.
Trees == {"none", "raw", "checked", "torn"}
Journals == {"none", "staging", "verified", "promoting", "complete"}
\* Where a call holds the install lock, and where list() is without it.
Promoting == {"backup", "sync", "rename", "drop"}
Publishing == {"record", "readIndex", "writeIndex", "complete", "forget"}
Installing == {"check", "begin", "extract", "verified", "promoting"}
Removing == {"removeTree", "removeRead", "removeRecord", "removeWrite"}
Locked == {"recover"} \cup Promoting \cup Publishing \cup Installing \cup Removing
Listing == {"listCheck", "scan", "rebuild"}

Init ==
  /\ staging = [i \in Ids |-> "none"] /\ target = [i \in Ids |-> "none"]
  /\ backup = [i \in Ids |-> "none"] /\ journal = [i \in Ids |-> "none"]
  /\ kept = {} /\ outlived = {}
  /\ records = {} /\ index = {} /\ indexed = FALSE /\ lost = {}
  /\ service = "down" /\ lock = NoCall
  /\ pc = [c \in Calls |-> "idle"]
  /\ want = [c \in Calls |-> NoId] /\ at = [c \in Calls |-> NoId]
  /\ role = [c \in Calls |-> "own"]
  /\ todo = [c \in Calls |-> {}] /\ seen = [c \in Calls |-> {}]
  /\ crashes = 0 /\ faults = 0

Goto(c, label) == pc' = [pc EXCEPT ![c] = label]

\* The call returns: the lock is dropped, its locals are gone.
Forget(c) ==
  /\ want' = [want EXCEPT ![c] = NoId] /\ at' = [at EXCEPT ![c] = NoId]
  /\ role' = [role EXCEPT ![c] = "own"]
  /\ todo' = [todo EXCEPT ![c] = {}] /\ seen' = [seen EXCEPT ![c] = {}]
Return(c, started) ==
  /\ Goto(c, "idle") /\ lock' = NoCall /\ Forget(c)
  /\ service' = IF service = "starting" THEN started ELSE service

\* An error leaves the function through `?`; at start-up it fails build().
Error(c) == Return(c, "failed")

-----------------------------------------------------------------------------
(* The calls *)

\* WorkerManagementService::build: recover_pending before anything else.
Start(c) ==
  /\ service \in {"down", "failed"} /\ lock = NoCall
  /\ service' = "starting" /\ lock' = c /\ Goto(c, "recover")
  /\ todo' = [todo EXCEPT ![c] = {i \in Ids : journal[i] # "none"}]
  /\ UNCHANGED <<trees, intents, inventory, want, at, role, seen, bounds>>

\* install(), once the archive is downloaded; LockContended changes nothing.
CallInstall(c, i) ==
  /\ service = "up" /\ pc[c] = "idle" /\ lock = NoCall
  /\ lock' = c /\ Goto(c, "recover")
  /\ want' = [want EXCEPT ![c] = i]
  /\ todo' = [todo EXCEPT ![c] = {j \in Ids : journal[j] # "none"}]
  /\ UNCHANGED <<trees, intents, inventory, service, at, role, seen, bounds>>

\* remove() reads no journal: one that is pending outlives the removal.
CallRemove(c, i) ==
  /\ service = "up" /\ pc[c] = "idle" /\ lock = NoCall
  /\ lock' = c /\ Goto(c, "removeTree") /\ want' = [want EXCEPT ![c] = i]
  /\ outlived' = IF journal[i] = "none" THEN outlived ELSE outlived \cup {i}
  /\ UNCHANGED <<trees, journal, kept, inventory, service, at, role, todo, seen, bounds>>

-----------------------------------------------------------------------------
(* recover_pending_locked: one journal after the other, in directory order *)

Decide(c, i, why, next) ==
  /\ at' = [at EXCEPT ![c] = i] /\ role' = [role EXCEPT ![c] = why]
  /\ Goto(c, next)
  /\ UNCHANGED <<trees, intents, inventory, service, lock, want, todo, seen, bounds>>

RetriesUnchecked(i) == journal[i] \in {"staging", "verified"}
RetriesAlways(i) == journal[i] \in {"verified", "promoting"}
Retries(i) ==
  \/ journal[i] = "verified"
  \/ journal[i] = "promoting" /\ target[i] = "none" /\ staging[i] # "none"
RepublishesBlindly(i) == journal[i] \in {"promoting", "complete"}
Republishes(i) ==
  \/ journal[i] = "complete"
  \/ journal[i] = "promoting" /\ target[i] # "none"
Discards(i) == ~Retries(i) /\ ~Republishes(i)

RecoverRetry(c, i) ==
  /\ pc[c] = "recover" /\ i \in todo[c] /\ Retries(i)
  /\ Decide(c, i, "retry", "backup")

RecoverRepublish(c, i) ==
  /\ pc[c] = "recover" /\ i \in todo[c] /\ Republishes(i)
  /\ Decide(c, i, "republish", "record")

\* remove_dir_all, whose failure is ignored; what it leaves passed no check.
RecoverDiscard(c, i) ==
  /\ pc[c] = "recover" /\ i \in todo[c] /\ Discards(i)
  /\ \/ staging' = [staging EXCEPT ![i] = "none"] /\ UNCHANGED faults
     \/ /\ staging[i] # "none" /\ faults < MaxFaults /\ faults' = faults + 1
        /\ staging' = [staging EXCEPT ![i] = "raw"]
  /\ at' = [at EXCEPT ![c] = i] /\ role' = [role EXCEPT ![c] = "retry"]
  /\ Goto(c, "forget")
  /\ UNCHANGED <<target, backup, intents, inventory, service, lock, want, todo, seen, crashes>>

\* No journal is left: start-up is over, an install goes on.
RecoverDone(c) ==
  /\ pc[c] = "recover" /\ todo[c] = {}
  /\ IF want[c] = NoId
       THEN Return(c, "up")
       ELSE /\ Goto(c, "check") /\ UNCHANGED <<service, lock, frame>>
  /\ UNCHANGED <<trees, intents, inventory, bounds>>

-----------------------------------------------------------------------------
(* install() after the recovery *)

\* An existing record is returned as it is; a staging directory refuses.
Refuse(c) ==
  /\ pc[c] = "check" /\ (want[c] \in records \/ staging[want[c]] # "none")
  /\ Error(c)
  /\ UNCHANGED <<trees, intents, inventory, bounds>>

CreateStaging(c) ==
  /\ pc[c] = "check" /\ want[c] \notin records /\ staging[want[c]] = "none"
  /\ staging' = [staging EXCEPT ![want[c]] = "raw"]
  /\ at' = [at EXCEPT ![c] = want[c]] /\ role' = [role EXCEPT ![c] = "own"]
  /\ Goto(c, "begin")
  /\ UNCHANGED <<target, backup, intents, inventory, service, lock, want, todo, seen, bounds>>

WriteJournal(c, from, state, next) ==
  /\ pc[c] = from
  /\ journal' = [journal EXCEPT ![at[c]] = state] /\ Goto(c, next)
  /\ kept' = kept \ {at[c]} /\ outlived' = outlived \ {at[c]}
  /\ UNCHANGED <<trees, inventory, service, lock, frame, bounds>>

Begin(c) == WriteJournal(c, "begin", "staging", "extract")
MarkVerified(c) == WriteJournal(c, "verified", "verified", "promoting")
MarkPromoting(c) == WriteJournal(c, "promoting", "promoting", "backup")

\* Extraction and self-check pass, or one of them fails.
SelfCheck(c) ==
  /\ pc[c] = "extract"
  /\ staging' = [staging EXCEPT ![at[c]] = "checked"] /\ Goto(c, "verified")
  /\ UNCHANGED <<target, backup, intents, inventory, service, lock, frame, bounds>>

SelfCheckFails(c) ==
  /\ pc[c] = "extract" /\ Error(c)
  /\ UNCHANGED <<trees, intents, inventory, bounds>>

-----------------------------------------------------------------------------
(* PromotionEngine::promote *)

\* What is installed is moved out of the way, unless a backup is there.
BackUp(c) ==
  /\ pc[c] = "backup"
  /\ IF target[at[c]] = "none"
       THEN UNCHANGED <<target, backup>>
       ELSE /\ backup[at[c]] = "none"
            /\ backup' = [backup EXCEPT ![at[c]] = target[at[c]]]
            /\ target' = [target EXCEPT ![at[c]] = "none"]
  /\ Goto(c, "sync")
  /\ UNCHANGED <<staging, intents, inventory, service, lock, frame, bounds>>

BackUpBlocked(c) ==
  /\ pc[c] = "backup" /\ target[at[c]] # "none" /\ backup[at[c]] # "none"
  /\ Error(c)
  /\ UNCHANGED <<trees, intents, inventory, bounds>>

\* sync_tree reads the staging tree and fails when there is none.
SyncTree(c) ==
  /\ pc[c] = "sync" /\ staging[at[c]] # "none"
  /\ Goto(c, "rename")
  /\ UNCHANGED <<trees, intents, inventory, service, lock, frame, bounds>>

SyncTreeFails(c) ==
  /\ pc[c] = "sync" /\ staging[at[c]] = "none"
  /\ Error(c)
  /\ UNCHANGED <<trees, intents, inventory, bounds>>

RenameStaging(c) ==
  /\ pc[c] = "rename"
  /\ target' = [target EXCEPT ![at[c]] = staging[at[c]]]
  /\ staging' = [staging EXCEPT ![at[c]] = "none"]
  /\ Goto(c, "drop")
  /\ UNCHANGED <<backup, intents, inventory, service, lock, frame, bounds>>

\* A refused rename puts the backup back, unless that is refused as well.
RenameFails(c) ==
  /\ pc[c] = "rename" /\ faults < MaxFaults
  /\ \/ /\ target' = [target EXCEPT ![at[c]] = backup[at[c]]]
        /\ backup' = [backup EXCEPT ![at[c]] = "none"]
        /\ faults' = faults + 1
     \/ /\ backup[at[c]] # "none" /\ faults + 1 < MaxFaults /\ faults' = faults + 2
        /\ UNCHANGED <<target, backup>>
  /\ Error(c)
  /\ UNCHANGED <<staging, intents, inventory, crashes>>

\* The backup is deleted; a failure is ignored.
DropBackup(c) ==
  /\ pc[c] = "drop"
  /\ \/ backup' = [backup EXCEPT ![at[c]] = "none"] /\ UNCHANGED faults
     \/ /\ backup[at[c]] # "none" /\ faults < MaxFaults /\ faults' = faults + 1
        /\ backup' = [backup EXCEPT ![at[c]] = "torn"]
  /\ Goto(c, "record")
  /\ UNCHANGED <<staging, target, intents, inventory, service, lock, frame, crashes>>

-----------------------------------------------------------------------------
(* InventoryStore::add, and the end of the transaction *)

AddRecord(c) ==
  /\ pc[c] = "record" /\ records' = records \cup {at[c]}
  /\ Goto(c, "readIndex")
  /\ UNCHANGED <<trees, intents, index, indexed, lost, service, lock, frame, bounds>>

AddReadIndex(c) ==
  /\ pc[c] = "readIndex"
  /\ seen' = [seen EXCEPT ![c] = index] /\ Goto(c, "writeIndex")
  /\ UNCHANGED <<trees, intents, inventory, service, lock, want, at, role, todo, bounds>>

AddWriteStaleIndex(c) ==
  /\ pc[c] = "writeIndex"
  /\ index' = seen[c] /\ indexed' = TRUE
  /\ seen' = [seen EXCEPT ![c] = {}]
  /\ Goto(c, IF role[c] = "republish" THEN "forget" ELSE "complete")
  /\ UNCHANGED <<trees, intents, records, lost, service, lock, want, at, role, todo, bounds>>

\* Recovering a transaction that was complete does not mark it again.
AddWriteIndex(c) ==
  /\ pc[c] = "writeIndex"
  /\ index' = seen[c] \cup {at[c]} /\ indexed' = TRUE
  /\ seen' = [seen EXCEPT ![c] = {}]
  /\ Goto(c, IF role[c] = "republish" THEN "forget" ELSE "complete")
  /\ UNCHANGED <<trees, intents, records, lost, service, lock, want, at, role, todo, bounds>>

MarkComplete(c) == WriteJournal(c, "complete", "complete", "forget")

\* The intent file is deleted; recovery goes on with the others.  A deletion
\* that is refused is ignored, and the journal stays as it is.
DeleteJournal(i) ==
  /\ journal' = [journal EXCEPT ![i] = "none"]
  /\ kept' = kept \ {i} /\ outlived' = outlived \ {i}
  /\ UNCHANGED faults
KeepJournal(i) ==
  /\ faults < MaxFaults /\ faults' = faults + 1
  /\ kept' = kept \cup {i}
  /\ UNCHANGED <<journal, outlived>>

DropJournal(c) ==
  /\ pc[c] = "forget"
  /\ DeleteJournal(at[c]) \/ KeepJournal(at[c])
  /\ IF role[c] = "own"
       THEN Return(c, "up")
       ELSE /\ todo' = [todo EXCEPT ![c] = @ \ {at[c]}] /\ Goto(c, "recover")
            /\ at' = [at EXCEPT ![c] = NoId] /\ role' = [role EXCEPT ![c] = "own"]
            /\ UNCHANGED <<service, lock, want, seen>>
  /\ UNCHANGED <<trees, inventory, crashes>>

-----------------------------------------------------------------------------
(* remove(): the tree, then InventoryStore::remove; journals are not read *)

RemoveTree(c) ==
  /\ pc[c] = "removeTree"
  /\ \/ target' = [target EXCEPT ![want[c]] = "none"] /\ UNCHANGED faults
     \/ /\ target[want[c]] # "none" /\ faults < MaxFaults /\ faults' = faults + 1
        /\ target' = [target EXCEPT ![want[c]] = "torn"]
  /\ Goto(c, "removeRead")
  /\ UNCHANGED <<staging, backup, intents, inventory, service, lock, frame, crashes>>

\* A missing index is built from the records, and written, first.
RemoveReadIndex(c) ==
  /\ pc[c] = "removeRead"
  /\ index' = (IF indexed THEN index ELSE records) /\ indexed' = TRUE
  /\ seen' = [seen EXCEPT ![c] = index' \ {want[c]}]
  /\ Goto(c, "removeRecord")
  /\ UNCHANGED <<trees, intents, records, lost, service, lock, want, at, role, todo, bounds>>

\* The record is deleted as well as can be: when that is refused it stays, and
\* the index is written without it all the same.
RemoveRecord(c) ==
  /\ pc[c] = "removeRecord"
  /\ \/ records' = records \ {want[c]} /\ lost' = lost \ {want[c]} /\ UNCHANGED faults
     \/ /\ want[c] \in records /\ faults < MaxFaults /\ faults' = faults + 1
        /\ lost' = lost \cup {want[c]} /\ UNCHANGED records
  /\ Goto(c, "removeWrite")
  /\ UNCHANGED <<trees, intents, index, indexed, service, lock, frame, crashes>>

RemoveWriteIndex(c) ==
  /\ pc[c] = "removeWrite"
  /\ index' = seen[c] /\ indexed' = TRUE
  /\ Return(c, "up")
  /\ UNCHANGED <<trees, intents, records, lost, bounds>>

-----------------------------------------------------------------------------
(* list(): without the lock *)

ListIndex(c) ==
  /\ service = "up" /\ pc[c] = "idle"
  /\ IF indexed
       THEN seen' = [seen EXCEPT ![c] = index] /\ Goto(c, "listCheck")
       ELSE Goto(c, "scan") /\ UNCHANGED seen
  /\ UNCHANGED <<trees, intents, inventory, service, lock, want, at, role, todo, bounds>>

\* All of the indexed records are there, or the index has to be rebuilt.
ListComplete(c) ==
  /\ pc[c] = "listCheck" /\ seen[c] \subseteq records
  /\ Goto(c, "idle") /\ seen' = [seen EXCEPT ![c] = {}]
  /\ UNCHANGED <<trees, intents, inventory, service, lock, want, at, role, todo, bounds>>

ListIncomplete(c) ==
  /\ pc[c] = "listCheck" /\ ~(seen[c] \subseteq records)
  /\ Goto(c, "scan") /\ seen' = [seen EXCEPT ![c] = {}]
  /\ UNCHANGED <<trees, intents, inventory, service, lock, want, at, role, todo, bounds>>

\* rebuild_from_records: reads the directory, then writes the index.
Scan(c) ==
  /\ pc[c] = "scan"
  /\ seen' = [seen EXCEPT ![c] = records] /\ Goto(c, "rebuild")
  /\ UNCHANGED <<trees, intents, inventory, service, lock, want, at, role, todo, bounds>>

Rebuild(c) ==
  /\ pc[c] = "rebuild"
  /\ index' = seen[c] /\ indexed' = TRUE /\ lost' = lost \cup (records \ seen[c])
  /\ Goto(c, "idle") /\ seen' = [seen EXCEPT ![c] = {}]
  /\ UNCHANGED <<trees, intents, records, service, lock, want, at, role, todo, bounds>>

-----------------------------------------------------------------------------
(* Failures *)

\* A directory or file that has to be read, made, written, renamed or synced
\* cannot be: the call ends.  What is synced after it was put in place (a journal,
\* a promoted tree, a record, the index) is in place all the same, so the call
\* may also end where the next operation would begin.
Failing ==
  {"recover", "check", "begin", "verified", "promoting", "removeRead", "removeWrite"}
    \cup (Promoting \ {"rename"}) \cup Publishing

FileFails(c) ==
  /\ pc[c] \in Failing
  /\ pc[c] = "forget" => role[c] = "republish" \/ journal[at[c]] = "complete"
  /\ faults < MaxFaults /\ faults' = faults + 1
  /\ Error(c)
  /\ UNCHANGED <<trees, intents, inventory, crashes>>

\* list() could not write the index it rebuilt.
RebuildFails(c) ==
  /\ pc[c] = "rebuild" /\ faults < MaxFaults /\ faults' = faults + 1
  /\ Goto(c, "idle") /\ seen' = [seen EXCEPT ![c] = {}]
  /\ UNCHANGED <<trees, intents, inventory, service, lock, want, at, role, todo, crashes>>

\* The process dies: files stay, the system drops the lock.  A removal that
\* was deleting a tree leaves what it had not deleted yet.
Crash ==
  /\ service \in {"starting", "up"}
  /\ crashes < MaxCrashes /\ crashes' = crashes + 1
  /\ service' = "down" /\ lock' = NoCall
  /\ pc' = [c \in Calls |-> "idle"]
  /\ want' = [c \in Calls |-> NoId] /\ at' = [c \in Calls |-> NoId]
  /\ role' = [c \in Calls |-> "own"]
  /\ todo' = [c \in Calls |-> {}] /\ seen' = [c \in Calls |-> {}]
  /\ \E cut \in SUBSET {i \in Ids : \E c \in Calls :
                           pc[c] = "removeTree" /\ want[c] = i /\ target[i] # "none"} :
       target' = [i \in Ids |-> IF i \in cut THEN "torn" ELSE target[i]]
  /\ UNCHANGED <<staging, backup, intents, inventory, faults>>

-----------------------------------------------------------------------------
Step(c) ==
  \/ RecoverDone(c)
  \/ \E i \in Ids : RecoverRetry(c, i) \/ RecoverRepublish(c, i) \/ RecoverDiscard(c, i)
  \/ Refuse(c) \/ CreateStaging(c) \/ Begin(c) \/ SelfCheck(c) \/ SelfCheckFails(c)
  \/ MarkVerified(c) \/ MarkPromoting(c)
  \/ BackUp(c) \/ BackUpBlocked(c) \/ SyncTree(c) \/ SyncTreeFails(c)
  \/ RenameStaging(c) \/ RenameFails(c) \/ DropBackup(c)
  \/ AddRecord(c) \/ AddReadIndex(c) \/ AddWriteIndex(c) \/ MarkComplete(c) \/ DropJournal(c)
  \/ RemoveTree(c) \/ RemoveReadIndex(c) \/ RemoveRecord(c) \/ RemoveWriteIndex(c)
  \/ ListComplete(c) \/ ListIncomplete(c) \/ Scan(c) \/ Rebuild(c)
  \/ FileFails(c) \/ RebuildFails(c)

Call(c) ==
  \/ c \in Writers /\ \E i \in Ids : CallInstall(c, i) \/ CallRemove(c, i)
  \/ c \in Readers /\ ListIndex(c)

Next ==
  \/ \E c \in Calls : (c \in Writers /\ Start(c)) \/ Step(c) \/ Call(c)
  \/ Crash

\* An install or a removal that runs goes on; a service that is down is started again.
Fairness ==
  /\ \A c \in Writers : WF_vars(Step(c))
  /\ WF_vars(\E c \in Writers : Start(c))

Spec == Init /\ [][Next]_vars /\ Fairness

-----------------------------------------------------------------------------
(* Properties *)

TypeOK ==
  /\ staging \in [Ids -> Trees \ {"torn"}] /\ target \in [Ids -> Trees] /\ backup \in [Ids -> Trees]
  /\ journal \in [Ids -> Journals] /\ kept \subseteq Ids /\ outlived \subseteq Ids
  /\ records \subseteq Ids /\ index \subseteq Ids /\ lost \subseteq records
  /\ indexed \in BOOLEAN
  /\ service \in {"down", "starting", "up", "failed"}
  /\ lock \in Calls \cup {NoCall}
  /\ pc \in [Calls -> {"idle"} \cup Locked \cup Listing]
  /\ want \in [Calls -> Ids \cup {NoId}] /\ at \in [Calls -> Ids \cup {NoId}]
  /\ role \in [Calls -> {"own", "retry", "republish"}]
  /\ todo \in [Calls -> SUBSET Ids] /\ seen \in [Calls -> SUBSET Ids]
  /\ crashes \in 0 .. MaxCrashes /\ faults \in 0 .. MaxFaults

\* A tree that did not pass the self-check is never installed, nor kept as the
\* backup to put back, whatever crashes and failures came between the extraction
\* and the rename.  The one exception: a promoting journal that outlived the
\* removal of its package, which recovery settled but could not delete.  The
\* next recovery takes the staging directory that an install had only just made
\* for the one that journal was about.
NeverUnchecked ==
  [][\A i \in Ids :
       /\ backup'[i] # "raw"
       /\ target'[i] = "raw" =>
             \/ target[i] = "raw"
             \/ /\ journal[i] = "promoting" /\ i \in kept /\ i \in outlived
                /\ \E c \in Calls : at[c] = i /\ role[c] = "retry"]_vars

\* A record is published over a tree that passed the check, by an install or by
\* the recovery of one.  The exceptions are recoveries: the leftover of a removal
\* stands where a promotion cut short expects the new tree, or the package was
\* removed while the journal was there, and its record comes back over whatever
\* is or is not in its place.
PublishedTree ==
  [][\A i \in records' \ records :
       \/ target[i] = "checked"
       \/ /\ i \in outlived \/ (target[i] = "torn" /\ journal[i] = "promoting")
          /\ \E c \in Calls : at[c] = i /\ role[c] # "own"]_vars

\* Between calls every package that is installed and recorded is in the index,
\* three kinds excepted: those a list() left out which rebuilt the index from an
\* older reading of the directory, those whose record a removal could not delete,
\* and those whose transaction is pending in a journal.
RecordsIndexed ==
  (service = "up" /\ lock = NoCall /\ indexed) =>
     \A i \in records :
        i \in index \/ i \in lost \/ journal[i] # "none" \/ target[i] = "none"

\* What recovery cannot undo: a promotion it repeats for a journal that still
\* says verified finds its staged tree gone or the backup's place taken.
Stuck(i) ==
  /\ journal[i] = "verified"
  /\ staging[i] = "none" \/ (target[i] # "none" /\ backup[i] # "none")

\* After a crash, or a start-up that failed on a refused operation, start-up
\* succeeds in the end, whatever was interrupted, but for a promotion that
\* recovery itself repeated from a verified journal and could not finish.
CrashResolved ==
  (service \in {"down", "failed"}) ~> (service = "up" \/ \E i \in Ids : Stuck(i))
=============================================================================
