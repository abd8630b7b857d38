---------------------------- MODULE InstallProofs ----------------------------
(***************************************************************************)
(* What is proved about installation for every set of packages and calls   *)
(* and every number of crashes and refused operations: type correctness,   *)
(* exclusion by the install lock, that no unchecked tree is installed,     *)
(* that a record is published over a checked tree and that the index lists *)
(* what is recorded, each with the exceptions the property names.          *)
(***************************************************************************)
EXTENDS Install, TLAPS

-----------------------------------------------------------------------------
(* The inductive invariant *)

\* The lock names the one call that is inside a locked section.
LockHeld == \A c \in Calls : pc[c] \in Locked <=> lock = c

\* The call that starts the service is the one without a package.
StartHolds ==
  /\ \A c \in Calls : pc[c] \notin Locked => want[c] = NoId
  /\ service \in {"down", "failed"} => lock = NoCall
  /\ \A c \in Calls : pc[c] \in Locked => (want[c] = NoId <=> service = "starting")
  /\ \A c \in Calls : pc[c] \in Installing \cup Removing => want[c] \in Ids
  /\ \A c \in Calls : pc[c] \in Promoting \cup Publishing /\ role[c] = "own" => want[c] \in Ids

\* Where a call works on a transaction there is one.
Transacting == Promoting \cup Publishing \cup (Installing \ {"check"})
AtPackage == \A c \in Calls : pc[c] \in Transacting => at[c] \in Ids

\* Journals that outlived the removal of their package and whose deletion was
\* refused: the only ones that recovery promotes wrongly for.
Stale(i) == i \in kept /\ i \in outlived

\* A journal past the self-check stands for a checked tree, or is stale.
JournalChecked ==
  \A i \in Ids :
    /\ journal[i] = "verified" => staging[i] \in {"none", "checked"} /\ target[i] # "raw"
    /\ journal[i] \in {"promoting", "complete"} =>
          staging[i] \in {"none", "checked"} \/ Stale(i)

\* What a journal past the renames has lost, it has lost to a removal.
JournalOutlived ==
  \A i \in Ids :
    /\ journal[i] = "complete" => i \in records \/ i \in outlived
    /\ journal[i] = "promoting" /\ target[i] = "none" /\ staging[i] = "none" => i \in outlived

\* An unchecked tree that is not recorded yet is where such a journal put it.
RawPending ==
  \A i \in Ids : /\ backup[i] # "raw"
                 /\ target[i] = "raw" /\ i \notin records =>
                       journal[i] = "promoting" /\ i \in outlived

\* What a journal may leave behind when it is deleted, or is not; and so recovery
\* is through with it.
Ends(i) ==
  /\ journal[i] # "verified"
  /\ journal[i] \in {"promoting", "complete"} => i \in records \/ i \in outlived
  /\ target[i] = "raw" => i \in records
Settled(i) == Ends(i) /\ (journal[i] # "none" => i \in kept)

\* Recovery still has every pending journal before it, but for the settled.
Recovering(c) == pc[c] = "recover" \/ (pc[c] \in Promoting \cup Publishing /\ role[c] # "own")
RecoversAll ==
  \A c \in Calls : Recovering(c) =>
    /\ \A i \in Ids \ todo[c] : Settled(i)
    /\ pc[c] # "recover" => at[c] \in todo[c]

\* What the journal and the trees say at each point of a call.
InstallPoint ==
  \A c \in Calls :
    /\ pc[c] = "check" => \A i \in Ids : Settled(i)
    /\ pc[c] \in {"extract", "verified"} => journal[at[c]] = "staging"
    /\ pc[c] \in {"begin", "extract", "verified", "promoting"} =>
          role[c] = "own" /\ target[at[c]] # "raw"
    /\ pc[c] \in {"verified", "promoting"} => staging[at[c]] = "checked"

\* A promotion goes by a checked tree, or by a stale journal.
Repeats(c) == role[c] = "retry" /\ journal[at[c]] = "promoting" /\ Stale(at[c])
PromotePoint ==
  \A c \in Calls :
    /\ pc[c] \in Promoting => role[c] # "republish"
    /\ pc[c] \in {"promoting"} \cup Promoting => journal[at[c]] \in {"verified", "promoting"}
    /\ pc[c] \in {"backup", "sync", "rename"} =>
          /\ target[at[c]] # "raw"
          /\ staging[at[c]] \in {"none", "checked"} \/ Repeats(c)
          /\ journal[at[c]] = "promoting" \/ pc[c] = "rename" => staging[at[c]] # "none"

PublishPoint ==
  \A c \in Calls :
    /\ (pc[c] \in {"drop", "record", "readIndex", "writeIndex", "complete"}
          /\ role[c] # "republish") =>
          /\ target[at[c]] = "checked" \/ (target[at[c]] = "raw" /\ Repeats(c))
          /\ staging[at[c]] = "none"
          /\ journal[at[c]] \in {"verified", "promoting"}
    /\ pc[c] \in {"record", "readIndex", "writeIndex"} /\ role[c] = "republish" =>
          journal[at[c]] = "complete" \/ (journal[at[c]] = "promoting" /\ target[at[c]] # "none")
    /\ pc[c] = "complete" => role[c] # "republish"
    /\ pc[c] \in {"readIndex", "writeIndex", "complete"} => at[c] \in records
    /\ pc[c] = "forget" => Ends(at[c])

\* A removal leaves no unchecked tree, and the journals it finds outlive it.
RemovePoint ==
  \A c \in Calls :
    /\ pc[c] \in Removing /\ journal[want[c]] # "none" => want[c] \in outlived
    /\ pc[c] \in Removing \ {"removeTree"} => target[want[c]] # "raw"

\* What keeps a record out of the index: a rebuild that missed it, a transaction
\* that is pending, or that its tree is gone.
Excused(i) == i \in lost \/ journal[i] # "none" \/ target[i] = "none"
AllListed == \A i \in records : i \in index \/ Excused(i)

\* So it is with the index a call is about to write, but for the package it adds
\* or removes.
SeenListed ==
  \A c \in Calls :
    /\ pc[c] = "writeIndex" => \A i \in records \ {at[c]} : i \in seen[c] \/ Excused(i)
    /\ pc[c] = "removeRecord" => \A i \in records \ {want[c]} : i \in seen[c] \/ Excused(i)
    /\ pc[c] = "removeWrite" => \A i \in records : i \in seen[c] \/ Excused(i)

\* A journal is dropped over a package that needs it no more as an excuse.
EndListed ==
  \A c \in Calls :
    pc[c] \in {"complete", "forget"} /\ at[c] \in records =>
       at[c] \in index \cup lost \/ target[at[c]] = "none"

\* A package that is only being staged has no record.
StagingNew ==
  /\ \A i \in Ids : journal[i] = "staging" => i \notin records
  /\ \A c \in Calls : pc[c] = "begin" => at[c] \notin records

Indexing == AllListed /\ SeenListed /\ EndListed /\ StagingNew

\* The inductive invariant: who is where, and what that says of the files.
Control == TypeOK /\ LockHeld /\ StartHolds /\ AtPackage
Files == JournalChecked /\ JournalOutlived /\ RawPending
Points == RecoversAll /\ InstallPoint /\ PromotePoint /\ PublishPoint /\ RemovePoint
IInv == Control /\ Files /\ Points /\ Indexing

\* Who is where: types, the lock and the start-up are kept by every step, from
\* themselves alone.
LEMMA ControlStep ==
  ASSUME Control, [Next]_vars
  PROVE  Control'
<1> USE IdsAssumption, CallsAssumption, BoundsAssumption DEF Control, TypeOK, LockHeld,
     StartHolds, AtPackage, Trees, Journals, Transacting, Locked, Listing, Promoting, Publishing,
     Installing, Removing
<1>1. ASSUME NEW c \in Calls, Start(c) PROVE Control'
  BY <1>1 DEF Start, Goto, trees, intents, inventory, frame, bounds
<1>2. ASSUME NEW c \in Calls, RecoverDone(c) PROVE Control'
  BY <1>2 DEF RecoverDone, Goto, Return, Forget, trees, intents, inventory, frame, bounds
<1>3. ASSUME NEW c \in Calls, Refuse(c) PROVE Control'
  BY <1>3 DEF Refuse, Goto, Error, Return, Forget, trees, intents, inventory, frame, bounds
<1>4. ASSUME NEW c \in Calls, CreateStaging(c) PROVE Control'
  BY <1>4 DEF CreateStaging, Goto, trees, intents, inventory, frame, bounds
<1>5. ASSUME NEW c \in Calls, Begin(c) PROVE Control'
  BY <1>5 DEF Begin, Goto, WriteJournal, trees, intents, inventory, frame, bounds
<1>6. ASSUME NEW c \in Calls, SelfCheck(c) PROVE Control'
  BY <1>6 DEF SelfCheck, Goto, trees, intents, inventory, frame, bounds
<1>7. ASSUME NEW c \in Calls, SelfCheckFails(c) PROVE Control'
  BY <1>7 DEF SelfCheckFails, Goto, Error, Return, Forget, trees, intents, inventory, frame, bounds
<1>8. ASSUME NEW c \in Calls, MarkVerified(c) PROVE Control'
  BY <1>8 DEF MarkVerified, Goto, WriteJournal, trees, intents, inventory, frame, bounds
<1>9. ASSUME NEW c \in Calls, MarkPromoting(c) PROVE Control'
  BY <1>9 DEF MarkPromoting, Goto, WriteJournal, trees, intents, inventory, frame, bounds
<1>10. ASSUME NEW c \in Calls, BackUp(c) PROVE Control'
  BY <1>10 DEF BackUp, Goto, trees, intents, inventory, frame, bounds
<1>11. ASSUME NEW c \in Calls, BackUpBlocked(c) PROVE Control'
  BY <1>11 DEF BackUpBlocked, Goto, Error, Return, Forget, trees, intents, inventory, frame, bounds
<1>12. ASSUME NEW c \in Calls, SyncTree(c) PROVE Control'
  BY <1>12 DEF SyncTree, Goto, trees, intents, inventory, frame, bounds
<1>13. ASSUME NEW c \in Calls, SyncTreeFails(c) PROVE Control'
  BY <1>13 DEF SyncTreeFails, Goto, Error, Return, Forget, trees, intents, inventory, frame, bounds
<1>14. ASSUME NEW c \in Calls, RenameStaging(c) PROVE Control'
  BY <1>14 DEF RenameStaging, Goto, trees, intents, inventory, frame, bounds
<1>15. ASSUME NEW c \in Calls, RenameFails(c) PROVE Control'
  BY <1>15 DEF RenameFails, Goto, Error, Return, Forget, trees, intents, inventory, frame, bounds
<1>16. ASSUME NEW c \in Calls, DropBackup(c) PROVE Control'
  BY <1>16 DEF DropBackup, Goto, trees, intents, inventory, frame, bounds
<1>17. ASSUME NEW c \in Calls, AddRecord(c) PROVE Control'
  BY <1>17 DEF AddRecord, Goto, trees, intents, inventory, frame, bounds
<1>18. ASSUME NEW c \in Calls, AddReadIndex(c) PROVE Control'
  BY <1>18 DEF AddReadIndex, Goto, trees, intents, inventory, frame, bounds
<1>19. ASSUME NEW c \in Calls, AddWriteIndex(c) PROVE Control'
  BY <1>19 DEF AddWriteIndex, Goto, trees, intents, inventory, frame, bounds
<1>20. ASSUME NEW c \in Calls, MarkComplete(c) PROVE Control'
  BY <1>20 DEF MarkComplete, Goto, WriteJournal, trees, intents, inventory, frame, bounds
<1>21. ASSUME NEW c \in Calls, DropJournal(c) PROVE Control'
  <2>1. TypeOK'
    <3>1. at[c] \in Ids
      BY <1>21 DEF DropJournal
    <3>2. /\ journal' \in [Ids -> Journals] /\ kept' \subseteq Ids /\ outlived' \subseteq Ids
          /\ faults' \in 0 .. MaxFaults /\ crashes' \in 0 .. MaxCrashes
      BY <1>21, <3>1 DEF DropJournal, DeleteJournal, KeepJournal
    <3>3. /\ UNCHANGED <<trees, inventory>> /\ service' \in {"down", "starting", "up", "failed"}
          /\ lock' \in Calls \cup {NoCall}
          /\ pc' \in [Calls -> {"idle"} \cup Locked \cup Listing]
          /\ want' \in [Calls -> Ids \cup {NoId}] /\ at' \in [Calls -> Ids \cup {NoId}]
          /\ role' \in [Calls -> {"own", "retry", "republish"}]
          /\ todo' \in [Calls -> SUBSET Ids] /\ seen' \in [Calls -> SUBSET Ids]
      BY <1>21 DEF DropJournal, Goto, Return, Forget
    <3> QED
      BY <3>2, <3>3 DEF trees, inventory
  <2>2. LockHeld'
    BY <1>21 DEF DropJournal, DeleteJournal, KeepJournal, Goto, Return, Forget, trees, intents,
       inventory, frame, bounds
  <2>3. StartHolds'
    BY <1>21 DEF DropJournal, DeleteJournal, KeepJournal, Goto, Return, Forget, trees, intents,
       inventory, frame, bounds
  <2>4. AtPackage'
    BY <1>21 DEF DropJournal, DeleteJournal, KeepJournal, Goto, Return, Forget, trees, intents,
       inventory, frame, bounds
  <2> QED
    BY <2>1, <2>2, <2>3, <2>4
<1>22. ASSUME NEW c \in Calls, RemoveTree(c) PROVE Control'
  BY <1>22 DEF RemoveTree, Goto, trees, intents, inventory, frame, bounds
<1>23. ASSUME NEW c \in Calls, RemoveReadIndex(c) PROVE Control'
  BY <1>23 DEF RemoveReadIndex, Goto, trees, intents, inventory, frame, bounds
<1>24. ASSUME NEW c \in Calls, RemoveRecord(c) PROVE Control'
  BY <1>24 DEF RemoveRecord, Goto, trees, intents, inventory, frame, bounds
<1>25. ASSUME NEW c \in Calls, RemoveWriteIndex(c) PROVE Control'
  BY <1>25 DEF RemoveWriteIndex, Goto, Return, Forget, trees, intents, inventory, frame, bounds
<1>26. ASSUME NEW c \in Calls, ListIndex(c) PROVE Control'
  BY <1>26 DEF ListIndex, Goto, trees, intents, inventory, frame, bounds
<1>27. ASSUME NEW c \in Calls, ListComplete(c) PROVE Control'
  BY <1>27 DEF ListComplete, Goto, trees, intents, inventory, frame, bounds
<1>28. ASSUME NEW c \in Calls, ListIncomplete(c) PROVE Control'
  BY <1>28 DEF ListIncomplete, Goto, trees, intents, inventory, frame, bounds
<1>29. ASSUME NEW c \in Calls, Scan(c) PROVE Control'
  BY <1>29 DEF Scan, Goto, trees, intents, inventory, frame, bounds
<1>30. ASSUME NEW c \in Calls, Rebuild(c) PROVE Control'
  BY <1>30 DEF Rebuild, Goto, trees, intents, inventory, frame, bounds
<1>31. ASSUME NEW c \in Calls, FileFails(c) PROVE Control'
  BY <1>31 DEF FileFails, Goto, Error, Return, Forget, Failing, trees, intents, inventory, frame,
       bounds
<1>39. ASSUME NEW c \in Calls, RebuildFails(c) PROVE Control'
  BY <1>39 DEF RebuildFails, Goto, trees, intents, inventory, frame, bounds
<1>32. ASSUME NEW c \in Calls, NEW i \in Ids, RecoverRetry(c, i) PROVE Control'
  BY <1>32 DEF RecoverRetry, Goto, Decide, Retries, trees, intents, inventory, frame, bounds
<1>33. ASSUME NEW c \in Calls, NEW i \in Ids, RecoverRepublish(c, i) PROVE Control'
  BY <1>33 DEF RecoverRepublish, Goto, Decide, Republishes, trees, intents, inventory, frame, bounds
<1>34. ASSUME NEW c \in Calls, NEW i \in Ids, RecoverDiscard(c, i) PROVE Control'
  BY <1>34 DEF RecoverDiscard, Goto, Retries, Republishes, Discards, trees, intents, inventory,
       frame, bounds
<1>35. ASSUME NEW c \in Calls, NEW i \in Ids, CallInstall(c, i) PROVE Control'
  BY <1>35 DEF CallInstall, Goto, trees, intents, inventory, frame, bounds
<1>36. ASSUME NEW c \in Calls, NEW i \in Ids, CallRemove(c, i) PROVE Control'
  BY <1>36 DEF CallRemove, Goto, trees, intents, inventory, frame, bounds
<1>37. CASE Crash
  BY <1>37 DEF Crash, trees, intents, inventory, frame, bounds
<1>38. CASE UNCHANGED vars
  BY <1>38 DEF vars, trees, intents, inventory, frame, bounds
<1> HIDE DEF Control
<1> QED
  BY <1>1, <1>2, <1>3, <1>4, <1>5, <1>6, <1>7, <1>8, <1>9, <1>10, <1>11, <1>12, <1>13,
       <1>14, <1>15, <1>16, <1>17, <1>18, <1>19, <1>20, <1>21, <1>22, <1>23, <1>24, <1>25, <1>26,
       <1>27, <1>28, <1>29, <1>30, <1>31, <1>32, <1>33, <1>34, <1>35, <1>36, <1>37, <1>38, <1>39 DEF
       Next, Step, Call

\* What the trees and the journals say of each other is kept by every step.
LEMMA FilesStep ==
  ASSUME Control, Files, Points, [Next]_vars
  PROVE  Files'
<1> USE IdsAssumption, CallsAssumption, BoundsAssumption DEF Control, Files, Points, TypeOK,
     LockHeld, StartHolds, AtPackage, JournalChecked, JournalOutlived, RawPending,
     Stale, Ends, Settled, Repeats, RecoversAll, Recovering, InstallPoint, PromotePoint,
     PublishPoint, RemovePoint, Trees,
     Journals, Transacting, Locked, Listing, Promoting, Publishing, Installing, Removing
<1>1. ASSUME NEW c \in Calls, Start(c) PROVE Files'
  BY <1>1 DEF Start, Goto, trees, intents, inventory, frame, bounds
<1>2. ASSUME NEW c \in Calls, RecoverDone(c) PROVE Files'
  BY <1>2 DEF RecoverDone, Goto, Return, Forget, trees, intents, inventory, frame, bounds
<1>3. ASSUME NEW c \in Calls, Refuse(c) PROVE Files'
  BY <1>3 DEF Refuse, Goto, Error, Return, Forget, trees, intents, inventory, frame, bounds
<1>4. ASSUME NEW c \in Calls, CreateStaging(c) PROVE Files'
  BY <1>4 DEF CreateStaging, Goto, trees, intents, inventory, frame, bounds
<1>5. ASSUME NEW c \in Calls, Begin(c) PROVE Files'
  BY <1>5 DEF Begin, Goto, WriteJournal, trees, intents, inventory, frame, bounds
<1>6. ASSUME NEW c \in Calls, SelfCheck(c) PROVE Files'
  BY <1>6 DEF SelfCheck, Goto, trees, intents, inventory, frame, bounds
<1>7. ASSUME NEW c \in Calls, SelfCheckFails(c) PROVE Files'
  BY <1>7 DEF SelfCheckFails, Goto, Error, Return, Forget, trees, intents, inventory, frame, bounds
<1>8. ASSUME NEW c \in Calls, MarkVerified(c) PROVE Files'
  BY <1>8 DEF MarkVerified, Goto, WriteJournal, trees, intents, inventory, frame, bounds
<1>9. ASSUME NEW c \in Calls, MarkPromoting(c) PROVE Files'
  BY <1>9 DEF MarkPromoting, Goto, WriteJournal, trees, intents, inventory, frame, bounds
<1>10. ASSUME NEW c \in Calls, BackUp(c) PROVE Files'
  BY <1>10 DEF BackUp, Goto, trees, intents, inventory, frame, bounds
<1>11. ASSUME NEW c \in Calls, BackUpBlocked(c) PROVE Files'
  BY <1>11 DEF BackUpBlocked, Goto, Error, Return, Forget, trees, intents, inventory, frame, bounds
<1>12. ASSUME NEW c \in Calls, SyncTree(c) PROVE Files'
  BY <1>12 DEF SyncTree, Goto, trees, intents, inventory, frame, bounds
<1>13. ASSUME NEW c \in Calls, SyncTreeFails(c) PROVE Files'
  BY <1>13 DEF SyncTreeFails, Goto, Error, Return, Forget, trees, intents, inventory, frame, bounds
<1>14. ASSUME NEW c \in Calls, RenameStaging(c) PROVE Files'
  BY <1>14 DEF RenameStaging, Goto, trees, intents, inventory, frame, bounds
<1>15. ASSUME NEW c \in Calls, RenameFails(c) PROVE Files'
  BY <1>15 DEF RenameFails, Goto, Error, Return, Forget, trees, intents, inventory, frame, bounds
<1>16. ASSUME NEW c \in Calls, DropBackup(c) PROVE Files'
  BY <1>16 DEF DropBackup, Goto, trees, intents, inventory, frame, bounds
<1>17. ASSUME NEW c \in Calls, AddRecord(c) PROVE Files'
  BY <1>17 DEF AddRecord, Goto, trees, intents, inventory, frame, bounds
<1>18. ASSUME NEW c \in Calls, AddReadIndex(c) PROVE Files'
  BY <1>18 DEF AddReadIndex, Goto, trees, intents, inventory, frame, bounds
<1>19. ASSUME NEW c \in Calls, AddWriteIndex(c) PROVE Files'
  BY <1>19 DEF AddWriteIndex, Goto, trees, intents, inventory, frame, bounds
<1>20. ASSUME NEW c \in Calls, MarkComplete(c) PROVE Files'
  <2>1. JournalChecked'
    BY <1>20 DEF MarkComplete, Goto, WriteJournal, trees, intents, inventory, frame, bounds
  <2>2. JournalOutlived'
    BY <1>20 DEF MarkComplete, Goto, WriteJournal, trees, intents, inventory, frame, bounds
  <2>3. RawPending'
    BY <1>20 DEF MarkComplete, Goto, WriteJournal, trees, intents, inventory, frame, bounds
  <2> QED
    BY <2>1, <2>2, <2>3
<1>21. ASSUME NEW c \in Calls, DropJournal(c) PROVE Files'
  BY <1>21 DEF DropJournal, DeleteJournal, KeepJournal, Goto, Return, Forget, trees, intents,
       inventory, frame, bounds
<1>22. ASSUME NEW c \in Calls, RemoveTree(c) PROVE Files'
  BY <1>22 DEF RemoveTree, Goto, trees, intents, inventory, frame, bounds
<1>23. ASSUME NEW c \in Calls, RemoveReadIndex(c) PROVE Files'
  BY <1>23 DEF RemoveReadIndex, Goto, trees, intents, inventory, frame, bounds
<1>24. ASSUME NEW c \in Calls, RemoveRecord(c) PROVE Files'
  BY <1>24 DEF RemoveRecord, Goto, trees, intents, inventory, frame, bounds
<1>25. ASSUME NEW c \in Calls, RemoveWriteIndex(c) PROVE Files'
  BY <1>25 DEF RemoveWriteIndex, Goto, Return, Forget, trees, intents, inventory, frame, bounds
<1>26. ASSUME NEW c \in Calls, ListIndex(c) PROVE Files'
  BY <1>26 DEF ListIndex, Goto, trees, intents, inventory, frame, bounds
<1>27. ASSUME NEW c \in Calls, ListComplete(c) PROVE Files'
  BY <1>27 DEF ListComplete, Goto, trees, intents, inventory, frame, bounds
<1>28. ASSUME NEW c \in Calls, ListIncomplete(c) PROVE Files'
  BY <1>28 DEF ListIncomplete, Goto, trees, intents, inventory, frame, bounds
<1>29. ASSUME NEW c \in Calls, Scan(c) PROVE Files'
  BY <1>29 DEF Scan, Goto, trees, intents, inventory, frame, bounds
<1>30. ASSUME NEW c \in Calls, Rebuild(c) PROVE Files'
  BY <1>30 DEF Rebuild, Goto, trees, intents, inventory, frame, bounds
<1>31. ASSUME NEW c \in Calls, FileFails(c) PROVE Files'
  BY <1>31 DEF FileFails, Goto, Error, Return, Forget, Failing, trees, intents, inventory, frame,
       bounds
<1>39. ASSUME NEW c \in Calls, RebuildFails(c) PROVE Files'
  BY <1>39 DEF RebuildFails, Goto, trees, intents, inventory, frame, bounds
<1>32. ASSUME NEW c \in Calls, NEW i \in Ids, RecoverRetry(c, i) PROVE Files'
  BY <1>32 DEF RecoverRetry, Goto, Decide, Retries, trees, intents, inventory, frame, bounds
<1>33. ASSUME NEW c \in Calls, NEW i \in Ids, RecoverRepublish(c, i) PROVE Files'
  BY <1>33 DEF RecoverRepublish, Goto, Decide, Republishes, trees, intents, inventory, frame, bounds
<1>34. ASSUME NEW c \in Calls, NEW i \in Ids, RecoverDiscard(c, i) PROVE Files'
  BY <1>34 DEF RecoverDiscard, Goto, Retries, Republishes, Discards, trees, intents, inventory,
       frame, bounds
<1>35. ASSUME NEW c \in Calls, NEW i \in Ids, CallInstall(c, i) PROVE Files'
  BY <1>35 DEF CallInstall, Goto, trees, intents, inventory, frame, bounds
<1>36. ASSUME NEW c \in Calls, NEW i \in Ids, CallRemove(c, i) PROVE Files'
  BY <1>36 DEF CallRemove, Goto, trees, intents, inventory, frame, bounds
<1>37. CASE Crash
  BY <1>37 DEF Crash, trees, intents, inventory, frame, bounds
<1>38. CASE UNCHANGED vars
  BY <1>38 DEF vars, trees, intents, inventory, frame, bounds
<1> HIDE DEF Files
<1> QED
  BY <1>1, <1>2, <1>3, <1>4, <1>5, <1>6, <1>7, <1>8, <1>9, <1>10, <1>11, <1>12, <1>13,
       <1>14, <1>15, <1>16, <1>17, <1>18, <1>19, <1>20, <1>21, <1>22, <1>23, <1>24, <1>25, <1>26,
       <1>27, <1>28, <1>29, <1>30, <1>31, <1>32, <1>33, <1>34, <1>35, <1>36, <1>37, <1>38, <1>39 DEF
       Next, Step, Call

\* What a call may count on at each point is kept by every step, its own or
\* another call's.
LEMMA PointsStep ==
  ASSUME Control, Files, Points, [Next]_vars
  PROVE  Points'
<1> USE IdsAssumption, CallsAssumption, BoundsAssumption DEF Control, Files, Points, TypeOK,
     LockHeld, StartHolds, AtPackage, JournalChecked, JournalOutlived, RawPending,
     Stale, Ends, Settled, Repeats, RecoversAll, Recovering, InstallPoint, PromotePoint,
     PublishPoint, RemovePoint, Trees,
     Journals, Transacting, Locked, Listing, Promoting, Publishing, Installing, Removing
<1>1. ASSUME NEW c \in Calls, Start(c) PROVE Points'
  BY <1>1 DEF Start, Goto, trees, intents, inventory, frame, bounds
<1>2. ASSUME NEW c \in Calls, RecoverDone(c) PROVE Points'
  <2>1. RecoversAll'
    BY <1>2 DEF RecoverDone, Goto, Return, Forget, trees, intents, inventory, frame, bounds
  <2>2. InstallPoint'
    BY <1>2 DEF RecoverDone, Goto, Return, Forget, trees, intents, inventory, frame, bounds
  <2>3. PromotePoint'
    BY <1>2 DEF RecoverDone, Goto, Return, Forget, trees, intents, inventory, frame, bounds
  <2>4. PublishPoint'
    BY <1>2 DEF RecoverDone, Goto, Return, Forget, trees, intents, inventory, frame, bounds
  <2>5. RemovePoint'
    BY <1>2 DEF RecoverDone, Goto, Return, Forget, trees, intents, inventory, frame, bounds
  <2> QED
    BY <2>1, <2>2, <2>3, <2>4, <2>5
<1>3. ASSUME NEW c \in Calls, Refuse(c) PROVE Points'
  BY <1>3 DEF Refuse, Goto, Error, Return, Forget, trees, intents, inventory, frame, bounds
<1>4. ASSUME NEW c \in Calls, CreateStaging(c) PROVE Points'
  BY <1>4 DEF CreateStaging, Goto, trees, intents, inventory, frame, bounds
<1>5. ASSUME NEW c \in Calls, Begin(c) PROVE Points'
  BY <1>5 DEF Begin, Goto, WriteJournal, trees, intents, inventory, frame, bounds
<1>6. ASSUME NEW c \in Calls, SelfCheck(c) PROVE Points'
  BY <1>6 DEF SelfCheck, Goto, trees, intents, inventory, frame, bounds
<1>7. ASSUME NEW c \in Calls, SelfCheckFails(c) PROVE Points'
  BY <1>7 DEF SelfCheckFails, Goto, Error, Return, Forget, trees, intents, inventory, frame, bounds
<1>8. ASSUME NEW c \in Calls, MarkVerified(c) PROVE Points'
  BY <1>8 DEF MarkVerified, Goto, WriteJournal, trees, intents, inventory, frame, bounds
<1>9. ASSUME NEW c \in Calls, MarkPromoting(c) PROVE Points'
  BY <1>9 DEF MarkPromoting, Goto, WriteJournal, trees, intents, inventory, frame, bounds
<1>10. ASSUME NEW c \in Calls, BackUp(c) PROVE Points'
  BY <1>10 DEF BackUp, Goto, trees, intents, inventory, frame, bounds
<1>11. ASSUME NEW c \in Calls, BackUpBlocked(c) PROVE Points'
  BY <1>11 DEF BackUpBlocked, Goto, Error, Return, Forget, trees, intents, inventory, frame, bounds
<1>12. ASSUME NEW c \in Calls, SyncTree(c) PROVE Points'
  BY <1>12 DEF SyncTree, Goto, trees, intents, inventory, frame, bounds
<1>13. ASSUME NEW c \in Calls, SyncTreeFails(c) PROVE Points'
  BY <1>13 DEF SyncTreeFails, Goto, Error, Return, Forget, trees, intents, inventory, frame, bounds
<1>14. ASSUME NEW c \in Calls, RenameStaging(c) PROVE Points'
  <2>1. RecoversAll'
    BY <1>14 DEF RenameStaging, Goto, trees, intents, inventory, frame, bounds
  <2>2. InstallPoint'
    BY <1>14 DEF RenameStaging, Goto, trees, intents, inventory, frame, bounds
  <2>3. PromotePoint'
    BY <1>14 DEF RenameStaging, Goto, trees, intents, inventory, frame, bounds
  <2>4. PublishPoint'
    <3>1. /\ pc' = [pc EXCEPT ![c] = "drop"] /\ UNCHANGED <<journal, kept, outlived, records, role, at>>
          /\ target' = [target EXCEPT ![at[c]] = staging[at[c]]]
          /\ staging' = [staging EXCEPT ![at[c]] = "none"]
      BY <1>14 DEF RenameStaging, Goto, intents, inventory, frame
    <3>2. /\ pc[c] = "rename" /\ at[c] \in Ids /\ role[c] # "republish"
          /\ \A d \in Calls : pc[d] \in Publishing \cup {"drop"} => d # c /\ lock = d /\ lock = c
      BY <1>14 DEF RenameStaging
    <3>3. /\ staging[at[c]] = "checked" \/ (staging[at[c]] = "raw" /\ Repeats(c))
          /\ journal[at[c]] \in {"verified", "promoting"}
      <4>1. staging[at[c]] \in Trees /\ staging[at[c]] # "none"
        BY <3>2
      <4>2. staging[at[c]] # "torn"
        BY <3>2
      <4> QED
        BY <3>2, <4>1, <4>2
    <3> QED
      BY <3>1, <3>2, <3>3
  <2>5. RemovePoint'
    BY <1>14 DEF RenameStaging, Goto, trees, intents, inventory, frame, bounds
  <2> QED
    BY <2>1, <2>2, <2>3, <2>4, <2>5
<1>15. ASSUME NEW c \in Calls, RenameFails(c) PROVE Points'
  BY <1>15 DEF RenameFails, Goto, Error, Return, Forget, trees, intents, inventory, frame, bounds
<1>16. ASSUME NEW c \in Calls, DropBackup(c) PROVE Points'
  BY <1>16 DEF DropBackup, Goto, trees, intents, inventory, frame, bounds
<1>17. ASSUME NEW c \in Calls, AddRecord(c) PROVE Points'
  BY <1>17 DEF AddRecord, Goto, trees, intents, inventory, frame, bounds
<1>18. ASSUME NEW c \in Calls, AddReadIndex(c) PROVE Points'
  BY <1>18 DEF AddReadIndex, Goto, trees, intents, inventory, frame, bounds
<1>19. ASSUME NEW c \in Calls, AddWriteIndex(c) PROVE Points'
  BY <1>19 DEF AddWriteIndex, Goto, trees, intents, inventory, frame, bounds
<1>20. ASSUME NEW c \in Calls, MarkComplete(c) PROVE Points'
  <2>1. RecoversAll'
    BY <1>20 DEF MarkComplete, Goto, WriteJournal, trees, intents, inventory, frame, bounds
  <2>2. InstallPoint'
    BY <1>20 DEF MarkComplete, Goto, WriteJournal, trees, intents, inventory, frame, bounds
  <2>3. PromotePoint'
    BY <1>20 DEF MarkComplete, Goto, WriteJournal, trees, intents, inventory, frame, bounds
  <2>4. PublishPoint'
    BY <1>20 DEF MarkComplete, Goto, WriteJournal, trees, intents, inventory, frame, bounds
  <2>5. RemovePoint'
    BY <1>20 DEF MarkComplete, Goto, WriteJournal, trees, intents, inventory, frame, bounds
  <2> QED
    BY <2>1, <2>2, <2>3, <2>4, <2>5
<1>21. ASSUME NEW c \in Calls, DropJournal(c) PROVE Points'
  <2>1. RecoversAll'
    BY <1>21 DEF DropJournal, DeleteJournal, KeepJournal, Goto, Return, Forget, trees, intents,
       inventory, frame, bounds
  <2>2. InstallPoint'
    BY <1>21 DEF DropJournal, DeleteJournal, KeepJournal, Goto, Return, Forget, trees, intents,
       inventory, frame, bounds
  <2>3. PromotePoint'
    BY <1>21 DEF DropJournal, DeleteJournal, KeepJournal, Goto, Return, Forget, trees, intents,
       inventory, frame, bounds
  <2>4. PublishPoint'
    BY <1>21 DEF DropJournal, DeleteJournal, KeepJournal, Goto, Return, Forget, trees, intents,
       inventory, frame, bounds
  <2>5. RemovePoint'
    BY <1>21 DEF DropJournal, DeleteJournal, KeepJournal, Goto, Return, Forget, trees, intents,
       inventory, frame, bounds
  <2> QED
    BY <2>1, <2>2, <2>3, <2>4, <2>5
<1>22. ASSUME NEW c \in Calls, RemoveTree(c) PROVE Points'
  BY <1>22 DEF RemoveTree, Goto, trees, intents, inventory, frame, bounds
<1>23. ASSUME NEW c \in Calls, RemoveReadIndex(c) PROVE Points'
  BY <1>23 DEF RemoveReadIndex, Goto, trees, intents, inventory, frame, bounds
<1>24. ASSUME NEW c \in Calls, RemoveRecord(c) PROVE Points'
  BY <1>24 DEF RemoveRecord, Goto, trees, intents, inventory, frame, bounds
<1>25. ASSUME NEW c \in Calls, RemoveWriteIndex(c) PROVE Points'
  BY <1>25 DEF RemoveWriteIndex, Goto, Return, Forget, trees, intents, inventory, frame, bounds
<1>26. ASSUME NEW c \in Calls, ListIndex(c) PROVE Points'
  BY <1>26 DEF ListIndex, Goto, trees, intents, inventory, frame, bounds
<1>27. ASSUME NEW c \in Calls, ListComplete(c) PROVE Points'
  BY <1>27 DEF ListComplete, Goto, trees, intents, inventory, frame, bounds
<1>28. ASSUME NEW c \in Calls, ListIncomplete(c) PROVE Points'
  BY <1>28 DEF ListIncomplete, Goto, trees, intents, inventory, frame, bounds
<1>29. ASSUME NEW c \in Calls, Scan(c) PROVE Points'
  BY <1>29 DEF Scan, Goto, trees, intents, inventory, frame, bounds
<1>30. ASSUME NEW c \in Calls, Rebuild(c) PROVE Points'
  BY <1>30 DEF Rebuild, Goto, trees, intents, inventory, frame, bounds
<1>31. ASSUME NEW c \in Calls, FileFails(c) PROVE Points'
  BY <1>31 DEF FileFails, Goto, Error, Return, Forget, Failing, trees, intents, inventory, frame,
       bounds
<1>39. ASSUME NEW c \in Calls, RebuildFails(c) PROVE Points'
  BY <1>39 DEF RebuildFails, Goto, trees, intents, inventory, frame, bounds
<1>32. ASSUME NEW c \in Calls, NEW i \in Ids, RecoverRetry(c, i) PROVE Points'
  BY <1>32 DEF RecoverRetry, Goto, Decide, Retries, trees, intents, inventory, frame, bounds
<1>33. ASSUME NEW c \in Calls, NEW i \in Ids, RecoverRepublish(c, i) PROVE Points'
  BY <1>33 DEF RecoverRepublish, Goto, Decide, Republishes, trees, intents, inventory, frame, bounds
<1>34. ASSUME NEW c \in Calls, NEW i \in Ids, RecoverDiscard(c, i) PROVE Points'
  BY <1>34 DEF RecoverDiscard, Goto, Retries, Republishes, Discards, trees, intents, inventory,
       frame, bounds
<1>35. ASSUME NEW c \in Calls, NEW i \in Ids, CallInstall(c, i) PROVE Points'
  BY <1>35 DEF CallInstall, Goto, trees, intents, inventory, frame, bounds
<1>36. ASSUME NEW c \in Calls, NEW i \in Ids, CallRemove(c, i) PROVE Points'
  BY <1>36 DEF CallRemove, Goto, trees, intents, inventory, frame, bounds
<1>37. CASE Crash
  BY <1>37 DEF Crash, trees, intents, inventory, frame, bounds
<1>38. CASE UNCHANGED vars
  BY <1>38 DEF vars, trees, intents, inventory, frame, bounds
<1> HIDE DEF Points
<1> QED
  BY <1>1, <1>2, <1>3, <1>4, <1>5, <1>6, <1>7, <1>8, <1>9, <1>10, <1>11, <1>12, <1>13,
       <1>14, <1>15, <1>16, <1>17, <1>18, <1>19, <1>20, <1>21, <1>22, <1>23, <1>24, <1>25, <1>26,
       <1>27, <1>28, <1>29, <1>30, <1>31, <1>32, <1>33, <1>34, <1>35, <1>36, <1>37, <1>38, <1>39 DEF
       Next, Step, Call

\* The index is kept by every step: whatever a listing call rebuilds without the
\* lock, what it leaves out is among the lost.
LEMMA IndexingStep ==
  ASSUME Control, Points, Indexing, [Next]_vars
  PROVE  Indexing'
<1> USE IdsAssumption, CallsAssumption DEF Control, Points, Indexing, TypeOK, LockHeld, StartHolds,
     AtPackage, InstallPoint, PromotePoint, PublishPoint, Excused, AllListed, SeenListed, EndListed, StagingNew,
     Transacting, Locked, Promoting, Publishing, Installing, Removing
<1>1. ASSUME NEW c \in Calls, Start(c) PROVE Indexing'
  BY <1>1 DEF Start, Goto, trees, intents, inventory, frame, bounds
<1>2. ASSUME NEW c \in Calls, RecoverDone(c) PROVE Indexing'
  BY <1>2 DEF RecoverDone, Goto, Return, Forget, trees, intents, inventory, frame, bounds
<1>3. ASSUME NEW c \in Calls, Refuse(c) PROVE Indexing'
  BY <1>3 DEF Refuse, Goto, Error, Return, Forget, trees, intents, inventory, frame, bounds
<1>4. ASSUME NEW c \in Calls, CreateStaging(c) PROVE Indexing'
  BY <1>4 DEF CreateStaging, Goto, trees, intents, inventory, frame, bounds
<1>5. ASSUME NEW c \in Calls, Begin(c) PROVE Indexing'
  BY <1>5 DEF Begin, Goto, WriteJournal, trees, intents, inventory, frame, bounds
<1>6. ASSUME NEW c \in Calls, SelfCheck(c) PROVE Indexing'
  BY <1>6 DEF SelfCheck, Goto, trees, intents, inventory, frame, bounds
<1>7. ASSUME NEW c \in Calls, SelfCheckFails(c) PROVE Indexing'
  BY <1>7 DEF SelfCheckFails, Goto, Error, Return, Forget, trees, intents, inventory, frame, bounds
<1>8. ASSUME NEW c \in Calls, MarkVerified(c) PROVE Indexing'
  BY <1>8 DEF MarkVerified, Goto, WriteJournal, trees, intents, inventory, frame, bounds
<1>9. ASSUME NEW c \in Calls, MarkPromoting(c) PROVE Indexing'
  BY <1>9 DEF MarkPromoting, Goto, WriteJournal, trees, intents, inventory, frame, bounds
<1>10. ASSUME NEW c \in Calls, BackUp(c) PROVE Indexing'
  BY <1>10 DEF BackUp, Goto, trees, intents, inventory, frame, bounds
<1>11. ASSUME NEW c \in Calls, BackUpBlocked(c) PROVE Indexing'
  BY <1>11 DEF BackUpBlocked, Goto, Error, Return, Forget, trees, intents, inventory, frame, bounds
<1>12. ASSUME NEW c \in Calls, SyncTree(c) PROVE Indexing'
  BY <1>12 DEF SyncTree, Goto, trees, intents, inventory, frame, bounds
<1>13. ASSUME NEW c \in Calls, SyncTreeFails(c) PROVE Indexing'
  BY <1>13 DEF SyncTreeFails, Goto, Error, Return, Forget, trees, intents, inventory, frame, bounds
<1>14. ASSUME NEW c \in Calls, RenameStaging(c) PROVE Indexing'
  BY <1>14 DEF RenameStaging, Goto, trees, intents, inventory, frame, bounds
<1>15. ASSUME NEW c \in Calls, RenameFails(c) PROVE Indexing'
  BY <1>15 DEF RenameFails, Goto, Error, Return, Forget, trees, intents, inventory, frame, bounds
<1>16. ASSUME NEW c \in Calls, DropBackup(c) PROVE Indexing'
  BY <1>16 DEF DropBackup, Goto, trees, intents, inventory, frame, bounds
<1>17. ASSUME NEW c \in Calls, AddRecord(c) PROVE Indexing'
  BY <1>17 DEF AddRecord, Goto, trees, intents, inventory, frame, bounds
<1>18. ASSUME NEW c \in Calls, AddReadIndex(c) PROVE Indexing'
  BY <1>18 DEF AddReadIndex, Goto, trees, intents, inventory, frame, bounds
<1>19. ASSUME NEW c \in Calls, AddWriteIndex(c) PROVE Indexing'
  BY <1>19 DEF AddWriteIndex, Goto, trees, intents, inventory, frame, bounds
<1>20. ASSUME NEW c \in Calls, MarkComplete(c) PROVE Indexing'
  <2>1. AllListed'
    BY <1>20 DEF MarkComplete, Goto, WriteJournal, trees, intents, inventory, frame, bounds
  <2>2. SeenListed'
    BY <1>20 DEF MarkComplete, Goto, WriteJournal, trees, intents, inventory, frame, bounds
  <2>3. EndListed'
    BY <1>20 DEF MarkComplete, Goto, WriteJournal, trees, intents, inventory, frame, bounds
  <2>4. StagingNew'
    BY <1>20 DEF MarkComplete, Goto, WriteJournal, trees, intents, inventory, frame, bounds
  <2> QED
    BY <2>1, <2>2, <2>3, <2>4
<1>21. ASSUME NEW c \in Calls, DropJournal(c) PROVE Indexing'
  <2>1. AllListed'
    BY <1>21 DEF DropJournal, DeleteJournal, KeepJournal, Goto, Return, Forget, trees, intents,
       inventory, frame, bounds
  <2>2. SeenListed'
    BY <1>21 DEF DropJournal, DeleteJournal, KeepJournal, Goto, Return, Forget, trees, intents,
       inventory, frame, bounds
  <2>3. EndListed'
    BY <1>21 DEF DropJournal, DeleteJournal, KeepJournal, Goto, Return, Forget, trees, intents,
       inventory, frame, bounds
  <2>4. StagingNew'
    BY <1>21 DEF DropJournal, DeleteJournal, KeepJournal, Goto, Return, Forget, trees, intents,
       inventory, frame, bounds
  <2> QED
    BY <2>1, <2>2, <2>3, <2>4
<1>22. ASSUME NEW c \in Calls, RemoveTree(c) PROVE Indexing'
  BY <1>22 DEF RemoveTree, Goto, trees, intents, inventory, frame, bounds
<1>23. ASSUME NEW c \in Calls, RemoveReadIndex(c) PROVE Indexing'
  BY <1>23 DEF RemoveReadIndex, Goto, trees, intents, inventory, frame, bounds
<1>24. ASSUME NEW c \in Calls, RemoveRecord(c) PROVE Indexing'
  BY <1>24 DEF RemoveRecord, Goto, trees, intents, inventory, frame, bounds
<1>25. ASSUME NEW c \in Calls, RemoveWriteIndex(c) PROVE Indexing'
  BY <1>25 DEF RemoveWriteIndex, Goto, Return, Forget, trees, intents, inventory, frame, bounds
<1>26. ASSUME NEW c \in Calls, ListIndex(c) PROVE Indexing'
  BY <1>26 DEF ListIndex, Goto, trees, intents, inventory, frame, bounds
<1>27. ASSUME NEW c \in Calls, ListComplete(c) PROVE Indexing'
  BY <1>27 DEF ListComplete, Goto, trees, intents, inventory, frame, bounds
<1>28. ASSUME NEW c \in Calls, ListIncomplete(c) PROVE Indexing'
  BY <1>28 DEF ListIncomplete, Goto, trees, intents, inventory, frame, bounds
<1>29. ASSUME NEW c \in Calls, Scan(c) PROVE Indexing'
  BY <1>29 DEF Scan, Goto, trees, intents, inventory, frame, bounds
<1>30. ASSUME NEW c \in Calls, Rebuild(c) PROVE Indexing'
  BY <1>30 DEF Rebuild, Goto, trees, intents, inventory, frame, bounds
<1>31. ASSUME NEW c \in Calls, FileFails(c) PROVE Indexing'
  BY <1>31 DEF FileFails, Goto, Error, Return, Forget, Failing, trees, intents, inventory, frame,
       bounds
<1>39. ASSUME NEW c \in Calls, RebuildFails(c) PROVE Indexing'
  BY <1>39 DEF RebuildFails, Goto, trees, intents, inventory, frame, bounds
<1>32. ASSUME NEW c \in Calls, NEW i \in Ids, RecoverRetry(c, i) PROVE Indexing'
  BY <1>32 DEF RecoverRetry, Goto, Decide, Retries, trees, intents, inventory, frame, bounds
<1>33. ASSUME NEW c \in Calls, NEW i \in Ids, RecoverRepublish(c, i) PROVE Indexing'
  BY <1>33 DEF RecoverRepublish, Goto, Decide, Republishes, trees, intents, inventory, frame, bounds
<1>34. ASSUME NEW c \in Calls, NEW i \in Ids, RecoverDiscard(c, i) PROVE Indexing'
  <2>1. /\ i \in records => i \in index \cup lost \/ target[i] = "none"
        /\ pc' = [pc EXCEPT ![c] = "forget"] /\ at' = [at EXCEPT ![c] = i]
        /\ UNCHANGED <<target, journal, records, index, lost, want, seen>>
    BY <1>34 DEF RecoverDiscard, Discards, Retries, Republishes, Goto, Journals, intents, inventory
  <2>2. AllListed' /\ SeenListed'
    BY <2>1
  <2>3. EndListed'
    BY <2>1
  <2>4. StagingNew'
    BY <2>1
  <2> QED
    BY <2>2, <2>3, <2>4
<1>35. ASSUME NEW c \in Calls, NEW i \in Ids, CallInstall(c, i) PROVE Indexing'
  BY <1>35 DEF CallInstall, Goto, trees, intents, inventory, frame, bounds
<1>36. ASSUME NEW c \in Calls, NEW i \in Ids, CallRemove(c, i) PROVE Indexing'
  BY <1>36 DEF CallRemove, Goto, trees, intents, inventory, frame, bounds
<1>37. CASE Crash
  BY <1>37 DEF Crash, trees, intents, inventory, frame, bounds
<1>38. CASE UNCHANGED vars
  BY <1>38 DEF vars, trees, intents, inventory, frame, bounds
<1> HIDE DEF Indexing
<1> QED
  BY <1>1, <1>2, <1>3, <1>4, <1>5, <1>6, <1>7, <1>8, <1>9, <1>10, <1>11, <1>12, <1>13,
       <1>14, <1>15, <1>16, <1>17, <1>18, <1>19, <1>20, <1>21, <1>22, <1>23, <1>24, <1>25, <1>26,
       <1>27, <1>28, <1>29, <1>30, <1>31, <1>32, <1>33, <1>34, <1>35, <1>36, <1>37, <1>38, <1>39 DEF
       Next, Step, Call

\* Only the publication of a package adds a record.
LEMMA RecordsGrow ==
  ASSUME Control, [Next]_vars, ~ \E c \in Calls : AddRecord(c)
  PROVE  records' \subseteq records
<1>1. ASSUME NEW c \in Calls, Start(c) \/ Call(c) PROVE records' \subseteq records
  BY <1>1 DEF Start, Call, CallInstall, CallRemove, ListIndex, trees, inventory
<1>2. ASSUME NEW c \in Calls,
             \/ RecoverDone(c)
             \/ \E j \in Ids : RecoverRetry(c, j) \/ RecoverRepublish(c, j) \/ RecoverDiscard(c, j)
      PROVE  records' \subseteq records
  BY <1>2 DEF RecoverDone, RecoverRetry, RecoverRepublish, RecoverDiscard, Decide, trees,
       inventory
<1>3. ASSUME NEW c \in Calls,
             \/ Refuse(c) \/ CreateStaging(c) \/ Begin(c) \/ SelfCheck(c) \/ SelfCheckFails(c)
             \/ MarkVerified(c) \/ MarkPromoting(c) \/ MarkComplete(c)
      PROVE  records' \subseteq records
  BY <1>3 DEF Refuse, CreateStaging, Begin, SelfCheck, SelfCheckFails, MarkVerified,
       MarkPromoting, MarkComplete, WriteJournal, trees, inventory
<1>4. ASSUME NEW c \in Calls,
             \/ BackUp(c) \/ BackUpBlocked(c) \/ SyncTree(c) \/ SyncTreeFails(c)
             \/ RenameStaging(c) \/ RenameFails(c) \/ DropBackup(c)
      PROVE  records' \subseteq records
  BY <1>4 DEF BackUp, BackUpBlocked, SyncTree, SyncTreeFails, RenameStaging, RenameFails,
       DropBackup, trees, inventory
<1>5. ASSUME NEW c \in Calls,
             \/ AddReadIndex(c) \/ AddWriteIndex(c) \/ DropJournal(c)
             \/ RemoveTree(c) \/ RemoveReadIndex(c) \/ RemoveRecord(c) \/ RemoveWriteIndex(c)
      PROVE  records' \subseteq records
  BY <1>5 DEF AddReadIndex, AddWriteIndex, DropJournal, RemoveTree, RemoveReadIndex,
       RemoveRecord, RemoveWriteIndex, trees, inventory
<1>6. ASSUME NEW c \in Calls,
             \/ ListComplete(c) \/ ListIncomplete(c) \/ Scan(c) \/ Rebuild(c)
             \/ FileFails(c) \/ RebuildFails(c)
      PROVE  records' \subseteq records
  BY <1>6 DEF ListComplete, ListIncomplete, Scan, Rebuild, FileFails, RebuildFails, trees,
       inventory
<1>7. CASE Crash
  BY <1>7 DEF Crash, trees, inventory
<1>8. CASE UNCHANGED vars
  BY <1>8 DEF vars, trees, inventory
<1> QED
  BY <1>1, <1>2, <1>3, <1>4, <1>5, <1>6, <1>7, <1>8 DEF Next, Step

\* Only a promotion puts an unchecked tree in its place.
LEMMA TargetSteps ==
  ASSUME Control, [Next]_vars, NEW i \in Ids, target'[i] = "raw", target[i] # "raw",
         backup[i] # "raw"
  PROVE  \E c \in Calls : RenameStaging(c)
<1> SUFFICES ASSUME ~ \E c \in Calls : RenameStaging(c) PROVE FALSE
  OBVIOUS
<1> USE DEF Control, TypeOK, AtPackage, StartHolds
<1>1. ASSUME NEW c \in Calls, Start(c) \/ Call(c) PROVE FALSE
  BY <1>1 DEF Start, Call, CallInstall, CallRemove, ListIndex, trees, inventory
<1>2. ASSUME NEW c \in Calls,
             \/ RecoverDone(c)
             \/ \E j \in Ids : RecoverRetry(c, j) \/ RecoverRepublish(c, j) \/ RecoverDiscard(c, j)
      PROVE  FALSE
  BY <1>2 DEF RecoverDone, RecoverRetry, RecoverRepublish, RecoverDiscard, Decide, trees,
       inventory
<1>3. ASSUME NEW c \in Calls,
             \/ Refuse(c) \/ CreateStaging(c) \/ Begin(c) \/ SelfCheck(c) \/ SelfCheckFails(c)
             \/ MarkVerified(c) \/ MarkPromoting(c) \/ MarkComplete(c)
      PROVE  FALSE
  BY <1>3 DEF Refuse, CreateStaging, Begin, SelfCheck, SelfCheckFails, MarkVerified,
       MarkPromoting, MarkComplete, WriteJournal, trees, inventory
<1>4. ASSUME NEW c \in Calls,
             \/ BackUp(c) \/ BackUpBlocked(c) \/ SyncTree(c) \/ SyncTreeFails(c)
             \/ RenameFails(c) \/ DropBackup(c)
      PROVE  FALSE
  BY <1>4 DEF BackUp, BackUpBlocked, SyncTree, SyncTreeFails, RenameFails,
       DropBackup, trees, inventory
<1>5. ASSUME NEW c \in Calls,
             \/ AddRecord(c) \/ AddReadIndex(c) \/ AddWriteIndex(c) \/ DropJournal(c)
             \/ RemoveTree(c) \/ RemoveReadIndex(c) \/ RemoveRecord(c) \/ RemoveWriteIndex(c)
      PROVE  FALSE
  BY <1>5 DEF AddRecord, AddReadIndex, AddWriteIndex, DropJournal, RemoveTree, RemoveReadIndex,
       RemoveRecord, RemoveWriteIndex, trees, inventory
<1>6. ASSUME NEW c \in Calls,
             \/ ListComplete(c) \/ ListIncomplete(c) \/ Scan(c) \/ Rebuild(c)
             \/ FileFails(c) \/ RebuildFails(c)
      PROVE  FALSE
  BY <1>6 DEF ListComplete, ListIncomplete, Scan, Rebuild, FileFails, RebuildFails, trees,
       inventory
<1>7. CASE Crash
  BY <1>7 DEF Crash, trees, inventory
<1>8. CASE UNCHANGED vars
  BY <1>8 DEF vars, trees, inventory
<1> QED
  BY <1>1, <1>2, <1>3, <1>4, <1>5, <1>6, <1>7, <1>8 DEF Next, Step

-----------------------------------------------------------------------------
(* The theorems *)

LEMMA InitInv == Init => IInv
<1> SUFFICES ASSUME Init PROVE IInv
  OBVIOUS
<1> USE IdsAssumption, CallsAssumption, BoundsAssumption
    DEF Init, Locked, Listing, Promoting, Publishing, Installing, Removing, Transacting
<1>1. Control
  <2>1. TypeOK
    <3>1. /\ staging \in [Ids -> Trees] /\ target \in [Ids -> Trees]
          /\ backup \in [Ids -> Trees] /\ journal \in [Ids -> Journals]
      BY DEF Trees, Journals
    <3>2. /\ pc \in [Calls -> {"idle"} \cup Locked \cup Listing]
          /\ want \in [Calls -> Ids \cup {NoId}] /\ at \in [Calls -> Ids \cup {NoId}]
          /\ role \in [Calls -> {"own", "retry", "republish"}]
      OBVIOUS
    <3>3. todo \in [Calls -> SUBSET Ids] /\ seen \in [Calls -> SUBSET Ids]
      OBVIOUS
    <3>4. crashes \in 0 .. MaxCrashes /\ faults \in 0 .. MaxFaults
      OBVIOUS
    <3> QED
      BY <3>1, <3>2, <3>3, <3>4 DEF TypeOK
  <2>2. LockHeld /\ StartHolds /\ AtPackage
    BY DEF LockHeld, StartHolds, AtPackage
  <2> QED
    BY <2>1, <2>2 DEF Control
<1>2. Files
  BY DEF Files, JournalChecked, JournalOutlived, RawPending
<1>3. Points
  BY DEF Points, RecoversAll, Recovering, InstallPoint, PromotePoint, PublishPoint, RemovePoint
<1>4. Indexing
  BY DEF Indexing, AllListed, SeenListed, EndListed, StagingNew
<1> QED
  BY <1>1, <1>2, <1>3, <1>4 DEF IInv

LEMMA Inductive == Spec => []IInv
<1>1. IInv /\ [Next]_vars => IInv'
  BY ControlStep, FilesStep, PointsStep, IndexingStep DEF IInv
<1> QED
  BY InitInv, <1>1, PTL DEF Spec

\* Every variable stays of its type, the failed start-ups and the recoveries of
\* several crashes included.
THEOREM TypeCorrect == Spec => []TypeOK
<1>1. IInv => TypeOK
  BY DEF IInv, Control
<1> QED
  BY Inductive, <1>1, PTL

\* No unchecked tree is ever installed or kept as a backup, however often the
\* installation and its recovery are cut short or refused a file, but by the
\* recovery of a journal that outlived a removal and could not be deleted.
THEOREM UncheckedNever == Spec => NeverUnchecked
<1> DEFINE Unchecked ==
      \A i \in Ids :
         /\ backup'[i] # "raw"
         /\ target'[i] = "raw" =>
               \/ target[i] = "raw"
               \/ /\ journal[i] = "promoting" /\ i \in kept /\ i \in outlived
                  /\ \E c \in Calls : at[c] = i /\ role[c] = "retry"
<1>1. IInv /\ IInv' /\ [Next]_vars => Unchecked
  <2> SUFFICES ASSUME IInv, IInv', [Next]_vars, NEW i \in Ids, target'[i] = "raw",
                      target[i] # "raw"
               PROVE  /\ journal[i] = "promoting" /\ i \in kept /\ i \in outlived
                      /\ \E c \in Calls : at[c] = i /\ role[c] = "retry"
    BY DEF IInv, Files, RawPending
  <2>1. PICK c \in Calls : RenameStaging(c)
    BY TargetSteps DEF IInv, Files, RawPending
  <2>2. pc[c] = "rename" /\ i = at[c] /\ staging[i] = "raw"
    BY <2>1 DEF RenameStaging, IInv, Control, TypeOK
  <2>3. Repeats(c)
    BY <2>2 DEF IInv, Points, PromotePoint
  <2> QED
    BY <2>2, <2>3 DEF Repeats, Stale
<1> QED
  BY Inductive, <1>1, PTL DEF Spec, NeverUnchecked

\* Between calls, every package that is installed and recorded is in the index,
\* but for those a concurrent rebuild of list() left out, those whose record a
\* removal could not delete and those whose transaction is pending.
THEOREM RecordsAreIndexed == Spec => []RecordsIndexed
<1>1. IInv => RecordsIndexed
  BY DEF IInv, Indexing, AllListed, Excused, RecordsIndexed
<1> QED
  BY Inductive, <1>1, PTL

\* The locked sections of two calls never overlap.
THEOREM Exclusion == Spec => [](\A c, d \in Calls : pc[c] \in Locked /\ pc[d] \in Locked => c = d)
<1>1. IInv => \A c, d \in Calls : pc[c] \in Locked /\ pc[d] \in Locked => c = d
  BY DEF IInv, Control, LockHeld
<1> QED
  BY Inductive, <1>1, PTL

\* A record is published over a checked tree, or by a recovery that a removal's
\* leftover stands in the way of, or for a journal that outlived the removal.
THEOREM PublishedOverTree == Spec => PublishedTree
<1> DEFINE Published ==
      \A i \in records' \ records :
         \/ target[i] = "checked"
         \/ /\ i \in outlived \/ (target[i] = "torn" /\ journal[i] = "promoting")
            /\ \E c \in Calls : at[c] = i /\ role[c] # "own"
<1>1. IInv /\ [Next]_vars => Published
  <2> SUFFICES ASSUME IInv, [Next]_vars, NEW i \in records' \ records, target[i] # "checked"
               PROVE  /\ i \in outlived \/ (target[i] = "torn" /\ journal[i] = "promoting")
                      /\ \E c \in Calls : at[c] = i /\ role[c] # "own"
    OBVIOUS
  <2>1. PICK c \in Calls : AddRecord(c)
    BY RecordsGrow DEF IInv
  <2>2. pc[c] = "record" /\ i = at[c] /\ i \in Ids
    BY <2>1 DEF AddRecord, IInv, Control, AtPackage, Transacting, Publishing
  <2>3. CASE role[c] # "republish"
    BY <2>2, <2>3 DEF IInv, Points, PublishPoint, Repeats, Stale
  <2>4. CASE role[c] = "republish"
    <3>1. journal[i] = "complete" \/ (journal[i] = "promoting" /\ target[i] # "none")
      BY <2>2, <2>4 DEF IInv, Points, PublishPoint
    <3>2. journal[i] = "complete" => i \in outlived
      BY <2>2 DEF IInv, Files, JournalOutlived
    <3>3. target[i] = "raw" => i \in outlived
      BY <2>2 DEF IInv, Files, RawPending
    <3>4. target[i] \in {"none", "raw", "torn"}
      BY <2>2 DEF IInv, Control, TypeOK, Trees
    <3> QED
      BY <2>2, <2>4, <3>1, <3>2, <3>3, <3>4
  <2> QED
    BY <2>3, <2>4
<1> QED
  BY Inductive, <1>1, PTL DEF Spec, PublishedTree
=============================================================================
