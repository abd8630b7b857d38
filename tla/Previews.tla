------------------------------- MODULE Previews -------------------------------
(***************************************************************************)
(* The previews under one key (OperationService::preview and               *)
(* cancel_preview, app-host/src/operation_service.rs).                     *)
(*                                                                         *)
(* Each preview draws a generation, publishes it as the newest, takes the  *)
(* active entry (cancelling the one before) and, under the key's lock,     *)
(* replaces the shared directory if it still is the active one.  One that  *)
(* fails removes the directory again if it was active and still is the     *)
(* newest.  These looks are under three locks, one after the other.        *)
(***************************************************************************)
EXTENDS Naturals

CONSTANT MaxGeneration

Generations == 1 .. MaxGeneration

VARIABLES
  next,       \* next_preview_generation
  latest,     \* latest_preview_generations[key], 0 when there is none
  active,     \* the generation of active_previews[key], 0 when there is none
  lock,       \* who holds the key's lock, 0 when nobody does
  dir,        \* whose directory is on disk, 0 when there is none
  cancelled,  \* previews whose token is set
  pc          \* where each preview is

vars == <<next, latest, active, lock, dir, cancelled, pc>>

Init ==
  /\ next = 1 /\ latest = 0 /\ active = 0 /\ lock = 0 /\ dir = 0
  /\ cancelled = {} /\ pc = [g \in Generations |-> "new"]

At(g, label) == pc[g] = label
Goto(g, label) == pc' = [pc EXCEPT ![g] = label]

\* An operation that may be previewed draws its generation.
Draw(g) ==
  /\ At(g, "new") /\ g = next /\ next' = next + 1 /\ Goto(g, "publish")
  /\ UNCHANGED <<latest, active, lock, dir, cancelled>>

\* Two registrations, each under a lock of its own.
Publish(g) ==
  /\ At(g, "publish") /\ latest' = g /\ Goto(g, "enter")
  /\ UNCHANGED <<next, active, lock, dir, cancelled>>
Enter(g) ==
  /\ At(g, "enter") /\ active' = g /\ cancelled' = cancelled \cup ({active} \ {0})
  /\ Goto(g, "lock")
  /\ UNCHANGED <<next, latest, lock, dir>>

\* Under the key's lock: replaced or cancelled meanwhile, or the directory.
Replaced(g) ==
  /\ At(g, "lock") /\ lock = 0 /\ (active # g \/ g \in cancelled) /\ Goto(g, "returned")
  /\ UNCHANGED <<next, latest, active, lock, dir, cancelled>>
Lock(g) ==
  /\ At(g, "lock") /\ lock = 0 /\ active = g /\ g \notin cancelled
  /\ lock' = g /\ Goto(g, "create")
  /\ UNCHANGED <<next, latest, active, dir, cancelled>>
CreateDir(g) ==
  /\ At(g, "create") /\ lock' = 0 /\ dir' = g /\ Goto(g, "provider")
  /\ UNCHANGED <<next, latest, active, cancelled>>
\* Its entries stay behind.
CreateFails(g) ==
  /\ At(g, "create") /\ lock' = 0 /\ dir' = 0 /\ Goto(g, "returned")
  /\ UNCHANGED <<next, latest, active, cancelled>>

\* run_preview: a cancelled provider may still succeed.
Run(g) ==
  /\ At(g, "provider") /\ \E end \in {"succeeded", "failed"} : Goto(g, end)
  /\ UNCHANGED <<next, latest, active, lock, dir, cancelled>>

LeaveActive(g) == active' = IF active = g THEN 0 ELSE active
Succeed(g) ==
  /\ At(g, "succeeded") /\ LeaveActive(g) /\ Goto(g, "marker")
  /\ UNCHANGED <<next, latest, lock, dir, cancelled>>
Fail(g) ==
  /\ At(g, "failed") /\ LeaveActive(g)
  /\ Goto(g, IF active = g THEN "cleanup" ELSE "marker")
  /\ UNCHANGED <<next, latest, lock, dir, cancelled>>

\* take_newest_preview_generation.
TakeNewest(g) == latest' = IF latest = g THEN 0 ELSE latest
DropMarker(g) ==
  /\ At(g, "marker") /\ TakeNewest(g) /\ Goto(g, "returned")
  /\ UNCHANGED <<next, active, lock, dir, cancelled>>

\* A failed preview that was active, under the key's lock again.
Cleanup(g) ==
  /\ At(g, "cleanup") /\ lock = 0 /\ TakeNewest(g)
  /\ IF latest = g THEN lock' = g /\ Goto(g, "remove") ELSE Goto(g, "returned") /\ UNCHANGED lock
  /\ UNCHANGED <<next, active, dir, cancelled>>
RemoveDir(g) ==
  /\ At(g, "remove") /\ dir' = 0 /\ lock' = 0 /\ Goto(g, "returned")
  /\ UNCHANGED <<next, latest, active, cancelled>>

\* cancel_preview, and the caller's own token.
CancelPreview ==
  /\ active # 0 /\ cancelled' = cancelled \cup {active} /\ active' = 0
  /\ UNCHANGED <<next, latest, lock, dir, pc>>
CallerCancels(g) ==
  /\ pc[g] \notin {"new", "returned"} /\ g \notin cancelled /\ cancelled' = cancelled \cup {g}
  /\ UNCHANGED <<next, latest, active, lock, dir, pc>>

Step(g) ==
  \/ Draw(g) \/ Publish(g) \/ Enter(g) \/ Replaced(g) \/ Lock(g) \/ CreateDir(g) \/ CreateFails(g)
  \/ Run(g) \/ Succeed(g) \/ Fail(g) \/ DropMarker(g) \/ Cleanup(g) \/ RemoveDir(g)
  \/ CallerCancels(g)
Next == CancelPreview \/ \E g \in Generations : Step(g)
Spec == Init /\ [][Next]_vars

-----------------------------------------------------------------------------
(* Properties *)

\* A finishing preview removes no directory of a newer one
\* (take_newest_preview_generation): the older does not touch the directory
\* a later preview has made for itself.
NewerUntouched ==
  [][\A g \in Generations : At(g, "remove") /\ pc'[g] = "returned" => dir <= g]_vars

=============================================================================
