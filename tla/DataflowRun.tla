----------------------------- MODULE DataflowRun -----------------------------
(***************************************************************************)
(* What a run of an execution plan promises to those who watch its events, *)
(* snapshots and summary, whatever scheduler executes it: a node starts    *)
(* only on complete inputs, ends once, and the run is judged after its     *)
(* nodes, by its nodes.  NodeOutcome is in runtime/src/run_session.rs, the *)
(* run's terminal states are those of core/src/task/mod.rs.                *)
(***************************************************************************)
CONSTANTS
  Nodes,
  Inputs,   \* Inputs[n]: the nodes whose output n reads
  MayVanish \* nodes whose executor may end without a result

VARIABLES outcome, verdict

Outcomes == {"None", "Running", "Completed", "Failed", "TimedOut", "Skipped", "Cancelled"}
Terminal == {"Completed", "Failed", "TimedOut", "Skipped", "Cancelled"}
Undecided == "None"

Init == outcome = [n \in Nodes |-> "None"] /\ verdict = Undecided

\* A node starts once, on inputs that are all there.
Start(n) ==
  /\ outcome[n] = "None"
  /\ \A m \in Inputs[n] : outcome[m] = "Completed"
  /\ outcome' = [outcome EXCEPT ![n] = "Running"]

\* Nodes end: only a running node completes or times out.
End ==
  /\ outcome' \in [Nodes -> Outcomes]
  /\ \A n \in {m \in Nodes : outcome'[m] # outcome[m]} :
       /\ outcome[n] \in {"None", "Running"} /\ outcome'[n] \in Terminal
       /\ outcome'[n] \in {"Completed", "TimedOut"} => outcome[n] = "Running"

Execute ==
  /\ verdict = Undecided /\ UNCHANGED verdict
  /\ End \/ \E n \in Nodes : Start(n)

\* The run ends by itself: failed exactly when one of its nodes failed.
Conclude ==
  /\ verdict = Undecided
  /\ \A n \in Nodes \ MayVanish : outcome[n] \in Terminal
  /\ verdict' = IF \E n \in Nodes : outcome[n] = "Failed" THEN "Failed" ELSE "Completed"
  /\ UNCHANGED outcome

\* The run is cancelled: so is every node that had not ended.
Cancel ==
  /\ verdict = Undecided
  /\ verdict' = "Cancelled"
  /\ outcome' = [n \in Nodes |-> IF outcome[n] \in Terminal THEN outcome[n] ELSE "Cancelled"]

Next == Execute \/ Conclude \/ Cancel

Spec == Init /\ [][Next]_<<outcome, verdict>>
=============================================================================
