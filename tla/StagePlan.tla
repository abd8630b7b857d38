------------------------------ MODULE StagePlan ------------------------------
(***************************************************************************)
(* How the runner partitions the stages of an execution plan into groups   *)
(* whose members may run concurrently                                      *)
(* (runtime/src/runner/orchestrator.rs, build_stage_groups).               *)
(*                                                                         *)
(* Stages are numbered 1..n; direct[i] is the set of stages that own a     *)
(* node some node of stage i consumes.  The planner only emits forward     *)
(* edges, so direct[i] \subseteq 1..i-1.                                   *)
(***************************************************************************)
EXTENDS Naturals

\* stage_deps closed transitively: every stage that stage i consumes from,
\* at any distance.
TransitiveDeps(direct, n) ==
  LET deps[i \in 1..n] == direct[i] \cup UNION {deps[j] : j \in direct[i]}
  IN  deps

\* The first stage of the group stage i belongs to.  Stage i joins the open
\* group unless it depends on one of its members.
GroupStarts(direct, n) ==
  LET deps == TransitiveDeps(direct, n)
      start[i \in 1..n] ==
        IF i = 1 THEN 1
        ELSE LET open == start[i - 1] IN IF \A d \in deps[i] : d < open THEN open ELSE i
  IN  start
=============================================================================
