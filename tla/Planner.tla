------------------------------- MODULE Planner -------------------------------
(***************************************************************************)
(* How a workflow graph becomes an execution plan                          *)
(* (core/src/readiness/planner.rs): the subgraph the run targets need, the *)
(* cycle test, and the leveling of the nodes into stages.                  *)
(*                                                                         *)
(* A graph is a set of edges <<from, to>>; slots and bindings only decide  *)
(* which edges there are.                                                  *)
(***************************************************************************)
EXTENDS Naturals, FiniteSets

Preds(n, edges) == {e[1] : e \in {f \in edges : f[2] = n}}

\* trace_execution_subgraph: the targets and everything they consume, at any
\* distance; a path has fewer edges than there are nodes.
Traced(targets, edges, nodes) ==
  LET within[k \in 0..Cardinality(nodes)] ==
        IF k = 0 THEN targets
        ELSE LET near == within[k - 1] IN near \cup UNION {Preds(n, edges) : n \in near}
  IN  within[Cardinality(nodes)]

Between(nodes, edges) == {e \in edges : e[1] \in nodes /\ e[2] \in nodes}

\* Waves that take a node as soon as one of its inputs is scheduled.
LeveledByAny(nodes, edges) ==
  LET scheduled[k \in 0..Cardinality(nodes)] ==
        IF k = 0 THEN {}
        ELSE LET before == scheduled[k - 1]
             IN  {n \in nodes : Preds(n, edges) = {} \/ Preds(n, edges) \cap before # {}}
  IN  scheduled

\* build_stages, Kahn's waves: Leveled(..)[k] is the union of the first k
\* stages.  A node's indegree reaches zero when all it consumes is scheduled.
Leveled(nodes, edges) ==
  LET scheduled[k \in 0..Cardinality(nodes)] ==
        IF k = 0 THEN {}
        ELSE LET before == scheduled[k - 1] IN {n \in nodes : Preds(n, edges) \subseteq before}
  IN  scheduled

\* has_cycle: some indegree never reaches zero.
HasCycle(nodes, edges) == Leveled(nodes, edges)[Cardinality(nodes)] # nodes

\* The stages of the plan, without the empty waves after the last.
PlanStages(nodes, edges) ==
  LET upTo == Leveled(nodes, edges)
      wave == [k \in 1..Cardinality(nodes) |-> upTo[k] \ upTo[k - 1]]
  IN  [k \in 1..Cardinality({j \in DOMAIN wave : wave[j] # {}}) |-> wave[k]]
=============================================================================
