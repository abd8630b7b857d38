--------------------------- MODULE MCDynamicRuns ----------------------------
(* Two calls in flight, which only their names distinguish. *)
EXTENDS DynamicRuns, TLC

CONSTANTS c1, c2

Symmetry == Permutations(Calls)

=============================================================================
