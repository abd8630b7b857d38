------------------------------ MODULE MCBoards -------------------------------
(* Boards on a small instance; the calls are interchangeable. *)
EXTENDS Boards, TLC

Symmetry == Permutations(Calls)
=============================================================================
