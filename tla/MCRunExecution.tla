--------------------------- MODULE MCRunExecution ---------------------------
(* The instances of RunExecution that TLC explores. *)
EXTENDS RunExecution

CONSTANTS a, b, c, d, e, x, y

\* Stages 1 and 2 are independent and form one group; stage 3 joins them.
MCOrder == <<<<a, b>>, <<c>>, <<d, e>>>>
\* a is SingleUse with one reader; b is SingleUse with two.
MCEdges == {<<a, d, x>>, <<c, d, y>>, <<b, e, x>>, <<b, e, y>>}
MCScope == [n \in Nodes |-> IF n = c THEN 3 ELSE 0]
MCAnswers ==
  [n \in Nodes |-> CASE n = a -> {"Completed", "Failed"}
                     [] n = c -> {"Completed", "Cancelled"}
                     [] n = d -> {"Completed", "Panic"}
                     [] OTHER -> {"Completed"}]

\* One stage at a time; d joins the first two stages.
MCSeqOrder == <<<<a, b, c>>, <<d>>>>
MCSeqEdges == {<<a, d, x>>, <<b, d, y>>}
MCSeqScope == [n \in Nodes |-> 0]
MCSeqAnswers ==
  [n \in Nodes |-> CASE n = a -> {}
                     [] n = b -> {"Completed", "Failed"}
                     [] OTHER -> {"Completed"}]
=============================================================================
