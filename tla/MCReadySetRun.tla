---------------------------- MODULE MCReadySetRun ----------------------------
(* Every graph over four nodes whose edges go forward, with and without one  *)
(* edge back, and every choice of one or two targets.                        *)
EXTENDS ReadySetRun

MCNodes == 1..4
Forward == {e \in MCNodes \X MCNodes : e[1] < e[2]}
MCGraphs == SUBSET Forward \cup {g \cup {<<3, 1>>} : g \in SUBSET Forward}
MCTargets == {{4}, {3, 4}}
=============================================================================
