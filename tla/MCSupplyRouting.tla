-------------------------- MODULE MCSupplyRouting --------------------------
(* Two calls of one worker, so that lookups overlap and the second may find   *)
(* what the first has left, or overwrite it with something older.             *)
EXTENDS SupplyRouting, TLC

CONSTANT w1

OneWorker == [d \in Calls |-> w1]

Symmetry == Permutations(Calls)
=============================================================================
