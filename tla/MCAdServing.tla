---------------------------- MODULE MCAdServing ----------------------------
(* Two calls, so that one serves from the list the other has cached while a   *)
(* third party pauses the campaign or moves its bid.                          *)
EXTENDS AdServing, TLC

CONSTANTS c1, c2

OneUnitADay == [c \in Campaigns |-> 1]

Symmetry == Permutations(Calls)
=============================================================================
