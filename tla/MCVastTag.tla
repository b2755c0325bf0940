----------------------------- MODULE MCVastTag -----------------------------
(* One source of each kind. With the margin a bid of 2 ties with a local bid  *)
(* of 1, and a bid of 4 beats it.                                             *)
EXTENDS VastTag, TLC

CONSTANTS c1, e1, t1

PlacesInMerge == (c1 :> 0) @@ (e1 :> 1) @@ (t1 :> 2)
HalfMargin == [e \in Endpoints |-> 50]
TagPrice == [t \in Tags |-> 1]

\* No pipeline returns it.
NotYet == {NoAd}

Symmetry == Permutations(Requests)
=============================================================================
