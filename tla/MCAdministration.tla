-------------------------- MODULE MCAdministration --------------------------
(* Instances of Administration for TLC.                                      *)
EXTENDS Administration

CONSTANTS a1, a2, k1, k2, v1, r1, t1, t2, s1

\* One advertiser with an inactive campaign, a creative and a rule, one supply tag, one
\* demand source.
MCOpening ==
    (a1 :> Row({}, [balance |-> 0, daily_budget |-> 0, status |-> ACTIVE]))
    @@ (k1 :> Row({a1}, [bid_amount |-> 1, budget_daily |-> 1, budget_total |-> 1, status |-> 0]))
    @@ (v1 :> Row({k1}, [title |-> 1, status |-> ACTIVE]))
    @@ (r1 :> Row({k1}, <<>>))
    @@ (t1 :> Row({}, [slot_id |-> 0, status |-> ACTIVE]))
    @@ (s1 :> Row({}, [status |-> ACTIVE]))
=============================================================================
