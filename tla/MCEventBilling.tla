--------------------------- MODULE MCEventBilling ---------------------------
(* Two instances of EventBilling. Three calls report one impression, so that a *)
(* third call meets what two have left behind; two calls are drawn from every  *)
(* kind of event, while the bid changes under them.                            *)
EXTENDS EventBilling, TLC

CONSTANTS r1, c1

Call(c, t, u, p) == [req |-> r1, camp |-> c, type |-> t, user |-> u, price |-> p]

\* One impression of a local campaign, however it is reported.
CollidingTraffic == { Call(c1, "impression", FALSE, 0) }

\* The same from an app that tells its user id.
UserTraffic == { Call(c1, "impression", FALSE, 0), Call(c1, "impression", TRUE, 0) }

EveryTraffic ==
    { Call(c1, "impression", FALSE, 0), Call(Demand, "impression", TRUE, 0),
      Call(Demand, "impression", FALSE, 3),
      Call(NoCampaign, "impression", FALSE, 3), Call(c1, "win", FALSE, 3),
      Call(Demand, "loss", FALSE, 0), Call(c1, "player", FALSE, 0),
      Call(NoCampaign, "quiet", FALSE, 0), Call(c1, "unknown", FALSE, 0) }

Symmetry == Permutations(Deliveries)
=============================================================================
