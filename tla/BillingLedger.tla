---------------------------- MODULE BillingLedger ----------------------------
(***************************************************************************)
(* What impression billing promises, without saying how.                   *)
(*                                                                         *)
(* An impression is known by a key (request, campaign).  A delivery of it  *)
(* may take a claim on the key; while the key is live no second delivery   *)
(* can take one, unless it is let through blind because nobody can be      *)
(* asked.  A claim is paid at most once, and nothing is paid without one.  *)
(* EventBilling implements this module.                                    *)
(***************************************************************************)

CONSTANTS Deliveries,   \* calls that report an event
          Keys,         \* what identifies one impression
          NoKey         \* the claim of a delivery that holds none

VARIABLES live,   \* keys a claim was taken on and not yet forgotten
          claim,  \* per delivery, the key it holds or NoKey
          blind,  \* deliveries that hold their key without having been checked
          paid    \* deliveries whose charge is final

ledgerVars == <<live, claim, blind, paid>>

Init ==
    /\ live = {}
    /\ claim = [d \in Deliveries |-> NoKey]
    /\ blind = {}
    /\ paid = {}

\* The first delivery of an impression takes the key.
Claim(d, k) ==
    /\ claim[d] = NoKey
    /\ k \notin live
    /\ live' = live \cup {k}
    /\ claim' = [claim EXCEPT ![d] = k]
    /\ UNCHANGED <<blind, paid>>

\* The guard could not be consulted: the delivery proceeds as if it were first,
\* whether or not the guard came to know of it.
ClaimBlind(d, k) ==
    /\ claim[d] = NoKey
    /\ live' \in {live, live \cup {k}}
    /\ claim' = [claim EXCEPT ![d] = k]
    /\ blind' = blind \cup {d}
    /\ UNCHANGED paid

\* The guard forgets a key: from here on the same impression counts as new.
Lapse(k) ==
    /\ k \in live
    /\ live' = live \ {k}
    /\ UNCHANGED <<claim, blind, paid>>

Pay(d) ==
    /\ claim[d] # NoKey
    /\ d \notin paid
    /\ paid' = paid \cup {d}
    /\ UNCHANGED <<live, claim, blind>>

Next ==
    \/ \E d \in Deliveries, k \in Keys : Claim(d, k) \/ ClaimBlind(d, k)
    \/ \E k \in Keys : Lapse(k)
    \/ \E d \in Deliveries : Pay(d)

Spec == Init /\ [][Next]_ledgerVars
=============================================================================
