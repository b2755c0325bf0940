------------------------------ MODULE OpenRTB ------------------------------
(***************************************************************************)
(* One OpenRTB bid request: the local campaigns are asked, a request for   *)
(* an ad break (a pod) has its slots filled one after the other under      *)
(* competitive separation, the floor is applied, and every bid left gets   *)
(* an impression of the request.                                           *)
(*                                                                         *)
(* AdServing says what serve_ads returns; here it is any of its results.   *)
(* Retrieval gives its candidates neither a domain nor categories today:   *)
(* PodBuilder is modelled for candidates that may have them, as written.   *)
(***************************************************************************)
EXTENDS Integers, Sequences, FiniteSets, SequencesExt

CONSTANTS Ads,          \* candidates: a creative with its campaign
          Advertiser,   \* advertiser_id, per ad
          Domain,       \* the first of metadata.adomain, per ad
          NoDomain,     \* there is none
          Categories,   \* metadata.cat, per ad
          Price,        \* bid, per ad
          Length,       \* duration in seconds, per ad; 0 = none
          Playable,     \* ads with a media file or a tag to redirect to
          Requests,     \* bid requests, see RequestType
          Empty         \* a slot nobody fits

RequestType == [imps : Nat \ {0}, floor : Nat, poddur : Nat, maxseq : Nat,
                podid : BOOLEAN, dedupe : SUBSET {1, 2, 3}, skip : BOOLEAN]

ASSUME ExchangeAssumption ==
    /\ IsFiniteSet(Ads) /\ Empty \notin Ads
    /\ Price \in [Ads -> Nat] /\ Length \in [Ads -> Nat]
    /\ Playable \subseteq Ads
    /\ Requests \subseteq RequestType

\* AdRequest.num_ads: more impressions than this do not validate.
MaxNumAds == 10

\* PodConfig.
MinDuration == 5
MaxDuration == 60
MaxSameCategory == 2

VARIABLES
    request,   \* the bid request
    stage,     \* how far it is
    ranked,    \* the candidates of serve_ads, in their order
    slots,     \* the slots filled so far: an ad or Empty
    placed,    \* what build_pod remembers of them
    bids,      \* the response: ads with the impression each is for
    tasks      \* the counting tasks started: what is counted, and for which ads

vars == <<request, stage, ranked, slots, placed, bids, tasks>>

Stages == {"received", "serving", "pod", "pricing", "bid", "none"}

NothingPlaced(d) ==
    [left |-> d, ads |-> {}, advertisers |-> {}, domains |-> {},
     categories |-> [c \in UNION {Categories[a] : a \in Ads} |-> 0]]

TypeOK ==
    /\ request \in Requests
    /\ stage \in Stages
    /\ ranked \in Seq(Ads)
    /\ slots \in Seq(Ads \cup {Empty})
    /\ placed.left \in Nat /\ placed.ads \subseteq Ads
    /\ bids \in Seq([ad : Ads, imp : Nat \ {0}])
    /\ tasks \in Seq({"request", "opportunity"} \X Seq(Ads))

Init ==
    /\ request \in Requests
    /\ stage = "received"
    /\ ranked = <<>> /\ slots = <<>> /\ bids = <<>> /\ tasks = <<>>
    /\ placed = NothingPlaced(0)

-----------------------------------------------------------------------------
(* What is asked for.                                                        *)

\* Several impressions, or a sign of a pod in the first, whose video object the
\* enricher has made sure of.
IsPod ==
    \/ request.imps > 1
    \/ request.poddur > 0 \/ request.maxseq > 1 \/ request.podid

PodDuration == IF request.poddur > 0 THEN request.poddur ELSE 120

MaxAds ==
    CASE request.maxseq > 0 -> request.maxseq
      [] request.imps > 1 -> request.imps
      [] OTHER -> 4

Signals == IF request.dedupe = {} THEN {1, 3} ELSE request.dedupe

NumAds == IF IsPod /\ 3 * request.imps > 12 THEN 3 * request.imps
          ELSE IF IsPod THEN 12 ELSE request.imps

\* No bid: 204, with the request counted.
Decline ==
    /\ stage' = "none"
    /\ tasks' = <<<<"request", <<>>>>>>

\* tmax is nearly over before the pipeline starts: 204, and nothing is counted.
TooLate ==
    /\ stage = "received"
    /\ stage' = "none"
    /\ UNCHANGED <<request, ranked, slots, placed, bids, tasks>>

\* The internal request is built; it has room for ten ads, and needs to know whether the
\* first video may be skipped (skip).
Accept ==
    /\ stage = "received"
    /\ IF request.imps > MaxNumAds \/ ~ request.skip
       THEN Decline
       ELSE stage' = "serving" /\ UNCHANGED tasks
    /\ UNCHANGED <<request, ranked, slots, placed, bids>>

\* serve_ads, in an order that says nothing of the bids.
ServeAds ==
    /\ stage = "serving"
    /\ \E k \in 0 .. Cardinality(Ads) : k <= NumAds /\
           \E s \in [1 .. k -> {a \in Ads : Price[a] >= request.floor}] :
               /\ \A i, j \in 1 .. k : s[i] = s[j] => i = j
               /\ ranked' = s
    /\ IF ranked' = <<>>
       THEN Decline /\ UNCHANGED placed
       ELSE /\ stage' = IF IsPod THEN "pod" ELSE "pricing"
            /\ placed' = IF IsPod THEN NothingPlaced(PodDuration) ELSE placed
            /\ UNCHANGED tasks
    /\ UNCHANGED <<request, slots, bids>>

\* An exception on the way is a technical error: no bid.
Raise ==
    /\ stage \in {"serving", "pod", "pricing"}
    /\ Decline
    /\ UNCHANGED <<request, ranked, slots, placed, bids>>

-----------------------------------------------------------------------------
(* PodBuilder.build_pod, one slot a step.                                    *)

Duration(a) == IF Length[a] = 0 THEN 30 ELSE Length[a]

\* Mutant: an ad only has to be of a length that ads have.
FitsAlone(a) == Duration(a) \in MinDuration .. MaxDuration

Fits(a) ==
    /\ Duration(a) <= placed.left
    /\ Duration(a) \in MinDuration .. MaxDuration

\* The advertiser always counts, a domain and the categories only if the request
\* names their signal.
Separated(a) ==
    /\ 1 \in Signals => a \notin placed.ads
    /\ 3 \in Signals /\ Domain[a] # NoDomain => Domain[a] \notin placed.domains
    /\ 2 \in Signals => \A c \in Categories[a] : placed.categories[c] < MaxSameCategory
    /\ Advertiser[a] \notin placed.advertisers

Eligible == {a \in ToSet(ranked) : Fits(a) /\ Separated(a)}

Position == Len(slots) + 1

\* The first slot goes by the bid, the others by the bid for a second.
Density(p, a) == IF p = 1 THEN <<Price[a], 1>> ELSE <<Price[a], Duration(a)>>

Denser(x, y) == x[1] * y[2] > y[1] * x[2]

\* Mutant: the first slot goes by the second, too.
BestBySecond(p, S) ==
    CHOOSE a \in S : \A b \in S \ {a} : ~ Denser(Density(2, b), Density(2, a))

\* The densest; of equals the one that serve_ads has first.
Best(p, S) ==
    CHOOSE a \in S : \A b \in S \ {a} :
        \/ Denser(Density(p, a), Density(p, b))
        \/ /\ ~ Denser(Density(p, b), Density(p, a))
           /\ \E i, j \in DOMAIN ranked : i < j /\ ranked[i] = a /\ ranked[j] = b

\* Mutant: an ad without a domain of its own forgets its advertiser.
RememberDomain(a) ==
    [left |-> placed.left - Duration(a),
     ads |-> placed.ads \cup {a},
     advertisers |-> IF Domain[a] = NoDomain THEN placed.advertisers
                     ELSE placed.advertisers \cup {Advertiser[a]},
     domains |-> placed.domains \cup ({Domain[a]} \ {NoDomain}),
     categories |-> [c \in DOMAIN placed.categories |->
                        placed.categories[c] + (IF c \in Categories[a] THEN 1 ELSE 0)]]

\* Mutant: the categories of a slot are counted twice.
RememberTwice(a) ==
    [left |-> placed.left - Duration(a),
     ads |-> placed.ads \cup {a},
     advertisers |-> placed.advertisers \cup {Advertiser[a]},
     domains |-> placed.domains \cup ({Domain[a]} \ {NoDomain}),
     categories |-> [c \in DOMAIN placed.categories |->
                        placed.categories[c] + (IF c \in Categories[a] THEN 2 ELSE 0)]]

Remember(a) ==
    [left |-> placed.left - Duration(a),
     ads |-> placed.ads \cup {a},
     advertisers |-> placed.advertisers \cup {Advertiser[a]},
     domains |-> placed.domains \cup ({Domain[a]} \ {NoDomain}),
     categories |-> [c \in DOMAIN placed.categories |->
                        placed.categories[c] + (IF c \in Categories[a] THEN 1 ELSE 0)]]

FillSlot ==
    /\ stage = "pod" /\ Position <= MaxAds
    /\ IF Eligible = {}
       THEN slots' = Append(slots, Empty) /\ UNCHANGED placed
       ELSE LET a == Best(Position, Eligible)
            IN slots' = Append(slots, a) /\ placed' = Remember(a)
    /\ UNCHANGED <<request, stage, ranked, bids, tasks>>

IsFilled(k) == k \in DOMAIN slots /\ slots[k] # Empty

FilledSlots == {k \in DOMAIN slots : IsFilled(k)}

\* The elements of a finite set in the strict order R: each is behind as many as it has
\* before it.
InOrder(S, R) ==
    [k \in 1 .. Cardinality(S) |->
        CHOOSE e \in S : Cardinality({f \in S : <<f, e>> \in R}) = k - 1]

Increasing(S) == {p \in S \X S : p[1] < p[2]}

\* A list comprehension: the elements of a sequence at the positions in P.
Picked(seq, P) ==
    LET order == InOrder(P, Increasing(P)) IN [k \in DOMAIN order |-> seq[order[k]]]

Filled == Picked(slots, FilledSlots)

EndPod ==
    /\ stage = "pod" /\ Position > MaxAds
    /\ IF Filled = <<>> THEN Decline ELSE stage' = "pricing" /\ UNCHANGED tasks
    /\ UNCHANGED <<request, ranked, slots, placed, bids>>

-----------------------------------------------------------------------------
(* The floor, the order and the impressions.                                 *)

Candidates == IF IsPod THEN Filled ELSE ranked

\* The floor is that of the first impression. The sort is stable, so that equal bids
\* stay as they were.
Above == {k \in DOMAIN Candidates : Price[Candidates[k]] >= request.floor}

Ahead ==
    {p \in Above \X Above :
        \/ Price[Candidates[p[1]]] > Price[Candidates[p[2]]]
        \/ Price[Candidates[p[1]]] = Price[Candidates[p[2]]] /\ p[1] < p[2]}

Winners ==
    LET order == InOrder(Above, Ahead) IN [k \in DOMAIN order |-> Candidates[order[k]]]

\* The k-th bid is for the k-th impression, or for the first one if there is none; an ad
\* that cannot be played is left out.
Response ==
    LET all == [k \in DOMAIN Winners |->
                   [ad |-> Winners[k], imp |-> IF k <= request.imps THEN k ELSE 1]]
    IN Picked(all, {k \in DOMAIN all : all[k].ad \in Playable})

Answer ==
    /\ stage = "pricing"
    /\ bids' = Response
    /\ IF bids' = <<>>
       THEN Decline
       ELSE LET ads == [k \in DOMAIN bids' |-> bids'[k].ad]
            IN stage' = "bid" /\ tasks' = <<<<"request", ads>>, <<"opportunity", ads>>>>
    /\ UNCHANGED <<request, ranked, slots, placed>>

-----------------------------------------------------------------------------

Next == TooLate \/ Accept \/ ServeAds \/ Raise \/ FillSlot \/ EndPod \/ Answer

Spec == Init /\ [][Next]_vars

-----------------------------------------------------------------------------
(* Properties.                                                               *)

\* No advertiser has two slots of a pod, no domain if the request asks for that, and
\* no three slots share a category if it asks for that.
SeparationKept ==
    /\ \A i, j \in DOMAIN slots : IsFilled(i) /\ IsFilled(j) /\ i # j =>
           /\ Advertiser[slots[i]] # Advertiser[slots[j]]
           /\ 3 \in Signals /\ Domain[slots[i]] = Domain[slots[j]] =>
                  Domain[slots[i]] = NoDomain
    /\ 2 \in Signals => \A i, j, k \in DOMAIN slots :
           i < j /\ j < k /\ IsFilled(i) /\ IsFilled(j) /\ IsFilled(k) =>
               Categories[slots[i]] \cap Categories[slots[j]] \cap Categories[slots[k]] = {}

\* The time the slots take, a pair for each of its seconds.
Taken == Cardinality(UNION {{k} \X (1 .. Duration(slots[k])) : k \in FilledSlots})

\* Whether an ad could join the slots there are.
CouldJoin(a) ==
    /\ Duration(a) \in MinDuration .. MaxDuration /\ Taken + Duration(a) <= PodDuration
    /\ \A i \in DOMAIN slots : IsFilled(i) =>
           /\ Advertiser[slots[i]] # Advertiser[a]
           /\ 3 \in Signals /\ Domain[slots[i]] = Domain[a] => Domain[a] = NoDomain
    /\ 2 \in Signals => \A c \in Categories[a] :
           Cardinality({i \in FilledSlots : c \in Categories[slots[i]]}) < MaxSameCategory

\* A pod is no longer than the break, and a slot stays empty only if no candidate
\* could have joined the others.
PodIsPacked ==
    stage = "pod" =>
        /\ Taken <= PodDuration
        /\ Empty \in ToSet(slots) => \A a \in ToSet(ranked) : ~ CouldJoin(a)

\* Sorting by bid keeps the opening slot of a pod at the head of the response, on the
\* first impression, and no impression but the first is answered twice.
FirstSlotFirst ==
    stage = "bid" =>
        /\ IsPod /\ slots[1] \in Playable => bids[1] = [ad |-> slots[1], imp |-> 1]
        /\ \A i, j \in DOMAIN bids : bids[i].imp = bids[j].imp /\ i # j => bids[i].imp = 1
=============================================================================
