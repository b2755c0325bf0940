---------------------------- MODULE MCExchange ----------------------------
(* What the servers do with one request: of an exchange for an ad break, of a *)
(* player for a VAST tag, and the translation of either for those who are     *)
(* asked. Each behaviour is of one kind, chosen in the initial state.         *)
EXTENDS OpenRTB, RequestFields, TLC

CONSTANTS a1, a2, a3, a4, a5, d, x,
          None, Zero, Junk, EmptyList, Queries, Inbounds, Worlds,
          Viewers, c1, e1, t1, Global, Pending, NoAd

VARIABLES kind,
          where, world, query, inbound, bid, ad, context, sent, url,
          pc, local, asked, offers, attempts, stats, answer, task, requests, opps, told

\* Candidates of a pod: a1 and a2 of one advertiser, a3 and a4 of one domain, four of one
\* category, and a3 of the default length.
Advertisers == (a1 :> 1) @@ (a2 :> 1) @@ (a3 :> 2) @@ (a4 :> 3) @@ (a5 :> 4)
Domains == (a1 :> NoDomain) @@ (a2 :> NoDomain) @@ (a3 :> d) @@ (a4 :> d) @@ (a5 :> NoDomain)
Cats == (a1 :> {x}) @@ (a2 :> {}) @@ (a3 :> {x}) @@ (a4 :> {x}) @@ (a5 :> {x})
Bids == (a1 :> 6) @@ (a2 :> 4) @@ (a3 :> 5) @@ (a4 :> 4) @@ (a5 :> 4)
Lengths == (a1 :> 60) @@ (a2 :> 15) @@ (a3 :> 0) @@ (a4 :> 15) @@ (a5 :> 20)

Break(i, f, p, m, id, s) ==
    [imps |-> i, floor |-> f, poddur |-> p, maxseq |-> m, podid |-> id, dedupe |-> s,
     skip |-> TRUE]
Breaks ==
    {Break(i, f, p, m, FALSE, s) : i \in {1, 3}, f \in {0, 5}, p \in {0, 50, 90},
                                   m \in {0, 1}, s \in {{}, {2}, {1, 2, 3}}}
        \cup {Break(11, 0, 0, 0, FALSE, {}), Break(1, 0, 0, 0, TRUE, {2, 3}),
              [Break(1, 0, 0, 0, FALSE, {}) EXCEPT !.skip = FALSE]}

\* A source of each kind; with the margin a bid of 2 ties with a local bid of 1.
PlacesInMerge == (c1 :> 0) @@ (e1 :> 1) @@ (t1 :> 2)

\* No pipeline returns it.
NotYet == {NoAd}

BR == INSTANCE BidRequests
        WITH stage <- where, Empty <- EmptyList
\* VastTag, with its theorems.
VT == INSTANCE VastTagProofs
        WITH Requests <- Viewers, Campaigns <- {c1}, Endpoints <- {e1}, Tags <- {t1},
             rank <- PlacesInMerge, LocalBids <- {1}, Prices <- {2, 4},
             Margin <- [e \in {e1} |-> 50], Cpm <- [t \in {t1} |-> 1], MaxBids <- 2, Retries <- 1

\* What the instances need of the values: the marks of a value that is not given, zero, junk
\* or empty are no values, and what is asked about is well-formed.
ASSUME SignalsAssumption ==
    /\ None # Zero /\ None # EmptyList /\ Zero # EmptyList /\ Junk \notin {None, Zero, EmptyList}
    /\ \A v \in {None, Zero, Junk, EmptyList} :
          v \notin Params /\ v \notin Nat /\ v \notin {"lmt", "maxmind", "fallback"}
    /\ \A q \in Queries : q \in BR!QueryType
    /\ \A b \in Inbounds : BR!IsInbound(b)
    /\ Worlds \subseteq BR!World
    /\ Requests # {} /\ Queries # {} /\ Worlds # {}

\* One source of each kind is an instance that VastTag allows.
ASSUME InstanceAssumption == VT!TagAssumption /\ VT!MarksAssumption

brVars == <<where, world, query, inbound, bid, ad, context, sent, url>>
vtVars == <<pc, local, asked, offers, attempts, stats, answer, task, requests, opps, told>>

\* Queries: all parameters but those of a set P, or none but those of P; and with one of
\* them zero or junk.
AllBut(P) == [p \in Params |-> IF p \in P THEN None ELSE p]
Only(P) == [p \in Params |-> IF p \in P THEN p ELSE None]
Odd(q) == {[q EXCEPT ![p] = Zero] : p \in Numbers} \cup {[q EXCEPT ![p] = Junk] : p \in Parsed}
Few == {{p, r} : p, r \in {"ifa", "ua_ifa", "ua", "uip", "ip", "ct_eps", "ct_episode", "app_cat",
                            "content_type", "ct_genre", "device_type", "country_code", "city",
                            "app_name", "ct_chan", "bidfloor", "dnt", "app_bundle", "pub_id"}}
QueriesAsked == {AllBut({p}) : p \in Params} \cup {AllBut(P) : P \in Few}
                   \cup {Only({p}) : p \in Params} \cup {Only(P) : P \in Few}
                   \cup {AllBut({}), Only({})} \cup Odd(AllBut({})) \cup Odd(Only({}))

\* Bid requests: whole ones with one or two fields or objects missing, or a field zero.
Whole == [o \in DOMAIN Names |-> [f \in DOMAIN Names[o] |-> Names[o][f]]]
Fields == UNION {{<<o, f>> : f \in DOMAIN Names[o]} : o \in DOMAIN Names}
Floor == <<"imp", "bidfloor">>
With(b, s, v) ==
    [b EXCEPT ![s[1]] = IF Absent(b[s[1]]) THEN @ ELSE [@ EXCEPT ![s[2]] = v]]
Without(b, o) ==
    [b EXCEPT ![o] = NoObject,
              !.geo = IF o = "device" THEN NoObject ELSE @,
              !.content = IF o = "app" THEN NoObject ELSE @]
Thinned(b) == {With(b, s, None) : s \in Fields \ {Floor}}
                 \cup {Without(b, o) : o \in DOMAIN Names \ {"imp", "top"}}
InboundsAsked == {Whole} \cup UNION {Thinned(b) : b \in Thinned(Whole)}
                     \cup {With(Whole, s, Zero) : s \in Fields}

World(looks, header, address, maxmind, p, e, t) ==
    [looks |-> looks, header |-> header, address |-> address, maxmind |-> maxmind,
     publisher |-> p, endpoint |-> e, tag |-> t]
WorldsAround ==
    {World({}, FALSE, TRUE, FALSE, 3, 2, 1), World({"type", "platform"}, TRUE, TRUE, TRUE, 1, 3, 2),
     World({"ua", "v6", "version"}, TRUE, TRUE, TRUE, 2, 1, 3),
     World({"os"}, TRUE, TRUE, FALSE, 1, 1, 1), World({"type"}, FALSE, FALSE, TRUE, 2, 2, 1)}

-----------------------------------------------------------------------------

\* Those a behaviour is not about rest in their last state, or are never called.
PodRests ==
    /\ request = CHOOSE r \in Requests : TRUE
    /\ stage = "none" /\ ranked = <<>> /\ slots = <<>> /\ bids = <<>> /\ tasks = <<>>
    /\ placed = NothingPlaced(0)
SignalsRest ==
    /\ world = CHOOSE w \in Worlds : TRUE
    /\ query = CHOOSE q \in Queries : TRUE
    /\ where = "rejected" /\ inbound = NoObject /\ bid = NoObject
    /\ ad = NoObject /\ context = NoObject /\ sent = NoObject /\ url = NoObject

MCInit ==
    \/ kind = "exchange" /\ Init /\ SignalsRest /\ VT!Init
    \/ kind = "signals" /\ PodRests /\ BR!Init /\ VT!Init
    \/ kind = "tag" /\ PodRests /\ SignalsRest /\ VT!Init

MCNext ==
    \/ kind = "exchange" /\ Next /\ UNCHANGED <<kind, brVars, vtVars>>
    \/ kind = "signals" /\ BR!Next /\ UNCHANGED <<kind, vars, vtVars>>
    \/ kind = "tag" /\ VT!Next /\ UNCHANGED <<kind, vars, brVars>>

MCSpec ==
    /\ MCInit /\ [][MCNext]_<<kind, vars, brVars, vtVars>>
    /\ kind = "tag" => VT!Fairness

TypesOK == TypeOK /\ BR!TypeOK /\ VT!TypeOK
PublisherFirst == BR!PublisherFirst
SignalsKept == BR!SignalsKept
NoneRefused == BR!NoneRefused
EveryRequestAnswered == VT!EveryRequestAnswered
=============================================================================
