------------------------------ MODULE VastTag ------------------------------
(***************************************************************************)
(* The VAST tag request: the local campaigns and the demand partners are   *)
(* asked at the same time, the highest bid is answered, and the request is *)
(* counted and the winner told by tasks that outlive it.                   *)
(*                                                                         *)
(* A partner is asked again when it fails in a way that may pass; every    *)
(* attempt goes into statistics that all requests of the worker share.     *)
(* AdServing says what the local pipeline returns, SupplyRouting whom the  *)
(* forwarder asks; here either is any of its possible results.             *)
(***************************************************************************)
EXTENDS Integers, FiniteSets

CONSTANTS Requests,     \* requests of one worker
          Campaigns,    \* local campaigns
          Endpoints,    \* OpenRTB demand endpoints
          Tags,         \* demand VAST tags
          rank,         \* the place of a source in the merge: local, then by priority
          LocalBids,    \* values of Campaign.bid_amount
          Prices,       \* prices partners bid
          Margin,       \* DemandEndpoint.margin_pct
          Cpm,          \* DemandVastTag.cpm_value
          MaxBids,      \* BOUND: bids in one response
          Retries,      \* _MAX_RETRIES
          Global,       \* the counters' campaign 0
          Pending,      \* an answer that is still to come
          NoAd          \* empty VAST

Sources == Endpoints \cup Tags
Groups == Campaigns \cup {Global}

ASSUME TagAssumption ==
    /\ IsFiniteSet(Requests) /\ IsFiniteSet(Sources)
    /\ Endpoints \cap Tags = {} /\ Campaigns \cap Sources = {} /\ Global \notin Campaigns
    /\ rank \in [Campaigns \cup Sources -> Nat]
    /\ \A s \in Sources, o \in Campaigns \cup Sources : rank[s] = rank[o] => s = o
    /\ \A c \in Campaigns, s \in Sources : rank[c] < rank[s]
    /\ LocalBids \subseteq Nat /\ Prices \subseteq Nat
    /\ Margin \in [Endpoints -> 0 .. 100] /\ Cpm \in [Tags -> Nat]
    /\ MaxBids \in Nat /\ Retries \in Nat

\* What can be shown: a creative of ours, a tag to redirect to, a partner's document
\* (with a notice URL beside it), or one without a media file.
Kinds == {"own", "redirect", "inline", "noticed", "bare"}

\* An AdCandidate; bids in hundredths, so that a margin in percent divides them.
Candidate == [src : Campaigns \cup Sources, at : Nat, bid : Nat, ad : Kinds]

ASSUME MarksAssumption ==
    Pending \notin SUBSET Candidate /\ Pending \notin SUBSET Sources /\ NoAd \notin Candidate

\* A partner's bids; "void" has neither a document nor a URL.
Responses == UNION {[1 .. n -> [price : Prices, ad : (Kinds \ {"own"}) \cup {"void"}]]
                        : n \in 0 .. MaxBids}

VARIABLES
    pc,        \* where a request is
    local,     \* what serve_ads returned
    asked,     \* the sources forward asks
    offers,    \* what each of them returned
    attempts,  \* requests sent to an endpoint and over, of each VAST request
    stats,     \* _endpoint_stats
    answer,    \* the candidate in the VAST document
    task,      \* the tasks a request leaves behind
    requests,  \* stat:{group}:{hour} ad_requests
    opps,      \* stat:{group}:{hour} ad_opportunities
    told       \* the endpoints a win notice reached

counters == <<requests, opps>>
vars == <<pc, local, asked, offers, attempts, stats, answer, task, counters, told>>

NoTasks == [requests |-> "none", opps |-> "none", notice |-> "none"]
NoStats == [total |-> 0, bids |-> 0, nobids |-> 0, timeouts |-> 0, errors |-> 0]

TypeOK ==
    /\ pc \in [Requests -> {"idle", "running", "done", "lost"}]
    /\ \A r \in Requests :
           /\ local[r] = Pending \/ local[r] \subseteq Candidate
           /\ asked[r] = Pending \/ asked[r] \subseteq Sources
           /\ \A s \in Sources : offers[r][s] = Pending \/ offers[r][s] \subseteq Candidate
    /\ attempts \in [Requests -> [Endpoints -> 0 .. Retries + 1]]
    /\ stats \in [Endpoints -> [total : Nat, bids : Nat, nobids : Nat, timeouts : Nat,
                                errors : Nat]]
    /\ answer \in [Requests -> Candidate \cup {NoAd}]
    /\ task \in [Requests -> [DOMAIN NoTasks -> {"none", "due", "done", "lost"}]]
    /\ requests \in [Groups -> Nat] /\ opps \in [Groups -> Nat]
    /\ told \in [Requests -> SUBSET Endpoints]

Init ==
    /\ pc = [r \in Requests |-> "idle"]
    /\ local = [r \in Requests |-> Pending]
    /\ asked = [r \in Requests |-> Pending]
    /\ offers = [r \in Requests |-> [s \in Sources |-> Pending]]
    /\ attempts = [r \in Requests |-> [e \in Endpoints |-> 0]]
    /\ stats = [e \in Endpoints |-> NoStats]
    /\ answer = [r \in Requests |-> NoAd]
    /\ task = [r \in Requests |-> NoTasks]
    /\ requests = [g \in Groups |-> 0]
    /\ opps = [g \in Groups |-> 0]
    /\ told = [r \in Requests |-> {}]

-----------------------------------------------------------------------------
(* Both pipelines start.                                                     *)

Arrive(r) ==
    /\ pc[r] = "idle"
    /\ pc' = [pc EXCEPT ![r] = "running"]
    /\ UNCHANGED <<local, asked, offers, attempts, stats, answer, task, counters, told>>

\* One ad at most is asked for; a pipeline that raises has none.
ServeLocal(r) ==
    /\ pc[r] = "running" /\ local[r] = Pending
    /\ local' \in {[local EXCEPT ![r] = {}]} \cup
                  {[local EXCEPT ![r] =
                        {[src |-> c, at |-> 1, bid |-> 100 * b, ad |-> "own"]}]
                            : c \in Campaigns, b \in LocalBids}
    /\ UNCHANGED <<pc, asked, offers, attempts, stats, answer, task, counters, told>>

\* VAST tags are resolved on the spot; endpoints are sent a bid request.
Forward(r) ==
    /\ pc[r] = "running" /\ asked[r] = Pending
    /\ \E S \in SUBSET Sources :
           /\ asked' = [asked EXCEPT ![r] = S]
           /\ offers' = [offers EXCEPT ![r] = [s \in Sources |->
                  IF s \notin S THEN {}
                  ELSE IF s \in Endpoints THEN Pending
                  ELSE {[src |-> s, at |-> 1, bid |-> 100 * Cpm[s], ad |-> "redirect"]}]]
    /\ UNCHANGED <<pc, local, attempts, stats, answer, task, counters, told>>

-----------------------------------------------------------------------------
(* _request_ortb_endpoint: one attempt, and what becomes of it.              *)

Calling(r, e) == pc[r] = "running" /\ asked[r] # Pending /\ offers[r][e] = Pending

Counted(entry, n, outcome) == [entry EXCEPT !.total = @ + n, ![outcome] = @ + 1]

\* An attempt is over, with one of the four outcomes.
Judge(r, e, outcome) ==
    /\ attempts' = [attempts EXCEPT ![r][e] = @ + 1]
    /\ stats' = [stats EXCEPT ![e] = Counted(@, 1, outcome)]
    /\ UNCHANGED <<pc, local, asked, answer, task, counters, told>>

Return(r, e, C) == offers' = [offers EXCEPT ![r][e] = C]

\* Mutant: one attempt too many.
TryOnceMore(r, e) ==
    IF attempts[r][e] <= Retries THEN UNCHANGED offers ELSE Return(r, e, {})

\* The next attempt, if one is left, else no bid.
TryAgain(r, e) ==
    IF attempts[r][e] < Retries THEN UNCHANGED offers ELSE Return(r, e, {})

\* _extract_candidates: the price less the margin, unless there is nothing to show.
Taken(e, response) ==
    {[src |-> e, at |-> i, bid |-> response[i].price * (100 - Margin[e]),
      ad |-> response[i].ad]
        : i \in {j \in DOMAIN response : response[j].ad # "void"}}

\* 200 with bids or without any, and 204.
Bid(r, e) ==
    /\ Calling(r, e)
    /\ \E response \in Responses :
           LET C == Taken(e, response)
           IN /\ Judge(r, e, IF C = {} THEN "nobids" ELSE "bids")
              /\ Return(r, e, C)

\* 5xx, or no connection.
ServerError(r, e) ==
    /\ Calling(r, e)
    /\ Judge(r, e, "errors")
    /\ TryAgain(r, e)

Timeout(r, e) ==
    /\ Calling(r, e)
    /\ Judge(r, e, "timeouts")
    /\ TryAgain(r, e)

\* Another status, or another exception while sending.
Refuse(r, e) ==
    /\ Calling(r, e)
    /\ Judge(r, e, "errors")
    /\ Return(r, e, {})

\* Mutant: a body that is not a bid response is also a response without a bid.
GarbageIsNoBid(r, e) ==
    /\ Calling(r, e)
    /\ attempts' = [attempts EXCEPT ![r][e] = @ + 1]
    /\ stats' = [stats EXCEPT ![e] = [Counted(@, 2, "errors") EXCEPT !.nobids = @ + 1]]
    /\ Return(r, e, {})
    /\ UNCHANGED <<pc, local, asked, answer, task, counters, told>>

\* A body that is not a bid response: the request, counted when the status came, is
\* counted again by the handler of the exception.
Garbage(r, e) ==
    /\ Calling(r, e)
    /\ attempts' = [attempts EXCEPT ![r][e] = @ + 1]
    /\ stats' = [stats EXCEPT ![e] = Counted(@, 2, "errors")]
    /\ Return(r, e, {})
    /\ UNCHANGED <<pc, local, asked, answer, task, counters, told>>

-----------------------------------------------------------------------------
(* Both are in: merge, sort, answer, and leave three tasks behind.           *)

Candidates(r) == local[r] \cup UNION {offers[r][s] : s \in Sources}

\* The sort is stable: of equal bids the one merged first stays first.
Ahead(c, o) ==
    \/ c.bid > o.bid
    \/ c.bid = o.bid /\ rank[c.src] < rank[o.src]
    \/ c.bid = o.bid /\ c.src = o.src /\ c.at <= o.at

\* Mutant: the order is that of the merge.
FirstMerged(C) ==
    CHOOSE c \in C : \A o \in C : rank[c.src] < rank[o.src]
                                     \/ (c.src = o.src /\ c.at <= o.at)

Best(C) == CHOOSE c \in C : \A o \in C : Ahead(c, o)

\* Mutant: until something is there to answer with.
GatheredSome(r) ==
    /\ pc[r] = "running" /\ local[r] # Pending
    /\ asked[r] # Pending /\ \A s \in Sources : offers[r][s] # Pending
    /\ Candidates(r) # {}

Gathered(r) ==
    /\ pc[r] = "running" /\ local[r] # Pending
    /\ asked[r] # Pending /\ \A s \in Sources : offers[r][s] # Pending

\* Mutant: the partner is told before its document is looked at.
TasksAfter(C) == [requests |-> "due",
                  opps |-> IF C = {} THEN "none" ELSE "due",
                  notice |-> IF C # {} /\ Best(C).ad \in {"noticed", "bare"} THEN "due"
                             ELSE "none"]

Tasks(C) == [requests |-> "due",
             opps |-> IF C = {} THEN "none" ELSE "due",
             notice |-> IF C # {} /\ Best(C).ad = "noticed" THEN "due" ELSE "none"]

\* Only the first candidate is tried.
Answer(r) ==
    LET C == Candidates(r)
    IN /\ Gathered(r)
       /\ answer' = [answer EXCEPT ![r] =
                         IF C = {} \/ Best(C).ad = "bare" THEN NoAd ELSE Best(C)]
       /\ task' = [task EXCEPT ![r] = Tasks(C)]
       /\ pc' = [pc EXCEPT ![r] = "done"]
       /\ UNCHANGED <<local, asked, offers, attempts, stats, counters, told>>

-----------------------------------------------------------------------------
(* The tasks. Each may fail, and then nobody tries again.                    *)

Finish(r, t, how) ==
    /\ task[r][t] = "due"
    /\ task' = [task EXCEPT ![r][t] = how]
    /\ UNCHANGED <<pc, local, asked, offers, attempts, stats, answer>>

LocalIds(r) == {c \in Campaigns : \E k \in Candidates(r) : k.src = c}
HasDemand(r) == \E k \in Candidates(r) : k.src \in Sources

\* The group is in the list, and campaign 0 is counted whatever the list says.
CountRequest(r) ==
    LET listed == LocalIds(r) \cup
                      (IF HasDemand(r) \/ LocalIds(r) = {} THEN {Global} ELSE {})
    IN /\ Finish(r, "requests", "done")
       /\ requests' = [g \in Groups |-> requests[g] + (IF g \in listed THEN 1 ELSE 0)
                                                    + (IF g = Global THEN 1 ELSE 0)]
       /\ UNCHANGED <<opps, told>>

\* Mutant: no demand, no opportunity.
CountDemandOpportunity(r) ==
    /\ Finish(r, "opps", "done")
    /\ opps' = [g \in Groups |-> opps[g] + (IF g = Global /\ HasDemand(r) THEN 2 ELSE 0)]
    /\ UNCHANGED <<requests, told>>

CountOpportunity(r) ==
    LET listed == LocalIds(r) \cup (IF HasDemand(r) THEN {Global} ELSE {})
    IN /\ Finish(r, "opps", "done")
       /\ opps' = [g \in Groups |-> opps[g] + (IF g \in listed THEN 1 ELSE 0)
                                            + (IF g = Global THEN 1 ELSE 0)]
       /\ UNCHANGED <<requests, told>>

Notify(r) ==
    /\ Finish(r, "notice", "done")
    /\ told' = [told EXCEPT ![r] = @ \cup {Best(Candidates(r)).src}]
    /\ UNCHANGED counters

\* Redis or the partner is unreachable: a warning.
GiveUp(r, t) == Finish(r, t, "lost") /\ UNCHANGED <<counters, told>>

\* The worker dies: its requests, its tasks and its statistics with it.
Crash ==
    /\ pc' = [r \in Requests |-> IF pc[r] = "running" THEN "lost" ELSE pc[r]]
    /\ task' = [r \in Requests |-> [t \in DOMAIN NoTasks |->
                    IF task[r][t] = "due" THEN "lost" ELSE task[r][t]]]
    /\ attempts' = [r \in Requests |-> [e \in Endpoints |-> 0]]
    /\ stats' = [e \in Endpoints |-> NoStats]
    /\ UNCHANGED <<local, asked, offers, answer, counters, told>>

-----------------------------------------------------------------------------

Attempt(r, e) ==
    Bid(r, e) \/ ServerError(r, e) \/ Timeout(r, e) \/ Refuse(r, e) \/ Garbage(r, e)

Step(r) ==
    \/ ServeLocal(r) \/ Forward(r) \/ Answer(r)
    \/ \E e \in Endpoints : Attempt(r, e)

Background(r) ==
    \/ CountRequest(r) \/ CountOpportunity(r) \/ Notify(r)
    \/ \E t \in DOMAIN NoTasks : GiveUp(r, t)

Next ==
    \/ \E r \in Requests : Arrive(r) \/ Step(r) \/ Background(r)
    \/ Crash

\* The event loop resumes what has been answered, and every attempt is: by the partner,
\* or by a timeout.
Fairness == \A r \in Requests : WF_vars(Step(r))

Spec == Init /\ [][Next]_vars /\ Fairness

-----------------------------------------------------------------------------
(* Properties.                                                               *)

\* The answer is the best of what both pipelines returned, local ads first among equal
\* bids, however long partners took and whatever failed on the way: it is empty only
\* if there was no candidate, or the best has no media file.
BestBidAnswered ==
    \A r \in Requests : pc[r] = "done" =>
        \A k \in Candidates(r) :
            \/ answer[r] # NoAd /\ Ahead(answer[r], k)
            \/ answer[r] = NoAd /\ \E b \in Candidates(r) : b.ad = "bare" /\ Ahead(b, k)

\* A partner is told it won only if its document is the answer, and asked for the notice.
OnlyWinnersTold ==
    \A r \in Requests : \A e \in told[r] :
        answer[r] # NoAd /\ answer[r].src = e /\ answer[r].ad = "noticed"

\* The first, the second ... attempt of each request at an endpoint.
Attempted(e) == UNION {{r} \X (1 .. attempts[r][e]) : r \in Requests}

\* Every attempt of every request has exactly one outcome in the statistics, so that the
\* rates of an endpoint are shares of one total.
AttemptsJudgedOnce ==
    \A e \in Endpoints :
        stats[e].bids + stats[e].nobids + stats[e].timeouts + stats[e].errors =
            Cardinality(Attempted(e))

Settled == \A r \in Requests : pc[r] = "done" =>
               task[r].requests = "done" /\ task[r].opps \in {"none", "done"}
AnsweredWith(c) == {r \in Requests : pc[r] = "done" /\ c \in LocalIds(r)}

\* While no task has failed, a campaign has as many requests and as many opportunities
\* as there were requests it had a candidate for, and no fill rate exceeds one.
CountersMatchOffers ==
    Settled =>
        /\ \A c \in Campaigns :
               requests[c] = Cardinality(AnsweredWith(c)) /\ opps[c] = requests[c]
        /\ opps[Global] <= requests[Global]

\* Every request that arrives is answered, unless its worker dies.
EveryRequestAnswered == \A r \in Requests : pc[r] = "running" ~> pc[r] \in {"done", "lost"}
=============================================================================
