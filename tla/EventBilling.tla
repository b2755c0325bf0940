---------------------------- MODULE EventBilling ----------------------------
(***************************************************************************)
(* EventService.track_event: from a tracking call to a billed impression.  *)
(*                                                                         *)
(* Every call (POST /event/track, the GET pixel, the win, loss and billing *)
(* notices) runs one coroutine.  Between two awaits other coroutines, of   *)
(* this or another worker process, may run, so each await is an action of  *)
(* its own: SET NX on the dedup key, the read and the refill of the cached *)
(* CPM, the INSERT, the Redis MULTI, the COMMIT when the session closes.   *)
(* Redis and PostgreSQL may fail at any of them and a worker may die.      *)
(*                                                                         *)
(* Money is counted in thousandths of the CPM unit, so that the cost of    *)
(* one impression is the bid or price itself.                              *)
(***************************************************************************)
EXTENDS Integers, FiniteSets

CONSTANTS Deliveries,       \* the tracking calls, one coroutine each
          Requests,         \* request ids carried by the calls
          LocalCampaigns,   \* campaign ids > 0: bid read from the database
          Demand,           \* campaign id 0: external demand, price in the call
          NoCampaign,       \* the ad id names no campaign (None)
          Bids,             \* values of Campaign.bid_amount
          Prices,           \* clearing prices a call can carry, 0 = none
          NoBid,            \* the CPM cache holds nothing
          Traffic,          \* the events clients send
          MaxWindows        \* BOUND: times a dedup key may expire

Campaigns == LocalCampaigns \cup {Demand}

\* The string given as "type", by what the service does with it: "player" stands
\* for start .. complete, click, skip, error (each has a counter of its own),
\* "quiet" for mute, pause, expand .. (stored, not counted), "unknown" for a
\* string outside _EVENT_TYPE_MAP.
StatTypes == {"impression", "win", "loss", "player"}
Types == StatTypes \cup {"quiet", "unknown"}

Event == [req : Requests, camp : Campaigns \cup {NoCampaign}, type : Types,
          user : BOOLEAN, price : Prices]

\* What each endpoint can pass to track_event. Only the POST has a user id, and
\* it never has a price.
TrackPost     == {e \in Event : e.price = 0}
TrackPixel    == {e \in Event : ~e.user}
WinNotice     == {e \in Event : ~e.user /\ e.type = "win"}
LossNotice    == {e \in Event : ~e.user /\ e.type = "loss" /\ e.price = 0}
BillingNotice == {e \in Event : ~e.user /\ e.type = "impression"}

Offered == TrackPost \cup TrackPixel \cup WinNotice \cup LossNotice \cup BillingNotice

ASSUME BillingAssumption ==
    /\ Demand \notin LocalCampaigns
    /\ NoCampaign \notin Campaigns
    /\ Bids \subseteq Nat \ {0}
    /\ Prices \subseteq Nat
    /\ 0 \in Prices
    /\ NoBid \notin Nat
    /\ Traffic \subseteq Offered
    /\ MaxWindows \in Nat

Keys == Requests \X Campaigns

VARIABLES
    ev,        \* what each delivery carries, fixed by the client that sends it
    pc,        \* where its coroutine is suspended
    verdict,   \* dedup outcome: "none" | "fresh" | "dup" | "bypass"
    stamp,     \* HISTORY: the window of its key in which it was judged
    cost,      \* AdEvent.cost
    row,       \* its AdEvent: "none" | "pending" | "committed" | "aborted"
    counted,   \* Redis statistics: "no" | "yes" | "failed" | "raised"
    dedup,     \* imp_dedup:{req}:{campaign} keys that exist in Redis
    window,    \* HISTORY: how often each key has expired
    bid,       \* Campaign.bid_amount
    cpmCache,  \* campaign:cpm:{id} in Redis
    stat,      \* stat:{campaign}:{hour}: the counters
    winPrice,  \* stat:{campaign}:{hour}: win_price_sum
    spend      \* spend, and spent_today / spent_total of budget:{campaign}:{day}

taskVars  == <<ev, pc, verdict, stamp, cost, row, counted>>
redisVars == <<dedup, window, cpmCache, stat, winPrice, spend>>
vars      == <<taskVars, redisVars, bid>>

Key(d) == <<ev[d].req, ev[d].camp>>

\* Only impressions with a campaign are deduplicated and priced.
Billable(e) == e.type = "impression" /\ e.camp # NoCampaign

\* The frequency keys are built with CacheKeys.freq_daily and freq_hourly,
\* which the class does not have: building the pipeline raises.
NeedsFrequencyKeys(e) == Billable(e) /\ e.user

Stages == {"idle", "dedup", "cpm", "bid", "refill", "persist", "pipeline", "commit",
           "done", "dead"}

TypeOK ==
    /\ ev \in [Deliveries -> Traffic]
    /\ pc \in [Deliveries -> Stages]
    /\ verdict \in [Deliveries -> {"none", "fresh", "dup", "bypass"}]
    /\ stamp \in [Deliveries -> Nat]
    /\ cost \in [Deliveries -> Nat]
    /\ row \in [Deliveries -> {"none", "pending", "committed", "aborted"}]
    /\ counted \in [Deliveries -> {"no", "yes", "failed", "raised"}]
    /\ dedup \in SUBSET Keys
    /\ window \in [Keys -> Nat]
    /\ bid \in [LocalCampaigns -> Bids]
    /\ cpmCache \in [LocalCampaigns -> Bids \cup {NoBid}]
    /\ stat \in [Campaigns \X StatTypes -> Nat]
    /\ winPrice \in [Campaigns -> Nat]
    /\ spend \in [Campaigns -> Nat]

Init ==
    /\ ev \in [Deliveries -> Traffic]
    /\ pc = [d \in Deliveries |-> "idle"]
    /\ verdict = [d \in Deliveries |-> "none"]
    /\ stamp = [d \in Deliveries |-> 0]
    /\ cost = [d \in Deliveries |-> 0]
    /\ row = [d \in Deliveries |-> "none"]
    /\ counted = [d \in Deliveries |-> "no"]
    /\ dedup = {}
    /\ window = [k \in Keys |-> 0]
    /\ bid \in [LocalCampaigns -> Bids]
    /\ cpmCache = [c \in LocalCampaigns |-> NoBid]
    /\ stat = [s \in Campaigns \X StatTypes |-> 0]
    /\ winPrice = [c \in Campaigns |-> 0]
    /\ spend = [c \in Campaigns |-> 0]

GoTo(d, s) == pc' = [pc EXCEPT ![d] = s]

-----------------------------------------------------------------------------
(* The call arrives: parse, then straight to the first await that applies.   *)

Receive(d) ==
    /\ pc[d] = "idle"
    /\ GoTo(d, IF ev[d].type = "unknown" THEN "done"
               ELSE IF Billable(ev[d]) THEN "dedup" ELSE "persist")
    /\ UNCHANGED <<ev, verdict, stamp, cost, row, counted, redisVars, bid>>

-----------------------------------------------------------------------------
(* _is_duplicate_impression, and the cost of what is not a duplicate: demand *)
(* fills carry their price, local campaigns look their bid up.               *)

Priced(d) ==
    IF ev[d].camp \in LocalCampaigns
    THEN GoTo(d, "cpm") /\ UNCHANGED cost
    ELSE GoTo(d, "persist") /\ cost' = [cost EXCEPT ![d] = ev[d].price]

\* Mutant: SET without NX, every call takes the key for its own.
ClaimKeyWithoutNX(d) ==
    /\ pc[d] = "dedup"
    /\ dedup' = dedup \cup {Key(d)}
    /\ verdict' = [verdict EXCEPT ![d] = "fresh"]
    /\ stamp' = [stamp EXCEPT ![d] = window[Key(d)]]
    /\ Priced(d)
    /\ UNCHANGED <<ev, row, counted, window, cpmCache, stat, winPrice, spend, bid>>

\* Mutant: the key is only looked up here, and left to be set later.
ClaimKeyByGet(d) ==
    /\ pc[d] = "dedup"
    /\ Key(d) \notin dedup
    /\ verdict' = [verdict EXCEPT ![d] = "fresh"]
    /\ stamp' = [stamp EXCEPT ![d] = window[Key(d)]]
    /\ Priced(d)
    /\ UNCHANGED <<ev, row, counted, redisVars, bid>>

ClaimKey(d) ==
    /\ pc[d] = "dedup"
    /\ Key(d) \notin dedup
    /\ dedup' = dedup \cup {Key(d)}
    /\ verdict' = [verdict EXCEPT ![d] = "fresh"]
    /\ stamp' = [stamp EXCEPT ![d] = window[Key(d)]]
    /\ Priced(d)
    /\ UNCHANGED <<ev, row, counted, window, cpmCache, stat, winPrice, spend, bid>>

SeeDuplicate(d) ==
    /\ pc[d] = "dedup"
    /\ Key(d) \in dedup
    /\ verdict' = [verdict EXCEPT ![d] = "dup"]
    /\ GoTo(d, "persist")
    /\ UNCHANGED <<ev, stamp, cost, row, counted, redisVars, bid>>

\* Mutant: the SET NX whose reply was lost is sent again and finds its own key.
DedupRetried(d) ==
    /\ pc[d] = "dedup"
    /\ dedup' = dedup \cup {Key(d)}
    /\ verdict' = [verdict EXCEPT ![d] = "dup"]
    /\ GoTo(d, "persist")
    /\ UNCHANGED <<ev, stamp, cost, row, counted, window, cpmCache, stat, winPrice,
                   spend, bid>>

\* The SET NX raises: the check is bypassed. Redis may have executed it.
DedupUnreachable(d) ==
    /\ pc[d] = "dedup"
    /\ dedup' \in {dedup, dedup \cup {Key(d)}}
    /\ verdict' = [verdict EXCEPT ![d] = "bypass"]
    /\ stamp' = [stamp EXCEPT ![d] = window[Key(d)]]
    /\ Priced(d)
    /\ UNCHANGED <<ev, row, counted, window, cpmCache, stat, winPrice, spend, bid>>

-----------------------------------------------------------------------------
(* _calculate_cpm_cost: cached CPM, else the campaign row, else zero.        *)

HitCpm(d) ==
    /\ pc[d] = "cpm"
    /\ cpmCache[ev[d].camp] # NoBid
    /\ cost' = [cost EXCEPT ![d] = cpmCache[ev[d].camp]]
    /\ GoTo(d, "persist")
    /\ UNCHANGED <<ev, verdict, stamp, row, counted, redisVars, bid>>

\* Nothing cached, or Redis raised.
MissCpm(d) ==
    /\ pc[d] = "cpm"
    /\ GoTo(d, "bid")
    /\ UNCHANGED <<ev, verdict, stamp, cost, row, counted, redisVars, bid>>

ReadBid(d) ==
    /\ pc[d] = "bid"
    /\ cost' = [cost EXCEPT ![d] = bid[ev[d].camp]]
    /\ GoTo(d, "refill")
    /\ UNCHANGED <<ev, verdict, stamp, row, counted, redisVars, bid>>

\* Mutant: the missing bid is used as it is.
ReadBidUnchecked(d) ==
    /\ pc[d] = "bid"
    /\ cost' = [cost EXCEPT ![d] = NoBid]
    /\ GoTo(d, "persist")
    /\ UNCHANGED <<ev, verdict, stamp, row, counted, redisVars, bid>>

\* The SELECT raised or the campaign does not exist: the impression is free.
ReadBidFails(d) ==
    /\ pc[d] = "bid"
    /\ GoTo(d, "persist")
    /\ UNCHANGED <<ev, verdict, stamp, cost, row, counted, redisVars, bid>>

\* The bid that was read goes to the cache, however old it is by now; a failed
\* write is ignored.
RefillCpm(d) ==
    /\ pc[d] = "refill"
    /\ cpmCache' \in {cpmCache, [cpmCache EXCEPT ![ev[d].camp] = cost[d]]}
    /\ GoTo(d, "persist")
    /\ UNCHANGED <<ev, verdict, stamp, cost, row, counted, dedup, window, stat,
                   winPrice, spend, bid>>

-----------------------------------------------------------------------------
(* The AdEvent row: duplicates are stored too, for auditing.                 *)

Persist(d) ==
    /\ pc[d] = "persist"
    /\ row' = [row EXCEPT ![d] = "pending"]
    /\ GoTo(d, IF verdict[d] = "dup" THEN "commit" ELSE "pipeline")
    /\ UNCHANGED <<ev, verdict, stamp, cost, counted, redisVars, bid>>

\* Mutant: a failed INSERT starts the event over.
PersistRetries(d) ==
    /\ pc[d] = "persist"
    /\ GoTo(d, IF Billable(ev[d]) THEN "dedup" ELSE "persist")
    /\ UNCHANGED <<ev, verdict, stamp, cost, row, counted, redisVars, bid>>

\* rollback() and return False; the dedup key stays.
PersistFails(d) ==
    /\ pc[d] = "persist"
    /\ row' = [row EXCEPT ![d] = "aborted"]
    /\ GoTo(d, "done")
    /\ UNCHANGED <<ev, verdict, stamp, cost, counted, redisVars, bid>>

-----------------------------------------------------------------------------
(* _update_redis_analytics_pipeline: one MULTI. Whatever happens to it, the  *)
(* event goes on to be committed.                                            *)

\* Mutant: the spend is taken from the bid of the moment, not from the stored cost.
RunPipelineAtCurrentBid(d) ==
    LET e == ev[d] IN
    /\ pc[d] = "pipeline"
    /\ ~NeedsFrequencyKeys(e)
    /\ stat' = IF e.camp \in Campaigns /\ e.type \in StatTypes
               THEN [stat EXCEPT ![<<e.camp, e.type>>] = @ + 1] ELSE stat
    /\ spend' = IF Billable(e) /\ e.camp \in LocalCampaigns
                THEN [spend EXCEPT ![e.camp] = @ + bid[e.camp]] ELSE spend
    /\ counted' = [counted EXCEPT ![d] = "yes"]
    /\ GoTo(d, "commit")
    /\ UNCHANGED <<ev, verdict, stamp, cost, row, dedup, window, cpmCache, winPrice, bid>>

RunPipeline(d) ==
    LET e == ev[d] IN
    /\ pc[d] = "pipeline"
    /\ ~NeedsFrequencyKeys(e)
    /\ stat' = IF e.camp \in Campaigns /\ e.type \in StatTypes
               THEN [stat EXCEPT ![<<e.camp, e.type>>] = @ + 1] ELSE stat
    /\ winPrice' = IF e.camp \in Campaigns /\ e.type = "win"
                   THEN [winPrice EXCEPT ![e.camp] = @ + e.price] ELSE winPrice
    /\ spend' = IF Billable(e) THEN [spend EXCEPT ![e.camp] = @ + cost[d]] ELSE spend
    /\ counted' = [counted EXCEPT ![d] = "yes"]
    /\ GoTo(d, "commit")
    /\ UNCHANGED <<ev, verdict, stamp, cost, row, dedup, window, cpmCache, bid>>

\* Redis refuses or is gone. (If it executed the MULTI and only the reply was
\* lost, the outcome is that of RunPipeline.)
PipelineFails(d) ==
    /\ pc[d] = "pipeline"
    /\ ~NeedsFrequencyKeys(ev[d])
    /\ counted' = [counted EXCEPT ![d] = "failed"]
    /\ GoTo(d, "commit")
    /\ UNCHANGED <<ev, verdict, stamp, cost, row, redisVars, bid>>

\* AttributeError while the commands are queued: none of them is sent.
PipelineRaises(d) ==
    /\ pc[d] = "pipeline"
    /\ NeedsFrequencyKeys(ev[d])
    /\ counted' = [counted EXCEPT ![d] = "raised"]
    /\ GoTo(d, "commit")
    /\ UNCHANGED <<ev, verdict, stamp, cost, row, redisVars, bid>>

-----------------------------------------------------------------------------
(* The session dependency closes: commit, or the row is lost.                *)

Commit(d) ==
    /\ pc[d] = "commit"
    /\ row' = [row EXCEPT ![d] = "committed"]
    /\ GoTo(d, "done")
    /\ UNCHANGED <<ev, verdict, stamp, cost, counted, redisVars, bid>>

CommitFails(d) ==
    /\ pc[d] = "commit"
    /\ row' = [row EXCEPT ![d] = "aborted"]
    /\ GoTo(d, "done")
    /\ UNCHANGED <<ev, verdict, stamp, cost, counted, redisVars, bid>>

\* The worker process dies: PostgreSQL rolls back, Redis keeps what it has.
Crash(d) ==
    /\ pc[d] \notin {"idle", "done", "dead"}
    /\ GoTo(d, "dead")
    /\ row' = [row EXCEPT ![d] = IF @ = "pending" THEN "aborted" ELSE @]
    /\ UNCHANGED <<ev, verdict, stamp, cost, counted, redisVars, bid>>

-----------------------------------------------------------------------------
(* Around the coroutines: key expiry and the advertiser's bid changes.       *)

ExpireKey(k) ==
    /\ k \in dedup
    /\ window[k] < MaxWindows
    /\ dedup' = dedup \ {k}
    /\ window' = [window EXCEPT ![k] = @ + 1]
    /\ UNCHANGED <<taskVars, cpmCache, stat, winPrice, spend, bid>>

ExpireCpm(c) ==
    /\ cpmCache[c] # NoBid
    /\ cpmCache' = [cpmCache EXCEPT ![c] = NoBid]
    /\ UNCHANGED <<taskVars, dedup, window, stat, winPrice, spend, bid>>

\* The demand router writes the row and leaves the cached CPM alone.
UpdateBid(c, b) ==
    /\ bid[c] # b
    /\ bid' = [bid EXCEPT ![c] = b]
    /\ UNCHANGED <<taskVars, redisVars>>

-----------------------------------------------------------------------------

\* One resumption of the coroutine: what it awaited answers, or raises.
Step(d) ==
    \/ Receive(d)
    \/ ClaimKey(d) \/ SeeDuplicate(d) \/ DedupUnreachable(d)
    \/ HitCpm(d) \/ MissCpm(d) \/ ReadBid(d) \/ ReadBidFails(d) \/ RefillCpm(d)
    \/ Persist(d) \/ PersistFails(d)
    \/ RunPipeline(d) \/ PipelineFails(d) \/ PipelineRaises(d)
    \/ Commit(d) \/ CommitFails(d)

Next ==
    \/ \E d \in Deliveries : Step(d) \/ Crash(d)
    \/ \E k \in Keys : ExpireKey(k)
    \/ \E c \in LocalCampaigns : ExpireCpm(c)
    \/ \E c \in LocalCampaigns, b \in Bids : UpdateBid(c, b)

\* The event loop resumes every coroutine whose await has returned or raised.
Fairness == \A d \in Deliveries : WF_vars(Step(d))

Spec == Init /\ [][Next]_vars /\ Fairness

-----------------------------------------------------------------------------
(* Properties.                                                               *)

SameImpression(d1, d2) ==
    d1 # d2 /\ Billable(ev[d1]) /\ Billable(ev[d2]) /\ Key(d1) = Key(d2)

\* An impression reported twice (imp pixel and burl, a retried beacon) is charged
\* once: of two calls that both carry a cost, one met an unreachable Redis, or
\* the key had expired in between.
SingleCharge ==
    \A d1, d2 \in Deliveries :
        /\ SameImpression(d1, d2)
        /\ cost[d1] > 0 /\ cost[d2] > 0
        => "bypass" \in {verdict[d1], verdict[d2]} \/ stamp[d1] # stamp[d2]

\* No impression is thrown away: a call suppressed as a duplicate has another
\* call of the same impression that went ahead in its place.
DuplicateHasOriginal ==
    \A d \in Deliveries : verdict[d] = "dup" =>
        \E o \in Deliveries : SameImpression(d, o) /\ verdict[o] \in {"fresh", "bypass"}

Of(c) == {d \in Deliveries : ev[d].camp = c}

Untouched(d) == pc[d] = "idle" \/ ev[d].type = "unknown"
Clean(d) == pc[d] = "done" /\ row[d] = "committed"
            /\ (verdict[d] # "dup" => counted[d] = "yes")

\* What some deliveries cost together, unit by unit.
Units(D) == UNION {{d} \X (1 .. cost[d]) : d \in D}

\* Once the calls of a campaign are through, none of them having met a failure,
\* the counters behind the dashboard and the budget agree with the rows in
\* PostgreSQL: spend is the sum of their costs, the impression counter the
\* number of rows that are not duplicates.
CountersMatchLedger ==
    \A c \in Campaigns :
        (\A d \in Of(c) : Untouched(d) \/ Clean(d)) =>
            LET ledger == {d \in Of(c) : row[d] = "committed" /\ ev[d].type = "impression"}
            IN /\ spend[c] = Cardinality(Units(ledger))
               /\ stat[<<c, "impression">>] =
                      Cardinality({d \in ledger : verdict[d] # "dup"})

\* A row that is committed and is not a duplicate is in the counters, unless
\* Redis failed when it was its turn.
CountedUnlessRedisFailed ==
    \A d \in Deliveries :
        row[d] = "committed" /\ verdict[d] # "dup" => counted[d] \in {"yes", "failed"}

\* Every call that arrives comes to an end, whatever fails on its way.
EveryCallEnds ==
    \A d \in Deliveries : pc[d] # "idle" ~> pc[d] \in {"done", "dead"}

\* The abstract ledger: the dedup keys are the live ones, a delivery that was not
\* found a duplicate holds its key, and it is paid when its row is committed.
Claimed == [d \in Deliveries |->
               IF verdict[d] \in {"fresh", "bypass"} THEN Key(d) ELSE <<>>]
PaidRows == {d \in Deliveries :
                verdict[d] \in {"fresh", "bypass"} /\ row[d] = "committed"}

Unchecked == {d \in Deliveries : verdict[d] = "bypass"}

Ledger == INSTANCE BillingLedger
              WITH NoKey <- <<>>, live <- dedup, claim <- Claimed,
                   blind <- Unchecked, paid <- PaidRows

LedgerSpec == Ledger!Spec
=============================================================================
