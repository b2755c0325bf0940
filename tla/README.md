# LiteAds in TLA+

LiteAds is an ad server for connected-TV and in-app video, written in Python
(FastAPI on asyncio, several worker processes, PostgreSQL, Redis, OpenRTB demand
partners over HTTP). This directory models the parts of it that decide **who is
shown, who is charged, what is counted and what partners are told**, checks them
with TLC and proves the safety properties with TLAPS.

Paths below are relative to `src/liteads/`; `PROJECT.json` names, for every
definition, the lines it stands for, and for every property a mutant: a change of
one definition, of the kind a bug in that code would make, that TLC refutes the
property on.

Contents: [1 Inventory](#1-inventory) · [2 Modules](#2-modules-and-the-code-they-model)
· [3 Runs](#3-runs) · [4 Fairness](#4-fairness) · [5 Proofs](#5-proofs) ·
[6 Disagreements](#6-where-the-code-and-its-words-disagree) ·
[7 Abstractions](#7-what-is-abstracted) · [8 Not modelled](#8-what-is-not-modelled)
· [9 Plan](#9-plan)

## 1 Inventory

### The system

```
 player ── GET /vast ──> vast_tag router ──> AdService.serve_ads ──> Redis ads:active
                              │    │                └──> BudgetFilter ──> Redis budget:*
                              │    └──> DemandForwarder.forward ──> partners (HTTP)
                              │              └── per-process dictionaries <── PostgreSQL
                              └── tasks: ad_requests / ad_opportunities, win notice
 exchange ── bid request ──> openrtb router ──> enricher ──> OpenRTBService ──> serve_ads
                                                                   └──> PodBuilder
 player ── beacons ──> event router ──> EventService.track_event ──> PostgreSQL ad_events
                                              └──> Redis imp_dedup:*, stat:*, budget:*
 cron ──> analytics router ──> AnalyticsService: Redis stat:* / budget:* ──> PostgreSQL
 advertisers, operators ──> demand / admin / supply_demand routers ──> PostgreSQL
 threads ──> BatchingPredictor ──> worker thread;  ModelPredictor;  ModelCache
```

Everything but the predictor runs as coroutines in several worker processes. What
these share is PostgreSQL and Redis; what one process shares among its coroutines
is the forwarder's dictionaries and endpoint statistics. There is no lock between
the two stores, nor between processes.

### Components

| Component (file) | State it keeps | Operations | Talks to | Correct when |
|---|---|---|---|---|
| Event endpoints (`ad_server/routers/event.py`) | none | `POST /event/track`, the GET pixel, win, loss, billing notices | event billing | every report reaches `track_event` with the fields that endpoint may carry |
| Event billing (`services/event_service.py`) | Redis `imp_dedup:*`, `campaign:cpm:*`, `stat:*`, `budget:*`; rows of `ad_events` | `track_event`, `track_ad_request`, `track_ad_opportunity` | Redis, session | an impression is charged once and not lost; counters agree with rows |
| Database sessions (`common/database.py`) | pool, one transaction per request | commit, rollback, read session | PostgreSQL | a request's rows are all there or none |
| Redis wrapper (`common/cache.py`) | the connection | GET, SET NX/EX, HGETALL, MULTI | Redis | an operation is done, or raises, or both |
| Ad service and engine (`services/ad_service.py`, `rec_engine/engine.py`) | none | `serve_ads`, `recommend` | retrieval, filters | the campaigns served are suitable, funded and current |
| Targeting retrieval (`rec_engine/retrieval/targeting.py`) | Redis `ads:active` | `retrieve` | Redis, PostgreSQL | the list is at most its TTL and a call old |
| Budget filter (`rec_engine/filter/budget.py`) | Redis `budget:{campaign}:{day}` | `filter`, `set_budget` | Redis | a spent campaign is not served |
| Supply routing (`services/demand_forwarder.py` 294-446) | `_supply_tag_cache`, `_mapping_cache` per process | the two lookups of `forward` | PostgreSQL | requests go where the tables say, within 60 s |
| Demand endpoint calls (rest of the same file) | `_endpoint_stats` per process | `_request_ortb_endpoint`, `_resolve_vast_tag`, `_extract_candidates`, `_build_bid_request` | partners | bounded attempts, each judged once; partners told what the publisher said |
| VAST tag router (`routers/vast_tag.py`) | none; leaves tasks behind | `GET /vast` | both pipelines, event billing, partners | the best bid is answered, and only its partner told |
| Enrichment (`common/ortb_enricher.py`, `device.py`, `geoip.py`) | none | `enrich_bid_request`, `lookup`, `detect_environment` | | defaults never replace what was said |
| OpenRTB service, pod builder (`services/openrtb_service.py`, `pod_service.py`) | none | `process_bid_request`, `build_pod` | ad service, enricher | separation, duration, full breaks, one bid per impression |
| Analytics service (`services/analytics_service.py`) | rows of `hourly_stats`, `Campaign.spent_*` | `flush_hourly_stats`, `sync_campaign_spend_to_db`, reports | Redis, PostgreSQL | nothing is reported that did not happen, no counter goes backwards |
| Predictor (`ml_engine/serving/predictor.py`) | queue, results, model, cache of models; threads | `predict`, worker, `shutdown`; `load`, `predict_batch`; `load_model`, `set_current` | threads of one process | every caller gets its own result, and the model is there |
| Accounts, administration, supply and demand (`routers/demand.py`, `admin.py`, `supply_demand.py`) | rows | CRUD, `fund_account` | PostgreSQL | no update is lost, nobody sees or changes another's rows |
| Tracking URLs and VAST text, ML numerics, login, metrics, configuration | none that others read | formatting, arithmetic, wiring | | not modelled, see section 8 |

### What is hard here

* **Interleaving.** The same impression is reported by a pixel and by a billing
  notice, in two workers at once. Lookups of one worker overlap and finish in the
  other order. Two flushes, two edits or two deposits read before either writes.
* **Partial failure.** A call claims a Redis key, writes a row, runs a MULTI and
  commits; each of the four may fail alone, Redis may fail after having done what
  it was asked, and the worker may die anywhere.
* **Stale reads.** Campaign list, CPM, supply tag and mappings are all served from
  caches nobody invalidates; each entry's age starts at a different moment.
* **Retries and late answers.** Partners time out, answer 5xx, or answer rubbish;
  a failed attempt is repeated once; three tasks outlive the request. A caller of
  the predictor gives up while its request is in the batch.
* **Locks and rows held across steps.** Flushes hold rows they write one by one,
  in the order their SELECT gave; `ModelCache` loads files under its lock.
* **Counters.** The same request is counted by several increments in two tasks.
* **Long chains of small decisions.** A parameter passes through four
  representations, each with defaults; each slot of a pod restricts the later ones
  through five accumulators.

`PROJECT.json` lists each of these as a hazard at its line, with the properties
that would notice it going wrong. Six hazards have a note instead. The pool of
connections is SQLAlchemy's; the loss of campaign 0's counters cannot be expressed
by a step of the code, which never looks at them. In the other four the code does
go wrong as it stands, with a loss, a difference, a double count and a deadlock, and
the property next to each excepts it (section 6, "Losses the properties except").

## 2 Modules and the code they model

| Module | Models | Composes with |
|---|---|---|
| `BillingLedger` | abstract: what impression billing promises | implemented by `EventBilling` |
| `EventBilling` | `EventService.track_event` and its endpoints | `BillingLedger` (refinement mapping); `MCEventBilling` |
| `AdServing` | `AdService.serve_ads` with retrieval, cache, budget filter | `MCAdServing` |
| `SupplyRouting` | `DemandForwarder.forward` up to the requests it sends | `MCSupplyRouting` |
| `VastTag` | `GET /vast`: both pipelines, calls to partners, choice, tasks | takes any result `AdServing` can return and any set of sources `SupplyRouting` can choose; `MCVastTag`, `MCExchange` |
| `OpenRTB` | `process_bid_request` and `build_pod` | takes any result of `serve_ads`; `MCExchange` |
| `BidRequests`, `RequestFields` | parameters of a tag, fields of a bid request, and every translation between them | `MCExchange` |
| `Reporting` | `flush_hourly_stats`, `sync_campaign_spend_to_db` against live counters | `MCReporting` |
| `Batching`, `ModelPredictor`, `ModelCache` | the three classes of `predictor.py` | `MCPredictor` |
| `Administration` | every call of the advertiser, administrator and operator APIs as a transaction | `MCAdministration` |
| `...Proofs` | the theorems of a component, and the lemmas they rest on | each extends its component; `PredictorProofs` and `ExchangeProofs` extend the `MC` modules that put several together |

`MC*` modules give values to constants and name a symmetry set. `MCPredictor` and
`MCExchange` also put several specifications side by side: a variable (`class`,
`kind`) is chosen in the initial state and says whose behaviour this one is, while
the others rest. The three classes of the predictor have no caller in common in
the repository, and requests of the exchange and of players meet only in state
other modules model. `MCExchange` takes `VastTag` by way of `VastTagProofs`, so
that `ExchangeProofs` can cite its theorems for the instance.

### EventBilling

One coroutine per tracking call `d`; `pc[d]` is the await it is suspended at, so
that an action is what runs between two awaits.

| Code | Action |
|---|---|
| `track_event` up to the first await (parse, unknown type) | `Receive` |
| `SET imp_dedup NX`: taken, found, raised | `ClaimKey`, `SeeDuplicate`, `DedupUnreachable` |
| `_calculate_cpm_cost`: cached, missed or raised, the SELECT, its failure, the refill | `HitCpm`, `MissCpm`, `ReadBid`, `ReadBidFails`, `RefillCpm` |
| INSERT, its failure with rollback | `Persist`, `PersistFails` |
| `_update_redis_analytics_pipeline`: done, refused, AttributeError | `RunPipeline`, `PipelineFails`, `PipelineRaises` |
| the session dependency closes | `Commit`, `CommitFails` |
| around it | `Crash`, `ExpireKey`, `ExpireCpm`, `UpdateBid` |

`DedupUnreachable` lets the key be set or not: the reply may be all that was lost.
`stamp` and `window` are history: in which life of its key a call was judged. They
appear in no guard except the bound `MaxWindows`. The inputs, `Offered`, are
exactly what the five endpoints can pass on (only the POST has a user id, only
pixels and notices have a price).

### AdServing

One coroutine per call of `serve_ads`. `Hit`, `Miss`, `Select`, `Fill` are
`_get_active_campaigns`; `Match` the targeting rules; `CheckBudget` and
`AssumeBudget` the budget filter with and without Redis, each followed at once by
`Decide` (the first `num_ads`, then the floor), because no await lies between;
`Raise` any failure on the way, since nothing catches it before the router.
`Change` is any edit of a campaign's status, schedule or bid; `Spend` the fields
`EventBilling`'s pipeline writes; `NewDay` the date in the key. Time is a counter;
`lastSeen`, `readAt`, `begun` and `servedAt` are history for the property.

### SupplyRouting

`Begin`, `SelectTag`, `StoreTag`, `SelectMappings`, `SelectSources` and
`StoreMappings` are the two lookups of `_do_forward`, cut at each await: a
dictionary entry is stamped with the time its lookup *began* (`asked`), the
mapping rows and the rows they name are read by two statements (`selectinload`),
and each has its own snapshot. A tag that is not cached brings its mappings and
their sources along (`lazy="selectin"`: `SelectTagMappings`, `SelectTagSources`),
and what the session has loaded it keeps (`loaded`, `loadedOn`): the lookup of the
mappings that follows is a new statement for the mappings, whose WHERE clause the
database evaluates, but sources the session knows are not refreshed. `End` is the
session given up. A dictionary hit does not suspend, so `Begin` may go all the
way. `Flip` is an operator's edit, `Restart` a new worker process.

### VastTag

One coroutine per request, and one per endpoint under it. `ServeLocal` and
`Forward` are the two gathered tasks (an exception becomes an empty list).
`Bid`, `ServerError`, `Timeout`, `Refuse` and `Garbage` are the ways an attempt of
`_request_ortb_endpoint` ends, each with what it does to the statistics
(`Judge`, `Counted`; `Garbage` adds two to the total, as the code does) and with
what comes next (`TryAgain`, `Return`). `Answer` is everything from the merge to
the response: stable sort, first candidate only, refusal of a document without
media, and the tasks created on the way. `CountRequest`, `CountOpportunity` and
`Notify` are those tasks; `GiveUp` is their `except`; `Crash` the end of the
worker.

### OpenRTB

| Code | Action |
|---|---|
| the router's test of `tmax` | `TooLate` |
| `_to_internal_request`, with the two ways it does not validate | `Accept` |
| `serve_ads`, any list it may return | `ServeAds` |
| `PodBuilder.build_pod`, one pass of the loop over positions | `FillSlot`, with `Eligible`, `Best`, `Remember` |
| the pod is full; no slot was filled | `EndPod` |
| floor, re-sort, impressions, documents without media, counting tasks | `Answer` |
| any exception on the way | `Raise` |

`placed` holds the five accumulators of `build_pod`. The density of a bid is a
pair of integers compared by cross multiplication, as exact as the code's division
is meant to be. A list comprehension is `Picked`, a sort is `InOrder`: the element
in place `k` is the one with `k - 1` elements before it. Both say what the loop or
the sort returns without recursion, which is what the proofs of `PodIsPacked` and
`FirstSlotFirst` need; likewise `Over` merges two objects (`{**f, **g}`).

### BidRequests

A value is the *name of the parameter it came from*, or one of `None`, `Zero`,
`Junk`, `Empty`, "default", "derived", so that a value in the wrong place, or a
default where a value should be, shows. Python's `or` and `is not None` are `Or`
and `Given`: which of the two the code uses decides whether a zero survives.

| Code | Action |
|---|---|
| `vast_tag`'s parameters to `AdRequest`, glued `ifa=`, MaxMind, environment | `ReadQuery` |
| `_build_user_context` | `BuildContext` |
| `_build_bid_request` | `BuildBidRequest` |
| `enrich_bid_request` | `Enrich` |
| `_slim_payload` and the renaming of `gpp_sid` | `Send` |
| `_substitute_macros`, dropping of empty parameters | `ResolveTag` |
| `_to_internal_request` of the exchange | `ToInternal` |

`World` is what the code finds outside the request: what the texts speak of (a TV,
an IPv6 address, a version), a User-Agent header, whether the caller's address is
known, MaxMind's database, the floors.

A place has three sources. `Ip` is the publisher's address or else the caller's
(`Client`); where there is one, `Geo` is what MaxMind answers for it (`Looked`),
with the publisher's country before MaxMind's; where there is none, it is the
publisher's own (`PublisherGeo`), if it says a country. `PublisherFirst` and
`SignalsKept` say both what arrives and, by name, what does not: the rest of a
publisher's place, a rating without other content, the place of an exchange; what a
tag says of GDPR and GPP, its floor for local campaigns, GDPR in the extension of an
exchange's regs. Each exception is an equation, so that the property is refuted as
well by code that would pass one of these on; they are in section 6.

### Reporting

Traffic (`CountRequest`, `CountImpression`), expiry of hashes and the clock run
beside calls of `/flush` and `/sync-spend`. A call is cut at its awaits:
`StartFlush`/`StartSync`, `ReadCounters` (one MULTI of HGETALLs, in any order of
the campaigns), `WriteRow` for each upsert (which waits for a row that another
transaction has written), `CommitFlush`/`CommitSync` when the session closes,
`Fail` anywhere, `BreakDeadlock` by the database. A hash is the number of its
increments. `happened`, `version`, `synced` and a call's `seen` are history.

### Batching, ModelPredictor, ModelCache

In `Batching` every critical section is an action (`Submit`, `Collect`, `Take`,
`Store`), and setting (`Signal`), waiting for (`Wake`) and predicting are actions
of their own. As in the code, nothing but the position ties an answer to its
request: the queue holds pairs of an id and features, `Take` splits them into two
lists (`ids`, `batch`), `Predict` makes a third (`outputs`) and `Store` pairs the
first with the third (`Zip`, as short as the shorter of them). `asked` is history,
what a caller asked about; `OwnAnswer` compares it with what comes back, and fails
when an input is left out on the way and the later ones move up.
`TimeOut` may come at any poll, with the answer there or not.
`Shutdown` may come at any time, `Stop` ends the worker.

`ModelPredictor` is the lazy load: a flag read without the lock (`Begin`), the
lock and the flag again (`Acquire`), weights, warm-up, failures, and the count of
predictions as the read and the write it is.

`ModelCache` holds its lock for all a method does; `CallLoad` is `set_current` of a
version that is not cached, which calls `load_model`, which waits for the lock the
thread already holds.

### Administration

One transaction per call. `Arrive` draws one of all requests the three APIs can
make; `Load` is `get_or_404` and the ownership tests, row by row, without locks;
`Show` and `ShowAccount` are the answers of reading calls; `Flush` writes the
attributes that differ from what was loaded (that is what SQLAlchemy writes), and
waits for locked rows and for unsettled values of the unique `slot_id`; `Commit`
and `Rollback` end it. `stale` is history: what others changed of a row since the
call loaded it. `References` and `Fits` say what a row of each table refers to and
which columns it has.

## 3 Runs

| Run | Asks | Bounds and distinct states |
|---|---|---|
| `billing` | Is an impression charged once, and none suppressed without an original, under all failures? | three calls of one impression, one expiry of the key; 581 thousand |
| `billing_live` | Does `track_event` implement `BillingLedger`; does every call end; do the counters agree with the rows when the bid moves? | two calls drawn from nine kinds of event, two bids; 484 thousand |
| `billing_user` (violation) | Is every stored, unduplicated impression counted unless Redis failed? | one call |
| `serving` | Is what a call decides on true within `Ttl + 2*Lag`? | two calls, one campaign, two bids, horizon 3; 2.9 million |
| `serving_budget` (violation) | Is a campaign that has spent its day's budget left out? | one call |
| `routing` | Are the sources asked those of the tables within `Ttl + Lag`? | two calls of one worker, one source, horizon 3; 2.0 million |
| `vast_tag` | Best bid answered, only the winner told, every attempt judged once, counters agree with offers? | two requests, one source of each kind, one retry; 1.8 million |
| `reporting` | Do the tables report only what happened; when may a row, or a total, fall; do calls that lock each other's rows end? | two calls of any kind, two campaigns, three hours of one day each; 192 thousand |
| `predictor` | Is each answer the prediction for what its caller asked about, and nothing left but what was given up; is the model loaded before use, the current version kept; do calls end? | two callers, three calls, two inputs, batches of two; two threads and two batches each; two threads, three versions, room for two, five calls; 148 thousand |
| `administration` | Are edits kept, deposits added, slots unique, rows one's own, and does every call end? | any two calls of all APIs, overlapping; 201 thousand |
| `exchange` | Are pods separated, packed and headed by their first slot; what of the publisher's words arrives, and what is replaced or lost; is a tag request with two bids in a response answered? | five candidates, 75 breaks; five worlds; 148 thousand |
| `exchange_skip` (violation) | Is no bid request refused for a missing field? | the same |

**Why the bounds are enough.**

* Billing is about pairs of calls of one key; a third call is there to meet what
  two have left behind (a bypassed claim, an expired key), and calls of different
  keys touch different counters.
* Staleness is about a reader and the one whose read it is served from, which is
  two calls, and one row that changes. `Ttl = Lag = 1` (2 for routing, so that an
  entry can be hit, age, and expire) with horizon 3 lets an entry be read before a
  change, written after it and hit at its last moment. The window in
  `BoundedStaleness` is tight: the difference reaches its last permitted value.
* Requests of the VAST tag interact through the statistics and the counters only,
  so that two show every interleaving of a pair; one local campaign, endpoint and
  tag with bids that tie and bids that beat each other show every order the merge
  can have; `Retries = 1` is the code's own value.
* In `reporting` two calls over two campaigns can overlap on the same row, or wait
  for each other's; two increments of one hash let it grow between two reads; a
  day of one hour makes the next hour another day, and a third hour lets the
  hashes of the first expire.
* In `predictor` two callers fill a batch of two, with different inputs or the same,
  or leave it partly full; a caller who gives up asks again, so that the queue can
  hold one request more than a batch takes, two of them with one caller. The third
  version meets a full cache in which the other two are current and not.
* `administration` takes overlapping *pairs* of calls because its properties
  relate an edit to one other edit of the row, or of its parent. The opening rows
  are one of each kind but mappings, with a second id free where a
  second row could clash.
* The candidates of `exchange` are two of one advertiser, two of one domain, four
  of one category, one of the default length, one that fills a break of 60 seconds
  by itself; breaks of 50, 90 and 120 seconds are short enough to be full.
  Queries and bid requests are complete ones with one or two things missing or
  zero or junk, and empty ones with one or two things there: a step that drops or
  overrides a value looks at one or two others.

Symmetry is over calls and requests, which are interchangeable, and never used
with liveness.

**Deadlock** is checked in `billing_live` only, where expiry and bid changes keep
the system moving. The other runs end in states where all calls are over and the
bounds are exhausted, so they say `CHECK_DEADLOCK FALSE`; that nobody waits for
good is `EveryCallEnds`, `EveryJobEnds`, `EveryCallReturns` and
`CallsEndUnlessStuck`.

**Bounds that are not the code's**: `MaxWindows` (expiries of a key), `MaxClock`,
`MaxHour` (horizons), `MaxSpend` (spend of a day), `MaxCount` (increments of a
hash), `MaxBids` (bids in a response), `MaxCalls`, `CacheCalls`, `MaxBatches`,
`MaxRequests` (calls). `Lag` is an assumption, how long a call may run, and
appears in the properties as such.

## 4 Fairness

| Module | Fairness | Why |
|---|---|---|
| `EventBilling`, `VastTag` | weak, of `Step` per coroutine | the event loop resumes a coroutine whose await has returned or raised, and every await here does one of the two: Redis, PostgreSQL and HTTP calls end in an answer or an exception |
| `Reporting` | weak, of `Step` and of `BreakDeadlock` per call | as above; PostgreSQL looks for cycles of waiting transactions and fails one of them |
| `Administration` | weak, of `Step` per call | as above; locks are held only by calls that go on to their commit |
| `Batching` | weak, of the worker and of what a waiting caller does | threads are scheduled, and a caller's clock runs |
| `ModelCache` | weak, of `Step` per thread | threads are scheduled; a lock asked for by a thread that already holds it is never granted |

Nothing is assumed about *how* a step ends: `Step` contains the failures. No
fairness is given to arrivals, crashes, expiry, edits, `Shutdown` or background
tasks, and no property needs it. `ModelPredictor`, `OpenRTB`, `BidRequests`,
`AdServing` and `SupplyRouting` have safety properties only, and no fairness; the
`Tick` of the last two waits for calls that have used up their `Lag`, which is how
the bound on a call's length is expressed.

For partners this is an assumption: `httpx.Timeout` bounds each read, not the
whole, so a partner that sends a byte now and then may keep an attempt open.
`EveryRequestAnswered` holds of partners that either stop or finish.

## 5 Proofs

Checked by TLAPS, for every value of the constants that satisfies the named
assumption, in particular for any number of calls, campaigns, sources, hours,
callers, tables, queries and bid requests. **Every safety property that a passing
run checks is a theorem**: invariants, action properties, and the refinement of
`BillingLedger`.

The assumptions are `BillingAssumption`, `ServingAssumption`, `RoutingAssumption`,
`TagAssumption` with `MarksAssumption` (an answer that is still to come is not a
set of candidates), `ReportingAssumption`, `BatchingAssumption`,
`PredictorAssumption` (no thread is the mark of a free lock),
`AdministrationAssumption` (each table has ids of its own, the opening rows fit
their tables and have different slots), `ExchangeAssumption`, `SignalsAssumption`
(the marks of a missing, zero, junk or empty value are no values; what is asked is
well-formed) and `InstanceAssumption` (the one `VastTag` of `MCExchange` is one
that `TagAssumption` allows). TLC evaluates each of them on the instances it
checks, so that none is empty.

| Theorem | Says | Inductive invariant |
|---|---|---|
| `EventBillingProofs!TypeCorrect` | `[](TypeOK /\ StageInv)` | types, and what the stage of a call says of its event, verdict and cost |
| `EventBillingProofs!NoDoubleCharge` | `[]SingleCharge` | `StampInv`: a call judged fresh was judged in an earlier window of its key, or in the present one, and then the key is still there; two fresh calls of one key have different windows |
| `EventBillingProofs!NoImpressionDropped` | `[]DuplicateHasOriginal` | `HeldInv`: a key that exists was set by a call that went ahead |
| `EventBillingProofs!CountersAgree` | `[]CountersMatchLedger` | `TallyInv`: each counter is the number of impressions, or of units of money, of the calls whose pipeline ran; `CountedInv`: which calls those can be |
| `EventBillingProofs!BillingImplementsLedger` | `Spec => LedgerSpec` | none beyond the types; one lemma for the steps that touch the key, one for those that touch the row |
| `AdServingProofs!TypeCorrect` | `[]TypeOK` | itself |
| `AdServingProofs!ChangesReachEveryCall` | `[]BoundedStaleness` | `FreshInv`: the cached list, and the list each call holds, were true of the rows at their recorded read or later; the cache's deadline is at most `Ttl + Lag` after its read; a running call began at most `Lag` ago |
| `SupplyRoutingProofs!TypeCorrect` | `[]TypeOK` | itself |
| `SupplyRoutingProofs!RoutesFollowTheTables` | `[]RoutesAreCurrent` | `TrueInv`: every entry is true of the tables at some moment not before its stamp less `Lag`, what a suspended lookup holds is true at some moment not before it asked, but for sources the session knows, which were true since the call began; and no row's last change lies in the future |
| `VastTagProofs!TypeCorrect` | `[]TypeOK` | `Types`, and in `Offered`: an endpoint that still owes an answer has been asked at most `Retries` times |
| `VastTagProofs!HighestBidWins` | `[]BestBidAnswered` | `Offered`: what each source returned is finite and its own; `Progressed`: what was answered is the best of it |
| `VastTagProofs!LosersHearNothing` | `[]OnlyWinnersTold` | `Progressed`: a notice is due, or sent, only for the best candidate, and only if it asked for one |
| `VastTagProofs!OneOutcomeEach` | `[]AttemptsJudgedOnce` | `JudgedInv`: the attempts of all requests are finite in number, and as many as the outcomes counted; `OneOutcome`: a step that ends an attempt adds one to one outcome, however often it counts the request |
| `VastTagProofs!CountersAreExact` | `[]CountersMatchOffers` | `Tally`: each counter is the number of finished tasks that increment it |
| `ReportingProofs!TypeCorrect` | `[]TypeOK` | itself |
| `ReportingProofs!ReportsOnlyWhatHappened` | `[]NothingInvented` | `RowsHappened`, `TotalsAccrued`, and `Reading`: what a call has read did happen |
| `ReportingProofs!RowsFallInRaces` | `RowsFallOnlyInRaces` | `HashesComplete` (a hash is all that happened, until it is gone) and `FlushOk`: a call that has read, and whose row nobody has written since, has read at least what the row says |
| `ReportingProofs!TotalsFallAtMidnight` | `TotalFallsOnlyAtMidnight` | `SyncOk`: the same of a sync and a total of the same day |
| `PredictorProofs!TypeCorrect`, `ClassesTypeCorrect` | `[]TypeOK` of `Batching`; `[]TypesOK` of all three classes | `IInv`, `SharedInv`, `CacheInv` |
| `PredictorProofs!AnswersAreOwn` | `[]OwnAnswer` | `Aligned`: ids, inputs and outputs of the batch are equally long and in step; `RightAnswers`: what is stored under an id is the prediction for what was asked under it, or the default |
| `PredictorProofs!RequestsInOnePlace` | `[]InOnePlace` | `Fifo` (the batch and then the queue, in the order of their ids, so that none is there twice), `IdsDiffer`, `Accounted`: what is queued, or not yet asked, has no result |
| `PredictorProofs!ModelLoadedOnce` | `[]LoadedOnce` | `SharedInv`: whoever loads or warms up holds the lock |
| `PredictorProofs!CurrentStaysCached` | `[]CurrentIsCached` | `CacheInv`: itself with the types; `LeastExists` says that there is a version to evict |
| `AdministrationProofs!TypeCorrect` | `[]TypeOK` | `Inv`: `Tables` (every row fits its table), `Apart` (no two calls create one row) and `CallOK`: what a call asks for, has loaded, and has flushed agree with each other at each of its stages |
| `AdministrationProofs!SlotsStayUnique` | `[]SlotsUnique` | `SlotInv`: a slot that is flushed and not committed is nobody else's, in the table or in another transaction |
| `AdministrationProofs!DepositsCount` | `DepositsAdd` | `Inv`: what a deposit writes is the balance it loaded and the amount |
| `AdministrationProofs!EditsStay` | `EditsAreKept` | `Inv`: what is flushed is exactly the columns that differ from those loaded |
| `AdministrationProofs!OwnRows` | `OwnRowsOnly` | `Inv`: a call that has passed the ownership tests has its row, or the row's campaign, under its advertiser, or the row is gone |
| `ExchangeProofs!TypesCorrect` | `[]TypesOK` of `OpenRTB`, `BidRequests` and `VastTag` side by side | `PodInv`, `Heard`, and the invariant of `VastTagProofs` for the instance |
| `ExchangeProofs!CompetitorsSeparated` | `[]SeparationKept` | `Remembered`: the accumulators know of every slot that is filled, and count a category that two share twice |
| `ExchangeProofs!PodPacked` | `[]PodIsPacked` | `Accounted`: the accumulators know of nothing else, the time left and the time taken are the break, and once a slot is empty no candidate fits |
| `ExchangeProofs!OpeningSlotFirst` | `[]FirstSlotFirst` | `Opening`: no ad in a later slot, and none that may still get one, bids more than the first slot's; a pod that is not empty has its first slot filled |
| `ExchangeProofs!PublisherComesFirst`, `SignalsStay` | `[]PublisherFirst`, `[]SignalsKept`, with the exceptions they name | `Translated`: at every stage, all that is known of a request is a function of what came in and of the world; `GeoParts`, `SentPlace`, `SentRating`, `ContextPlace` say which function a place and a rating are |

**Why strengthening is needed.** `SingleCharge` speaks of two calls that already
have a cost; a step that judges the second one can only be ruled out if one knows
that the first one's key is still in Redis unless its window has passed, which is
`StampInv`. `BoundedStaleness` speaks of calls that are done; nothing about them
follows unless the list they hold, and before that the cached list they took it
from, is known to be true at its read. In `SupplyRouting` the entry is stamped
*before* the statement runs, so truth "at the stamp" is too strong; and what the
session keeps from the tag's lookup is older than the stamp of the mappings' entry,
so truth "since the stamp" is too strong as well: "since a call's length before the
stamp" is what is preserved. `CountersMatchOffers` and `CountersMatchLedger`
speak of states where all tasks, or calls, are done; that they will have added up
needs `Tally` and `TallyInv` in the states before. `RowsFallOnlyInRaces` is an
action property of a commit, and the commit writes what was read long before: only
`FlushOk`, carried through every step in between, says that this cannot be less
than the row. `EditsAreKept` and `OwnRowsOnly` are of the same kind: the tests are
made while rows are loaded, without locks, and the commit comes later; `CallOK`
carries their outcome along. `SlotsUnique` speaks of committed rows, and two
transactions could each have seen a free slot: `SlotInv` counts what is flushed.
`SeparationKept` speaks of slots, and `Separated` looks only at accumulators;
`PodIsPacked` needs the converse too, that nothing is refused for the sake of an
ad that is not there. `FirstSlotFirst` compares bids of slots that are filled by
the bid for a second: that the first one has the highest bid is because whatever
remains eligible was eligible before.

**Choices, sorts and sums.** `Best` in `VastTag` and in `OpenRTB` is a CHOOSE,
about which nothing follows until there is such an element. `BestExists`,
`FirstExists` and `LeastExists` prove it, because strict inclusion of finite sets,
and `<` on naturals, are well-founded; `AheadIsOrder` and `CrossOrder` (fractions
compared by cross multiplication, ties by position) show that both comparisons are
orders. `InOrderOnce` and `PickedOnce` say that a sort and a list comprehension
have each element once. Sums are stated as the number of elements of a set: the
attempts at an endpoint (`Attempted`), the units of money spent (`Units`), the
seconds of a pod (`Taken`). One more attempt, call or slot is then one more piece
of a union of disjoint ones, where a fold would need induction over its terms.

**What a proof changed.** The first form of `TotalFallsOnlyAtMidnight` asked for a
*later* day, and TLC agreed. The proof did not go through: a sync that read
yesterday's hash may commit after one that read today's. The property now says
another day. In the bounded instance the case never happened. The first form of
`OwnRowsOnly` asked that every row a call commits be the advertiser's before or
after the step. A call that deletes a rule which an administrator has deleted since
the call loaded it commits to a row that is nobody's, without effect; only rows
that nothing refers to are deleted like this, and there was none among the opening
rows. There is one now, on which TLC finds the case as well, and the property lets
a row stay what it was.

**Only model-checked.** Liveness (`EveryCallEnds`, `EveryRequestAnswered`,
`EveryJobEnds`, `EveryCallReturns`, `CallsEndUnlessStuck`), which the prover does
not reach, and the three properties that do not hold (section 6).

## 6 Where the code and its words disagree

Three are runs whose counterexample TLC finds.

1. `billing_user`: an impression POSTed with a user id is stored but never counted
   and never spent. Two key builders the pipeline calls do not exist
   (`event_service.py:403`), and the exception is caught after the commands were
   queued and before they were sent.
2. `serving_budget`: the daily budget is compared with a field that only
   `set_budget` writes, and nothing calls it (`budget.py:96`).
3. `exchange_skip`: a video object without `skip` makes an internal request that
   does not validate (`openrtb_service.py:322`), although the enricher is there so
   that no request is incomplete.

Seen while modelling, and as the model has it:

*Losses the properties except.* An impression claims its key before it is stored;
when the INSERT or the COMMIT fails, its retry is a duplicate of what is not there
(`event_service.py:173`), which `DuplicateHasOriginal` lets count as an original. A
worker that dies, or a COMMIT that fails, after the MULTI leaves the counters ahead
of the rows for good (`event_service.py:411`): `CountersMatchLedger` is about calls
without failures. Campaign 0 counts some requests twice (`vast_tag.py:514`), and
`CountersMatchOffers` counts it so. `set_current` of a version that is not cached
waits for its own lock (`predictor.py:509`), which `CallsEndUnlessStuck` says in its
name. Of two deposits that overlap the later overwrites the earlier
(`demand.py:523`), as `DepositsAdd` says. The result of a caller who has given up
stays in the dictionary (`predictor.py:427`), as `InOnePlace` says. A counter that
is incremented after the last flush of its hour is never stored; `NothingInvented`
is an upper bound. Later slots of a pod lose their order to the final sort, and
bids without an impression of their own share the first one
(`openrtb_service.py`), so that `FirstSlotFirst` speaks of the opening slot only.

*Serving and counting.* Nothing ranks local candidates before they are cut to
`num_ads` (`engine.py:144`). A request without a local candidate, or with one of a
partner, counts twice in campaign 0 (`vast_tag.py:514`), and those counters are
never flushed, because the flush walks the campaigns of the database
(`analytics_service.py:700`). `spent_total` is overwritten by the hash of the day
(`analytics_service.py:787`), so that it falls after midnight. `total_requests`
is counted twice for a body that does not parse (`demand_forwarder.py:684`). The
comment "strict TOTAL timeout" (`demand_forwarder.py:488`) stands over a per-phase
timeout that is spent again by the retry.

*The exchange.* Candidates carry no domain and no category (`targeting.py:131`), so
that of the separation rules only advertiser and ad act today. "Second-price"
bids keep their own price; "for the first slot the original rank order is
preserved", but the first slot goes by the bid. Only the first impression's floor
is applied. More than ten impressions do not validate and end as a technical
error. A request over its `tmax` is not counted. The 400 for a request without
video can never be sent, because the enricher has just added one.

*What partners are told.* Region, metro, city, zip and coordinates a publisher
gives are replaced by MaxMind's wherever an address is known (an unknown one becomes
San Jose), though the comment is "use publisher data if sent" (`vast_tag.py:352`).
`gdpr`, `gdpr_consent` and `gpp` of a tag are accepted and not sent: the comment over
the regs says "COPPA + GDPR + CCPA only" (`demand_forwarder.py:1293`), and they hold
no `gdpr`. Of an exchange's regs the GDPR flag is read from the object only
(`openrtb_service.py:370`), although `gdpr_applies` (`schemas/openrtb.py:233`) also
knows the extension, and is never called. The geo of an exchange reaches the flat
fields of the internal request and no `UserContext` (`ad_service.py:118`), so that
local campaigns are not targeted by it. Content of which only the
rating is known is not sent; neither are episode 0, `ct_producer`, bit rates or
`tagid`. The enricher gives a missing `devicetype` that of a TV after it has asked
whether the device is one, and refills the address it has moved to `ipv6` into
`ip`. `_slim_payload` removes `user.customdata`, which its docstring keeps. Of the
"ALL publisher macros" of a demand tag `app_cat`, `geo_type` and others are not
known, and `content_type` answers with the category.

*The rest.* A `min_dur` of 0 raises outside the router's `try`; a supply tag's
durations are never used because the query has defaults; a publisher's floor is
not applied to local campaigns. `ModelCache.set_current` takes its own lock twice
(`predictor.py:509`).

## 7 What is abstracted

* Money is integral: thousandths of the CPM unit in billing (the cost of one
  impression is then the bid itself), hundredths in the VAST tag (so a margin in
  percent divides). Rounding to four digits is left out.
* Event types by what the service does with them; a campaign's targeting rules by
  the set of campaigns that suit a viewer (the quality filter, a predicate of the
  candidate alone, is part of it); a creative by what is shown for it.
* One creative per campaign, fewer campaigns than the limits of the retrieval
  (1000 rows, 100 candidates).
* The hash of a campaign and hour, or day, is the number of its increments: fields
  are incremented together and read in one MULTI.
* `redis-py` 5, the version `pyproject.toml:34` starts from, which does not retry by
  itself. Version 6 and later do by default. The effect a SET NX that is sent again
  would have is the mutant `DedupRetried`, under which impressions are lost.
* A Redis MULTI is atomic; a lost reply is an operation that was done and raised.
* `BidRequests`: fields that are passed on, defaulted or dropped in the same way as
  others of their object are left out; the tables of codes are external; of
  several impressions all are enriched alike and the first is read.
* `Administration`: columns that behave like a listed one are left out; so is
  `refresh`, which only reads. Whether the commit comes before or after the
  response depends on the version of FastAPI, and no property distinguishes them.
  As in the code, a removed parent is accepted, a removed row can be revived by
  an edit of its status, and a row that is deleted twice is deleted.
* `ModelPredictor`: predictions of two threads may lose counts (`ReadCount`,
  `WriteCount`); nothing relies on that number, and no property is stated.
* Prometheus metrics, logs and formats are left out.

## 8 What is not modelled

* **ML features, models, training**: floating point and tensors.
* **Tracking URLs, VAST and OpenRTB text, the publisher's tag builder**: stateless
  string work; which document is chosen is in `VastTag`, its text is not.
* **Login, health, metrics, configuration, start-up**: a stateless check of a
  signed cookie, probes, write-only counters, wiring.
* **Reports of the analytics service and the dashboards**: reads of counters and
  rows, combined into ratios. What they read is in `Reporting`.
* **`CacheRetrieval`**: never constructed.
* **The database pool as a resource**: its exhaustion appears as a statement that
  raises, not as a queue of waiters.
* **The adaptive timeout** of an endpoint: it changes how long an attempt takes,
  which no property here distinguishes.

## 9 Plan

The order in which the parts were taken, by what matters most to the system.

1. Billing: `BillingLedger`, `EventBilling`.
2. Local serving and supply routing: `AdServing`, `SupplyRouting`.
3. VAST tag and partners: `VastTag`.
4. Reporting: `Reporting`.
5. Predictor: `Batching`, `ModelPredictor`, `ModelCache`.
6. The exchange and what is told to whom: `OpenRTB`, `BidRequests`.
7. Accounts and administration: `Administration`.

All of them have proofs. What a next step could be: abstract specifications of the
kind `BillingLedger` is, of which `VastTag` (an auction: offers, then one answer,
then at most one notice) and `Batching` (each request answered by itself or by the
default) would be refinements, proved step by step.
