----------------------------- MODULE AdServing -----------------------------
(***************************************************************************)
(* AdService.serve_ads: which local campaigns are served, and at what bid. *)
(*                                                                         *)
(* A call looks the active campaigns up in Redis (ads:active), or reads    *)
(* them from PostgreSQL and caches the list for Ttl; it keeps those that   *)
(* suit the viewer, drops those whose budget hash says they are spent,     *)
(* takes num_ads of them and applies the bid floor.  Advertisers pause     *)
(* campaigns and change bids at any moment, and nobody clears the list.    *)
(*                                                                         *)
(* Time is a counter.  Lag bounds how long one call may run; a call that   *)
(* raises on its way is over.                                              *)
(***************************************************************************)
EXTENDS Integers, FiniteSets, FiniteSetsExt

CONSTANTS Calls,          \* serve_ads coroutines, in any worker
          Campaigns,      \* local campaigns with an active creative
          Bids,           \* values of Campaign.bid_amount
          Off,            \* what a campaign offers while it is not active
          NoList,         \* ads:active holds nothing
          Ttl,            \* TargetingRetrieval._cache_ttl
          Lag,            \* the longest a call runs
          NumAds,         \* AdRequest.num_ads
          Floors,         \* AdRequest.bid_floor, 0 = none
          DailyBudget,    \* Campaign.budget_daily, per campaign
          MaxSpend,       \* BOUND: what one day can spend on a campaign
          MaxClock        \* BOUND: the horizon

ASSUME ServingAssumption ==
    /\ Bids \subseteq Nat
    /\ Off \notin Bids
    /\ Ttl \in Nat \ {0}
    /\ Lag \in Nat
    /\ NumAds \in Nat
    /\ Floors \subseteq Nat
    /\ DailyBudget \in [Campaigns -> Nat]
    /\ MaxSpend \in Nat /\ MaxClock \in Nat

Offers == Bids \cup {Off}

\* How long a change may go unnoticed.
Window == Ttl + 2 * Lag

\* A list of active campaigns, each with the bid it was read with.
Lists == UNION {[S -> Bids] : S \in SUBSET Campaigns}

\* budget:{campaign}:{today}. A limit of 0 is a field that is not there.
Purses == [daily : Nat, total : Nat, today : Nat, ever : Nat]
NoPurse == [daily |-> 0, total |-> 0, today |-> 0, ever |-> 0]

VARIABLES
    clock,
    offer,     \* the campaign row: its bid while is_active, else Off
    lastSeen,  \* HISTORY: when each <<campaign, offer>> last gave way to another
    cache,     \* ads:active: the list, when Redis drops it, HISTORY: when it was read
    purse,     \* the budget hashes of today
    pc,        \* where a call is suspended
    begun,     \* HISTORY: when it began
    want,      \* what it asks for: the campaigns that suit the viewer, and the floor
    list,      \* the candidates it holds
    readAt,    \* HISTORY: when they were read from the database
    served,    \* what it returned
    servedAt   \* HISTORY: when

callVars == <<pc, begun, want, list, readAt, served, servedAt>>
rowVars  == <<offer, lastSeen>>
vars     == <<clock, rowVars, cache, purse, callVars>>

Running(d) == pc[d] \in {"lookup", "select", "fill", "budget"}

TypeOK ==
    /\ clock \in Nat
    /\ offer \in [Campaigns -> Offers]
    /\ lastSeen \in [Campaigns \X Offers -> Int]
    /\ cache = NoList \/ cache \in [list : Lists, until : Nat, read : Nat]
    /\ purse \in [Campaigns -> Purses]
    /\ pc \in [Calls -> {"idle", "lookup", "select", "fill", "budget", "done", "failed"}]
    /\ begun \in [Calls -> Nat]
    /\ want \in [Calls -> [fits : SUBSET Campaigns, floor : Floors]]
    /\ list \in [Calls -> Lists]
    /\ readAt \in [Calls -> Nat]
    /\ served \in [Calls -> Lists]
    /\ servedAt \in [Calls -> Nat]

EmptyList == [c \in {} |-> Off]

Init ==
    /\ clock = 0
    /\ offer \in [Campaigns -> Offers]
    /\ lastSeen = [x \in Campaigns \X Offers |-> -Window]
    /\ cache = NoList
    /\ purse = [c \in Campaigns |-> NoPurse]
    /\ pc = [d \in Calls |-> "idle"]
    /\ begun = [d \in Calls |-> 0]
    /\ want \in [Calls -> [fits : SUBSET Campaigns, floor : Floors]]
    /\ list = [d \in Calls |-> EmptyList]
    /\ readAt = [d \in Calls |-> 0]
    /\ served = [d \in Calls |-> EmptyList]
    /\ servedAt = [d \in Calls |-> 0]

GoTo(d, s) == pc' = [pc EXCEPT ![d] = s]

Only(l, S) == [c \in S |-> l[c]]

-----------------------------------------------------------------------------
(* retrieve: the cached list, or the rows.                                   *)

Begin(d) ==
    /\ pc[d] = "idle"
    /\ GoTo(d, "lookup")
    /\ begun' = [begun EXCEPT ![d] = clock]
    /\ UNCHANGED <<clock, rowVars, cache, purse, want, list, readAt, served, servedAt>>

Return(d, l) ==
    /\ served' = [served EXCEPT ![d] = l]
    /\ servedAt' = [servedAt EXCEPT ![d] = clock]
    /\ GoTo(d, "done")

\* Candidates are the campaigns whose environment and targeting rules match; the
\* engine returns at once if there are none.
Match(d, l) ==
    LET fitting == Only(l, DOMAIN l \cap want[d].fits)
    IN /\ list' = [list EXCEPT ![d] = fitting]
       /\ IF DOMAIN fitting = {}
          THEN Return(d, EmptyList)
          ELSE GoTo(d, "budget") /\ UNCHANGED <<served, servedAt>>

Cached == cache # NoList /\ clock < cache.until

Hit(d) ==
    /\ pc[d] = "lookup"
    /\ Cached
    /\ readAt' = [readAt EXCEPT ![d] = cache.read]
    /\ Match(d, cache.list)
    /\ UNCHANGED <<clock, rowVars, cache, purse, begun, want>>

Miss(d) ==
    /\ pc[d] = "lookup"
    /\ ~Cached
    /\ GoTo(d, "select")
    /\ UNCHANGED <<clock, rowVars, cache, purse, begun, want, list, readAt, served,
                   servedAt>>

ActiveCampaigns == {c \in Campaigns : offer[c] # Off}

\* Mutant: is_active is not looked at.
SelectUnfiltered(d) ==
    /\ pc[d] = "select"
    /\ list' = [list EXCEPT ![d] = Only(offer, Campaigns)]
    /\ readAt' = [readAt EXCEPT ![d] = clock]
    /\ GoTo(d, "fill")
    /\ UNCHANGED <<clock, rowVars, cache, purse, begun, want, served, servedAt>>

\* The SELECT; an empty list is not worth caching.
Select(d) ==
    /\ pc[d] = "select"
    /\ list' = [list EXCEPT ![d] = Only(offer, ActiveCampaigns)]
    /\ readAt' = [readAt EXCEPT ![d] = clock]
    /\ IF ActiveCampaigns = {}
       THEN Return(d, EmptyList)
       ELSE GoTo(d, "fill") /\ UNCHANGED <<served, servedAt>>
    /\ UNCHANGED <<clock, rowVars, cache, purse, begun, want>>

\* Mutant: what is cached is what suited this viewer.
FillMatching(d) ==
    /\ pc[d] = "fill"
    /\ cache' = [list |-> Only(list[d], DOMAIN list[d] \cap want[d].fits),
                 until |-> clock + Ttl, read |-> readAt[d]]
    /\ Match(d, list[d])
    /\ UNCHANGED <<clock, rowVars, purse, begun, want, readAt>>

\* SET with a TTL, counted from this write and not from the read.
Fill(d) ==
    /\ pc[d] = "fill"
    /\ cache' = [list |-> list[d], until |-> clock + Ttl, read |-> readAt[d]]
    /\ Match(d, list[d])
    /\ UNCHANGED <<clock, rowVars, purse, begun, want, readAt>>

\* Redis or PostgreSQL raises: nothing on this path catches it, so the call is
\* over, even if only the cache could not be written.
Raise(d) ==
    /\ pc[d] \in {"lookup", "select", "fill"}
    /\ GoTo(d, "failed")
    /\ UNCHANGED <<clock, rowVars, cache, purse, begun, want, list, readAt, served,
                   servedAt>>

-----------------------------------------------------------------------------
(* The budget filter, num_ads, and the floor that is applied last.           *)

HasBudget(p) ==
    /\ ~(p.daily # 0 /\ p.today >= p.daily)
    /\ ~(p.total # 0 /\ p.ever >= p.total)

\* num_ads of the candidates, in the order of the list, which is the order the
\* SELECT without ORDER BY gave: any num_ads of them.
Chosen(S) == kSubset(Min({NumAds, Cardinality(S)}), S)

Decide(d, purses) ==
    \E S \in Chosen({c \in DOMAIN list[d] : HasBudget(purses[c])}) :
        Return(d, Only(list[d], {c \in S : list[d][c] >= want[d].floor}))

CheckBudget(d) ==
    /\ pc[d] = "budget"
    /\ Decide(d, purse)
    /\ UNCHANGED <<clock, rowVars, cache, purse, begun, want, list, readAt>>

\* Redis raised: everyone is taken to have budget.
AssumeBudget(d) ==
    /\ pc[d] = "budget"
    /\ Decide(d, [c \in Campaigns |-> NoPurse])
    /\ UNCHANGED <<clock, rowVars, cache, purse, begun, want, list, readAt>>

-----------------------------------------------------------------------------
(* Around the calls: advertisers, impressions (EventBilling's pipeline), and *)
(* the clock.                                                                *)

\* A status change, a bid update, a start or an end date reached.
Change(c, o) ==
    /\ offer[c] # o
    /\ offer' = [offer EXCEPT ![c] = o]
    /\ lastSeen' = [lastSeen EXCEPT ![<<c, offer[c]>>] = clock]
    /\ UNCHANGED <<clock, cache, purse, callVars>>

\* An impression is charged to the hash of the day: the spend fields only.
Spend(c) ==
    /\ purse[c].today < MaxSpend
    /\ purse' = [purse EXCEPT ![c].today = @ + 1, ![c].ever = @ + 1]
    /\ UNCHANGED <<clock, rowVars, cache, callVars>>

\* The key has the date in it: tomorrow's hashes do not exist yet.
NewDay ==
    /\ purse # [c \in Campaigns |-> NoPurse]
    /\ purse' = [c \in Campaigns |-> NoPurse]
    /\ UNCHANGED <<clock, rowVars, cache, callVars>>

Tick ==
    /\ clock < MaxClock
    /\ \A d \in Calls : Running(d) => clock < begun[d] + Lag
    /\ clock' = clock + 1
    /\ UNCHANGED <<rowVars, cache, purse, callVars>>

-----------------------------------------------------------------------------

Step(d) ==
    \/ Hit(d) \/ Miss(d) \/ Select(d) \/ Fill(d) \/ Raise(d)
    \/ CheckBudget(d) \/ AssumeBudget(d)

Next ==
    \/ \E d \in Calls : Begin(d) \/ Step(d)
    \/ \E c \in Campaigns, o \in Offers : Change(c, o)
    \/ \E c \in Campaigns : Spend(c)
    \/ NewDay
    \/ Tick

Spec == Init /\ [][Next]_vars

-----------------------------------------------------------------------------
(* Properties.                                                               *)

\* What a list says of a campaign: its bid, or that it is not active.
Says(l, c) == IF c \in DOMAIN l THEN l[c] ELSE Off

\* When that was last so, as far as it is known now.
LastOn(c, o) == IF offer[c] = o THEN clock ELSE lastSeen[<<c, o>>]

\* Whatever a call decides on was true a bounded time before it answers, for every
\* campaign that suits the viewer: a paused campaign, a lowered bid and a campaign
\* just started reach every worker within the life of the cached list and that of
\* two calls, the one that read it and the one that answers from it.
BoundedStaleness ==
    \A d \in Calls : pc[d] = "done" =>
        \A c \in want[d].fits : servedAt[d] < LastOn(c, Says(list[d], c)) + Window

\* A campaign that has spent its daily budget is not served.
DailyBudgetKept ==
    [][\A d \in Calls : \A c \in DOMAIN served'[d] \ DOMAIN served[d] :
           purse[c].today < DailyBudget[c]]_vars
=============================================================================
