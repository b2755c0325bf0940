-------------------------- MODULE AdServingProofs --------------------------
(***************************************************************************)
(* Theorems about AdServing, for every set of calls, campaigns and bids,   *)
(* every cache life and every bound on the length of a call.               *)
(***************************************************************************)
EXTENDS AdServing, TLAPS

USE DEF GoTo, callVars, rowVars, vars, Offers, Lists, Purses

LEMMA EmptyListIsList == EmptyList \in Lists
<1>1. EmptyList \in [{} -> Bids]
  BY DEF EmptyList
<1>2. QED
  BY <1>1

\* Narrowing a list gives a list.
LEMMA OnlyIsList ==
    ASSUME NEW l \in Lists, NEW S \in SUBSET (DOMAIN l)
    PROVE  /\ Only(l, S) \in Lists
           /\ DOMAIN Only(l, S) = S
           /\ \A c \in S : Only(l, S)[c] = l[c]
<1>1. PICK T \in SUBSET Campaigns : l \in [T -> Bids]
  OBVIOUS
<1>2. Only(l, S) \in [S -> Bids] /\ S \in SUBSET Campaigns
  BY <1>1 DEF Only
<1>3. QED
  BY <1>2 DEF Only

LEMMA ActiveIsList ==
    ASSUME TypeOK
    PROVE  Only(offer, ActiveCampaigns) \in Lists
<1>1. Only(offer, ActiveCampaigns) \in [ActiveCampaigns -> Bids]
  BY DEF Only, ActiveCampaigns, TypeOK
<1>2. QED
  BY <1>1 DEF ActiveCampaigns

LEMMA NoPurseIsPurse == NoPurse \in Purses
BY DEF NoPurse

LEMMA InitTypes == Init => TypeOK
<1>1. Window \in Int
  BY ServingAssumption DEF Window
<1>2. QED
  BY <1>1, EmptyListIsList, NoPurseIsPurse DEF Init, TypeOK

\* What an answer does to the variables, whatever list it is.
LEMMA ReturnTypes ==
    ASSUME TypeOK, NEW d \in Calls, NEW l \in Lists, Return(d, l)
    PROVE  /\ served' \in [Calls -> Lists] /\ servedAt' \in [Calls -> Nat]
           /\ pc' \in [Calls -> {"idle", "lookup", "select", "fill", "budget", "done", "failed"}]
BY DEF Return, TypeOK

LEMMA MatchTypes ==
    ASSUME TypeOK, NEW d \in Calls, NEW l \in Lists, Match(d, l)
    PROVE  /\ list' \in [Calls -> Lists]
           /\ served' \in [Calls -> Lists] /\ servedAt' \in [Calls -> Nat]
           /\ pc' \in [Calls -> {"idle", "lookup", "select", "fill", "budget", "done", "failed"}]
<1> DEFINE fitting == Only(l, DOMAIN l \cap want[d].fits)
<1>1. fitting \in Lists
  BY OnlyIsList
<1>2. list' = [list EXCEPT ![d] = fitting]
  BY DEF Match
<1>3. CASE DOMAIN fitting = {}
  <2>1. Return(d, EmptyList)
    BY <1>3 DEF Match
  <2>2. QED
    BY <1>1, <1>2, <2>1, ReturnTypes, EmptyListIsList DEF TypeOK
<1>4. CASE DOMAIN fitting # {}
  <2>1. GoTo(d, "budget") /\ UNCHANGED <<served, servedAt>>
    BY <1>4 DEF Match
  <2>2. QED
    BY <1>1, <1>2, <2>1 DEF TypeOK
<1>5. QED
  BY <1>3, <1>4

LEMMA DecideTypes ==
    ASSUME TypeOK, NEW d \in Calls, NEW purses, Decide(d, purses)
    PROVE  /\ served' \in [Calls -> Lists] /\ servedAt' \in [Calls -> Nat]
           /\ pc' \in [Calls -> {"idle", "lookup", "select", "fill", "budget", "done", "failed"}]
<1>1. PICK S \in Chosen({c \in DOMAIN list[d] : HasBudget(purses[c])}) :
          Return(d, Only(list[d], {c \in S : list[d][c] >= want[d].floor}))
  BY DEF Decide
<1>2. S \subseteq DOMAIN list[d]
  BY <1>1 DEF Chosen, kSubset
<1>3. Only(list[d], {c \in S : list[d][c] >= want[d].floor}) \in Lists
  <2>1. list[d] \in Lists
    BY DEF TypeOK
  <2>2. {c \in S : list[d][c] >= want[d].floor} \in SUBSET (DOMAIN list[d])
    BY <1>2
  <2>3. QED
    BY <2>1, <2>2, OnlyIsList
<1>4. QED
  BY <1>1, <1>3, ReturnTypes

LEMMA StepTypes ==
    ASSUME TypeOK, [Next]_vars
    PROVE  TypeOK'
<1>1. ASSUME NEW d \in Calls, Begin(d) PROVE TypeOK'
  BY <1>1 DEF Begin, TypeOK
<1>2. ASSUME NEW d \in Calls, Hit(d) PROVE TypeOK'
  <2>1. cache.list \in Lists /\ cache.read \in Nat
    BY <1>2 DEF Hit, Cached, TypeOK
  <2>2. Match(d, cache.list)
    BY <1>2 DEF Hit
  <2>3. readAt' \in [Calls -> Nat]
    BY <1>2, <2>1 DEF Hit, TypeOK
  <2>4. UNCHANGED <<clock, rowVars, cache, purse, begun, want>>
    BY <1>2 DEF Hit
  <2>5. QED
    BY <2>1, <2>2, <2>3, <2>4, MatchTypes DEF TypeOK
<1>3. ASSUME NEW d \in Calls, Miss(d) PROVE TypeOK'
  BY <1>3 DEF Miss, TypeOK
<1>4. ASSUME NEW d \in Calls, Select(d) PROVE TypeOK'
  <2>1. list' \in [Calls -> Lists] /\ readAt' \in [Calls -> Nat]
    BY <1>4, ActiveIsList DEF Select, TypeOK
  <2>2. CASE Return(d, EmptyList)
    BY <1>4, <2>1, <2>2, ReturnTypes, EmptyListIsList DEF Select, TypeOK
  <2>3. CASE GoTo(d, "fill") /\ UNCHANGED <<served, servedAt>>
    BY <1>4, <2>1, <2>3 DEF Select, TypeOK
  <2>4. QED
    BY <1>4, <2>2, <2>3 DEF Select
<1>5. ASSUME NEW d \in Calls, Fill(d) PROVE TypeOK'
  <2>1. list[d] \in Lists /\ readAt[d] \in Nat /\ clock + Ttl \in Nat
    BY ServingAssumption DEF TypeOK
  <2>2. Match(d, list[d])
    BY <1>5 DEF Fill
  <2>3. cache' \in [list : Lists, until : Nat, read : Nat]
    BY <1>5, <2>1 DEF Fill
  <2>4. UNCHANGED <<clock, rowVars, purse, begun, want, readAt>>
    BY <1>5 DEF Fill
  <2>5. QED
    BY <2>1, <2>2, <2>3, <2>4, MatchTypes DEF TypeOK
<1>6. ASSUME NEW d \in Calls, Raise(d) PROVE TypeOK'
  BY <1>6 DEF Raise, TypeOK
<1>7. ASSUME NEW d \in Calls, CheckBudget(d) \/ AssumeBudget(d) PROVE TypeOK'
  <2>1. PICK purses : Decide(d, purses)
    BY <1>7 DEF CheckBudget, AssumeBudget
  <2>2. UNCHANGED <<clock, rowVars, cache, purse, begun, want, list, readAt>>
    BY <1>7 DEF CheckBudget, AssumeBudget
  <2>3. QED
    BY <2>1, <2>2, DecideTypes DEF TypeOK
<1>8. ASSUME NEW c \in Campaigns, NEW o \in Offers, Change(c, o) PROVE TypeOK'
  BY <1>8 DEF Change, TypeOK
<1>9. ASSUME NEW c \in Campaigns, Spend(c) PROVE TypeOK'
  BY <1>9 DEF Spend, TypeOK
<1>10. CASE NewDay
  BY <1>10, NoPurseIsPurse DEF NewDay, TypeOK
<1>11. CASE Tick
  BY <1>11 DEF Tick, TypeOK
<1>12. CASE UNCHANGED vars
  BY <1>12 DEF TypeOK
<1>13. QED
  BY <1>1, <1>2, <1>3, <1>4, <1>5, <1>6, <1>7, <1>8, <1>9, <1>10, <1>11, <1>12 DEF Next, Step

\* Every variable of serve_ads keeps its type: what is cached, held and answered is
\* always a list of campaigns with a bid each, never one that is not on offer.
THEOREM TypeCorrect == Spec => []TypeOK
<1>1. TypeOK /\ [Next]_vars => TypeOK'
  BY StepTypes
<1>2. QED
  BY InitTypes, <1>1, PTL DEF Spec

-----------------------------------------------------------------------------
(* Staleness. A list is true since t when what it says of each campaign was  *)
(* so at t or later; nothing but the passing of time can age it.             *)

TrueSince(l, S, t) == \A c \in S : LastOn(c, Says(l, c)) >= t

SeenInv == \A x \in Campaigns \X Offers : lastSeen[x] <= clock

\* The list in Redis.
CacheFresh ==
    cache # NoList =>
        /\ cache.until <= cache.read + Ttl + Lag
        /\ TrueSince(cache.list, Campaigns, cache.read)

\* What a call answers from.
Ready(d) ==
    /\ begun[d] < readAt[d] + Ttl + Lag
    /\ TrueSince(list[d], want[d].fits, readAt[d])

\* A running call is young, and so is what it holds.
CallFresh(d) ==
    /\ Running(d) => begun[d] <= clock /\ clock <= begun[d] + Lag
    /\ pc[d] = "fill" => begun[d] <= readAt[d] /\ TrueSince(list[d], Campaigns, readAt[d])
    /\ pc[d] = "budget" => Ready(d)

\* What it answered is true enough: BoundedStaleness, of one call.
Within(d) ==
    pc[d] = "done" =>
        \A c \in want[d].fits : servedAt[d] < LastOn(c, Says(list[d], c)) + Window

FreshInv ==
    /\ SeenInv
    /\ CacheFresh
    /\ \A d \in Calls : CallFresh(d) /\ Within(d)

LEMMA SaysOffer ==
    ASSUME NEW l \in Lists, NEW c \in Campaigns
    PROVE  Says(l, c) \in Offers
BY DEF Says

\* Only Change touches a campaign, only Tick the clock.
LEMMA WhoMovesRows ==
    ASSUME [Next]_vars
    PROVE  \/ UNCHANGED rowVars /\ (clock' = clock \/ Tick)
           \/ \E c \in Campaigns, o \in Offers : Change(c, o)
<1>1. ASSUME NEW d \in Calls, Begin(d) \/ Step(d) PROVE UNCHANGED <<clock, rowVars>>
  <2>1. CASE Begin(d) \/ Hit(d) \/ Miss(d) \/ Select(d)
    BY <2>1 DEF Begin, Hit, Miss, Select
  <2>2. CASE Fill(d) \/ Raise(d) \/ CheckBudget(d) \/ AssumeBudget(d)
    BY <2>2 DEF Fill, Raise, CheckBudget, AssumeBudget
  <2>3. QED
    BY <1>1, <2>1, <2>2 DEF Step
<1>2. ASSUME NEW c \in Campaigns, Spend(c) PROVE UNCHANGED <<clock, rowVars>>
  BY <1>2 DEF Spend
<1>3. CASE NewDay
  BY <1>3 DEF NewDay
<1>4. CASE Tick
  BY <1>4 DEF Tick
<1>5. CASE UNCHANGED vars
  BY <1>5
<1>6. QED
  BY <1>1, <1>2, <1>3, <1>4, <1>5 DEF Next

LEMMA LastOnGrows ==
    ASSUME TypeOK, SeenInv, [Next]_vars, NEW c \in Campaigns, NEW o \in Offers
    PROVE  /\ LastOn(c, o) \in Int
           /\ LastOn(c, o)' \in Int
           /\ LastOn(c, o) <= LastOn(c, o)'
<1>1. TypeOK'
  BY StepTypes
<1>2. LastOn(c, o) \in Int /\ LastOn(c, o)' \in Int
  BY <1>1 DEF LastOn, TypeOK
<1>3. CASE UNCHANGED rowVars /\ (clock' = clock \/ Tick)
  <2>1. clock <= clock'
    BY <1>3 DEF Tick, TypeOK
  <2>2. QED
    BY <1>3, <2>1, <1>2 DEF LastOn
<1>4. ASSUME NEW e \in Campaigns, NEW n \in Offers, Change(e, n)
      PROVE  LastOn(c, o) <= LastOn(c, o)'
  <2>1. lastSeen[<<c, o>>] <= clock
    BY DEF SeenInv
  <2>2. QED
    BY <1>4, <2>1 DEF Change, LastOn, TypeOK
<1>5. QED
  BY <1>2, <1>3, <1>4, WhoMovesRows

\* A list stays true of the time it was true of.
LEMMA StaysTrue ==
    ASSUME TypeOK, SeenInv, [Next]_vars,
           NEW l \in Lists, NEW S \in SUBSET Campaigns, NEW t \in Int, TrueSince(l, S, t)
    PROVE  TrueSince(l, S, t)'
<1>1. ASSUME NEW c \in S PROVE (LastOn(c, Says(l, c)) >= t)'
  <2>1. Says(l, c) \in Offers
    BY SaysOffer
  <2>2. LastOn(c, Says(l, c)) >= t
    BY DEF TrueSince
  <2>3. PICK o \in Offers : o = Says(l, c)
    BY <2>1
  <2>4. LastOn(c, o)' >= LastOn(c, o) /\ LastOn(c, o) \in Int /\ LastOn(c, o)' \in Int
    BY <2>3, LastOnGrows
  <2>5. LastOn(c, o)' >= t
    BY <2>2, <2>3, <2>4
  <2>6. QED
    BY <2>3, <2>5 DEF Says
<1>2. QED
  BY <1>1 DEF TrueSince

\* What suits the viewer keeps what the whole list says of it.
LEMMA MatchSays ==
    ASSUME TypeOK, NEW d \in Calls, NEW l \in Lists, Match(d, l),
           NEW c \in want[d].fits
    PROVE  Says(list'[d], c) = Says(l, c)
<1>1. list'[d] = Only(l, DOMAIN l \cap want[d].fits)
  BY DEF Match, TypeOK
<1>2. QED
  BY <1>1, OnlyIsList DEF Says

LEMMA InitFresh == Init => FreshInv
<1>1. -Window <= 0
  BY ServingAssumption DEF Window
<1>2. QED
  BY <1>1 DEF Init, FreshInv, SeenInv, CacheFresh, CallFresh, Within, Running

LEMMA StepSeen ==
    ASSUME TypeOK, SeenInv, [Next]_vars
    PROVE  SeenInv'
<1>1. CASE UNCHANGED rowVars /\ (clock' = clock \/ Tick)
  BY <1>1 DEF Tick, TypeOK, SeenInv
<1>2. ASSUME NEW c \in Campaigns, NEW o \in Offers, Change(c, o) PROVE SeenInv'
  BY <1>2 DEF Change, TypeOK, SeenInv
<1>3. QED
  BY <1>1, <1>2, WhoMovesRows

\* The list in Redis is replaced by Fill alone, with what the call read.
LEMMA StepCache ==
    ASSUME TypeOK, FreshInv, [Next]_vars
    PROVE  CacheFresh'
<1>1. ASSUME NEW d \in Calls, Fill(d) PROVE CacheFresh'
  <2>1. PICK l \in Lists, t \in Int : l = list[d] /\ t = readAt[d]
    BY DEF TypeOK
  <2>2. cache'.list = l /\ cache'.read = t /\ cache'.until = clock + Ttl
    BY <1>1, <2>1 DEF Fill
  <2>3. clock <= begun[d] + Lag /\ begun[d] <= t /\ TrueSince(l, Campaigns, t)
    BY <1>1, <2>1 DEF Fill, FreshInv, CallFresh, Running
  <2>4. TrueSince(l, Campaigns, t)'
    BY <2>3, StaysTrue DEF FreshInv
  <2>5. TrueSince(cache.list, Campaigns, cache.read)'
    BY <2>2, <2>4 DEF TrueSince
  <2>6. QED
    BY <2>2, <2>3, <2>5, ServingAssumption DEF TypeOK, CacheFresh
<1>2. CASE UNCHANGED cache
  <2>1. CASE cache = NoList
    BY <1>2, <2>1 DEF CacheFresh
  <2>2. CASE cache # NoList
    <3>0. cache.list \in Lists /\ cache.read \in Int
      BY <2>2 DEF TypeOK
    <3>1. PICK l \in Lists, t \in Int : l = cache.list /\ t = cache.read
      BY <3>0
    <3>2. TrueSince(l, Campaigns, t)
      BY <2>2, <3>1 DEF FreshInv, CacheFresh
    <3>3. TrueSince(l, Campaigns, t)'
      BY <3>2, StaysTrue DEF FreshInv
    <3>4. TrueSince(cache.list, Campaigns, cache.read)'
      BY <1>2, <3>1, <3>3 DEF TrueSince
    <3>5. QED
      BY <1>2, <2>2, <3>4 DEF FreshInv, CacheFresh
  <2>3. QED
    BY <2>1, <2>2
<1>3. ASSUME NEW d \in Calls, Begin(d) \/ Step(d), ~Fill(d) PROVE UNCHANGED cache
  BY <1>3 DEF Begin, Step, Hit, Miss, Select, Raise, CheckBudget, AssumeBudget
<1>4. ASSUME NEW c \in Campaigns, NEW o \in Offers, Change(c, o) PROVE UNCHANGED cache
  BY <1>4 DEF Change
<1>5. ASSUME NEW c \in Campaigns, Spend(c) PROVE UNCHANGED cache
  BY <1>5 DEF Spend
<1>6. CASE NewDay \/ Tick \/ UNCHANGED vars
  BY <1>2, <1>6 DEF NewDay, Tick
<1>7. QED
  BY <1>1, <1>2, <1>3, <1>4, <1>5, <1>6 DEF Next

-----------------------------------------------------------------------------
(* A call, step by step. The database does not move while a call takes one.  *)

\* An answer from a ready call is within the window.
LEMMA ReadyAnswers ==
    ASSUME TypeOK', NEW d \in Calls, Ready(d)', clock' <= begun'[d] + Lag,
           servedAt'[d] = clock'
    PROVE  Within(d)'
<1>1. ASSUME NEW c \in want'[d].fits, NEW o \in Offers, o = Says(list'[d], c)
      PROVE  servedAt'[d] < LastOn(c, o)' + Window
  <2>1. c \in Campaigns /\ begun'[d] \in Nat /\ readAt'[d] \in Nat /\ clock' \in Nat
    BY DEF TypeOK
  <2>2. LastOn(c, o)' \in Int
    BY <2>1 DEF LastOn, TypeOK
  <2>3. LastOn(c, o)' >= readAt'[d]
    BY <1>1 DEF Ready, TrueSince, Says, LastOn
  <2>4. begun'[d] < readAt'[d] + Ttl + Lag
    BY DEF Ready
  <2>5. QED
    BY <2>1, <2>2, <2>3, <2>4, ServingAssumption DEF Window
<1>2. ASSUME NEW c \in want'[d].fits PROVE Says(list'[d], c) \in Offers
  BY <1>2, SaysOffer DEF TypeOK
<1>3. QED
  BY <1>1, <1>2 DEF Within, Says, LastOn

\* Matching a list that is true since t leaves a call ready, or answered.
LEMMA MatchFresh ==
    ASSUME TypeOK, TypeOK', NEW d \in Calls, NEW l \in Lists, NEW t \in Nat,
           Match(d, l), UNCHANGED <<clock, rowVars, begun, want>>,
           readAt'[d] = t, TrueSince(l, Campaigns, t),
           begun[d] <= clock, clock <= begun[d] + Lag, begun[d] < t + Ttl + Lag
    PROVE  CallFresh(d)' /\ Within(d)'
<1>1. TrueSince(list[d], want[d].fits, readAt[d])'
  <2>1. ASSUME NEW c \in want[d].fits
        PROVE  Says(list'[d], c) = Says(l, c) /\ LastOn(c, Says(l, c)) >= t
    BY <2>1, MatchSays DEF TrueSince, TypeOK
  <2>2. QED
    BY <2>1 DEF TrueSince, LastOn, Says
<1>2. Ready(d)'
  BY <1>1 DEF Ready
<1>3. CASE pc'[d] = "done" /\ servedAt'[d] = clock
  BY <1>2, <1>3, ReadyAnswers DEF CallFresh, Running
<1>4. CASE pc'[d] = "budget"
  BY <1>2, <1>4 DEF CallFresh, Running, Within
<1>5. QED
  BY <1>3, <1>4 DEF Match, Return, TypeOK

\* A step that leaves the call where it is, with time for it to go on.
LEMMA FrameCall ==
    ASSUME TypeOK, SeenInv, [Next]_vars, NEW d \in Calls, CallFresh(d), Within(d),
           clock <= clock', Running(d) => clock' <= begun[d] + Lag,
           pc'[d] = pc[d], begun'[d] = begun[d], want'[d] = want[d],
           list'[d] = list[d], readAt'[d] = readAt[d], servedAt'[d] = servedAt[d]
    PROVE  CallFresh(d)' /\ Within(d)'
<1>0. TypeOK'
  BY StepTypes
<1>1. ASSUME NEW S \in SUBSET Campaigns, TrueSince(list[d], S, readAt[d])
      PROVE  TrueSince(list[d], S, readAt[d])'
  <2>1. PICK l \in Lists, t \in Int : l = list[d] /\ t = readAt[d]
    BY DEF TypeOK
  <2>2. TrueSince(l, S, t)'
    BY <1>1, <2>1, StaysTrue
  <2>3. QED
    BY <2>1, <2>2 DEF TrueSince
<1>2. Running(d)' => (begun[d] <= clock /\ clock <= begun[d] + Lag)'
  BY <1>0 DEF CallFresh, Running, TypeOK
<1>3. ASSUME pc'[d] = "fill"
      PROVE  (begun[d] <= readAt[d] /\ TrueSince(list[d], Campaigns, readAt[d]))'
  BY <1>1, <1>3 DEF CallFresh
<1>4. ASSUME pc'[d] = "budget" PROVE Ready(d)'
  <2>1. want[d].fits \in SUBSET Campaigns
    BY DEF TypeOK
  <2>2. Ready(d)
    BY <1>4 DEF CallFresh
  <2>3. TrueSince(list[d], want[d].fits, readAt[d])'
    BY <2>1, <2>2, <1>1 DEF Ready, TrueSince
  <2>4. QED
    BY <2>2, <2>3 DEF Ready
<1>5. Within(d)'
  <2>1. ASSUME pc'[d] = "done", NEW c \in want[d].fits, NEW o \in Offers, o = Says(list[d], c)
        PROVE  servedAt[d] < LastOn(c, o)' + Window
    <3>1. servedAt[d] < LastOn(c, o) + Window
      BY <2>1 DEF Within
    <3>2. c \in Campaigns /\ servedAt[d] \in Nat /\ Window \in Int
      BY ServingAssumption DEF TypeOK, Window
    <3>3. QED
      BY <3>1, <3>2, LastOnGrows
  <2>2. ASSUME NEW c \in want[d].fits PROVE Says(list[d], c) \in Offers
    BY <2>2, SaysOffer DEF TypeOK
  <2>3. QED
    BY <2>1, <2>2 DEF Within, Says, LastOn
<1>6. QED
  BY <1>2, <1>3, <1>4, <1>5 DEF CallFresh

\* The call that takes the step.
LEMMA OwnStep ==
    ASSUME TypeOK, FreshInv, [Next]_vars, NEW d \in Calls, Begin(d) \/ Step(d)
    PROVE  CallFresh(d)' /\ Within(d)'
<1>0. TypeOK' /\ clock \in Nat /\ CallFresh(d)
  BY StepTypes DEF TypeOK, FreshInv
<1>1. CASE Begin(d)
  BY <1>0, <1>1, ServingAssumption DEF Begin, CallFresh, Within, Running, TypeOK
<1>2. CASE Hit(d)
  <2>1. cache # NoList /\ cache.list \in Lists /\ cache.read \in Nat /\ clock < cache.until
    BY <1>2 DEF Hit, Cached, TypeOK
  <2>2. TrueSince(cache.list, Campaigns, cache.read) /\ cache.until <= cache.read + Ttl + Lag
    BY <2>1 DEF FreshInv, CacheFresh
  <2>3. begun[d] <= clock /\ clock <= begun[d] + Lag
    BY <1>0, <1>2 DEF Hit, CallFresh, Running
  <2>4. begun[d] < cache.read + Ttl + Lag
    <3>1. begun[d] \in Nat /\ cache.until \in Nat
      BY <2>1 DEF TypeOK
    <3>2. QED
      BY <1>0, <2>1, <2>2, <2>3, <3>1, ServingAssumption
  <2>5. /\ Match(d, cache.list) /\ readAt'[d] = cache.read
        /\ UNCHANGED <<clock, rowVars, begun, want>>
    BY <1>2 DEF Hit, TypeOK
  <2>6. QED
    BY <1>0, <2>1, <2>2, <2>3, <2>4, <2>5, MatchFresh
<1>3. CASE Miss(d)
  BY <1>0, <1>3 DEF Miss, CallFresh, Within, Running, TypeOK
<1>4. CASE Select(d)
  <2>1. begun[d] <= clock /\ clock <= begun[d] + Lag
    BY <1>0, <1>4 DEF Select, CallFresh, Running
  <2>2. /\ list'[d] = Only(offer, ActiveCampaigns) /\ readAt'[d] = clock
        /\ UNCHANGED <<clock, rowVars, begun, want>>
    BY <1>4 DEF Select, TypeOK
  <2>3. ASSUME NEW c \in Campaigns PROVE offer[c] = Says(list'[d], c)
    BY <2>2 DEF Says, Only, ActiveCampaigns
  <2>4. ASSUME NEW S \in SUBSET Campaigns PROVE TrueSince(list[d], S, readAt[d])'
    BY <1>0, <2>2, <2>3 DEF TrueSince, LastOn, Says
  <2>5. CASE Return(d, EmptyList)
    <3>1. Ready(d)' /\ pc'[d] = "done" /\ servedAt'[d] = clock'
      <4>1. begun'[d] < readAt'[d] + Ttl + Lag
        BY <1>0, <2>1, <2>2, ServingAssumption DEF TypeOK
      <4>2. want'[d].fits \in SUBSET Campaigns
        BY <1>0 DEF TypeOK
      <4>3. TrueSince(list[d], want[d].fits, readAt[d])'
        BY <2>2, <2>4, <4>2 DEF TrueSince
      <4>4. QED
        BY <2>2, <2>5, <4>1, <4>3 DEF Ready, Return, TypeOK
    <3>2. QED
      BY <1>0, <2>1, <2>2, <3>1, ReadyAnswers DEF CallFresh, Running
  <2>6. CASE GoTo(d, "fill")
    BY <1>0, <2>1, <2>2, <2>4, <2>6 DEF CallFresh, Within, Running, TypeOK
  <2>7. QED
    BY <1>4, <2>5, <2>6 DEF Select
<1>5. CASE Fill(d)
  <2>1. list[d] \in Lists /\ readAt[d] \in Nat /\ begun[d] \in Nat
    BY DEF TypeOK
  <2>2. /\ begun[d] <= clock /\ clock <= begun[d] + Lag
        /\ begun[d] <= readAt[d] /\ TrueSince(list[d], Campaigns, readAt[d])
    BY <1>0, <1>5 DEF Fill, CallFresh, Running
  <2>3. begun[d] < readAt[d] + Ttl + Lag
    BY <2>1, <2>2, ServingAssumption
  <2>4. /\ Match(d, list[d]) /\ readAt'[d] = readAt[d]
        /\ UNCHANGED <<clock, rowVars, begun, want>>
    BY <1>5 DEF Fill
  <2>5. QED
    BY <1>0, <2>1, <2>2, <2>3, <2>4, MatchFresh
<1>6. CASE Raise(d)
  BY <1>0, <1>6 DEF Raise, CallFresh, Within, Running, TypeOK
<1>7. CASE CheckBudget(d) \/ AssumeBudget(d)
  <2>1. /\ clock <= begun[d] + Lag /\ Ready(d)
    BY <1>0, <1>7 DEF CheckBudget, AssumeBudget, CallFresh, Running
  <2>2. /\ UNCHANGED <<clock, rowVars, cache, purse, begun, want, list, readAt>>
        /\ pc'[d] = "done" /\ servedAt'[d] = clock
    BY <1>7 DEF CheckBudget, AssumeBudget, Decide, Return, TypeOK
  <2>3. Ready(d)'
    BY <2>1, <2>2 DEF Ready, TrueSince, LastOn, Says
  <2>4. QED
    BY <1>0, <2>1, <2>2, <2>3, ReadyAnswers DEF CallFresh, Running
<1>8. QED
  BY <1>1, <1>2, <1>3, <1>4, <1>5, <1>6, <1>7 DEF Step

\* Every call, whoever takes the step.
LEMMA StepCall ==
    ASSUME TypeOK, FreshInv, [Next]_vars, NEW d \in Calls
    PROVE  CallFresh(d)' /\ Within(d)'
<1>0. /\ SeenInv /\ CallFresh(d) /\ Within(d) /\ clock \in Nat
      /\ Running(d) => clock <= begun[d] + Lag
  BY DEF FreshInv, CallFresh, TypeOK
<1> DEFINE Stays == /\ pc'[d] = pc[d] /\ begun'[d] = begun[d] /\ want'[d] = want[d]
                    /\ list'[d] = list[d] /\ readAt'[d] = readAt[d]
                    /\ servedAt'[d] = servedAt[d]
<1>1. ASSUME Stays, clock' = clock PROVE CallFresh(d)' /\ Within(d)'
  BY <1>0, <1>1, FrameCall
<1>2. CASE Begin(d) \/ Step(d)
  BY <1>2, OwnStep
<1>3. ASSUME NEW e \in Calls, e # d, Begin(e) \/ Step(e) PROVE Stays /\ clock' = clock
  <2>1. CASE Begin(e) \/ Miss(e) \/ Raise(e)
    BY <1>3, <2>1 DEF Begin, Miss, Raise, TypeOK
  <2>2. CASE Hit(e) \/ Fill(e)
    BY <1>3, <2>2 DEF Hit, Fill, Match, Return, TypeOK
  <2>3. CASE Select(e)
    BY <1>3, <2>3 DEF Select, Return, TypeOK
  <2>4. CASE CheckBudget(e) \/ AssumeBudget(e)
    BY <1>3, <2>4 DEF CheckBudget, AssumeBudget, Decide, Return, TypeOK
  <2>5. QED
    BY <1>3, <2>1, <2>2, <2>3, <2>4 DEF Step
<1>4. ASSUME NEW c \in Campaigns, NEW o \in Offers, Change(c, o) PROVE Stays /\ clock' = clock
  BY <1>4 DEF Change
<1>5. ASSUME NEW c \in Campaigns, Spend(c) PROVE Stays /\ clock' = clock
  BY <1>5 DEF Spend
<1>6. CASE NewDay \/ UNCHANGED vars
  BY <1>1, <1>6 DEF NewDay
<1>7. CASE Tick
  <2>1. Stays /\ clock <= clock'
    BY <1>0, <1>7 DEF Tick
  <2>2. Running(d) => clock' <= begun[d] + Lag
    BY <1>0, <1>7, ServingAssumption DEF Tick, TypeOK
  <2>3. QED
    BY <1>0, <2>1, <2>2, FrameCall
<1>8. QED
  BY <1>1, <1>2, <1>3, <1>4, <1>5, <1>6, <1>7 DEF Next

\* A pause, a new bid and a new campaign reach every call, in any worker, within the
\* life of the cached list and that of two calls: no interleaving of misses, fills
\* and edits keeps an older list alive.
THEOREM ChangesReachEveryCall == Spec => []BoundedStaleness
<1>1. Init => TypeOK /\ FreshInv
  BY InitTypes, InitFresh
<1>2. TypeOK /\ FreshInv /\ [Next]_vars => (TypeOK /\ FreshInv)'
  BY StepTypes, StepSeen, StepCache, StepCall DEF FreshInv
<1>3. FreshInv => BoundedStaleness
  BY DEF FreshInv, Within, BoundedStaleness
<1>4. QED
  BY <1>1, <1>2, <1>3, PTL DEF Spec
=============================================================================
