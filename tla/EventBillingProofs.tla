------------------------- MODULE EventBillingProofs -------------------------
(***************************************************************************)
(* Theorems about EventBilling, for every set of deliveries, requests,     *)
(* campaigns, bids and prices and every bound on the key expiries.         *)
(***************************************************************************)
EXTENDS EventBilling, FiniteSetTheorems, TLAPS

\* What a coroutine's stage says about it. TypeOK is not inductive without it:
\* the bid is looked up for local campaigns only, and what goes to the cache is
\* a bid.
StageInv ==
    \A d \in Deliveries :
        /\ pc[d] \in {"idle", "dedup"} => verdict[d] = "none" /\ cost[d] = 0
        /\ pc[d] = "dedup" => Billable(ev[d])
        /\ pc[d] \in {"cpm", "bid", "refill"} =>
               ev[d].camp \in LocalCampaigns /\ verdict[d] \in {"fresh", "bypass"}
        /\ pc[d] = "refill" => cost[d] \in Bids
        /\ verdict[d] # "none" => Billable(ev[d])
        /\ cost[d] > 0 => verdict[d] \in {"fresh", "bypass"}
        /\ row[d] = "committed" => pc[d] = "done"

USE DEF Stages, GoTo, taskVars, redisVars, vars

LEMMA OfferedAreEvents == Traffic \subseteq Event
BY BillingAssumption DEF Offered, TrackPost, TrackPixel, WinNotice, LossNotice,
    BillingNotice

\* A billable event has a campaign the counters know, and a dedup key.
LEMMA KeyOfBillable ==
    ASSUME TypeOK, NEW d \in Deliveries, Billable(ev[d])
    PROVE  Key(d) \in Keys /\ ev[d].camp \in Campaigns
<1>1. ev[d] \in Event
  BY OfferedAreEvents DEF TypeOK
<1>2. QED
  BY <1>1 DEF Billable, Key, Keys, Event

\* The fields of the event a delivery carries.
LEMMA FieldsOfEvent ==
    ASSUME TypeOK, NEW d \in Deliveries
    PROVE  /\ ev[d] \in Event
           /\ ev[d].price \in Nat
           /\ ev[d].camp \in Campaigns \cup {NoCampaign}
           /\ ev[d].type \in Types
<1>1. ev[d] \in Event
  BY OfferedAreEvents DEF TypeOK
<1>2. QED
  BY <1>1, BillingAssumption DEF Event

LEMMA InitTypes == Init => TypeOK /\ StageInv
BY BillingAssumption DEF Init, TypeOK, StageInv, Campaigns

LEMMA StepTypes ==
    ASSUME TypeOK, StageInv, [Next]_vars
    PROVE  TypeOK'
<1> USE BillingAssumption DEF TypeOK, StageInv
<1>1. ASSUME NEW d \in Deliveries, Receive(d) PROVE TypeOK'
  BY <1>1 DEF Receive
<1>2. ASSUME NEW d \in Deliveries, ClaimKey(d) PROVE TypeOK'
  <2>1. Key(d) \in Keys /\ ev[d].price \in Nat
    BY <1>2, KeyOfBillable, FieldsOfEvent DEF ClaimKey
  <2>2. /\ pc' \in [Deliveries -> Stages]
        /\ cost' \in [Deliveries -> Nat]
    BY <1>2, <2>1 DEF ClaimKey, Priced
  <2>3. QED
    BY <1>2, <2>1, <2>2 DEF ClaimKey
<1>3. ASSUME NEW d \in Deliveries, SeeDuplicate(d) PROVE TypeOK'
  BY <1>3 DEF SeeDuplicate
<1>4. ASSUME NEW d \in Deliveries, DedupUnreachable(d) PROVE TypeOK'
  <2>1. Key(d) \in Keys /\ ev[d].price \in Nat
    BY <1>4, KeyOfBillable, FieldsOfEvent DEF DedupUnreachable
  <2>2. /\ pc' \in [Deliveries -> Stages]
        /\ cost' \in [Deliveries -> Nat]
    BY <1>4, <2>1 DEF DedupUnreachable, Priced
  <2>3. QED
    BY <1>4, <2>1, <2>2 DEF DedupUnreachable
<1>5. ASSUME NEW d \in Deliveries, HitCpm(d) PROVE TypeOK'
  BY <1>5 DEF HitCpm
<1>6. ASSUME NEW d \in Deliveries, MissCpm(d) PROVE TypeOK'
  BY <1>6 DEF MissCpm
<1>7. ASSUME NEW d \in Deliveries, ReadBid(d) PROVE TypeOK'
  BY <1>7 DEF ReadBid
<1>8. ASSUME NEW d \in Deliveries, ReadBidFails(d) PROVE TypeOK'
  BY <1>8 DEF ReadBidFails
<1>9. ASSUME NEW d \in Deliveries, RefillCpm(d) PROVE TypeOK'
  BY <1>9 DEF RefillCpm
<1>10. ASSUME NEW d \in Deliveries, Persist(d) PROVE TypeOK'
  BY <1>10 DEF Persist
<1>11. ASSUME NEW d \in Deliveries, PersistFails(d) PROVE TypeOK'
  BY <1>11 DEF PersistFails
<1>12. ASSUME NEW d \in Deliveries, RunPipeline(d) PROVE TypeOK'
  <2>1. ev[d].price \in Nat /\ cost[d] \in Nat
    BY FieldsOfEvent
  <2>2. stat' \in [Campaigns \X StatTypes -> Nat]
    BY <1>12 DEF RunPipeline
  <2>3. winPrice' \in [Campaigns -> Nat]
    <3>1. winPrice' = IF ev[d].camp \in Campaigns /\ ev[d].type = "win"
                      THEN [winPrice EXCEPT ![ev[d].camp] = @ + ev[d].price]
                      ELSE winPrice
      BY <1>12 DEF RunPipeline
    <3>2. QED
      BY <2>1, <3>1
  <2>4. spend' \in [Campaigns -> Nat]
    <3>1. spend' = IF Billable(ev[d])
                   THEN [spend EXCEPT ![ev[d].camp] = @ + cost[d]] ELSE spend
      BY <1>12 DEF RunPipeline
    <3>2. CASE Billable(ev[d])
      <4>1. ev[d].camp \in Campaigns
        BY <3>2, KeyOfBillable
      <4>2. QED
        BY <2>1, <3>1, <3>2, <4>1
    <3>3. QED
      BY <3>1, <3>2
  <2>5. QED
    BY <1>12, <2>2, <2>3, <2>4 DEF RunPipeline
<1>13. ASSUME NEW d \in Deliveries, PipelineFails(d) PROVE TypeOK'
  BY <1>13 DEF PipelineFails
<1>14. ASSUME NEW d \in Deliveries, PipelineRaises(d) PROVE TypeOK'
  BY <1>14 DEF PipelineRaises
<1>15. ASSUME NEW d \in Deliveries, Commit(d) PROVE TypeOK'
  BY <1>15 DEF Commit
<1>16. ASSUME NEW d \in Deliveries, CommitFails(d) PROVE TypeOK'
  BY <1>16 DEF CommitFails
<1>17. ASSUME NEW d \in Deliveries, Crash(d) PROVE TypeOK'
  BY <1>17 DEF Crash
<1>18. ASSUME NEW k \in Keys, ExpireKey(k) PROVE TypeOK'
  BY <1>18 DEF ExpireKey
<1>19. ASSUME NEW c \in LocalCampaigns, ExpireCpm(c) PROVE TypeOK'
  BY <1>19 DEF ExpireCpm
<1>20. ASSUME NEW c \in LocalCampaigns, NEW b \in Bids, UpdateBid(c, b) PROVE TypeOK'
  BY <1>20 DEF UpdateBid
<1>21. CASE UNCHANGED vars
  BY <1>21
<1>22. QED
  BY <1>1, <1>2, <1>3, <1>4, <1>5, <1>6, <1>7, <1>8, <1>9, <1>10, <1>11, <1>12, <1>13, <1>14, <1>15, <1>16, <1>17, <1>18, <1>19, <1>20, <1>21 DEF Next, Step

LEMMA StepStages ==
    ASSUME TypeOK, StageInv, [Next]_vars
    PROVE  StageInv'
<1> USE BillingAssumption, FieldsOfEvent DEF TypeOK, StageInv, Billable
<1>1. ASSUME NEW d \in Deliveries, Receive(d) PROVE StageInv'
  BY <1>1 DEF Receive
<1>2. ASSUME NEW d \in Deliveries, ClaimKey(d) PROVE StageInv'
  BY <1>2 DEF ClaimKey, Priced
<1>3. ASSUME NEW d \in Deliveries, SeeDuplicate(d) PROVE StageInv'
  BY <1>3 DEF SeeDuplicate
<1>4. ASSUME NEW d \in Deliveries, DedupUnreachable(d) PROVE StageInv'
  BY <1>4 DEF DedupUnreachable, Priced
<1>5. ASSUME NEW d \in Deliveries, HitCpm(d) PROVE StageInv'
  BY <1>5 DEF HitCpm
<1>6. ASSUME NEW d \in Deliveries, MissCpm(d) PROVE StageInv'
  BY <1>6 DEF MissCpm
<1>7. ASSUME NEW d \in Deliveries, ReadBid(d) PROVE StageInv'
  BY <1>7 DEF ReadBid
<1>8. ASSUME NEW d \in Deliveries, ReadBidFails(d) PROVE StageInv'
  BY <1>8 DEF ReadBidFails
<1>9. ASSUME NEW d \in Deliveries, RefillCpm(d) PROVE StageInv'
  BY <1>9 DEF RefillCpm
<1>10. ASSUME NEW d \in Deliveries, Persist(d) PROVE StageInv'
  BY <1>10 DEF Persist
<1>11. ASSUME NEW d \in Deliveries, PersistFails(d) PROVE StageInv'
  BY <1>11 DEF PersistFails
<1>12. ASSUME NEW d \in Deliveries, RunPipeline(d) PROVE StageInv'
  BY <1>12 DEF RunPipeline
<1>13. ASSUME NEW d \in Deliveries, PipelineFails(d) PROVE StageInv'
  BY <1>13 DEF PipelineFails
<1>14. ASSUME NEW d \in Deliveries, PipelineRaises(d) PROVE StageInv'
  BY <1>14 DEF PipelineRaises
<1>15. ASSUME NEW d \in Deliveries, Commit(d) PROVE StageInv'
  BY <1>15 DEF Commit
<1>16. ASSUME NEW d \in Deliveries, CommitFails(d) PROVE StageInv'
  BY <1>16 DEF CommitFails
<1>17. ASSUME NEW d \in Deliveries, Crash(d) PROVE StageInv'
  BY <1>17 DEF Crash
<1>18. ASSUME NEW k \in Keys, ExpireKey(k) PROVE StageInv'
  BY <1>18 DEF ExpireKey
<1>19. ASSUME NEW c \in LocalCampaigns, ExpireCpm(c) PROVE StageInv'
  BY <1>19 DEF ExpireCpm
<1>20. ASSUME NEW c \in LocalCampaigns, NEW b \in Bids, UpdateBid(c, b) PROVE StageInv'
  BY <1>20 DEF UpdateBid
<1>21. CASE UNCHANGED vars
  BY <1>21
<1>22. QED
  BY <1>1, <1>2, <1>3, <1>4, <1>5, <1>6, <1>7, <1>8, <1>9, <1>10, <1>11, <1>12, <1>13, <1>14, <1>15, <1>16, <1>17, <1>18, <1>19, <1>20, <1>21 DEF Next, Step

\* Every variable keeps its type in every reachable state of track_event.
THEOREM TypeCorrect == Spec => [](TypeOK /\ StageInv)
<1>1. TypeOK /\ StageInv /\ [Next]_vars => (TypeOK /\ StageInv)'
  BY StepTypes, StepStages
<1>2. QED
  BY InitTypes, <1>1, PTL DEF Spec

-----------------------------------------------------------------------------
(* Deduplication. Four actions touch the keys and the verdicts.              *)

LEMMA WhoTouchesKeys ==
    ASSUME [Next]_vars
    PROVE  /\ ev' = ev
           /\ \/ UNCHANGED <<verdict, stamp, dedup, window>>
              \/ \E d \in Deliveries :
                     ClaimKey(d) \/ SeeDuplicate(d) \/ DedupUnreachable(d)
              \/ \E k \in Keys : ExpireKey(k)
<1>1. ASSUME NEW d \in Deliveries, Step(d) \/ Crash(d)
      PROVE  /\ ev' = ev
             /\ \/ UNCHANGED <<verdict, stamp, dedup, window>>
                \/ ClaimKey(d) \/ SeeDuplicate(d) \/ DedupUnreachable(d)
  BY <1>1 DEF Step, Receive, ClaimKey, SeeDuplicate, DedupUnreachable, HitCpm, MissCpm,
      ReadBid, ReadBidFails, RefillCpm, Persist, PersistFails, RunPipeline,
      PipelineFails, PipelineRaises, Commit, CommitFails, Crash
<1>2. ASSUME NEW k \in Keys, ExpireKey(k) PROVE ev' = ev
  BY <1>2 DEF ExpireKey
<1>3. ASSUME NEW c \in LocalCampaigns,
             ExpireCpm(c) \/ \E b \in Bids : UpdateBid(c, b)
      PROVE  ev' = ev /\ UNCHANGED <<verdict, stamp, dedup, window>>
  BY <1>3 DEF ExpireCpm, UpdateBid
<1>4. CASE UNCHANGED vars
  BY <1>4
<1>5. QED
  BY <1>1, <1>2, <1>3, <1>4 DEF Next

\* A key was taken in the window in which it was judged: while it lives, its
\* taker's stamp is the present window, and an older one once it has expired.
StampInv ==
    /\ \A d \in Deliveries : verdict[d] = "fresh" =>
           \/ stamp[d] < window[Key(d)]
           \/ stamp[d] = window[Key(d)] /\ Key(d) \in dedup
    /\ \A d1, d2 \in Deliveries :
           d1 # d2 /\ verdict[d1] = "fresh" /\ verdict[d2] = "fresh" /\ Key(d1) = Key(d2)
           => stamp[d1] # stamp[d2]

LEMMA StepStamps ==
    ASSUME TypeOK, StageInv, StampInv, [Next]_vars
    PROVE  StampInv'
<1>1. CASE UNCHANGED <<verdict, stamp, dedup, window>>
  BY <1>1, WhoTouchesKeys DEF StampInv, Key
<1>2. ASSUME NEW d \in Deliveries, ClaimKey(d) PROVE StampInv'
  <2>1. Key(d) \in Keys /\ window[Key(d)] \in Nat
    BY <1>2, KeyOfBillable DEF ClaimKey, StageInv, TypeOK
  <2>2. /\ ev' = ev /\ window' = window
        /\ dedup' = dedup \cup {Key(d)} /\ Key(d) \notin dedup
        /\ verdict' = [verdict EXCEPT ![d] = "fresh"]
        /\ stamp' = [stamp EXCEPT ![d] = window[Key(d)]]
    BY <1>2 DEF ClaimKey
  <2>3. \A o \in Deliveries : /\ Key(o)' = Key(o)
                              /\ o # d => verdict'[o] = verdict[o] /\ stamp'[o] = stamp[o]
    BY <2>2 DEF TypeOK, Key
  <2>4. stamp'[d] = window[Key(d)]
    BY <2>2 DEF TypeOK
  <2>5. \A o \in Deliveries : o # d /\ verdict[o] = "fresh" /\ Key(o) = Key(d)
                               => stamp[o] # window[Key(d)]
    BY <2>1, <2>2 DEF StampInv, TypeOK
  <2>6. QED
    BY <2>2, <2>3, <2>4, <2>5 DEF StampInv
<1>3. ASSUME NEW d \in Deliveries, SeeDuplicate(d) PROVE StampInv'
  BY <1>3 DEF SeeDuplicate, StampInv, TypeOK, Key
<1>4. ASSUME NEW d \in Deliveries, DedupUnreachable(d) PROVE StampInv'
  BY <1>4 DEF DedupUnreachable, StampInv, TypeOK, Key
<1>5. ASSUME NEW k \in Keys, ExpireKey(k) PROVE StampInv'
  <2>1. \A d \in Deliveries : verdict[d] = "fresh" => Key(d) \in Keys
    BY KeyOfBillable DEF StageInv
  <2>2. QED
    BY <1>5, <2>1 DEF ExpireKey, StampInv, TypeOK, Key
<1>6. QED
  BY <1>1, <1>2, <1>3, <1>4, <1>5, WhoTouchesKeys

\* Nobody is charged twice for an impression reported twice: only an unreachable
\* Redis or the expiry of the key lets a second cost through.
THEOREM NoDoubleCharge == Spec => []SingleCharge
<1>1. Init => StampInv
  BY DEF Init, StampInv
<1>2. TypeOK /\ StageInv /\ StampInv /\ [Next]_vars => StampInv'
  BY StepStamps
<1>3. TypeOK /\ StageInv /\ StampInv => SingleCharge
  BY DEF TypeOK, StageInv, StampInv, SingleCharge, SameImpression
<1>4. QED
  BY TypeCorrect, <1>1, <1>2, <1>3, PTL DEF Spec

\* Every key in Redis was put there by a call that went ahead.
HeldInv ==
    \A k \in dedup : \E d \in Deliveries :
        Billable(ev[d]) /\ Key(d) = k /\ verdict[d] \in {"fresh", "bypass"}

LEMMA StepHeld ==
    ASSUME TypeOK, StageInv, HeldInv, DuplicateHasOriginal, [Next]_vars
    PROVE  HeldInv' /\ DuplicateHasOriginal'
<1> USE DEF HeldInv, DuplicateHasOriginal, SameImpression, Billable, Key
<1>1. CASE UNCHANGED <<verdict, stamp, dedup, window>>
  BY <1>1, WhoTouchesKeys
<1>2. ASSUME NEW d \in Deliveries, ClaimKey(d) PROVE HeldInv' /\ DuplicateHasOriginal'
  <2>1. Billable(ev[d]) /\ verdict[d] = "none"
    BY <1>2 DEF ClaimKey, StageInv
  <2>2. /\ ev' = ev /\ dedup' = dedup \cup {Key(d)}
        /\ verdict'[d] = "fresh"
        /\ \A o \in Deliveries : o # d => verdict'[o] = verdict[o]
    BY <1>2 DEF ClaimKey, TypeOK
  <2>3. HeldInv'
    BY <2>1, <2>2
  <2>4. DuplicateHasOriginal'
    BY <2>1, <2>2
  <2>5. QED
    BY <2>3, <2>4
<1>3. ASSUME NEW d \in Deliveries, SeeDuplicate(d) PROVE HeldInv' /\ DuplicateHasOriginal'
  <2>1. PICK o \in Deliveries :
            Billable(ev[o]) /\ Key(o) = Key(d) /\ verdict[o] \in {"fresh", "bypass"}
    BY <1>3 DEF SeeDuplicate
  <2>2. o # d
    BY <1>3, <2>1 DEF SeeDuplicate, StageInv
  <2>3. Billable(ev[d])
    BY <1>3 DEF SeeDuplicate, StageInv
  <2>4. /\ ev' = ev /\ dedup' = dedup
        /\ verdict[d] = "none" /\ verdict'[d] = "dup"
        /\ \A e \in Deliveries : e # d => verdict'[e] = verdict[e]
    BY <1>3 DEF SeeDuplicate, TypeOK, StageInv
  <2>5. HeldInv'
    BY <2>4
  <2>6. DuplicateHasOriginal'
    BY <2>1, <2>2, <2>3, <2>4
  <2>7. QED
    BY <2>5, <2>6
<1>4. ASSUME NEW d \in Deliveries, DedupUnreachable(d)
      PROVE  HeldInv' /\ DuplicateHasOriginal'
  BY <1>4 DEF DedupUnreachable, TypeOK, StageInv
<1>5. ASSUME NEW k \in Keys, ExpireKey(k) PROVE HeldInv' /\ DuplicateHasOriginal'
  BY <1>5 DEF ExpireKey
<1>6. QED
  BY <1>1, <1>2, <1>3, <1>4, <1>5, WhoTouchesKeys

\* A call suppressed as a duplicate always has another call of the impression that
\* was let through: the service never suppresses both.
THEOREM NoImpressionDropped == Spec => []DuplicateHasOriginal
<1>1. Init => HeldInv /\ DuplicateHasOriginal
  BY DEF Init, HeldInv, DuplicateHasOriginal
<1>2. TypeOK /\ StageInv /\ HeldInv /\ DuplicateHasOriginal /\ [Next]_vars
      => HeldInv' /\ DuplicateHasOriginal'
  BY StepHeld
<1>3. QED
  BY TypeCorrect, <1>1, <1>2, PTL DEF Spec

-----------------------------------------------------------------------------
(* The counters and the rows. A delivery enters the counters in one step,    *)
(* and what it costs does not change from then on.                           *)

\* The impressions of a campaign that are in the counters.
Tallied(c) == {d \in Of(c) : counted[d] = "yes" /\ ev[d].type = "impression"}

CountedInv ==
    \A d \in Deliveries :
        /\ pc[d] \in Stages \ {"commit", "done", "dead"} => counted[d] = "no"
        /\ pc[d] \notin {"idle", "done"} => ev[d].type # "unknown"
        /\ pc[d] = "pipeline" => verdict[d] # "dup"
        /\ counted[d] = "yes" => verdict[d] # "dup" /\ ev[d].type # "unknown"

TallyInv ==
    \A c \in Campaigns :
        /\ IsFiniteSet(Tallied(c)) /\ stat[<<c, "impression">>] = Cardinality(Tallied(c))
        /\ IsFiniteSet(Units(Tallied(c))) /\ spend[c] = Cardinality(Units(Tallied(c)))

LEMMA StepCounted ==
    ASSUME TypeOK, StageInv, CountedInv, [Next]_vars
    PROVE  CountedInv'
<1> USE DEF TypeOK, StageInv, CountedInv
<1>1. ASSUME NEW d \in Deliveries,
             \/ Receive(d) \/ ClaimKey(d) \/ SeeDuplicate(d) \/ DedupUnreachable(d)
      PROVE  CountedInv'
  BY <1>1 DEF Receive, ClaimKey, SeeDuplicate, DedupUnreachable, Priced, Billable
<1>2. ASSUME NEW d \in Deliveries,
             HitCpm(d) \/ MissCpm(d) \/ ReadBid(d) \/ ReadBidFails(d) \/ RefillCpm(d)
      PROVE  CountedInv'
  BY <1>2 DEF HitCpm, MissCpm, ReadBid, ReadBidFails, RefillCpm
<1>3. ASSUME NEW d \in Deliveries, Persist(d) \/ PersistFails(d) PROVE CountedInv'
  BY <1>3 DEF Persist, PersistFails
<1>4. ASSUME NEW d \in Deliveries,
             RunPipeline(d) \/ PipelineFails(d) \/ PipelineRaises(d)
      PROVE  CountedInv'
  BY <1>4 DEF RunPipeline, PipelineFails, PipelineRaises
<1>5. ASSUME NEW d \in Deliveries, Commit(d) \/ CommitFails(d) \/ Crash(d)
      PROVE  CountedInv'
  BY <1>5 DEF Commit, CommitFails, Crash
<1>6. CASE UNCHANGED <<ev, pc, verdict, counted>>
  BY <1>6
<1>7. QED
  BY <1>1, <1>2, <1>3, <1>4, <1>5, <1>6 DEF Next, Step, ExpireKey, ExpireCpm, UpdateBid

\* Every other step leaves the counters, who is in them and at what cost.
LEMMA WhoCounts ==
    ASSUME TypeOK, StageInv, CountedInv, [Next]_vars
    PROVE  \/ \E d \in Deliveries : RunPipeline(d)
           \/ /\ ev' = ev /\ stat' = stat /\ spend' = spend
              /\ \A d \in Deliveries : /\ counted'[d] = "yes" <=> counted[d] = "yes"
                                       /\ counted[d] = "yes" => cost'[d] = cost[d]
<1> USE DEF TypeOK, CountedInv
<1>1. ASSUME NEW d \in Deliveries,
             \/ Receive(d) \/ ClaimKey(d) \/ SeeDuplicate(d) \/ DedupUnreachable(d)
             \/ HitCpm(d) \/ MissCpm(d) \/ ReadBid(d) \/ ReadBidFails(d) \/ RefillCpm(d)
      PROVE  /\ ev' = ev /\ stat' = stat /\ spend' = spend /\ counted' = counted
             /\ \A o \in Deliveries : counted[o] = "yes" => cost'[o] = cost[o]
  BY <1>1 DEF Receive, ClaimKey, SeeDuplicate, DedupUnreachable, Priced, HitCpm, MissCpm,
      ReadBid, ReadBidFails, RefillCpm
<1>2. ASSUME NEW d \in Deliveries,
             \/ Persist(d) \/ PersistFails(d) \/ PipelineFails(d) \/ PipelineRaises(d)
             \/ Commit(d) \/ CommitFails(d) \/ Crash(d)
      PROVE  /\ ev' = ev /\ stat' = stat /\ spend' = spend /\ cost' = cost
             /\ \A o \in Deliveries : counted'[o] = "yes" <=> counted[o] = "yes"
  BY <1>2 DEF Persist, PersistFails, PipelineFails, PipelineRaises, Commit, CommitFails,
      Crash
<1>3. CASE UNCHANGED <<ev, stat, spend, counted, cost>>
  BY <1>3
<1>4. QED
  BY <1>1, <1>2, <1>3 DEF Next, Step, ExpireKey, ExpireCpm, UpdateBid

LEMMA DisjointUnion ==
    ASSUME NEW S, NEW T, IsFiniteSet(S), IsFiniteSet(T), S \cap T = {}
    PROVE  IsFiniteSet(S \cup T) /\ Cardinality(S \cup T) = Cardinality(S) + Cardinality(T)
<1>1. PICK s \in Nat, t \in Nat : s = Cardinality(S) /\ t = Cardinality(T)
  BY FS_CardinalityType
<1>2. /\ IsFiniteSet(S \cup T)
      /\ Cardinality(S \cup T) = Cardinality(S) + Cardinality(T) - Cardinality(S \cap T)
  BY FS_Union
<1>3. Cardinality(S \cap T) = 0
  BY FS_EmptySet
<1>4. Cardinality(S \cup T) = s + t - 0
  BY <1>1, <1>2, <1>3
<1>5. QED
  BY <1>1, <1>2, <1>4

LEMMA UnitsOfOne ==
    ASSUME NEW d, NEW n \in Nat
    PROVE  IsFiniteSet({d} \X (1 .. n)) /\ Cardinality({d} \X (1 .. n)) = n
<1>1. IsFiniteSet({d}) /\ Cardinality({d}) = 1
  BY FS_Singleton
<1>2. IsFiniteSet(1 .. n) /\ Cardinality(1 .. n) = IF 1 > n THEN 0 ELSE n - 1 + 1
  BY FS_Interval, 1 \in Int, n \in Int
<1>3. PICK S : S = 1 .. n
  OBVIOUS
<1>4. Cardinality(S) = n
  BY <1>2, <1>3
<1>5. /\ IsFiniteSet({d} \X S)
      /\ Cardinality({d} \X S) = Cardinality({d}) * Cardinality(S)
  BY <1>1, <1>2, <1>3, FS_Product
<1>6. Cardinality({d} \X S) = 1 * n
  BY <1>1, <1>4, <1>5
<1>7. QED
  BY <1>3, <1>5, <1>6

\* One delivery more costs its own units more.
LEMMA UnitsOfOneMore ==
    ASSUME NEW D, NEW d, d \notin D, cost[d] \in Nat, IsFiniteSet(Units(D))
    PROVE  /\ IsFiniteSet(Units(D \cup {d}))
           /\ Cardinality(Units(D \cup {d})) = Cardinality(Units(D)) + cost[d]
<1>1. PICK own : own = {d} \X (1 .. cost[d])
  OBVIOUS
<1>2. Units(D \cup {d}) = Units(D) \cup own /\ Units(D) \cap own = {}
  BY <1>1 DEF Units
<1>3. IsFiniteSet(own) /\ Cardinality(own) = cost[d]
  BY <1>1, UnitsOfOne
<1>4. QED
  BY <1>2, <1>3, DisjointUnion

LEMMA StepTally ==
    ASSUME TypeOK, StageInv, CountedInv, TallyInv, [Next]_vars
    PROVE  TallyInv'
<1>1. CASE /\ ev' = ev /\ stat' = stat /\ spend' = spend
           /\ \A d \in Deliveries : /\ counted'[d] = "yes" <=> counted[d] = "yes"
                                    /\ counted[d] = "yes" => cost'[d] = cost[d]
  <2>1. ASSUME NEW c \in Campaigns
        PROVE  Tallied(c)' = Tallied(c) /\ Units(Tallied(c))' = Units(Tallied(c))
    <3>1. Tallied(c)' = Tallied(c)
      BY <1>1 DEF Tallied, Of
    <3>2. \A d \in Tallied(c) : cost'[d] = cost[d]
      BY <1>1 DEF Tallied, Of
    <3>3. QED
      BY <3>1, <3>2 DEF Units
  <2>2. QED
    BY <1>1, <2>1 DEF TallyInv
<1>2. ASSUME NEW d \in Deliveries, RunPipeline(d) PROVE TallyInv'
  <2>1. /\ ev' = ev /\ cost' = cost /\ counted[d] = "no"
        /\ counted' = [counted EXCEPT ![d] = "yes"]
        /\ stat' = IF ev[d].camp \in Campaigns /\ ev[d].type \in StatTypes
                   THEN [stat EXCEPT ![<<ev[d].camp, ev[d].type>>] = @ + 1] ELSE stat
        /\ spend' = IF Billable(ev[d])
                    THEN [spend EXCEPT ![ev[d].camp] = @ + cost[d]] ELSE spend
    BY <1>2 DEF RunPipeline, CountedInv
  <2>2. cost[d] \in Nat /\ ev[d].camp \in Campaigns \cup {NoCampaign} /\ NoCampaign \notin Campaigns
    BY FieldsOfEvent, BillingAssumption DEF TypeOK
  <2> SUFFICES ASSUME NEW c \in Campaigns
               PROVE  /\ IsFiniteSet(Tallied(c)')
                      /\ stat'[<<c, "impression">>] = Cardinality(Tallied(c)')
                      /\ IsFiniteSet(Units(Tallied(c))')
                      /\ spend'[c] = Cardinality(Units(Tallied(c))')
    BY DEF TallyInv
  <2>3. PICK n \in Nat : n = cost[d]
    BY <2>2
  <2>4. PICK D : D = Tallied(c)
    OBVIOUS
  <2>5. /\ IsFiniteSet(D) /\ stat[<<c, "impression">>] = Cardinality(D)
        /\ IsFiniteSet(Units(D)) /\ spend[c] = Cardinality(Units(D))
    BY <2>4 DEF TallyInv
  <2>6. d \notin D
    BY <2>1, <2>4 DEF Tallied
  <2>7. Units(Tallied(c))' = Units(Tallied(c)')
    BY <2>1 DEF Units
  <2>8. CASE ev[d].type = "impression" /\ ev[d].camp = c
    <3>1. Tallied(c)' = D \cup {d}
      BY <2>1, <2>4, <2>8 DEF Tallied, Of, TypeOK
    <3>2. spend'[c] = spend[c] + n
      BY <2>1, <2>2, <2>3, <2>8 DEF Billable, TypeOK
    <3>3. stat'[<<c, "impression">>] = stat[<<c, "impression">>] + 1
      BY <2>1, <2>8 DEF StatTypes, TypeOK
    <3>4. IsFiniteSet(D \cup {d}) /\ Cardinality(D \cup {d}) = Cardinality(D) + 1
      BY <2>5, <2>6, FS_AddElement
    <3>5. /\ IsFiniteSet(Units(D \cup {d}))
          /\ Cardinality(Units(D \cup {d})) = Cardinality(Units(D)) + n
      BY <2>2, <2>3, <2>5, <2>6, UnitsOfOneMore
    <3>6. QED
      BY <2>5, <2>7, <3>1, <3>2, <3>3, <3>4, <3>5
  <2>9. CASE ~(ev[d].type = "impression" /\ ev[d].camp = c)
    <3>1. Tallied(c)' = D
      BY <2>1, <2>4, <2>9 DEF Tallied, Of, TypeOK
    <3>2. spend'[c] = spend[c]
      BY <2>1, <2>2, <2>9 DEF Billable, TypeOK
    <3>3. stat'[<<c, "impression">>] = stat[<<c, "impression">>]
      <4>1. <<c, "impression">> # <<ev[d].camp, ev[d].type>>
        BY <2>9
      <4>2. QED
        BY <2>1, <4>1 DEF StatTypes, TypeOK
    <3>4. QED
      BY <2>5, <2>7, <3>1, <3>2, <3>3
  <2>10. QED
    BY <2>8, <2>9
<1>3. QED
  BY <1>1, <1>2, WhoCounts

\* When the calls of a campaign are through and met no failure, the dashboard's spend
\* and impression count are those of the rows in PostgreSQL.
THEOREM CountersAgree == Spec => []CountersMatchLedger
<1>1. Init => CountedInv /\ TallyInv
  <2> SUFFICES ASSUME Init PROVE CountedInv /\ TallyInv
    OBVIOUS
  <2>1. CountedInv
    BY DEF Init, CountedInv
  <2>2. ASSUME NEW c \in Campaigns
        PROVE  /\ Tallied(c) = {} /\ Units(Tallied(c)) = {}
               /\ stat[<<c, "impression">>] = 0 /\ spend[c] = 0
    BY DEF Init, Tallied, Of, Units, StatTypes
  <2>3. QED
    BY <2>1, <2>2, FS_EmptySet DEF TallyInv
<1>2. TypeOK /\ StageInv /\ CountedInv /\ TallyInv /\ [Next]_vars => CountedInv' /\ TallyInv'
  BY StepCounted, StepTally
<1>3. TypeOK /\ StageInv /\ CountedInv /\ TallyInv => CountersMatchLedger
  <2> SUFFICES ASSUME TypeOK, StageInv, CountedInv, TallyInv, NEW c \in Campaigns,
                      \A d \in Of(c) : Untouched(d) \/ Clean(d),
                      NEW L, L = {d \in Of(c) : row[d] = "committed"
                                                  /\ ev[d].type = "impression"}
               PROVE  /\ spend[c] = Cardinality(Units(L))
                      /\ stat[<<c, "impression">>] =
                             Cardinality({d \in L : verdict[d] # "dup"})
    BY DEF CountersMatchLedger
  <2>1. {d \in L : verdict[d] # "dup"} = Tallied(c)
    BY DEF Tallied, Of, Untouched, Clean, CountedInv, StageInv, TypeOK
  <2>2. \A d \in L : verdict[d] = "dup" => cost[d] = 0
    BY DEF Of, StageInv, TypeOK
  <2>3. Units(L) = Units(Tallied(c))
    <3>1. \A d \in L : d \notin Tallied(c) => 1 .. cost[d] = {}
      BY <2>1, <2>2
    <3>2. Tallied(c) \subseteq L
      BY <2>1
    <3>3. QED
      BY <3>1, <3>2 DEF Units
  <2>4. QED
    BY <2>1, <2>3 DEF TallyInv
<1>4. QED
  BY TypeCorrect, <1>1, <1>2, <1>3, PTL DEF Spec

-----------------------------------------------------------------------------
(* Refinement: every step is a step of the ledger or leaves it alone.        *)

\* A delivery the guard judges takes no key twice and is not paid yet.
LEMMA GuardStepsRefine ==
    ASSUME TypeOK, StageInv, NEW d \in Deliveries,
           ClaimKey(d) \/ SeeDuplicate(d) \/ DedupUnreachable(d)
    PROVE  [Ledger!Next]_(Ledger!ledgerVars)
<1>1. /\ Key(d) \in Keys /\ Key(d) # <<>>
      /\ verdict[d] = "none" /\ row[d] # "committed"
      /\ ev' = ev /\ row' = row
      /\ \A o \in Deliveries : o # d => verdict'[o] = verdict[o]
  <2>1. pc[d] = "dedup" /\ ev' = ev /\ row' = row
    BY DEF ClaimKey, SeeDuplicate, DedupUnreachable
  <2>2. Key(d) \in Keys
    BY <2>1, KeyOfBillable DEF StageInv
  <2>3. QED
    BY <2>1, <2>2 DEF StageInv, TypeOK, Key, ClaimKey, SeeDuplicate, DedupUnreachable
<1>2. PaidRows' = PaidRows
  BY <1>1 DEF PaidRows
<1>3. \A o \in Deliveries : Key(o)' = Key(o)
  BY <1>1 DEF Key
<1>4. Claimed[d] = <<>>
  BY <1>1 DEF Claimed
<1>5. CASE ClaimKey(d)
  <2>1. verdict'[d] = "fresh" /\ dedup' = dedup \cup {Key(d)} /\ Key(d) \notin dedup
    BY <1>5 DEF ClaimKey, TypeOK
  <2>2. Claimed' = [Claimed EXCEPT ![d] = Key(d)]
    BY <1>1, <1>3, <2>1 DEF Claimed
  <2>3. Unchecked' = Unchecked
    BY <1>1, <2>1 DEF Unchecked
  <2>4. Ledger!Claim(d, Key(d))
    BY <1>2, <1>4, <2>1, <2>2, <2>3 DEF Ledger!Claim
  <2>5. QED
    BY <1>1, <2>4 DEF Ledger!Next
<1>6. CASE SeeDuplicate(d)
  <2>1. verdict'[d] = "dup" /\ dedup' = dedup
    BY <1>6 DEF SeeDuplicate, TypeOK
  <2>2. Claimed' = Claimed /\ Unchecked' = Unchecked
    BY <1>1, <1>3, <2>1 DEF Claimed, Unchecked
  <2>3. QED
    BY <1>2, <2>1, <2>2 DEF Ledger!ledgerVars
<1>7. CASE DedupUnreachable(d)
  <2>1. verdict'[d] = "bypass" /\ dedup' \in {dedup, dedup \cup {Key(d)}}
    BY <1>7 DEF DedupUnreachable, TypeOK
  <2>2. Claimed' = [Claimed EXCEPT ![d] = Key(d)]
    BY <1>1, <1>3, <2>1 DEF Claimed
  <2>3. Unchecked' = Unchecked \cup {d}
    BY <1>1, <2>1 DEF Unchecked
  <2>4. Ledger!ClaimBlind(d, Key(d))
    BY <1>2, <1>4, <2>1, <2>2, <2>3 DEF Ledger!ClaimBlind
  <2>5. QED
    BY <1>1, <2>4 DEF Ledger!Next
<1>8. QED
  BY <1>5, <1>6, <1>7

\* Away from the guard a coroutine can only have its row committed: that pays it,
\* or is invisible if it holds no key.
LEMMA RowStepsRefine ==
    ASSUME TypeOK, StageInv, NEW d \in Deliveries, Step(d) \/ Crash(d),
           ~(ClaimKey(d) \/ SeeDuplicate(d) \/ DedupUnreachable(d))
    PROVE  [Ledger!Next]_(Ledger!ledgerVars)
<1>1. /\ ev' = ev /\ verdict' = verdict /\ dedup' = dedup
      /\ \A o \in Deliveries : o # d => row'[o] = row[o]
  BY DEF TypeOK, Step, Receive, HitCpm, MissCpm, ReadBid, ReadBidFails, RefillCpm,
      Persist, PersistFails, RunPipeline, PipelineFails, PipelineRaises, Commit,
      CommitFails, Crash
<1>2. row'[d] = row[d] \/ row[d] # "committed"
  BY DEF TypeOK, StageInv, Step, Receive, HitCpm, MissCpm, ReadBid, ReadBidFails,
      RefillCpm, Persist, PersistFails, RunPipeline, PipelineFails, PipelineRaises,
      Commit, CommitFails, Crash
<1>3. Claimed' = Claimed /\ Unchecked' = Unchecked
  BY <1>1 DEF Claimed, Unchecked, Key
<1>4. CASE /\ verdict[d] \in {"fresh", "bypass"}
           /\ row[d] # "committed" /\ row'[d] = "committed"
  <2>1. PaidRows' = PaidRows \cup {d} /\ d \notin PaidRows
    BY <1>1, <1>4 DEF PaidRows
  <2>2. Claimed[d] # <<>>
    BY <1>4 DEF Claimed, Key
  <2>3. Ledger!Pay(d)
    BY <1>1, <1>3, <2>1, <2>2 DEF Ledger!Pay
  <2>4. QED
    BY <2>3 DEF Ledger!Next
<1>5. CASE ~(/\ verdict[d] \in {"fresh", "bypass"}
             /\ row[d] # "committed" /\ row'[d] = "committed")
  <2>1. PaidRows' = PaidRows
    BY <1>1, <1>2, <1>5 DEF PaidRows
  <2>2. QED
    BY <1>1, <1>3, <2>1 DEF Ledger!ledgerVars
<1>6. QED
  BY <1>4, <1>5

\* track_event with its Redis keys, rows and failures implements the ledger: no
\* impression is paid that was not claimed, and no live key is claimed twice.
THEOREM BillingImplementsLedger == Spec => LedgerSpec
<1>1. Init => Ledger!Init
  BY DEF Init, Ledger!Init, Claimed, Unchecked, PaidRows
<1>2. TypeOK /\ StageInv /\ [Next]_vars => [Ledger!Next]_(Ledger!ledgerVars)
  <2> SUFFICES ASSUME TypeOK, StageInv, [Next]_vars
               PROVE  [Ledger!Next]_(Ledger!ledgerVars)
    OBVIOUS
  <2>1. ASSUME NEW d \in Deliveries, Step(d) \/ Crash(d)
        PROVE  [Ledger!Next]_(Ledger!ledgerVars)
    BY <2>1, GuardStepsRefine, RowStepsRefine
  <2>2. ASSUME NEW k \in Keys, ExpireKey(k) PROVE [Ledger!Next]_(Ledger!ledgerVars)
    <3>1. Claimed' = Claimed /\ Unchecked' = Unchecked /\ PaidRows' = PaidRows
      BY <2>2 DEF ExpireKey, Claimed, Unchecked, PaidRows, Key
    <3>2. Ledger!Lapse(k)
      BY <2>2, <3>1 DEF ExpireKey, Ledger!Lapse
    <3>3. QED
      BY <3>2 DEF Ledger!Next
  <2>3. CASE UNCHANGED <<taskVars, dedup>>
    BY <2>3 DEF Ledger!ledgerVars, Claimed, Unchecked, PaidRows, Key
  <2>4. QED
    BY <2>1, <2>2, <2>3 DEF Next, ExpireCpm, UpdateBid
<1>3. QED
  BY TypeCorrect, <1>1, <1>2, PTL DEF Spec, LedgerSpec, Ledger!Spec
=============================================================================
