--------------------------- MODULE VastTagProofs ---------------------------
(***************************************************************************)
(* Theorems about VastTag, for every number of requests, sources, bids and  *)
(* retries, and every margin and price.                                     *)
(***************************************************************************)
EXTENDS VastTag, FiniteSetTheorems, TLAPS

USE DEF counters, vars

-----------------------------------------------------------------------------
(* The best of some candidates.                                              *)

\* Campaigns may share a place in the merge, but only one campaign has a candidate.
OneLocal(C) == \A k, o \in C : k.src \in Campaigns /\ o.src \in Campaigns => k = o

LEMMA AheadIsOrder ==
    ASSUME NEW C \in SUBSET Candidate, OneLocal(C)
    PROVE  /\ \A k, o \in C : Ahead(k, o) \/ Ahead(o, k)
           /\ \A k, o, q \in C : Ahead(k, o) /\ Ahead(o, q) => Ahead(k, q)
<1>1. \A k \in C : /\ k.bid \in Nat /\ k.at \in Nat /\ k.src \in Campaigns \cup Sources
                   /\ rank[k.src] \in Nat
  BY TagAssumption DEF Candidate
<1>2. ASSUME NEW k \in C, NEW o \in C PROVE Ahead(k, o) \/ Ahead(o, k)
  <2>1. rank[k.src] = rank[o.src] => k.src = o.src
    BY <1>1, TagAssumption DEF OneLocal
  <2>2. QED
    BY <1>1, <2>1 DEF Ahead
<1>3. ASSUME NEW k \in C, NEW o \in C, NEW q \in C, Ahead(k, o), Ahead(o, q)
      PROVE  Ahead(k, q)
  BY <1>1, <1>3 DEF Ahead
<1>4. QED
  BY <1>2, <1>3

\* The candidates one is not ahead of are fewer and fewer towards the best, and the
\* strict inclusion of finite sets is well-founded.
LEMMA BestExists ==
    ASSUME NEW C \in SUBSET Candidate, IsFiniteSet(C), C # {}, OneLocal(C)
    PROVE  Best(C) \in C /\ \A o \in C : Ahead(Best(C), o)
<1> DEFINE Missed(c) == {o \in C : ~ Ahead(c, o)}
           T == {Missed(c) : c \in C}
<1>1. T \subseteq FiniteSubsetsOf(C) /\ T # {}
  <2>1. \A c \in C : Missed(c) \in SUBSET C
    OBVIOUS
  <2>2. \A D \in SUBSET C : IsFiniteSet(D)
    BY FS_Subset
  <2>3. QED
    BY <2>1, <2>2 DEF FiniteSubsetsOf
<1>2. PICK X \in T : \A Y \in T : ~ (<<Y, X>> \in StrictSubsetOrdering(C))
  <2>1. IsWellFoundedOn(StrictSubsetOrdering(C), FiniteSubsetsOf(C))
    BY FS_StrictSubsetOrderingWellFounded
  <2> HIDE DEF T
  <2>2. QED
    BY <1>1, <2>1, WFMin
<1>3. PICK c \in C : X = Missed(c)
  BY <1>2
<1>4. ASSUME NEW o \in Missed(c) PROVE FALSE
  <2>1. o \in C /\ ~ Ahead(c, o)
    BY <1>4
  <2>2. Missed(o) \subseteq Missed(c) /\ o \in Missed(c) /\ o \notin Missed(o)
    BY <2>1, AheadIsOrder
  <2>3. <<Missed(o), Missed(c)>> \in StrictSubsetOrdering(C)
    BY <2>2 DEF StrictSubsetOrdering
  <2>4. QED
    BY <1>2, <1>3, <2>1, <2>3
<1>5. \A o \in C : Ahead(c, o)
  BY <1>4
<1>6. QED
  BY <1>5 DEF Best

-----------------------------------------------------------------------------
(* What the pipelines return.                                                *)

LocalOffer(C) ==
    C \in SUBSET Candidate /\ IsFiniteSet(C)
    /\ \A k, o \in C : k.src \in Campaigns /\ k.ad = "own" /\ k = o

Offer(s, C) ==
    C \in SUBSET Candidate /\ IsFiniteSet(C)
    /\ \A k \in C : k.src = s /\ (s \in Tags => k.ad = "redirect")

LEMMA LocalOffers ==
    /\ LocalOffer({})
    /\ \A c \in Campaigns, b \in LocalBids :
           LocalOffer({[src |-> c, at |-> 1, bid |-> 100 * b, ad |-> "own"]})
<1>1. LocalOffer({})
  BY FS_EmptySet DEF LocalOffer
<1>2. ASSUME NEW c \in Campaigns, NEW b \in LocalBids
      PROVE  LocalOffer({[src |-> c, at |-> 1, bid |-> 100 * b, ad |-> "own"]})
  <2>1. 100 * b \in Nat
    BY TagAssumption
  <2>2. [src |-> c, at |-> 1, bid |-> 100 * b, ad |-> "own"] \in Candidate
    BY <2>1 DEF Candidate, Kinds
  <2>3. PICK k \in Candidate : k = [src |-> c, at |-> 1, bid |-> 100 * b, ad |-> "own"]
    BY <2>2
  <2>4. k.src = c /\ k.ad = "own"
    BY <2>3
  <2>5. LocalOffer({k})
    BY <2>4, FS_Singleton DEF LocalOffer
  <2>6. QED
    BY <2>3, <2>5
<1>3. QED
  BY <1>1, <1>2

LEMMA TagOffers ==
    ASSUME NEW s \in Tags
    PROVE  Offer(s, {[src |-> s, at |-> 1, bid |-> 100 * Cpm[s], ad |-> "redirect"]})
<1>1. 100 * Cpm[s] \in Nat
  BY TagAssumption
<1>2. [src |-> s, at |-> 1, bid |-> 100 * Cpm[s], ad |-> "redirect"] \in Candidate
  BY <1>1 DEF Candidate, Kinds, Sources
<1>3. PICK k \in Candidate : k = [src |-> s, at |-> 1, bid |-> 100 * Cpm[s], ad |-> "redirect"]
  BY <1>2
<1>4. k.src = s /\ k.ad = "redirect"
  BY <1>3
<1>5. Offer(s, {k})
  BY <1>4, FS_Singleton DEF Offer
<1>6. QED
  BY <1>3, <1>5

LEMMA NoOffer == \A s : Offer(s, {})
  BY FS_EmptySet DEF Offer

LEMMA EndpointOffers ==
    ASSUME NEW e \in Endpoints, NEW response \in Responses
    PROVE  Offer(e, Taken(e, response))
<1> DEFINE D == {j \in DOMAIN response : response[j].ad # "void"}
           Kept(i) == [src |-> e, at |-> i, bid |-> response[i].price * (100 - Margin[e]),
                       ad |-> response[i].ad]
<1>1. PICK n \in 0 .. MaxBids :
          response \in [1 .. n -> [price : Prices, ad : (Kinds \ {"own"}) \cup {"void"}]]
  BY DEF Responses
<1>2. n \in Nat /\ D \in SUBSET (1 .. n)
  BY <1>1, TagAssumption
<1>3. IsFiniteSet(D)
  BY <1>2, FS_Interval, FS_Subset
<1>4. ASSUME NEW i \in D PROVE Kept(i) \in Candidate
  <2>1. response[i] \in [price : Prices, ad : (Kinds \ {"own"}) \cup {"void"}]
    BY <1>1, <1>2
  <2>2. PICK p \in Nat : p = response[i].price
    BY <2>1, TagAssumption
  <2>3. PICK m \in Nat : m = 100 - Margin[e]
    BY TagAssumption
  <2>4. p * m \in Nat
    OBVIOUS
  <2>5. response[i].ad \in Kinds
    BY <2>1
  <2>6. i \in Nat
    BY <1>2
  <2>7. QED
    BY <2>2, <2>3, <2>4, <2>5, <2>6 DEF Candidate, Sources
<1>5. Taken(e, response) = {Kept(i) : i \in D}
  BY DEF Taken
<1>6. IsFiniteSet(Taken(e, response))
  <2> DEFINE f == [i \in D |-> Kept(i)]
  <2>1. f \in Surjection(D, {Kept(i) : i \in D})
    BY DEF Surjection
  <2> HIDE DEF f, D, Kept
  <2>2. QED
    BY <1>3, <1>5, <2>1, FS_Surjection
<1>7. \A k \in Taken(e, response) : k.src = e /\ k \in Candidate
  BY <1>4, <1>5
<1>8. e \notin Tags
  BY TagAssumption
<1>9. QED
  BY <1>6, <1>7, <1>8 DEF Offer

-----------------------------------------------------------------------------
(* The inductive invariant.                                                  *)

\* What became of a request with these candidates.
Answered(r, C) ==
    /\ local[r] # Pending /\ \A s \in Sources : offers[r][s] # Pending
    /\ answer[r] = IF C = {} \/ Best(C).ad = "bare" THEN NoAd ELSE Best(C)
    /\ task[r].requests # "none"
    /\ task[r].opps = "none" <=> C = {}
    /\ task[r].notice # "none" => C # {} /\ Best(C).ad = "noticed"
    /\ \A e \in told[r] : C # {} /\ Best(C).ad = "noticed" /\ Best(C).src = e

Offered ==
    \A r \in Requests :
        /\ local[r] # Pending => LocalOffer(local[r])
        /\ \A s \in Sources : offers[r][s] # Pending => Offer(s, offers[r][s])
        /\ \A e \in Endpoints : offers[r][e] = Pending => attempts[r][e] <= Retries
        /\ asked[r] = Pending => \A s \in Sources : offers[r][s] = Pending

Progressed ==
    \A r \in Requests :
        IF pc[r] = "done" THEN Answered(r, Candidates(r))
        ELSE task[r] = NoTasks /\ told[r] = {}

Types ==
    /\ pc \in [Requests -> {"idle", "running", "done", "lost"}]
    /\ local \in [Requests -> {Pending} \cup SUBSET Candidate]
    /\ asked \in [Requests -> {Pending} \cup SUBSET Sources]
    /\ offers \in [Requests -> [Sources -> {Pending} \cup SUBSET Candidate]]
    /\ attempts \in [Requests -> [Endpoints -> 0 .. Retries + 1]]
    /\ stats \in [Endpoints -> [total : Nat, bids : Nat, nobids : Nat, timeouts : Nat,
                                errors : Nat]]
    /\ answer \in [Requests -> Candidate \cup {NoAd}]
    /\ task \in [Requests -> [DOMAIN NoTasks -> {"none", "due", "done", "lost"}]]
    /\ requests \in [Groups -> Nat] /\ opps \in [Groups -> Nat]
    /\ told \in [Requests -> SUBSET Endpoints]

IInv == Types /\ Offered /\ Progressed

LEMMA TypesImply == Types => TypeOK
<1> SUFFICES ASSUME Types PROVE TypeOK
  OBVIOUS
<1>1. ASSUME NEW r \in Requests
      PROVE  /\ local[r] = Pending \/ local[r] \subseteq Candidate
             /\ asked[r] = Pending \/ asked[r] \subseteq Sources
             /\ \A s \in Sources : offers[r][s] = Pending \/ offers[r][s] \subseteq Candidate
  BY DEF Types
<1>2. QED
  BY <1>1 DEF Types, TypeOK

LEMMA TaskNames == DOMAIN NoTasks = {"requests", "opps", "notice"}
  BY DEF NoTasks

LEMMA InitInv == Init => IInv
<1> SUFFICES ASSUME Init PROVE IInv
  OBVIOUS
<1>1. NoTasks \in [DOMAIN NoTasks -> {"none", "due", "done", "lost"}]
  BY DEF NoTasks
<1>2. Types
  BY <1>1, TagAssumption DEF Init, Types, NoStats
<1>3. Offered
  BY TagAssumption DEF Init, Offered, Sources
<1>4. Progressed
  BY DEF Init, Progressed
<1>5. QED
  BY <1>2, <1>3, <1>4 DEF IInv

\* The candidates of a request that has them all.
LEMMA CandidatesOk ==
    ASSUME Types, Offered, NEW r \in Requests,
           local[r] # Pending, \A s \in Sources : offers[r][s] # Pending
    PROVE  /\ Candidates(r) \in SUBSET Candidate /\ IsFiniteSet(Candidates(r))
           /\ OneLocal(Candidates(r))
           /\ \A k \in Candidates(r) : k.ad \notin {"own", "redirect"} => k.src \in Endpoints
<1> DEFINE O == {offers[r][s] : s \in Sources}
<1>1. LocalOffer(local[r]) /\ \A s \in Sources : Offer(s, offers[r][s])
  BY DEF Offered
<1>2. IsFiniteSet(O)
  <2> DEFINE f == [s \in Sources |-> offers[r][s]]
  <2>1. f \in Surjection(Sources, O)
    BY DEF Surjection
  <2> HIDE DEF f, O
  <2>2. QED
    BY <2>1, FS_Surjection, TagAssumption
<1>3. \A X \in O : IsFiniteSet(X)
  BY <1>1 DEF Offer
<1>4. IsFiniteSet(UNION O)
  <2> HIDE DEF O
  <2>1. QED
    BY <1>2, <1>3, FS_UNION
<1>5. IsFiniteSet(Candidates(r))
  BY <1>1, <1>4, FS_Union DEF Candidates, LocalOffer
<1>6. Candidates(r) \in SUBSET Candidate
  BY <1>1 DEF Candidates, LocalOffer, Offer
<1>7. \A k \in Candidates(r) : k \in local[r] \/ \E s \in Sources : k.src = s /\ k \in offers[r][s]
  BY <1>1 DEF Candidates, Offer
<1>8. OneLocal(Candidates(r))
  BY <1>1, <1>7, TagAssumption DEF OneLocal, LocalOffer
<1>9. \A k \in Candidates(r) : k.ad \notin {"own", "redirect"} => k.src \in Endpoints
  BY <1>1, <1>7 DEF LocalOffer, Offer, Sources
<1>10. QED
  BY <1>5, <1>6, <1>8, <1>9

LEMMA BestOfRequest ==
    ASSUME Types, Offered, NEW r \in Requests, Candidates(r) # {},
           local[r] # Pending, \A s \in Sources : offers[r][s] # Pending
    PROVE  /\ Best(Candidates(r)) \in Candidates(r) /\ Best(Candidates(r)) \in Candidate
           /\ \A o \in Candidates(r) : Ahead(Best(Candidates(r)), o)
           /\ Best(Candidates(r)).ad = "noticed" => Best(Candidates(r)).src \in Endpoints
<1>1. Best(Candidates(r)) \in Candidates(r)
      /\ \A o \in Candidates(r) : Ahead(Best(Candidates(r)), o)
  BY CandidatesOk, BestExists
<1>2. QED
  BY <1>1, CandidatesOk

-----------------------------------------------------------------------------
(* Steps of the pipelines.                                                   *)

\* They concern one request that is running.
LEMMA RunningInv ==
    ASSUME IInv, Types', Offered', NEW r \in Requests, pc[r] = "running",
           UNCHANGED <<pc, answer, task, told>>,
           \A q \in Requests : q # r => local'[q] = local[q] /\ offers'[q] = offers[q]
    PROVE  IInv'
<1>1. ASSUME NEW q \in Requests, q # r PROVE Candidates(q)' = Candidates(q)
  BY <1>1 DEF Candidates
<1>2. ASSUME NEW q \in Requests, pc[q] = "done" PROVE Answered(q, Candidates(q))'
  BY <1>1, <1>2 DEF IInv, Progressed, Answered
<1>3. Progressed'
  BY <1>2 DEF IInv, Progressed
<1>4. QED
  BY <1>3 DEF IInv

LEMMA PendingIsNoOffer == \A s, C : Offer(s, C) \/ LocalOffer(C) => C # Pending
  BY MarksAssumption DEF Offer, LocalOffer

LEMMA ServeLocalInv == ASSUME IInv, NEW r \in Requests, ServeLocal(r) PROVE IInv'
<1> USE DEF IInv
<1>1. PICK C : LocalOffer(C) /\ local' = [local EXCEPT ![r] = C]
  <2>1. CASE local' = [local EXCEPT ![r] = {}]
    BY <2>1, LocalOffers
  <2>2. CASE \E c \in Campaigns, b \in LocalBids :
                local' = [local EXCEPT ![r] =
                             {[src |-> c, at |-> 1, bid |-> 100 * b, ad |-> "own"]}]
    BY <2>2, LocalOffers
  <2>3. QED
    BY <2>1, <2>2 DEF ServeLocal
<1>2. /\ UNCHANGED <<pc, asked, offers, attempts, stats, answer, task, counters, told>>
      /\ pc[r] = "running"
  BY DEF ServeLocal
<1>3. Types'
  BY <1>1, <1>2 DEF Types, LocalOffer
<1>4. Offered'
  BY <1>1, <1>2 DEF Offered, Types
<1>5. QED
  BY <1>1, <1>2, <1>3, <1>4, RunningInv DEF Types

LEMMA ForwardInv == ASSUME IInv, NEW r \in Requests, Forward(r) PROVE IInv'
<1> USE DEF IInv
<1>1. PICK S \in SUBSET Sources :
          /\ asked' = [asked EXCEPT ![r] = S]
          /\ offers' = [offers EXCEPT ![r] = [s \in Sources |->
                 IF s \notin S THEN {}
                 ELSE IF s \in Endpoints THEN Pending
                 ELSE {[src |-> s, at |-> 1, bid |-> 100 * Cpm[s], ad |-> "redirect"]}]]
  BY DEF Forward
<1>2. /\ UNCHANGED <<pc, local, attempts, stats, answer, task, counters, told>>
      /\ pc[r] = "running" /\ asked[r] = Pending
  BY DEF Forward
<1>3. PICK F : /\ offers' = [offers EXCEPT ![r] = F]
               /\ F \in [Sources -> {Pending} \cup SUBSET Candidate]
               /\ \A s \in Sources : F[s] = Pending \/ Offer(s, F[s])
  <2> DEFINE Redirect(s) == {[src |-> s, at |-> 1, bid |-> 100 * Cpm[s], ad |-> "redirect"]}
             G == [s \in Sources |-> IF s \notin S THEN {}
                                     ELSE IF s \in Endpoints THEN Pending ELSE Redirect(s)]
  <2>1. offers' = [offers EXCEPT ![r] = G]
    BY <1>1
  <2>2. \A s \in Tags : Offer(s, Redirect(s))
    BY TagOffers
  <2> HIDE DEF Redirect
  <2>3. \A s \in Sources : G[s] = Pending \/ Offer(s, G[s])
    BY <2>2, NoOffer DEF Sources
  <2>4. \A s \in Sources : G[s] \in {Pending} \cup SUBSET Candidate
    BY <2>3 DEF Offer
  <2> HIDE DEF G
  <2>5. G \in [Sources -> {Pending} \cup SUBSET Candidate]
    BY <2>4 DEF G
  <2>6. QED
    BY <2>1, <2>3, <2>5
<1>5. Types'
  BY <1>1, <1>2, <1>3 DEF Types
<1>6. S # Pending
  BY MarksAssumption
<1>7. Offered'
  <2> SUFFICES ASSUME NEW q \in Requests
               PROVE  /\ local[q] # Pending => LocalOffer(local[q])
                      /\ \A s \in Sources : offers'[q][s] # Pending => Offer(s, offers'[q][s])
                      /\ \A e \in Endpoints : offers'[q][e] = Pending
                                                  => attempts[q][e] <= Retries
                      /\ asked'[q] = Pending => \A s \in Sources : offers'[q][s] = Pending
    BY <1>2 DEF Offered
  <2>1. CASE q # r
    BY <1>1, <1>3, <2>1 DEF Offered, Types
  <2>2. CASE q = r
    <3>1. offers'[q] = F /\ asked'[q] = S
      BY <1>1, <1>3, <2>2 DEF Types
    <3>2. \A e \in Endpoints : attempts[q][e] <= Retries
      BY <1>2, <2>2 DEF Offered, Sources
    <3>3. QED
      BY <1>3, <1>6, <3>1, <3>2 DEF Offered
  <2>3. QED
    BY <2>1, <2>2
<1>8. QED
  BY <1>2, <1>3, <1>5, <1>7, RunningInv DEF Types

\* An attempt, whatever its outcome, ends the call or leaves another attempt to it.
LEMMA AttemptInv ==
    ASSUME IInv, NEW r \in Requests, NEW e \in Endpoints, Calling(r, e),
           attempts' = [attempts EXCEPT ![r][e] = @ + 1],
           stats' \in [Endpoints -> [total : Nat, bids : Nat, nobids : Nat, timeouts : Nat,
                                      errors : Nat]],
           UNCHANGED <<pc, local, asked, answer, task, counters, told>>,
           \/ offers' = offers /\ attempts[r][e] < Retries
           \/ \E C : Offer(e, C) /\ offers' = [offers EXCEPT ![r][e] = C]
    PROVE  IInv'
<1> USE DEF IInv
<1>1. e \in Sources /\ pc[r] = "running" /\ offers[r][e] = Pending /\ asked[r] # Pending
  BY DEF Calling, Sources
<1>2. attempts[r] \in [Endpoints -> 0 .. Retries + 1] /\ attempts[r][e] <= Retries
  BY <1>1 DEF Types, Offered
<1>3. PICK A : A = [attempts[r] EXCEPT ![e] = @ + 1] /\ attempts' = [attempts EXCEPT ![r] = A]
  OBVIOUS
<1>4. A[e] = attempts[r][e] + 1 /\ \A d \in Endpoints : d # e => A[d] = attempts[r][d]
  BY <1>2, <1>3
<1>5. A \in [Endpoints -> 0 .. Retries + 1]
  <2>1. attempts[r][e] + 1 \in 0 .. Retries + 1
    BY <1>2, TagAssumption
  <2>2. QED
    BY <1>2, <1>3, <2>1
<1>6. attempts' \in [Requests -> [Endpoints -> 0 .. Retries + 1]]
  BY <1>3, <1>5 DEF Types
<1>7. PICK F : /\ offers' = [offers EXCEPT ![r] = F]
               /\ F \in [Sources -> {Pending} \cup SUBSET Candidate]
               /\ \A s \in Sources : s # e => F[s] = offers[r][s]
               /\ (F[e] = Pending /\ attempts[r][e] < Retries) \/ Offer(e, F[e])
  <2>1. offers[r] \in [Sources -> {Pending} \cup SUBSET Candidate]
    BY DEF Types
  <2>2. CASE offers' = offers /\ attempts[r][e] < Retries
    <3>1. offers' = [offers EXCEPT ![r] = offers[r]]
      BY <2>2 DEF Types
    <3>2. QED
      BY <1>1, <2>1, <2>2, <3>1
  <2>3. ASSUME NEW C, Offer(e, C), offers' = [offers EXCEPT ![r][e] = C]
        PROVE  \E F : /\ offers' = [offers EXCEPT ![r] = F]
                      /\ F \in [Sources -> {Pending} \cup SUBSET Candidate]
                      /\ \A s \in Sources : s # e => F[s] = offers[r][s]
                      /\ Offer(e, F[e])
    <3>1. PICK F : F = [offers[r] EXCEPT ![e] = C]
      OBVIOUS
    <3>2. offers' = [offers EXCEPT ![r] = F]
      BY <2>3, <3>1
    <3>3. /\ F \in [Sources -> {Pending} \cup SUBSET Candidate]
          /\ \A s \in Sources : s # e => F[s] = offers[r][s]
          /\ F[e] = C
      BY <1>1, <2>1, <2>3, <3>1 DEF Offer
    <3>4. QED
      BY <2>3, <3>2, <3>3
  <2>4. QED
    BY <2>2, <2>3
<1>8. Types'
  <2>1. offers' \in [Requests -> [Sources -> {Pending} \cup SUBSET Candidate]]
    BY <1>7 DEF Types
  <2>2. QED
    BY <1>6, <2>1 DEF Types
<1>9. Offered'
  <2> SUFFICES ASSUME NEW q \in Requests
               PROVE  /\ local[q] # Pending => LocalOffer(local[q])
                      /\ \A s \in Sources : offers'[q][s] # Pending => Offer(s, offers'[q][s])
                      /\ \A d \in Endpoints : offers'[q][d] = Pending
                                                  => attempts'[q][d] <= Retries
                      /\ asked[q] = Pending => \A s \in Sources : offers'[q][s] = Pending
    BY DEF Offered
  <2>1. CASE q # r
    <3>1. offers'[q] = offers[q] /\ attempts'[q] = attempts[q]
      BY <1>3, <1>7, <2>1 DEF Types
    <3>2. QED
      BY <3>1 DEF Offered
  <2>2. CASE q = r
    <3>1. offers'[q] = F /\ attempts'[q] = A
      BY <1>3, <1>7, <2>2 DEF Types
    <3>2. ASSUME NEW d \in Endpoints, F[d] = Pending PROVE A[d] <= Retries
      <4>1. CASE d = e
        <5>1. attempts[r][e] < Retries
          BY <1>7, <3>2, <4>1, PendingIsNoOffer
        <5>2. QED
          BY <1>2, <1>4, <4>1, <5>1, TagAssumption
      <4>2. CASE d # e
        BY <1>4, <1>7, <3>2, <4>2 DEF Offered, Sources
      <4>3. QED
        BY <4>1, <4>2
    <3>3. ASSUME NEW s \in Sources, F[s] # Pending PROVE Offer(s, F[s])
      BY <1>7, <3>3 DEF Offered
    <3>4. QED
      BY <1>1, <2>2, <3>1, <3>2, <3>3 DEF Offered
  <2>3. QED
    BY <2>1, <2>2
<1>10. QED
  BY <1>1, <1>7, <1>8, <1>9, RunningInv DEF Types

\* The statistics keep their type.
LEMMA StatsTypes ==
    ASSUME Types, NEW e \in Endpoints, NEW o \in {"bids", "nobids", "timeouts", "errors"},
           NEW n \in Nat, stats' = [stats EXCEPT ![e] = Counted(@, n, o)]
    PROVE  stats' \in [Endpoints -> [total : Nat, bids : Nat, nobids : Nat, timeouts : Nat,
                                      errors : Nat]]
<1>1. PICK t \in [total : Nat, bids : Nat, nobids : Nat, timeouts : Nat, errors : Nat] :
          t = stats[e]
  BY DEF Types
<1>2. Counted(t, n, o)
          \in [total : Nat, bids : Nat, nobids : Nat, timeouts : Nat, errors : Nat]
  <2>1. /\ t.total + n \in Nat /\ t.bids + 1 \in Nat /\ t.nobids + 1 \in Nat
        /\ t.timeouts + 1 \in Nat /\ t.errors + 1 \in Nat
    BY <1>1
  <2>2. CASE o = "bids"
    BY <2>1, <2>2 DEF Counted
  <2>3. CASE o = "nobids"
    BY <2>1, <2>3 DEF Counted
  <2>4. CASE o = "timeouts"
    BY <2>1, <2>4 DEF Counted
  <2>5. CASE o = "errors"
    BY <2>1, <2>5 DEF Counted
  <2>6. QED
    BY <2>2, <2>3, <2>4, <2>5
<1>3. PICK u : u = Counted(stats[e], n, o)
  OBVIOUS
<1>4. stats' = [stats EXCEPT ![e] = u]
  BY <1>3
<1>5. QED
  BY <1>1, <1>2, <1>3, <1>4 DEF Types

LEMMA AttemptsInv ==
    ASSUME IInv, NEW r \in Requests, NEW e \in Endpoints, Attempt(r, e) PROVE IInv'
<1>1. ASSUME NEW o \in {"bids", "nobids", "timeouts", "errors"}, Judge(r, e, o)
      PROVE  /\ attempts' = [attempts EXCEPT ![r][e] = @ + 1]
             /\ stats' \in [Endpoints -> [total : Nat, bids : Nat, nobids : Nat,
                                           timeouts : Nat, errors : Nat]]
             /\ UNCHANGED <<pc, local, asked, answer, task, counters, told>>
  BY <1>1, StatsTypes DEF Judge, IInv
<1>2. ASSUME TryAgain(r, e)
      PROVE  \/ offers' = offers /\ attempts[r][e] < Retries
             \/ \E C : Offer(e, C) /\ offers' = [offers EXCEPT ![r][e] = C]
  BY <1>2, NoOffer DEF TryAgain, Return
<1>3. CASE Bid(r, e)
  <2>1. PICK response \in Responses :
            /\ Judge(r, e, IF Taken(e, response) = {} THEN "nobids" ELSE "bids")
            /\ Return(r, e, Taken(e, response))
    BY <1>3 DEF Bid
  <2>2. \E C : Offer(e, C) /\ offers' = [offers EXCEPT ![r][e] = C]
    BY <2>1, EndpointOffers DEF Return
  <2>3. QED
    BY <1>1, <1>3, <2>1, <2>2, AttemptInv DEF Bid
<1>4. CASE ServerError(r, e)
  BY <1>1, <1>2, <1>4, AttemptInv DEF ServerError
<1>5. CASE Timeout(r, e)
  BY <1>1, <1>2, <1>5, AttemptInv DEF Timeout
<1>6. CASE Refuse(r, e)
  BY <1>1, <1>6, NoOffer, AttemptInv DEF Refuse, Return
<1>7. CASE Garbage(r, e)
  <2>1. stats' = [stats EXCEPT ![e] = Counted(@, 2, "errors")]
    BY <1>7 DEF Garbage
  <2>2. stats' \in [Endpoints -> [total : Nat, bids : Nat, nobids : Nat,
                                  timeouts : Nat, errors : Nat]]
    BY <2>1, StatsTypes DEF IInv
  <2>3. QED
    BY <1>7, <2>2, NoOffer, AttemptInv DEF Garbage, Return
<1>8. QED
  BY <1>3, <1>4, <1>5, <1>6, <1>7 DEF Attempt

LEMMA AnswerInv == ASSUME IInv, NEW r \in Requests, Answer(r) PROVE IInv'
<1> USE DEF IInv
<1>1. PICK C : C = Candidates(r)
  OBVIOUS
<1>2. /\ local[r] # Pending /\ \A s \in Sources : offers[r][s] # Pending
      /\ pc[r] = "running"
      /\ answer' = [answer EXCEPT ![r] =
                        IF C = {} \/ Best(C).ad = "bare" THEN NoAd ELSE Best(C)]
      /\ task' = [task EXCEPT ![r] = Tasks(C)]
      /\ pc' = [pc EXCEPT ![r] = "done"]
      /\ UNCHANGED <<local, asked, offers, attempts, stats, counters, told>>
  BY <1>1 DEF Answer, Gathered
<1>3. C # {} => Best(C) \in Candidate
  BY <1>1, <1>2, BestOfRequest
<1>4. Tasks(C) \in [DOMAIN NoTasks -> {"none", "due", "done", "lost"}]
  BY DEF Tasks, NoTasks
<1>5. Types'
  BY <1>2, <1>3, <1>4 DEF Types
<1>6. Offered'
  BY <1>2 DEF Offered
<1>7. \A q \in Requests : Candidates(q)' = Candidates(q)
  BY <1>2 DEF Candidates
<1>8. told[r] = {}
  BY <1>2 DEF Progressed
<1>9. Answered(r, C)'
  <2>1. task'[r] = Tasks(C)
        /\ answer'[r] = IF C = {} \/ Best(C).ad = "bare" THEN NoAd ELSE Best(C)
    BY <1>2 DEF Types
  <2>2. /\ Tasks(C).requests = "due" /\ (Tasks(C).opps = "none" <=> C = {})
        /\ Tasks(C).notice # "none" => C # {} /\ Best(C).ad = "noticed"
    BY DEF Tasks
  <2>3. QED
    BY <1>2, <1>8, <2>1, <2>2 DEF Answered
<1>10. ASSUME NEW q \in Requests
       PROVE  IF pc'[q] = "done" THEN Answered(q, Candidates(q))'
              ELSE task'[q] = NoTasks /\ told'[q] = {}
  <2>1. CASE q = r
    BY <1>1, <1>2, <1>7, <1>9, <2>1 DEF Types
  <2>2. CASE q # r
    <3>1. pc'[q] = pc[q] /\ task'[q] = task[q] /\ answer'[q] = answer[q]
      BY <1>2, <2>2 DEF Types
    <3>2. QED
      BY <1>2, <1>7, <3>1 DEF Progressed, Answered
  <2>3. QED
    BY <2>1, <2>2
<1>11. QED
  BY <1>5, <1>6, <1>10 DEF Progressed

-----------------------------------------------------------------------------
(* The tasks.                                                                *)

\* A task that ends was due, so that its request is answered.
LEMMA FinishInv ==
    ASSUME IInv, NEW r \in Requests, NEW t \in DOMAIN NoTasks, NEW how \in {"done", "lost"},
           Finish(r, t, how), requests' \in [Groups -> Nat], opps' \in [Groups -> Nat],
           \/ told' = told
           \/ /\ t = "notice"
              /\ told' = [told EXCEPT ![r] = @ \cup {Best(Candidates(r)).src}]
    PROVE  IInv'
<1> USE DEF IInv
<1>1. /\ task[r][t] = "due" /\ task' = [task EXCEPT ![r][t] = how]
      /\ UNCHANGED <<pc, local, asked, offers, attempts, stats, answer>>
  BY DEF Finish
<1>2. PICK C : C = Candidates(r)
  OBVIOUS
<1>3. pc[r] = "done" /\ Answered(r, C)
  <2>1. task[r] # NoTasks
    BY <1>1, TaskNames DEF NoTasks
  <2>2. QED
    BY <1>2, <2>1 DEF Progressed
<1>4. PICK T : T = [task[r] EXCEPT ![t] = how] /\ task' = [task EXCEPT ![r] = T]
  BY <1>1
<1>5. /\ T \in [DOMAIN NoTasks -> {"none", "due", "done", "lost"}]
      /\ \A u \in DOMAIN NoTasks : T[u] = "none" <=> task[r][u] = "none"
  BY <1>1, <1>4 DEF Types
<1>6. t = "notice" => C # {} /\ Best(C).ad = "noticed"
  BY <1>1, <1>3 DEF Answered
<1>7. PICK W \in SUBSET Endpoints :
          /\ told' = [told EXCEPT ![r] = W]
          /\ \A e \in W : e \in told[r] \/ (t = "notice" /\ e = Best(C).src)
  <2>1. told[r] \in SUBSET Endpoints
    BY DEF Types
  <2>2. CASE told' = told
    <3>1. PICK W : W = told[r]
      OBVIOUS
    <3>2. W \in SUBSET Endpoints /\ told' = [told EXCEPT ![r] = W]
      BY <2>1, <2>2, <3>1 DEF Types
    <3>3. \A e \in W : e \in told[r] \/ (t = "notice" /\ e = Best(C).src)
      BY <3>1
    <3>4. QED
      BY <3>2, <3>3
  <2>3. CASE t = "notice" /\ told' = [told EXCEPT ![r] = @ \cup {Best(Candidates(r)).src}]
    <3>1. Best(C).src \in Endpoints
      BY <1>2, <1>3, <1>6, <2>3, BestOfRequest DEF Answered
    <3>2. PICK W : W = told[r] \cup {Best(C).src}
      OBVIOUS
    <3>3. W \in SUBSET Endpoints /\ told' = [told EXCEPT ![r] = W]
      BY <1>2, <2>1, <2>3, <3>1, <3>2
    <3>4. \A e \in W : e \in told[r] \/ (t = "notice" /\ e = Best(C).src)
      BY <2>3, <3>2
    <3>5. QED
      BY <3>3, <3>4
  <2>4. QED
    BY <2>2, <2>3
<1>8. Types'
  BY <1>1, <1>4, <1>5, <1>7 DEF Types
<1>9. Offered'
  BY <1>1 DEF Offered
<1>10. \A q \in Requests : Candidates(q)' = Candidates(q)
  BY <1>1 DEF Candidates
<1>11. Answered(r, C)'
  <2>1. task'[r] = T /\ told'[r] = W
    BY <1>4, <1>7 DEF Types
  <2>2. /\ T.requests = "none" <=> task[r].requests = "none"
        /\ T.opps = "none" <=> task[r].opps = "none"
        /\ T.notice = "none" <=> task[r].notice = "none"
    BY <1>5, TaskNames
  <2>3. \A e \in W : C # {} /\ Best(C).ad = "noticed" /\ Best(C).src = e
    BY <1>3, <1>6, <1>7 DEF Answered
  <2>4. QED
    BY <1>1, <1>3, <2>1, <2>2, <2>3 DEF Answered
<1>12. ASSUME NEW q \in Requests
       PROVE  IF pc'[q] = "done" THEN Answered(q, Candidates(q))'
              ELSE task'[q] = NoTasks /\ told'[q] = {}
  <2>1. CASE q = r
    BY <1>1, <1>2, <1>3, <1>10, <1>11, <2>1
  <2>2. CASE q # r
    <3>1. told'[q] = told[q] /\ task'[q] = task[q]
      BY <1>4, <1>7, <2>2 DEF Types
    <3>2. QED
      BY <1>1, <1>10, <3>1 DEF Progressed, Answered
  <2>3. QED
    BY <2>1, <2>2
<1>13. QED
  BY <1>8, <1>9, <1>12 DEF Progressed

LEMMA BackgroundInv == ASSUME IInv, NEW r \in Requests, Background(r) PROVE IInv'
<1>1. requests \in [Groups -> Nat] /\ opps \in [Groups -> Nat]
  BY DEF IInv, Types
<1>2. CASE CountRequest(r)
  <2>1. requests' \in [Groups -> Nat]
    BY <1>1, <1>2 DEF CountRequest
  <2>2. QED
    BY <1>1, <1>2, <2>1, FinishInv, TaskNames DEF CountRequest
<1>3. CASE CountOpportunity(r)
  <2>1. opps' \in [Groups -> Nat]
    BY <1>1, <1>3 DEF CountOpportunity
  <2>2. QED
    BY <1>1, <1>3, <2>1, FinishInv, TaskNames DEF CountOpportunity
<1>4. CASE Notify(r)
  BY <1>1, <1>4, FinishInv, TaskNames DEF Notify
<1>5. ASSUME NEW t \in DOMAIN NoTasks, GiveUp(r, t) PROVE IInv'
  BY <1>1, <1>5, FinishInv DEF GiveUp
<1>6. QED
  BY <1>2, <1>3, <1>4, <1>5 DEF Background

LEMMA CrashInv == ASSUME IInv, Crash PROVE IInv'
<1> USE DEF IInv
<1>1. /\ pc' = [r \in Requests |-> IF pc[r] = "running" THEN "lost" ELSE pc[r]]
      /\ task' = [r \in Requests |-> [t \in DOMAIN NoTasks |->
                      IF task[r][t] = "due" THEN "lost" ELSE task[r][t]]]
      /\ attempts' = [r \in Requests |-> [e \in Endpoints |-> 0]]
      /\ stats' = [e \in Endpoints |-> NoStats]
      /\ UNCHANGED <<local, asked, offers, answer, counters, told>>
  BY DEF Crash
<1>2. ASSUME NEW r \in Requests
      PROVE  /\ pc'[r] \in {"idle", "running", "done", "lost"}
             /\ pc'[r] = "done" <=> pc[r] = "done"
             /\ task'[r] \in [DOMAIN NoTasks -> {"none", "due", "done", "lost"}]
             /\ \A t \in DOMAIN NoTasks : task'[r][t] = "none" <=> task[r][t] = "none"
  BY <1>1 DEF Types
<1>3. Types'
  <2>1. pc' \in [Requests -> {"idle", "running", "done", "lost"}]
    BY <1>1 DEF Types
  <2>2. task' \in [Requests -> [DOMAIN NoTasks -> {"none", "due", "done", "lost"}]]
    BY <1>1, <1>2
  <2>3. attempts' \in [Requests -> [Endpoints -> 0 .. Retries + 1]]
    BY <1>1, TagAssumption
  <2>4. stats' \in [Endpoints -> [total : Nat, bids : Nat, nobids : Nat, timeouts : Nat,
                                  errors : Nat]]
    BY <1>1 DEF NoStats
  <2>5. QED
    BY <1>1, <2>1, <2>2, <2>3, <2>4 DEF Types
<1>4. Offered'
  BY <1>1, TagAssumption DEF Offered
<1>5. \A r \in Requests : Candidates(r)' = Candidates(r)
  BY <1>1 DEF Candidates
<1>6. ASSUME NEW r \in Requests, pc[r] = "done" PROVE Answered(r, Candidates(r))'
  <2>1. PICK C : C = Candidates(r) /\ C = Candidates(r)'
    BY <1>5
  <2>2. Answered(r, C)
    BY <1>6, <2>1 DEF Progressed
  <2>3. /\ task'[r].requests = "none" <=> task[r].requests = "none"
        /\ task'[r].opps = "none" <=> task[r].opps = "none"
        /\ task'[r].notice = "none" <=> task[r].notice = "none"
    BY <1>2, TaskNames
  <2>4. QED
    BY <1>1, <2>1, <2>2, <2>3 DEF Answered
<1>7. ASSUME NEW r \in Requests, pc[r] # "done" PROVE task'[r] = NoTasks /\ told'[r] = {}
  BY <1>1, <1>7 DEF Progressed, NoTasks
<1>8. QED
  BY <1>2, <1>3, <1>4, <1>6, <1>7 DEF Progressed

-----------------------------------------------------------------------------
(* The theorems.                                                             *)

LEMMA StepInv == IInv /\ [Next]_vars => IInv'
<1> SUFFICES ASSUME IInv, [Next]_vars PROVE IInv'
  OBVIOUS
<1>1. ASSUME NEW r \in Requests, Arrive(r) PROVE IInv'
  <2>1. /\ pc[r] = "idle" /\ pc' = [pc EXCEPT ![r] = "running"]
        /\ UNCHANGED <<local, asked, offers, attempts, stats, answer, task, counters, told>>
    BY <1>1 DEF Arrive
  <2>2. \A q \in Requests : /\ pc'[q] = "done" <=> pc[q] = "done"
                            /\ Candidates(q)' = Candidates(q)
    BY <2>1 DEF IInv, Types, Candidates
  <2>3. QED
    BY <2>1, <2>2 DEF IInv, Types, Offered, Progressed, Answered
<1>2. ASSUME NEW r \in Requests, Step(r) PROVE IInv'
  BY <1>2, ServeLocalInv, ForwardInv, AnswerInv, AttemptsInv DEF Step
<1>3. ASSUME NEW r \in Requests, Background(r) PROVE IInv'
  BY <1>3, BackgroundInv
<1>4. CASE Crash
  BY <1>4, CrashInv
<1>5. CASE UNCHANGED vars
  <2>1. \A q \in Requests : Candidates(q)' = Candidates(q)
    BY <1>5 DEF Candidates
  <2>2. QED
    BY <1>5, <2>1 DEF IInv, Types, Offered, Progressed, Answered
<1>6. QED
  BY <1>1, <1>2, <1>3, <1>4, <1>5 DEF Next

LEMMA Invariance == Spec => []IInv
  BY InitInv, StepInv, PTL DEF Spec

\* Every variable of a VAST tag request keeps its type through retries, crashes and
\* failed tasks; an endpoint is asked at most once more than _MAX_RETRIES.
THEOREM TypeCorrect == Spec => []TypeOK
<1>1. IInv => TypeOK
  BY TypesImply DEF IInv
<1>2. QED
  BY <1>1, Invariance, PTL

\* However many sources bid and whatever fails on the way, the document answered is that
\* of the best candidate, and none only if there is no candidate or the best is bare.
THEOREM HighestBidWins == Spec => []BestBidAnswered
<1>1. IInv => BestBidAnswered
  <2> SUFFICES ASSUME IInv, NEW r \in Requests, pc[r] = "done", NEW k \in Candidates(r)
               PROVE  \/ answer[r] # NoAd /\ Ahead(answer[r], k)
                      \/ /\ answer[r] = NoAd
                         /\ \E b \in Candidates(r) : b.ad = "bare" /\ Ahead(b, k)
    BY DEF BestBidAnswered
  <2>1. Answered(r, Candidates(r))
    BY DEF IInv, Progressed
  <2>2. /\ Best(Candidates(r)) \in Candidates(r) /\ Best(Candidates(r)) \in Candidate
        /\ Ahead(Best(Candidates(r)), k)
    BY <2>1, BestOfRequest DEF IInv, Answered
  <2>3. QED
    BY <2>1, <2>2, MarksAssumption DEF Answered
<1>2. QED
  BY <1>1, Invariance, PTL

\* A win notice reaches a partner only if its document was answered and asked for one.
THEOREM LosersHearNothing == Spec => []OnlyWinnersTold
<1>1. IInv => OnlyWinnersTold
  <2> SUFFICES ASSUME IInv, NEW r \in Requests, NEW e \in told[r]
               PROVE  answer[r] # NoAd /\ answer[r].src = e /\ answer[r].ad = "noticed"
    BY DEF OnlyWinnersTold
  <2>1. pc[r] = "done" /\ Answered(r, Candidates(r))
    BY DEF IInv, Progressed
  <2>2. /\ Candidates(r) # {} /\ Best(Candidates(r)).ad = "noticed"
        /\ Best(Candidates(r)).src = e /\ answer[r] = Best(Candidates(r))
    BY <2>1 DEF Answered
  <2>3. Best(Candidates(r)) \in Candidate
    BY <2>1, <2>2, BestOfRequest DEF IInv, Answered
  <2>4. QED
    BY <2>2, <2>3, MarksAssumption
<1>2. QED
  BY <1>1, Invariance, PTL

-----------------------------------------------------------------------------
(* The statistics.                                                           *)

Judged(entry) == entry.bids + entry.nobids + entry.timeouts + entry.errors

JudgedInv ==
    \A e \in Endpoints : /\ IsFiniteSet(Attempted(e))
                         /\ Judged(stats[e]) = Cardinality(Attempted(e))

\* An attempt that is over has one outcome, however often the request was counted.
LEMMA OneOutcome ==
    ASSUME NEW r \in Requests, NEW e \in Endpoints, Attempt(r, e)
    PROVE  /\ attempts' = [attempts EXCEPT ![r][e] = @ + 1]
           /\ \E n \in Nat, o \in {"bids", "nobids", "timeouts", "errors"} :
                  stats' = [stats EXCEPT ![e] = Counted(@, n, o)]
<1>1. ASSUME NEW o \in {"bids", "nobids", "timeouts", "errors"}, Judge(r, e, o)
      PROVE  /\ attempts' = [attempts EXCEPT ![r][e] = @ + 1]
             /\ stats' = [stats EXCEPT ![e] = Counted(@, 1, o)]
  BY <1>1 DEF Judge
<1>2. CASE Garbage(r, e)
  BY <1>2 DEF Garbage
<1>3. CASE Bid(r, e)
  BY <1>1, <1>3 DEF Bid
<1>4. CASE ServerError(r, e) \/ Timeout(r, e) \/ Refuse(r, e)
  BY <1>1, <1>4 DEF ServerError, Timeout, Refuse
<1>5. QED
  BY <1>2, <1>3, <1>4 DEF Attempt

LEMMA AttemptJudged ==
    ASSUME IInv, JudgedInv, NEW r \in Requests, NEW e \in Endpoints, Attempt(r, e)
    PROVE  JudgedInv'
<1>1. PICK n \in Nat, o \in {"bids", "nobids", "timeouts", "errors"} :
          stats' = [stats EXCEPT ![e] = Counted(@, n, o)]
  BY OneOutcome
<1>2. Calling(r, e)
  BY DEF Attempt, Bid, ServerError, Timeout, Refuse, Garbage
<1>3. PICK k \in 0 .. Retries : k = attempts[r][e]
  BY <1>2 DEF IInv, Types, Offered, Calling
<1>4. ASSUME NEW q \in Requests, NEW d \in Endpoints
      PROVE  attempts'[q][d] = IF q = r /\ d = e THEN k + 1 ELSE attempts[q][d]
  BY <1>3, OneOutcome DEF IInv, Types
<1>5. Attempted(e)' = Attempted(e) \cup {<<r, k + 1>>} /\ <<r, k + 1>> \notin Attempted(e)
  <2>1. 1 .. k + 1 = (1 .. k) \cup {k + 1} /\ k + 1 \notin 1 .. k
    OBVIOUS
  <2>2. \A q \in Requests : 1 .. attempts'[q][e] =
            IF q = r THEN (1 .. attempts[q][e]) \cup {k + 1} ELSE 1 .. attempts[q][e]
    BY <1>3, <1>4, <2>1
  <2>3. \A q, m : <<q, m>> \in Attempted(e)'
                     <=> <<q, m>> \in Attempted(e) \/ (q = r /\ m = k + 1)
    <3>1. \A q, m : /\ <<q, m>> \in Attempted(e) <=> q \in Requests /\ m \in 1 .. attempts[q][e]
                    /\ <<q, m>> \in Attempted(e)' <=> q \in Requests /\ m \in 1 .. attempts'[q][e]
      BY DEF Attempted
    <3>2. QED
      BY <2>2, <3>1
  <2>4. \A p \in Attempted(e) \cup Attempted(e)' : \E q, m : p = <<q, m>>
    BY DEF Attempted
  <2>5. <<r, k + 1>> \notin Attempted(e)
    BY <1>3, <2>1 DEF Attempted
  <2>6. QED
    BY <2>3, <2>4, <2>5
<1>6. Judged(stats'[e]) = Judged(stats[e]) + 1
  <2>1. PICK t \in [total : Nat, bids : Nat, nobids : Nat, timeouts : Nat, errors : Nat] :
            t = stats[e]
    BY DEF IInv, Types
  <2>2. stats'[e] = Counted(t, n, o)
    BY <1>1, <2>1 DEF IInv, Types
  <2>3. t.bids \in Nat /\ t.nobids \in Nat /\ t.timeouts \in Nat /\ t.errors \in Nat
    OBVIOUS
  <2>4. Judged(Counted(t, n, o)) = Judged(t) + 1
    BY <2>3 DEF Judged, Counted
  <2>5. QED
    BY <2>1, <2>2, <2>4
<1>7. ASSUME NEW d \in Endpoints, d # e
      PROVE  Attempted(d)' = Attempted(d) /\ stats'[d] = stats[d]
  BY <1>1, <1>4, <1>7 DEF Attempted, IInv, Types
<1>8. /\ IsFiniteSet(Attempted(e) \cup {<<r, k + 1>>})
      /\ Cardinality(Attempted(e) \cup {<<r, k + 1>>}) = Cardinality(Attempted(e)) + 1
  BY <1>5, FS_AddElement DEF JudgedInv
<1>9. QED
  BY <1>5, <1>6, <1>7, <1>8 DEF JudgedInv

LEMMA StepJudged == IInv /\ JudgedInv /\ [Next]_vars => JudgedInv'
<1> SUFFICES ASSUME IInv, JudgedInv, [Next]_vars PROVE JudgedInv'
  OBVIOUS
<1>1. CASE UNCHANGED <<attempts, stats>>
  BY <1>1 DEF JudgedInv, Attempted
<1>2. CASE Crash
  <2>1. ASSUME NEW e \in Endpoints PROVE Attempted(e)' = {} /\ Judged(stats[e])' = 0
    BY <1>2, TagAssumption DEF Crash, Attempted, Judged, NoStats
  <2>2. QED
    BY <2>1, FS_EmptySet DEF JudgedInv
<1>3. ASSUME NEW r \in Requests, Arrive(r) \/ Background(r)
      PROVE  UNCHANGED <<attempts, stats>>
  BY <1>3 DEF Arrive, Background, CountRequest, CountOpportunity, Notify, GiveUp, Finish
<1>4. ASSUME NEW r \in Requests, ServeLocal(r) \/ Forward(r) \/ Answer(r)
      PROVE  UNCHANGED <<attempts, stats>>
  BY <1>4 DEF ServeLocal, Forward, Answer
<1>5. QED
  BY <1>1, <1>2, <1>3, <1>4, AttemptJudged DEF Next, Step

\* Whatever happens to the attempts of all requests, each has exactly one outcome in the
\* statistics of its endpoint.
THEOREM OneOutcomeEach == Spec => []AttemptsJudgedOnce
<1>1. Init => JudgedInv
  <2> SUFFICES ASSUME Init, NEW e \in Endpoints
               PROVE  Attempted(e) = {} /\ Judged(stats[e]) = 0
    BY FS_EmptySet DEF JudgedInv
  <2>1. QED
    BY TagAssumption DEF Init, Attempted, Judged, NoStats
<1>2. JudgedInv => AttemptsJudgedOnce
  BY DEF JudgedInv, AttemptsJudgedOnce, Judged
<1>3. QED
  BY <1>1, <1>2, StepJudged, Invariance, InitInv, StepInv, PTL DEF Spec

-----------------------------------------------------------------------------
(* The counters.                                                             *)

\* The requests whose task of a kind is done.
Done(t) == {r \in Requests : task[r][t] = "done"}
DoneFor(t, c) == {r \in Done(t) : c \in LocalIds(r)}
Beyond == {r \in Done("requests") : HasDemand(r) \/ LocalIds(r) = {}}
WithDemand == {r \in Done("opps") : HasDemand(r)}

\* What each counter has counted.
Tally ==
    /\ \A c \in Campaigns : /\ requests[c] = Cardinality(DoneFor("requests", c))
                            /\ opps[c] = Cardinality(DoneFor("opps", c))
    /\ requests[Global] = Cardinality(Done("requests")) + Cardinality(Beyond)
    /\ opps[Global] = Cardinality(Done("opps")) + Cardinality(WithDemand)

LEMMA Joined ==
    ASSUME NEW S, IsFiniteSet(S), NEW r, r \notin S, NEW P \in BOOLEAN
    PROVE  Cardinality(IF P THEN S \cup {r} ELSE S) = Cardinality(S) + (IF P THEN 1 ELSE 0)
           /\ Cardinality(S) \in Nat
  BY FS_AddElement, FS_CardinalityType

LEMMA SetsFinite ==
    /\ \A t : IsFiniteSet(Done(t)) /\ \A c : IsFiniteSet(DoneFor(t, c))
    /\ IsFiniteSet(Beyond) /\ IsFiniteSet(WithDemand)
<1>1. \A S \in SUBSET Requests : IsFiniteSet(S)
  BY FS_Subset, TagAssumption
<1>2. QED
  BY <1>1 DEF Done, DoneFor, Beyond, WithDemand

\* Steps that complete no counting task, and touch only candidates of open requests.
LEMMA TallySame ==
    ASSUME Tally, UNCHANGED <<requests, opps>>,
           \A r \in Requests : /\ task'[r].requests = "done" <=> task[r].requests = "done"
                               /\ task'[r].opps = "done" <=> task[r].opps = "done"
                               /\ task[r].requests = "done" \/ task[r].opps = "done"
                                      => Candidates(r)' = Candidates(r)
    PROVE  Tally'
<1>1. ASSUME NEW r \in Requests, task[r].requests = "done" \/ task[r].opps = "done"
      PROVE  LocalIds(r)' = LocalIds(r) /\ (HasDemand(r)' <=> HasDemand(r))
  BY <1>1 DEF LocalIds, HasDemand
<1>2. Done("requests")' = Done("requests") /\ Done("opps")' = Done("opps")
  BY DEF Done
<1>3. \A r \in Done("requests") \cup Done("opps") :
          LocalIds(r)' = LocalIds(r) /\ (HasDemand(r)' <=> HasDemand(r))
  BY <1>1 DEF Done
<1>4. /\ \A c \in Campaigns : /\ DoneFor("requests", c)' = DoneFor("requests", c)
                              /\ DoneFor("opps", c)' = DoneFor("opps", c)
      /\ Beyond' = Beyond /\ WithDemand' = WithDemand
  BY <1>2, <1>3 DEF DoneFor, Beyond, WithDemand
<1>5. QED
  BY <1>2, <1>4 DEF Tally

\* What finishing a task does to the sets.
LEMMA DoneGrows ==
    ASSUME IInv, NEW r \in Requests, NEW t \in DOMAIN NoTasks, Finish(r, t, "done")
    PROVE  /\ r \notin Done(t) /\ Done(t)' = Done(t) \cup {r}
           /\ \A u \in DOMAIN NoTasks : u # t => Done(u)' = Done(u)
           /\ \A q \in Requests : LocalIds(q)' = LocalIds(q) /\ (HasDemand(q)' <=> HasDemand(q))
<1>1. /\ task[r][t] = "due" /\ task' = [task EXCEPT ![r][t] = "done"]
      /\ UNCHANGED <<local, offers>>
  BY DEF Finish
<1>2. /\ task'[r][t] = "done" /\ \A u \in DOMAIN NoTasks : u # t => task'[r][u] = task[r][u]
      /\ \A q \in Requests : q # r => task'[q] = task[q]
  BY <1>1 DEF IInv, Types
<1>3. \A q \in Requests : LocalIds(q)' = LocalIds(q) /\ (HasDemand(q)' <=> HasDemand(q))
  BY <1>1 DEF LocalIds, HasDemand, Candidates
<1>4. QED
  BY <1>1, <1>2, <1>3 DEF Done

LEMMA CountRequestTally ==
    ASSUME IInv, Tally, NEW r \in Requests, CountRequest(r) PROVE Tally'
<1>1. /\ r \notin Done("requests") /\ Done("requests")' = Done("requests") \cup {r}
      /\ Done("opps")' = Done("opps")
      /\ \A q \in Requests : LocalIds(q)' = LocalIds(q) /\ (HasDemand(q)' <=> HasDemand(q))
  BY DoneGrows, TaskNames DEF CountRequest
<1>2. PICK D \in BOOLEAN : D <=> HasDemand(r) \/ LocalIds(r) = {}
  OBVIOUS
<1>3. /\ \A c \in Campaigns :
             requests'[c] = requests[c] + (IF c \in LocalIds(r) THEN 1 ELSE 0)
      /\ requests'[Global] = requests[Global] + (IF D THEN 1 ELSE 0) + 1
      /\ opps' = opps
  <2>1. requests' = [g \in Groups |->
            requests[g] + (IF g \in LocalIds(r) \cup
                                  (IF HasDemand(r) \/ LocalIds(r) = {} THEN {Global} ELSE {})
                           THEN 1 ELSE 0)
                        + (IF g = Global THEN 1 ELSE 0)]
    BY DEF CountRequest
  <2>2. LocalIds(r) \subseteq Campaigns /\ Global \notin Campaigns
    BY TagAssumption DEF LocalIds
  <2>3. requests \in [Groups -> Nat]
    BY DEF IInv, Types
  <2>4. QED
    BY <1>2, <2>1, <2>2, <2>3 DEF CountRequest, Groups
<1>4. ASSUME NEW c \in Campaigns
      PROVE  /\ Cardinality(DoneFor("requests", c)') =
                    Cardinality(DoneFor("requests", c)) + (IF c \in LocalIds(r) THEN 1 ELSE 0)
             /\ DoneFor("opps", c)' = DoneFor("opps", c)
  <2>1. DoneFor("requests", c)' = IF c \in LocalIds(r) THEN DoneFor("requests", c) \cup {r}
                                  ELSE DoneFor("requests", c)
    BY <1>1 DEF DoneFor, Done
  <2>2. r \notin DoneFor("requests", c)
    BY <1>1 DEF DoneFor
  <2>3. DoneFor("opps", c)' = DoneFor("opps", c)
    BY <1>1 DEF DoneFor, Done
  <2>4. QED
    BY <2>1, <2>2, <2>3, Joined, SetsFinite
<1>5. Cardinality(Beyond') = Cardinality(Beyond) + (IF D THEN 1 ELSE 0)
  <2>1. Beyond' = IF D THEN Beyond \cup {r} ELSE Beyond
    BY <1>1, <1>2 DEF Beyond, Done
  <2>2. r \notin Beyond
    BY <1>1 DEF Beyond
  <2>3. QED
    BY <2>1, <2>2, Joined, SetsFinite
<1>6. Cardinality(Done("requests")') = Cardinality(Done("requests")) + 1
  BY <1>1, FS_AddElement, SetsFinite
<1>7. WithDemand' = WithDemand
  BY <1>1 DEF WithDemand, Done
<1>8. /\ Cardinality(Done("requests")) \in Nat /\ Cardinality(Beyond) \in Nat
      /\ \A c \in Campaigns : Cardinality(DoneFor("requests", c)) \in Nat
  BY SetsFinite, FS_CardinalityType
<1>9. QED
  BY <1>1, <1>3, <1>4, <1>5, <1>6, <1>7, <1>8 DEF Tally

LEMMA CountOpportunityTally ==
    ASSUME IInv, Tally, NEW r \in Requests, CountOpportunity(r) PROVE Tally'
<1>1. /\ r \notin Done("opps") /\ Done("opps")' = Done("opps") \cup {r}
      /\ Done("requests")' = Done("requests")
      /\ \A q \in Requests : LocalIds(q)' = LocalIds(q) /\ (HasDemand(q)' <=> HasDemand(q))
  BY DoneGrows, TaskNames DEF CountOpportunity
<1>2. PICK D \in BOOLEAN : D <=> HasDemand(r)
  OBVIOUS
<1>3. /\ \A c \in Campaigns : opps'[c] = opps[c] + (IF c \in LocalIds(r) THEN 1 ELSE 0)
      /\ opps'[Global] = opps[Global] + (IF D THEN 1 ELSE 0) + 1
      /\ requests' = requests
  <2>1. opps' = [g \in Groups |->
            opps[g] + (IF g \in LocalIds(r) \cup (IF HasDemand(r) THEN {Global} ELSE {})
                       THEN 1 ELSE 0)
                    + (IF g = Global THEN 1 ELSE 0)]
    BY DEF CountOpportunity
  <2>2. LocalIds(r) \subseteq Campaigns /\ Global \notin Campaigns
    BY TagAssumption DEF LocalIds
  <2>3. opps \in [Groups -> Nat]
    BY DEF IInv, Types
  <2>4. QED
    BY <1>2, <2>1, <2>2, <2>3 DEF CountOpportunity, Groups
<1>4. ASSUME NEW c \in Campaigns
      PROVE  /\ Cardinality(DoneFor("opps", c)') =
                    Cardinality(DoneFor("opps", c)) + (IF c \in LocalIds(r) THEN 1 ELSE 0)
             /\ DoneFor("requests", c)' = DoneFor("requests", c)
  <2>1. DoneFor("opps", c)' = IF c \in LocalIds(r) THEN DoneFor("opps", c) \cup {r}
                              ELSE DoneFor("opps", c)
    BY <1>1 DEF DoneFor, Done
  <2>2. r \notin DoneFor("opps", c)
    BY <1>1 DEF DoneFor
  <2>3. DoneFor("requests", c)' = DoneFor("requests", c)
    BY <1>1 DEF DoneFor, Done
  <2>4. QED
    BY <2>1, <2>2, <2>3, Joined, SetsFinite
<1>5. Cardinality(WithDemand') = Cardinality(WithDemand) + (IF D THEN 1 ELSE 0)
  <2>1. WithDemand' = IF D THEN WithDemand \cup {r} ELSE WithDemand
    BY <1>1, <1>2 DEF WithDemand, Done
  <2>2. r \notin WithDemand
    BY <1>1 DEF WithDemand
  <2>3. QED
    BY <2>1, <2>2, Joined, SetsFinite
<1>6. Cardinality(Done("opps")') = Cardinality(Done("opps")) + 1
  BY <1>1, FS_AddElement, SetsFinite
<1>7. Beyond' = Beyond
  BY <1>1 DEF Beyond, Done
<1>8. /\ Cardinality(Done("opps")) \in Nat /\ Cardinality(WithDemand) \in Nat
      /\ \A c \in Campaigns : Cardinality(DoneFor("opps", c)) \in Nat
  BY SetsFinite, FS_CardinalityType
<1>9. QED
  BY <1>1, <1>3, <1>4, <1>5, <1>6, <1>7, <1>8 DEF Tally

LEMMA InitTally == Init => Tally
<1> SUFFICES ASSUME Init PROVE Tally
  OBVIOUS
<1>1. \A r \in Requests : task[r].requests # "done" /\ task[r].opps # "done"
  BY DEF Init, NoTasks
<1>2. Done("requests") = {} /\ Done("opps") = {}
  BY <1>1 DEF Done
<1>3. Beyond = {} /\ WithDemand = {} /\ \A c : DoneFor("requests", c) = {} /\ DoneFor("opps", c) = {}
  BY <1>2 DEF Beyond, WithDemand, DoneFor
<1>4. requests[Global] = 0 /\ opps[Global] = 0
      /\ \A c \in Campaigns : requests[c] = 0 /\ opps[c] = 0
  BY DEF Init, Groups
<1>5. QED
  BY <1>2, <1>3, <1>4, FS_EmptySet DEF Tally

LEMMA StepTally == IInv /\ Tally /\ [Next]_vars => Tally'
<1> SUFFICES ASSUME IInv, Tally, [Next]_vars PROVE Tally'
  OBVIOUS
<1>1. \A r \in Requests : pc[r] # "done" => task[r].requests # "done" /\ task[r].opps # "done"
  BY DEF IInv, Progressed, NoTasks
\* A step of a running request leaves the candidates of the others alone.
<1>2. ASSUME NEW r \in Requests, pc[r] # "done", UNCHANGED <<task, requests, opps>>,
             \A q \in Requests : q # r => local'[q] = local[q] /\ offers'[q] = offers[q]
      PROVE  Tally'
  <2>1. \A q \in Requests : q # r => Candidates(q)' = Candidates(q)
    BY <1>2 DEF Candidates
  <2>2. QED
    BY <1>1, <1>2, <2>1, TallySame
<1>3. ASSUME NEW r \in Requests, Arrive(r) PROVE Tally'
  BY <1>2, <1>3 DEF Arrive
<1>4. ASSUME NEW r \in Requests, ServeLocal(r) PROVE Tally'
  <2>1. \A q \in Requests : q # r => local'[q] = local[q]
    BY <1>4 DEF ServeLocal, IInv, Types
  <2>2. QED
    BY <1>2, <1>4, <2>1 DEF ServeLocal
<1>5. ASSUME NEW r \in Requests, Forward(r) PROVE Tally'
  <2>1. \A q \in Requests : q # r => offers'[q] = offers[q]
    BY <1>5 DEF Forward, IInv, Types
  <2>2. QED
    BY <1>2, <1>5, <2>1 DEF Forward
<1>6. ASSUME NEW r \in Requests, NEW e \in Endpoints, Attempt(r, e) PROVE Tally'
  <2>1. pc[r] = "running" /\ UNCHANGED <<local, task, requests, opps>>
    BY <1>6 DEF Attempt, Bid, ServerError, Timeout, Refuse, Garbage, Judge, Calling
  <2>2. offers' = offers \/ \E C : Return(r, e, C)
    BY <1>6 DEF Attempt, Bid, ServerError, Timeout, Refuse, Garbage, TryAgain
  <2>3. \A q \in Requests : q # r => offers'[q] = offers[q]
    BY <2>2 DEF Return, IInv, Types
  <2>4. QED
    BY <1>2, <2>1, <2>3
<1>7. ASSUME NEW r \in Requests, Answer(r) PROVE Tally'
  <2>1. PICK T : T = Tasks(Candidates(r)) /\ task' = [task EXCEPT ![r] = T]
    BY <1>7 DEF Answer
  <2>2. T.requests # "done" /\ T.opps # "done"
    BY <2>1 DEF Tasks
  <2>3. /\ pc[r] = "running" /\ UNCHANGED <<local, offers, requests, opps>>
    BY <1>7 DEF Answer, Gathered
  <2>4. \A q \in Requests : Candidates(q)' = Candidates(q)
    BY <2>3 DEF Candidates
  <2>5. \A q \in Requests : task'[q] = IF q = r THEN T ELSE task[q]
    BY <2>1 DEF IInv, Types
  <2>6. QED
    BY <1>1, <2>2, <2>3, <2>4, <2>5, TallySame
\* A task that notifies, or gives up, completes no counting task.
<1>8. ASSUME NEW r \in Requests, NEW t \in DOMAIN NoTasks, NEW how \in {"done", "lost"},
             Finish(r, t, how), how = "done" => t = "notice", UNCHANGED <<requests, opps>>
      PROVE  Tally'
  <2>1. task[r][t] = "due" /\ task' = [task EXCEPT ![r][t] = how] /\ UNCHANGED <<local, offers>>
    BY <1>8 DEF Finish
  <2>2. \A q \in Requests : Candidates(q)' = Candidates(q)
    BY <2>1 DEF Candidates
  <2>3. /\ \A q \in Requests : q # r => task'[q] = task[q]
        /\ \A u \in DOMAIN NoTasks : task'[r][u] = IF u = t THEN how ELSE task[r][u]
    BY <2>1 DEF IInv, Types
  <2>4. \A q \in Requests : /\ task'[q].requests = "done" <=> task[q].requests = "done"
                            /\ task'[q].opps = "done" <=> task[q].opps = "done"
    BY <1>8, <2>1, <2>3, TaskNames
  <2>5. QED
    BY <1>8, <2>2, <2>4, TallySame
<1>9. ASSUME NEW r \in Requests, Background(r) PROVE Tally'
  <2>1. CASE CountRequest(r)
    BY <2>1, CountRequestTally
  <2>2. CASE CountOpportunity(r)
    BY <2>2, CountOpportunityTally
  <2>3. CASE Notify(r)
    BY <1>8, <2>3, TaskNames DEF Notify
  <2>4. ASSUME NEW t \in DOMAIN NoTasks, GiveUp(r, t) PROVE Tally'
    BY <1>8, <2>4 DEF GiveUp
  <2>5. QED
    BY <1>9, <2>1, <2>2, <2>3, <2>4 DEF Background
<1>10. CASE Crash
  <2>1. /\ \A q \in Requests : \A t \in DOMAIN NoTasks :
               task'[q][t] = IF task[q][t] = "due" THEN "lost" ELSE task[q][t]
        /\ UNCHANGED <<local, offers, requests, opps>>
    BY <1>10 DEF Crash
  <2>2. \A q \in Requests : Candidates(q)' = Candidates(q)
    BY <2>1 DEF Candidates
  <2>3. QED
    BY <2>1, <2>2, TallySame, TaskNames
<1>11. CASE UNCHANGED vars
  <2>1. \A q \in Requests : Candidates(q)' = Candidates(q)
    BY <1>11 DEF Candidates
  <2>2. QED
    BY <1>11, <2>1, TallySame
<1>12. QED
  BY <1>3, <1>4, <1>5, <1>6, <1>7, <1>9, <1>10, <1>11 DEF Next, Step

\* While no counting task has failed, the counters of a campaign are the requests it had
\* a candidate for, and campaign 0 has no more opportunities than requests.
THEOREM CountersAreExact == Spec => []CountersMatchOffers
<1>1. IInv /\ Tally => CountersMatchOffers
  <2> SUFFICES ASSUME IInv, Tally, Settled
               PROVE  /\ \A c \in Campaigns :
                             requests[c] = Cardinality(AnsweredWith(c)) /\ opps[c] = requests[c]
                      /\ opps[Global] <= requests[Global]
    BY DEF CountersMatchOffers
  <2>1. \A r \in Requests :
            /\ pc[r] = "done" <=> task[r].requests = "done"
            /\ task[r].opps = "done" => task[r].requests = "done"
            /\ task[r].requests = "done" /\ task[r].opps # "done" => Candidates(r) = {}
    BY DEF IInv, Progressed, Answered, Settled, NoTasks
  <2>2. ASSUME NEW c \in Campaigns
        PROVE  DoneFor("requests", c) = AnsweredWith(c) /\ DoneFor("opps", c) = AnsweredWith(c)
    <3>1. \A r \in Requests : Candidates(r) = {} => c \notin LocalIds(r)
      BY DEF LocalIds
    <3>2. QED
      BY <2>1, <3>1 DEF DoneFor, Done, AnsweredWith
  <2>3. Done("opps") \subseteq Done("requests") /\ WithDemand \subseteq Beyond
    BY <2>1 DEF Done, WithDemand, Beyond
  <2>4. /\ Cardinality(Done("opps")) <= Cardinality(Done("requests"))
        /\ Cardinality(WithDemand) <= Cardinality(Beyond)
    BY <2>3, SetsFinite, FS_Subset
  <2>5. /\ Cardinality(Done("opps")) \in Nat /\ Cardinality(Done("requests")) \in Nat
        /\ Cardinality(WithDemand) \in Nat /\ Cardinality(Beyond) \in Nat
    BY SetsFinite, FS_CardinalityType
  <2>6. QED
    BY <2>2, <2>4, <2>5 DEF Tally
<1>2. Init => Tally
  BY InitTally
<1>3. IInv /\ Tally /\ [Next]_vars => Tally'
  BY StepTally
<1>4. QED
  BY <1>1, <1>2, <1>3, Invariance, PTL DEF Spec
=============================================================================
