--------------------------- MODULE ExchangeProofs ---------------------------
(***************************************************************************)
(* Theorems about OpenRTB, for every set of ads, prices, lengths and        *)
(* categories and every bid request, and about BidRequests, for all queries *)
(* of a tag, all bid requests of an exchange and all surroundings.          *)
(***************************************************************************)
EXTENDS MCExchange, FiniteSetTheorems, TLAPS


-----------------------------------------------------------------------------
(* The first of some candidates.                                             *)

\* R is reflexive, total and transitive on C; of two that are equally good either may
\* be first.
IsOrder(R, C) ==
    /\ \A a, b \in C : <<a, b>> \in R \/ <<b, a>> \in R
    /\ \A a, b, c \in C : <<a, b>> \in R /\ <<b, c>> \in R => <<a, c>> \in R

\* The elements that beat an element are fewer and fewer towards the top, and the strict
\* inclusion of finite sets is well-founded.
LEMMA FirstExists ==
    ASSUME NEW C, IsFiniteSet(C), C # {}, NEW R, IsOrder(R, C)
    PROVE  \E a \in C : \A b \in C : <<a, b>> \in R
<1> DEFINE Better(a) == {b \in C : <<a, b>> \notin R}
           T == {Better(a) : a \in C}
<1>1. T \subseteq FiniteSubsetsOf(C) /\ T # {}
  <2>1. \A a \in C : Better(a) \in SUBSET C
    OBVIOUS
  <2>2. \A D \in SUBSET C : IsFiniteSet(D)
    BY FS_Subset
  <2>3. QED
    BY <2>1, <2>2 DEF FiniteSubsetsOf
<1>2. PICK X \in T : \A Y \in T : ~ (<<Y, X>> \in StrictSubsetOrdering(C))
  <2>1. IsWellFoundedOn(StrictSubsetOrdering(C), FiniteSubsetsOf(C))
    BY FS_StrictSubsetOrderingWellFounded
  <2> HIDE DEF T
  <2>2. QED
    BY <1>1, <2>1, WFMin
<1>3. PICK a \in C : X = Better(a)
  BY <1>2
<1>4. ASSUME NEW b \in Better(a) PROVE FALSE
  <2>1. b \in C /\ <<a, b>> \notin R
    BY <1>4
  <2>2. Better(b) \subseteq Better(a)
    BY <2>1 DEF IsOrder
  <2>3. b \in Better(a) /\ b \notin Better(b)
    BY <1>4, <2>1 DEF IsOrder
  <2>4. <<Better(b), Better(a)>> \in StrictSubsetOrdering(C)
    BY <2>2, <2>3 DEF StrictSubsetOrdering
  <2>5. Better(b) \in T
    BY <2>1
  <2>6. QED
    BY <1>2, <1>3, <2>4, <2>5
<1>5. \A b \in C : <<a, b>> \in R
  BY <1>4
<1>6. QED
  BY <1>5

-----------------------------------------------------------------------------
(* The choice for a slot.                                                    *)

\* Fractions are compared by cross-multiplication, which is transitive.
LEMMA CrossOrder ==
    ASSUME NEW i \in Nat, NEW j \in Nat, NEW k \in Nat,
           NEW p \in Nat \ {0}, NEW q \in Nat \ {0}, NEW r \in Nat \ {0},
           i * q >= j * p, j * r >= k * q
    PROVE  i * r >= k * p /\ (i * r = k * p => i * q = j * p /\ j * r = k * q)
<1>1. (i * q) * r >= (j * p) * r /\ (j * r) * p >= (k * q) * p
  OBVIOUS
<1>2. q * (i * r) >= q * (k * p)
  BY <1>1
<1>3. i * r >= k * p
  BY <1>2
<1>4. ASSUME i * r = k * p PROVE i * q = j * p /\ j * r = k * q
  <2>1. (i * q) * r = (j * p) * r /\ (j * r) * p = (k * q) * p
    BY <1>1, <1>4
  <2>2. QED
    BY <2>1
<1>5. QED
  BY <1>3, <1>4

IsBefore(a, b) == \E i, j \in DOMAIN ranked : i < j /\ ranked[i] = a /\ ranked[j] = b

\* What serve_ads returns names no ad twice.
RankedOnce ==
    /\ ranked \in Seq(Ads)
    /\ \A i, j \in DOMAIN ranked : ranked[i] = ranked[j] => i = j

\* With lengths above zero, some ad is as dense as the others and first among equals.
LEMMA BestExists ==
    ASSUME RankedOnce, NEW S \in SUBSET ToSet(ranked), S # {}, NEW p \in Nat,
           \A a \in S : Duration(a) \in Nat \ {0}
    PROVE  /\ Best(p, S) \in S
           /\ \A b \in S : ~ Denser(Density(p, b), Density(p, Best(p, S)))
<1> DEFINE N(a) == Price[a]
           M(a) == IF p = 1 THEN 1 ELSE Duration(a)
           Beats(a, b) == \/ N(a) * M(b) > N(b) * M(a)
                          \/ ~ (N(b) * M(a) > N(a) * M(b)) /\ IsBefore(a, b)
           R == {ab \in S \X S : ab[1] = ab[2] \/ Beats(ab[1], ab[2])}
<1>1. \A a \in S : a \in Ads /\ \E i \in DOMAIN ranked : ranked[i] = a
  BY DEF RankedOnce, ToSet
<1>2. \A a \in S : N(a) \in Nat /\ M(a) \in Nat \ {0}
  BY <1>1, ExchangeAssumption
<1>3. IsFiniteSet(S)
  <2>1. S \in SUBSET Ads
    BY <1>1
  <2>2. QED
    BY <2>1, ExchangeAssumption, FS_Subset
<1>4. DOMAIN ranked \subseteq Int
  BY DEF RankedOnce
<1> HIDE DEF N, M
<1>5. ASSUME NEW a \in S, NEW b \in S PROVE <<a, b>> \in R \/ <<b, a>> \in R
  <2>1. CASE a = b
    BY <2>1
  <2>2. CASE a # b
    <3>1. PICK i \in DOMAIN ranked, j \in DOMAIN ranked : ranked[i] = a /\ ranked[j] = b
      BY <1>1
    <3>2. i < j \/ j < i
      BY <1>4, <2>2, <3>1
    <3>3. IsBefore(a, b) \/ IsBefore(b, a)
      BY <3>1, <3>2 DEF IsBefore
    <3>4. PICK u \in Int, v \in Int : u = N(a) * M(b) /\ v = N(b) * M(a)
      BY <1>2
    <3>5. Beats(a, b) \/ Beats(b, a)
      BY <3>3, <3>4
    <3>6. QED
      BY <3>5
  <2>3. QED
    BY <2>1, <2>2
<1>6. ASSUME NEW a \in S, NEW b \in S, NEW c \in S, <<a, b>> \in R, <<b, c>> \in R
      PROVE  <<a, c>> \in R
  <2>1. CASE a = b \/ b = c
    BY <1>6, <2>1
  <2>2. CASE a # b /\ b # c
    <3>1. Beats(a, b) /\ Beats(b, c)
      BY <1>6, <2>2
    <3>2. /\ N(a) * M(b) >= N(b) * M(a) /\ (N(a) * M(b) = N(b) * M(a) => IsBefore(a, b))
          /\ N(b) * M(c) >= N(c) * M(b) /\ (N(b) * M(c) = N(c) * M(b) => IsBefore(b, c))
      <4>1. PICK u \in Int, v \in Int, w \in Int, y \in Int :
                /\ u = N(a) * M(b) /\ v = N(b) * M(a)
                /\ w = N(b) * M(c) /\ y = N(c) * M(b)
        BY <1>2
      <4>2. QED
        BY <3>1, <4>1
    <3>3. /\ N(a) * M(c) >= N(c) * M(a)
          /\ N(a) * M(c) = N(c) * M(a) =>
                 N(a) * M(b) = N(b) * M(a) /\ N(b) * M(c) = N(c) * M(b)
      BY <1>2, <3>2, CrossOrder
    <3>4. IsBefore(a, b) /\ IsBefore(b, c) => IsBefore(a, c)
      BY <1>4 DEF IsBefore, RankedOnce
    <3>5. PICK u \in Int, v \in Int : u = N(a) * M(c) /\ v = N(c) * M(a)
      BY <1>2
    <3>6. Beats(a, c)
      BY <3>2, <3>3, <3>4, <3>5
    <3>7. QED
      BY <3>6
  <2>3. QED
    BY <2>1, <2>2
<1>7. PICK a \in S : \A b \in S : <<a, b>> \in R
  <2>1. IsOrder(R, S)
    BY <1>5, <1>6 DEF IsOrder
  <2> HIDE DEF R
  <2>2. QED
    BY <1>3, <2>1, FirstExists
<1>8. \A b \in S \ {a} :
          \/ Denser(Density(p, a), Density(p, b))
          \/ /\ ~ Denser(Density(p, b), Density(p, a))
             /\ \E i, j \in DOMAIN ranked : i < j /\ ranked[i] = a /\ ranked[j] = b
  <2> SUFFICES ASSUME NEW b \in S \ {a}
               PROVE  \/ Denser(Density(p, a), Density(p, b))
                      \/ ~ Denser(Density(p, b), Density(p, a)) /\ IsBefore(a, b)
    BY DEF IsBefore
  <2>1. Beats(a, b)
    BY <1>7
  <2>2. Density(p, a) = <<N(a), M(a)>> /\ Density(p, b) = <<N(b), M(b)>>
    BY DEF Density, N, M
  <2>3. QED
    BY <2>1, <2>2 DEF Denser
<1> DEFINE best == Best(p, S)
<1>9. best \in S /\ \A b \in S \ {best} :
          \/ Denser(Density(p, best), Density(p, b))
          \/ ~ Denser(Density(p, b), Density(p, best))
  BY <1>8 DEF Best
<1> HIDE DEF best
<1>10. ASSUME NEW b \in S PROVE ~ Denser(Density(p, b), Density(p, best))
  <2>1. Density(p, best) = <<N(best), M(best)>> /\ Density(p, b) = <<N(b), M(b)>>
    BY DEF Density, N, M
  <2>2. PICK u \in Int, v \in Int : u = N(best) * M(b) /\ v = N(b) * M(best)
    BY <1>2, <1>9
  <2>3. b = best => u = v
    BY <2>2
  <2>4. QED
    BY <1>9, <2>1, <2>2, <2>3 DEF Denser
<1>11. QED
  BY <1>9, <1>10 DEF best

-----------------------------------------------------------------------------
(* The inductive invariant.                                                  *)

\* What build_pod remembers covers the slots that are filled.
Remembered ==
    /\ placed.categories \in [UNION {Categories[a] : a \in Ads} -> Nat]
    /\ \A i \in DOMAIN slots : IsFilled(i) =>
           /\ Advertiser[slots[i]] \in placed.advertisers
           /\ Domain[slots[i]] # NoDomain => Domain[slots[i]] \in placed.domains
           /\ \A c \in Categories[slots[i]] : placed.categories[c] >= 1
    /\ \A i, j \in DOMAIN slots : IsFilled(i) /\ IsFilled(j) /\ i # j =>
           \A c \in Categories[slots[i]] \cap Categories[slots[j]] : placed.categories[c] >= 2

IInv ==
    /\ RankedOnce
    /\ slots \in Seq(Ads \cup {Empty})
    /\ stage \in {"received", "serving"} => slots = <<>>
    /\ stage = "pod" => Remembered
    /\ SeparationKept

LEMMA NothingSeparated ==
    slots = <<>> => SeparationKept
  BY DEF SeparationKept

LEMMA InitInv == Init => IInv
  BY NothingSeparated DEF Init, IInv, RankedOnce

\* Steps that fill no slot, and do not start a pod.
LEMMA SameSlots ==
    ASSUME IInv, UNCHANGED <<request, ranked, slots>>,
           stage' \in {"received", "serving"} => slots = <<>>,
           stage' = "pod" => stage = "pod" /\ placed' = placed
    PROVE  IInv'
<1>1. RankedOnce' /\ slots' \in Seq(Ads \cup {Empty})
  BY DEF IInv, RankedOnce
<1>2. SeparationKept'
  BY DEF IInv, SeparationKept, IsFilled, Signals
<1>3. stage' = "pod" => Remembered'
  BY DEF IInv, Remembered, IsFilled
<1>4. QED
  BY <1>1, <1>2, <1>3 DEF IInv

LEMMA ServeAdsInv == ASSUME IInv, ServeAds PROVE IInv'
<1>1. PICK k \in 0 .. Cardinality(Ads) :
          \E s \in [1 .. k -> {a \in Ads : Price[a] >= request.floor}] :
               /\ \A i, j \in 1 .. k : s[i] = s[j] => i = j
               /\ ranked' = s
  BY DEF ServeAds
<1>2. k \in Nat
  BY <1>1, FS_CardinalityType, ExchangeAssumption
<1>3. RankedOnce'
  BY <1>1, <1>2 DEF RankedOnce
<1>4. slots = <<>> /\ slots' = <<>> /\ stage' # "received" /\ stage' # "serving"
  BY DEF ServeAds, IInv, Decline
<1>5. stage' = "pod" => placed'.categories = [c \in UNION {Categories[a] : a \in Ads} |-> 0]
  BY DEF ServeAds, Decline, NothingPlaced
<1>6. stage' = "pod" => Remembered'
  <2>1. DOMAIN slots' = {}
    BY <1>4
  <2> DEFINE U == UNION {Categories[a] : a \in Ads}
  <2>2. stage' = "pod" => placed'.categories = [c \in U |-> 0]
    BY <1>5
  <2> HIDE DEF U
  <2>3. stage' = "pod" => placed'.categories \in [U -> Nat]
    BY <2>2
  <2>4. QED
    BY <2>1, <2>3 DEF Remembered, U
<1>7. SeparationKept'
  BY <1>4 DEF SeparationKept
<1>8. QED
  BY <1>3, <1>4, <1>6, <1>7 DEF IInv

\* A slot gets the best of those who are eligible, and stays empty if none is.
LEMMA SlotFilled ==
    ASSUME RankedOnce, FillSlot
    PROVE  /\ stage = "pod" /\ UNCHANGED <<request, stage, ranked, bids, tasks>>
           /\ \E s \in Ads \cup {Empty} :
                  /\ slots' = Append(slots, s)
                  /\ s = Empty => Eligible = {} /\ placed' = placed
                  /\ s # Empty =>
                         /\ s \in Eligible /\ placed' = Remember(s)
                         /\ Position = 1 => \A b \in Eligible : Price[s] >= Price[b]
<1>1. stage = "pod" /\ UNCHANGED <<request, stage, ranked, bids, tasks>>
  BY DEF FillSlot
<1>2. CASE Eligible = {}
  BY <1>1, <1>2 DEF FillSlot
<1>3. CASE Eligible # {}
  <2> DEFINE s == Best(Position, Eligible)
  <2>1. Eligible \in SUBSET ToSet(ranked) /\ \A a \in Eligible : Duration(a) \in Nat \ {0}
    <3>1. \A a \in Eligible : Duration(a) \in 5 .. 60
      BY DEF Eligible, Fits, MinDuration, MaxDuration
    <3>2. Eligible \in SUBSET ToSet(ranked)
      BY DEF Eligible
    <3>3. 5 .. 60 \subseteq Nat \ {0}
      OBVIOUS
    <3>4. QED
      BY <3>1, <3>2, <3>3, Zenon
  <2>2. Position \in Nat
    BY DEF Position
  <2>3. s \in Eligible /\ \A b \in Eligible : ~ Denser(Density(Position, b), Density(Position, s))
    BY <1>3, <2>1, <2>2, BestExists
  <2>4. Eligible \subseteq Ads
    BY DEF Eligible, ToSet, RankedOnce
  <2>5. slots' = Append(slots, s) /\ placed' = Remember(s)
    BY <1>3 DEF FillSlot
  <2> HIDE DEF s
  <2>6. Position = 1 => \A b \in Eligible : Price[s] >= Price[b]
    BY <2>3, <2>4, ExchangeAssumption DEF Denser, Density
  <2>7. QED
    BY <1>1, <2>3, <2>4, <2>5, <2>6, ExchangeAssumption
<1>4. QED
  BY <1>2, <1>3

LEMMA FillSlotInv == ASSUME IInv, FillSlot PROVE IInv'
<1> USE DEF IInv
<1>1. stage = "pod" /\ stage' = "pod" /\ UNCHANGED <<request, ranked>> /\ Remembered
  BY DEF FillSlot
<1>2. RankedOnce'
  BY <1>1 DEF RankedOnce
<1>3. PICK s \in Ads \cup {Empty} :
          /\ slots' = Append(slots, s)
          /\ IF s = Empty THEN placed' = placed
             ELSE s \in Eligible /\ placed' = Remember(s)
  BY SlotFilled
<1>4. PICK n \in Nat : n = Len(slots) /\ DOMAIN slots = 1 .. n
  OBVIOUS
<1>5. /\ slots' \in Seq(Ads \cup {Empty}) /\ DOMAIN slots' = 1 .. n + 1
      /\ slots'[n + 1] = s /\ \A i \in 1 .. n : slots'[i] = slots[i]
  BY <1>3, <1>4
<1>6. Signals' = Signals
  BY <1>1 DEF Signals
<1>7. CASE s = Empty
  <2>1. \A i \in DOMAIN slots' : slots'[i] # Empty =>
            i \in DOMAIN slots /\ slots[i] # Empty /\ slots'[i] = slots[i]
    BY <1>4, <1>5, <1>7
  <2>2. SeparationKept'
    BY <1>6, <2>1 DEF SeparationKept, IsFilled
  <2>3. Remembered'
    BY <1>1, <1>3, <1>7, <2>1 DEF Remembered, IsFilled
  <2>4. QED
    BY <1>1, <1>2, <1>5, <2>2, <2>3
<1>8. CASE s # Empty
  <2>1. s \in Ads /\ Separated(s) /\ placed' = Remember(s)
    BY <1>3, <1>8 DEF Eligible
  <2>2. PICK K, K2 :
            /\ K = placed.categories /\ K2 = placed'.categories
            /\ K \in [UNION {Categories[a] : a \in Ads} -> Nat]
            /\ K2 = [c \in UNION {Categories[a] : a \in Ads} |->
                        K[c] + (IF c \in Categories[s] THEN 1 ELSE 0)]
    BY <1>1, <2>1 DEF Remembered, Remember
  <2>3. /\ K2 \in [UNION {Categories[a] : a \in Ads} -> Nat]
        /\ \A c \in UNION {Categories[a] : a \in Ads} :
               /\ K[c] \in Nat /\ K2[c] \in Nat /\ K2[c] >= K[c]
               /\ c \in Categories[s] => K2[c] = K[c] + 1
    BY <2>2
  <2>4. \A a \in Ads : \A c \in Categories[a] : c \in UNION {Categories[b] : b \in Ads}
    OBVIOUS
  <2>5. ASSUME NEW i \in 1 .. n, slots[i] # Empty
        PROVE  /\ slots[i] \in Ads
               /\ Advertiser[slots[i]] \in placed.advertisers
               /\ Domain[slots[i]] # NoDomain => Domain[slots[i]] \in placed.domains
               /\ \A c \in Categories[slots[i]] : K[c] >= 1
    BY <1>1, <1>4, <2>2, <2>5 DEF Remembered, IsFilled
  <2>6. ASSUME NEW i \in 1 .. n, NEW j \in 1 .. n, i # j, slots[i] # Empty, slots[j] # Empty,
               NEW c \in Categories[slots[i]] \cap Categories[slots[j]]
        PROVE  K[c] >= 2
    BY <1>1, <1>4, <2>2, <2>6 DEF Remembered, IsFilled
  <2>7. /\ Advertiser[s] \notin placed.advertisers
        /\ 3 \in Signals /\ Domain[s] # NoDomain => Domain[s] \notin placed.domains
        /\ 2 \in Signals => \A c \in Categories[s] : K[c] < 2
    BY <2>1, <2>2 DEF Separated, MaxSameCategory
  <2>8. /\ placed'.advertisers = placed.advertisers \cup {Advertiser[s]}
        /\ placed'.domains = placed.domains \cup ({Domain[s]} \ {NoDomain})
    BY <2>1 DEF Remember
  <2>9. Remembered'
    <3>1. ASSUME NEW i \in 1 .. n + 1, slots'[i] # Empty
          PROVE  /\ Advertiser[slots'[i]] \in placed'.advertisers
                 /\ Domain[slots'[i]] # NoDomain => Domain[slots'[i]] \in placed'.domains
                 /\ \A c \in Categories[slots'[i]] : K2[c] >= 1
      <4>1. CASE i = n + 1
        BY <1>5, <2>1, <2>3, <2>4, <2>8, <4>1
      <4>2. CASE i \in 1 .. n
        <5>1. slots'[i] = slots[i] /\ slots[i] # Empty /\ slots[i] \in Ads
          BY <1>5, <2>5, <3>1, <4>2
        <5>2. \A c \in Categories[slots[i]] : K2[c] >= 1
          BY <2>3, <2>4, <2>5, <4>2, <5>1
        <5>3. QED
          BY <2>5, <2>8, <4>2, <5>1, <5>2
      <4>3. QED
        BY <4>1, <4>2
    <3>2. ASSUME NEW i \in 1 .. n + 1, NEW j \in 1 .. n + 1, i # j,
                 slots'[i] # Empty, slots'[j] # Empty,
                 NEW c \in Categories[slots'[i]] \cap Categories[slots'[j]]
          PROVE  K2[c] >= 2
      <4>1. CASE i \in 1 .. n /\ j \in 1 .. n
        <5>1. slots'[i] = slots[i] /\ slots'[j] = slots[j]
          BY <1>5, <4>1
        <5>2. K[c] >= 2 /\ slots[i] \in Ads
          BY <2>5, <2>6, <3>2, <4>1, <5>1
        <5>3. QED
          BY <2>3, <2>4, <3>2, <5>1, <5>2
      <4>2. ASSUME NEW m \in 1 .. n, slots[m] # Empty,
                   c \in Categories[slots[m]], c \in Categories[s]
            PROVE  K2[c] >= 2
        BY <2>1, <2>3, <2>4, <2>5, <4>2
      <4>3. CASE i = n + 1 /\ j \in 1 .. n
        BY <1>5, <3>2, <4>2, <4>3
      <4>4. CASE j = n + 1 /\ i \in 1 .. n
        BY <1>5, <3>2, <4>2, <4>4
      <4>5. QED
        BY <3>2, <4>1, <4>3, <4>4
    <3>3. QED
      BY <1>5, <2>2, <2>3, <3>1, <3>2 DEF Remembered, IsFilled
  <2>10. SeparationKept'
    <3>1. ASSUME NEW i \in 1 .. n, slots[i] # Empty
          PROVE  /\ Advertiser[slots[i]] # Advertiser[s]
                 /\ 3 \in Signals /\ Domain[slots[i]] = Domain[s] => Domain[s] = NoDomain
      BY <2>5, <2>7, <3>1
    <3>2. ASSUME NEW i \in 1 .. n + 1, NEW j \in 1 .. n + 1, i # j,
                 slots'[i] # Empty, slots'[j] # Empty
          PROVE  /\ Advertiser[slots'[i]] # Advertiser[slots'[j]]
                 /\ 3 \in Signals /\ Domain[slots'[i]] = Domain[slots'[j]] =>
                        Domain[slots'[i]] = NoDomain
      <4>1. CASE i \in 1 .. n /\ j \in 1 .. n
        BY <1>4, <1>5, <3>2, <4>1 DEF SeparationKept, IsFilled
      <4>2. CASE i = n + 1 /\ j \in 1 .. n
        BY <1>5, <3>1, <3>2, <4>2
      <4>3. CASE j = n + 1 /\ i \in 1 .. n
        BY <1>5, <3>1, <3>2, <4>3
      <4>4. QED
        BY <3>2, <4>1, <4>2, <4>3
    <3>3. ASSUME 2 \in Signals, NEW i \in 1 .. n + 1, NEW j \in 1 .. n + 1, NEW k \in 1 .. n + 1,
                 i < j, j < k, slots'[i] # Empty, slots'[j] # Empty, slots'[k] # Empty
          PROVE  Categories[slots'[i]] \cap Categories[slots'[j]] \cap Categories[slots'[k]] = {}
      <4>1. i \in 1 .. n /\ j \in 1 .. n /\ i # j
        BY <3>3
      <4>2. slots'[i] = slots[i] /\ slots'[j] = slots[j]
        BY <1>5, <4>1
      <4>3. CASE k \in 1 .. n
        <5>1. slots'[k] = slots[k]
          BY <1>5, <4>3
        <5>2. QED
          BY <1>4, <3>3, <4>1, <4>2, <4>3, <5>1 DEF SeparationKept, IsFilled
      <4>4. CASE k = n + 1
        <5> SUFFICES ASSUME NEW c, c \in Categories[slots[i]] \cap Categories[slots[j]],
                            c \in Categories[s]
                     PROVE  FALSE
          BY <1>5, <4>2, <4>4
        <5>1. K[c] >= 2
          BY <2>6, <3>3, <4>1, <4>2
        <5>2. K[c] < 2 /\ K[c] \in Nat
          BY <2>1, <2>3, <2>4, <2>7, <3>3
        <5>3. QED
          BY <5>1, <5>2
      <4>5. QED
        BY <4>3, <4>4
    <3>4. QED
      BY <1>5, <1>6, <3>2, <3>3 DEF SeparationKept, IsFilled
  <2>11. QED
    BY <1>1, <1>2, <1>5, <2>9, <2>10
<1>9. QED
  BY <1>7, <1>8

LEMMA StepInv == IInv /\ [Next]_vars => IInv'
<1> SUFFICES ASSUME IInv, [Next]_vars PROVE IInv'
  OBVIOUS
<1>1. CASE TooLate
  BY <1>1, SameSlots DEF TooLate
<1>2. CASE Accept
  BY <1>2, SameSlots DEF Accept, Decline, IInv
<1>3. CASE ServeAds
  BY <1>3, ServeAdsInv
<1>4. CASE Raise
  BY <1>4, SameSlots DEF Raise, Decline
<1>5. CASE FillSlot
  BY <1>5, FillSlotInv
<1>6. CASE EndPod
  BY <1>6, SameSlots DEF EndPod, Decline
<1>7. CASE Answer
  BY <1>7, SameSlots DEF Answer, Decline
<1>8. CASE UNCHANGED vars
  BY <1>8, SameSlots DEF vars, IInv
<1>9. QED
  BY <1>1, <1>2, <1>3, <1>4, <1>5, <1>6, <1>7, <1>8 DEF Next

\* Whatever serve_ads returns, however many slots are filled and in whatever order, no
\* two slots of a pod share an advertiser, nor a domain, and no three a category, where
\* the request asks for it.
THEOREM CompetitorsSeparated == Spec => []SeparationKept
<1>1. IInv => SeparationKept
  BY DEF IInv
<1>2. QED
  BY <1>1, InitInv, StepInv, PTL DEF Spec

-----------------------------------------------------------------------------
(* Finite sets in their order.                                               *)

IsStrictOrder(R, S) ==
    /\ \A e \in S : <<e, e>> \notin R
    /\ \A e, f, g \in S : <<e, f>> \in R /\ <<f, g>> \in R => <<e, g>> \in R
    /\ \A e, f \in S : e # f => <<e, f>> \in R \/ <<f, e>> \in R

\* Those before an element are fewer than those before any later one, so that every place
\* is taken, and once.
LEMMA InOrderOnce ==
    ASSUME NEW S, IsFiniteSet(S), NEW R, IsStrictOrder(R, S)
    PROVE  LET s == InOrder(S, R) n == Cardinality(S) IN
           /\ n \in Nat /\ s \in [1 .. n -> S]
           /\ \A i, j \in 1 .. n : s[i] = s[j] => i = j
           /\ \A e \in S : \E i \in 1 .. n : s[i] = e
           /\ \A i \in 1 .. n : Cardinality({f \in S : <<f, s[i]>> \in R}) = i - 1
<1> DEFINE n == Cardinality(S)
           Before(e) == {f \in S : <<f, e>> \in R}
           place == [e \in S |-> Cardinality(Before(e)) + 1]
<1>1. n \in Nat
  BY FS_CardinalityType
<1>2. ASSUME NEW e \in S
      PROVE  IsFiniteSet(Before(e)) /\ Cardinality(Before(e)) \in Nat /\ Cardinality(Before(e)) < n
  <2>1. Before(e) \in SUBSET S /\ Before(e) # S
    BY DEF IsStrictOrder
  <2> HIDE DEF Before
  <2>2. IsFiniteSet(Before(e)) /\ Cardinality(Before(e)) <= n /\ Cardinality(Before(e)) # n
    BY <2>1, FS_Subset
  <2>3. Cardinality(Before(e)) \in Nat
    BY <2>2, FS_CardinalityType
  <2>4. QED
    BY <1>1, <2>2, <2>3
<1>3. ASSUME NEW e \in S, NEW f \in S, <<f, e>> \in R
      PROVE  Cardinality(Before(f)) < Cardinality(Before(e))
  <2>1. Before(f) \in SUBSET Before(e) /\ f \in Before(e) /\ f \notin Before(f)
    BY <1>3 DEF IsStrictOrder
  <2> HIDE DEF Before
  <2>2. /\ Cardinality(Before(f)) <= Cardinality(Before(e))
        /\ Cardinality(Before(f)) # Cardinality(Before(e))
    BY <1>2, <2>1, FS_Subset
  <2>3. QED
    BY <1>2, <2>2
<1> HIDE DEF Before
<1>4. place \in Injection(S, 1 .. n)
  <2>1. place \in [S -> 1 .. n]
    <3>1. \A e \in S : Cardinality(Before(e)) + 1 \in 1 .. n
      BY <1>1, <1>2
    <3> HIDE DEF n
    <3>2. QED
      BY <3>1
  <2>2. \A e, f \in S : place[e] = place[f] => e = f
    <3> SUFFICES ASSUME NEW e \in S, NEW f \in S, e # f PROVE place[e] # place[f]
      OBVIOUS
    <3>1. <<e, f>> \in R \/ <<f, e>> \in R
      BY DEF IsStrictOrder
    <3>2. \/ Cardinality(Before(e)) < Cardinality(Before(f))
          \/ Cardinality(Before(f)) < Cardinality(Before(e))
      BY <1>3, <3>1
    <3>3. QED
      BY <1>2, <3>2
  <2> HIDE DEF place
  <2>3. QED
    BY <2>1, <2>2 DEF Injection, IsInjective
<1>5. place \in Surjection(S, 1 .. n)
  <2>1. IsFiniteSet(1 .. n) /\ Cardinality(1 .. n) = n
    BY <1>1, FS_Interval
  <2> HIDE DEF place
  <2>2. QED
    BY <1>4, <2>1, FS_Injection
<1> DEFINE Nth(i) == CHOOSE f \in S : Cardinality(Before(f)) = i - 1
<1>6. ASSUME NEW i \in 1 .. n PROVE Nth(i) \in S /\ Cardinality(Before(Nth(i))) = i - 1
  <2>1. PICK e \in S : place[e] = i
    BY <1>5 DEF Surjection
  <2>2. Cardinality(Before(e)) = i - 1
    BY <1>2, <2>1
  <2>3. QED
    BY <2>2
<1>7. InOrder(S, R) = [i \in 1 .. n |-> Nth(i)]
  BY DEF InOrder, Before
<1> HIDE DEF Nth, n, place
<1>8. InOrder(S, R) \in [1 .. n -> S] /\ \A i \in 1 .. n : InOrder(S, R)[i] = Nth(i)
  BY <1>6, <1>7
<1>9. \A i, j \in 1 .. n : InOrder(S, R)[i] = InOrder(S, R)[j] => i = j
  <2>1. 1 .. n \subseteq Int
    BY <1>1
  <2>2. QED
    BY <1>6, <1>8, <2>1
<1>10. ASSUME NEW e \in S PROVE \E i \in 1 .. n : InOrder(S, R)[i] = e
  <2>1. PICK i \in 1 .. n : place[e] = i
    BY <1>4 DEF Injection
  <2>2. place[Nth(i)] = i
    BY <1>1, <1>6 DEF place
  <2>3. Nth(i) = e
    BY <1>4, <1>6, <2>1, <2>2 DEF Injection, IsInjective, place
  <2>4. QED
    BY <1>8, <2>3
<1>11. QED
  BY <1>1, <1>6, <1>8, <1>9, <1>10 DEF Before, n

\* A list comprehension keeps elements of the list, each once.
LEMMA PickedOnce ==
    ASSUME NEW T, NEW seq \in Seq(T), NEW P \in SUBSET DOMAIN seq
    PROVE  /\ Picked(seq, P) \in Seq(T)
           /\ \A k \in DOMAIN Picked(seq, P) : \E i \in P : Picked(seq, P)[k] = seq[i]
           /\ \A k, m \in DOMAIN Picked(seq, P) : k # m =>
                  \E i, j \in P : i # j /\ Picked(seq, P)[k] = seq[i] /\ Picked(seq, P)[m] = seq[j]
           /\ 1 \in P => 1 \in DOMAIN Picked(seq, P) /\ Picked(seq, P)[1] = seq[1]
<1>1. DOMAIN seq = 1 .. Len(seq) /\ Len(seq) \in Nat
  OBVIOUS
<1>2. IsFiniteSet(P)
  <2>1. IsFiniteSet(1 .. Len(seq))
    BY <1>1, FS_Interval
  <2>2. QED
    BY <1>1, <2>1, FS_Subset
<1>3. IsStrictOrder(Increasing(P), P)
  BY <1>1 DEF IsStrictOrder, Increasing
<1> DEFINE s == InOrder(P, Increasing(P))
           n == Cardinality(P)
<1>4. /\ n \in Nat /\ s \in [1 .. n -> P]
      /\ \A i, j \in 1 .. n : s[i] = s[j] => i = j
      /\ \A e \in P : \E i \in 1 .. n : s[i] = e
      /\ \A i \in 1 .. n : Cardinality({f \in P : <<f, s[i]>> \in Increasing(P)}) = i - 1
  BY <1>2, <1>3, InOrderOnce
<1> HIDE DEF s, n
<1>5. Picked(seq, P) = [k \in 1 .. n |-> seq[s[k]]]
  BY <1>4 DEF Picked, s, n
<1>6. Picked(seq, P) \in Seq(T)
  BY <1>4, <1>5
<1>7. ASSUME 1 \in P PROVE 1 \in 1 .. n /\ s[1] = 1
  <2>1. PICK i \in 1 .. n : s[i] = 1
    BY <1>4, <1>7
  <2>2. {f \in P : <<f, s[i]>> \in Increasing(P)} = {}
    BY <1>1, <2>1 DEF Increasing
  <2>3. i - 1 = 0
    BY <1>4, <2>2, FS_EmptySet
  <2>4. QED
    BY <2>1, <2>3
<1>8. QED
  BY <1>4, <1>5, <1>6, <1>7

-----------------------------------------------------------------------------
(* What the pod has taken, and its opening slot.                             *)

\* What build_pod remembers is the slots that are filled and no more, and once no candidate
\* fits, none does.
Accounted ==
    stage = "pod" =>
        /\ placed.left + Taken = PodDuration
        /\ placed.ads \subseteq {slots[k] : k \in FilledSlots}
        /\ placed.advertisers \subseteq {Advertiser[slots[k]] : k \in FilledSlots}
        /\ placed.domains \subseteq {Domain[slots[k]] : k \in FilledSlots}
        /\ \A c \in UNION {Categories[a] : a \in Ads} :
               placed.categories[c] = Cardinality({k \in FilledSlots : c \in Categories[slots[k]]})
        /\ Empty \in ToSet(slots) => Eligible = {}

\* No ad in a later slot, nor one that may still get one, bids more than the opening slot.
Opening ==
    /\ \A a \in ToSet(ranked) : Price[a] >= request.floor
    /\ \A k \in FilledSlots :
           slots[k] \in ToSet(ranked) /\ 1 \in FilledSlots /\ Price[slots[1]] >= Price[slots[k]]
    /\ stage = "pod" /\ slots # <<>> =>
           \A a \in Eligible : 1 \in FilledSlots /\ Price[slots[1]] >= Price[a]
    /\ stage \in {"pricing", "bid"} /\ IsPod => FilledSlots # {}

PodInv == TypeOK /\ IInv /\ Accounted /\ Opening /\ FirstSlotFirst

LEMMA SlotsFinite ==
    ASSUME slots \in Seq(Ads \cup {Empty})
    PROVE  IsFiniteSet(FilledSlots) /\ \A P \in SUBSET FilledSlots : IsFiniteSet(P)
<1>1. FilledSlots \in SUBSET (1 .. Len(slots)) /\ Len(slots) \in Nat
  BY DEF FilledSlots
<1>2. IsFiniteSet(1 .. Len(slots))
  BY <1>1, FS_Interval
<1>3. QED
  BY <1>1, <1>2, FS_Subset

LEMMA SecondsOfOne ==
    ASSUME NEW k, NEW n \in Nat
    PROVE  IsFiniteSet({k} \X (1 .. n)) /\ Cardinality({k} \X (1 .. n)) = n
<1>1. IsFiniteSet({k}) /\ Cardinality({k}) = 1
  BY FS_Singleton
<1>2. PICK S : S = 1 .. n
  OBVIOUS
<1>3. IsFiniteSet(S) /\ Cardinality(S) = n
  <2>1. IsFiniteSet(1 .. n) /\ Cardinality(1 .. n) = IF 1 > n THEN 0 ELSE n - 1 + 1
    BY FS_Interval, 1 \in Int, n \in Int
  <2>2. QED
    BY <1>2, <2>1
<1>4. IsFiniteSet({k} \X S) /\ Cardinality({k} \X S) = Cardinality({k}) * Cardinality(S)
  BY <1>1, <1>3, FS_Product
<1>5. Cardinality({k} \X S) = 1 * n
  BY <1>1, <1>3, <1>4
<1>6. QED
  BY <1>2, <1>4, <1>5

LEMMA SecondsFinite ==
    ASSUME NEW F, IsFiniteSet(F), NEW D, \A i \in F : D[i] \in Nat
    PROVE  IsFiniteSet(UNION {{i} \X (1 .. D[i]) : i \in F})
<1> DEFINE Parts == {{i} \X (1 .. D[i]) : i \in F}
           part == [i \in F |-> {i} \X (1 .. D[i])]
<1>1. IsFiniteSet(Parts)
  <2>1. part \in Surjection(F, Parts)
    BY DEF Surjection
  <2> HIDE DEF part, Parts
  <2>2. QED
    BY <2>1, FS_Surjection
<1>2. \A T \in Parts : IsFiniteSet(T)
  <2>1. \A i \in F : IsFiniteSet({i} \X (1 .. D[i]))
    BY SecondsOfOne
  <2>2. QED
    BY <2>1
<1> HIDE DEF Parts
<1>3. IsFiniteSet(UNION Parts)
  BY <1>1, <1>2, FS_UNION
<1>4. QED
  BY <1>3 DEF Parts

LEMMA TakenByMore ==
    ASSUME NEW F, IsFiniteSet(F), NEW k, k \notin F, NEW D, \A i \in F \cup {k} : D[i] \in Nat
    PROVE  LET Seconds(P) == UNION {{i} \X (1 .. D[i]) : i \in P} IN
           /\ Cardinality(Seconds(F)) \in Nat
           /\ Cardinality(Seconds(F \cup {k})) = Cardinality(Seconds(F)) + D[k]
<1> DEFINE Seconds(P) == UNION {{i} \X (1 .. D[i]) : i \in P}
           own == {k} \X (1 .. D[k])
<1>1. IsFiniteSet(Seconds(F))
  BY SecondsFinite
<1>2. Seconds(F \cup {k}) = Seconds(F) \cup own /\ Seconds(F) \cap own = {}
  OBVIOUS
<1>3. IsFiniteSet(own) /\ Cardinality(own) = D[k]
  BY SecondsOfOne
<1>4. PICK A, B, O : A = Seconds(F) /\ B = Seconds(F \cup {k}) /\ O = own
  OBVIOUS
<1> HIDE DEF Seconds, own
<1>5. B = A \cup O /\ A \cap O = {} /\ IsFiniteSet(A) /\ IsFiniteSet(O) /\ Cardinality(O) = D[k]
  BY <1>1, <1>2, <1>3, <1>4
<1>6. PICK s \in Nat : s = Cardinality(A)
  BY <1>5, FS_CardinalityType
<1>7. Cardinality(B) = Cardinality(A) + Cardinality(O) - Cardinality({})
  BY <1>5, FS_Union
<1>8. Cardinality({}) = 0
  BY FS_EmptySet
<1>9. D[k] \in Nat
  OBVIOUS
<1>10. Cardinality(A) \in Nat /\ Cardinality(B) = Cardinality(A) + D[k]
  BY <1>5, <1>6, <1>7, <1>8, <1>9
<1>11. QED
  BY <1>4, <1>10 DEF Seconds

LEMMA FilledSlotAccounted ==
    ASSUME TypeOK, IInv, Accounted, FillSlot
    PROVE  Accounted' /\ placed'.left \in Nat /\ placed'.ads \subseteq Ads
<1> DEFINE F == FilledSlots
           U == UNION {Categories[a] : a \in Ads}
<1>1. /\ stage = "pod" /\ stage' = "pod" /\ UNCHANGED <<request, ranked>>
      /\ RankedOnce /\ slots \in Seq(Ads \cup {Empty})
  BY SlotFilled DEF IInv
<1>2. PICK s \in Ads \cup {Empty} :
          /\ slots' = Append(slots, s)
          /\ s = Empty => Eligible = {} /\ placed' = placed
          /\ s # Empty => s \in Eligible /\ placed' = Remember(s)
  BY <1>1, SlotFilled
<1>3. PICK n \in Nat : n = Len(slots) /\ DOMAIN slots = 1 .. n
  BY <1>1
<1>4. /\ slots' \in Seq(Ads \cup {Empty}) /\ DOMAIN slots' = 1 .. n + 1
      /\ slots'[n + 1] = s /\ \A i \in 1 .. n : slots'[i] = slots[i]
  BY <1>1, <1>2, <1>3
<1>5. /\ PodDuration' = PodDuration /\ Signals' = Signals
      /\ \A a : Fits(a)' = Fits(a) \/ placed' # placed
  BY <1>1 DEF PodDuration, Signals, Fits
<1>6. n + 1 \notin F /\ F \subseteq 1 .. n /\ F' = IF s = Empty THEN F ELSE F \cup {n + 1}
  BY <1>3, <1>4 DEF FilledSlots, IsFilled
<1>7. IsFiniteSet(F) /\ \A P \in SUBSET F : IsFiniteSet(P)
  BY <1>1, SlotsFinite
<1>8. CASE s = Empty
  <2>1. F' = F /\ placed' = placed /\ Eligible = {} /\ \A k \in F : slots'[k] = slots[k]
    BY <1>2, <1>4, <1>6, <1>8
  <2>2. Taken' = Taken
    BY <2>1 DEF Taken
  <2>3. Eligible' = Eligible
    BY <1>1, <1>5, <2>1 DEF Eligible, Fits, Separated
  <2>4. \A c : {k \in F : c \in Categories[slots[k]]}' = {k \in F : c \in Categories[slots[k]]}
    BY <2>1
  <2>5. Accounted'
    <3>1. (placed.left + Taken)' = PodDuration'
      BY <1>1, <1>5, <2>1, <2>2 DEF Accounted
    <3>2. /\ placed'.ads \subseteq {slots'[k] : k \in F'}
          /\ placed'.advertisers \subseteq {Advertiser[slots'[k]] : k \in F'}
          /\ placed'.domains \subseteq {Domain[slots'[k]] : k \in F'}
      BY <1>1, <2>1 DEF Accounted
    <3>3. \A c \in U : placed'.categories[c]
                            = Cardinality({k \in F' : c \in Categories[slots'[k]]})
      BY <1>1, <2>1, <2>4 DEF Accounted
    <3>4. QED
      BY <2>1, <2>3, <3>1, <3>2, <3>3 DEF Accounted
  <2>6. QED
    BY <2>1, <2>5 DEF TypeOK
<1>9. CASE s # Empty
  <2>1. s \in Ads /\ s \in Eligible /\ Fits(s) /\ placed' = Remember(s)
    BY <1>2, <1>9 DEF Eligible
  <2>2. F' = F \cup {n + 1} /\ \A k \in F : slots'[k] = slots[k]
    BY <1>4, <1>6, <1>9
  <2>3. /\ placed'.left = placed.left - Duration(s)
        /\ placed'.ads = placed.ads \cup {s}
        /\ placed'.advertisers = placed.advertisers \cup {Advertiser[s]}
        /\ placed'.domains = placed.domains \cup ({Domain[s]} \ {NoDomain})
        /\ placed'.categories = [c \in DOMAIN placed.categories |->
               placed.categories[c] + (IF c \in Categories[s] THEN 1 ELSE 0)]
    BY <2>1 DEF Remember
  <2>4. \A a \in Ads : Duration(a) \in Nat
    BY ExchangeAssumption DEF Duration
  <2>5. placed'.left \in Nat
    BY <2>1, <2>3, <2>4 DEF Fits, TypeOK
  <2>6. Taken \in Nat /\ Taken' = Taken + Duration(s)
    <3> DEFINE D == [k \in F \cup {n + 1} |-> Duration(slots'[k])]
    <3>1. \A k \in F \cup {n + 1} : D[k] \in Nat
      BY <1>4, <2>1, <2>2, <2>4, <1>3 DEF FilledSlots, IsFilled
    <3>2. D[n + 1] = Duration(s)
      BY <1>4
    <3>3. Taken = Cardinality(UNION {{k} \X (1 .. D[k]) : k \in F})
      BY <2>2 DEF Taken
    <3>4. Taken' = Cardinality(UNION {{k} \X (1 .. D[k]) : k \in F \cup {n + 1}})
      BY <2>2 DEF Taken
    <3>5. PICK E : E = D
      OBVIOUS
    <3>6. n + 1 \notin F /\ IsFiniteSet(F) /\ \A k \in F \cup {n + 1} : E[k] \in Nat
      BY <1>6, <1>7, <3>1, <3>5
    <3> HIDE DEF D, F
    <3>7. /\ Cardinality(UNION {{k} \X (1 .. E[k]) : k \in F}) \in Nat
          /\ Cardinality(UNION {{k} \X (1 .. E[k]) : k \in F \cup {n + 1}})
                 = Cardinality(UNION {{k} \X (1 .. E[k]) : k \in F}) + E[n + 1]
      BY <3>6, TakenByMore
    <3>8. QED
      BY <3>2, <3>3, <3>4, <3>5, <3>7
  <2>7. placed'.left + Taken' = PodDuration'
    BY <1>1, <1>5, <2>1, <2>3, <2>4, <2>6 DEF Accounted, TypeOK
  <2>8. /\ placed'.ads \subseteq {slots'[k] : k \in F'}
        /\ placed'.advertisers \subseteq {Advertiser[slots'[k]] : k \in F'}
        /\ placed'.domains \subseteq {Domain[slots'[k]] : k \in F'}
    BY <1>1, <1>4, <2>2, <2>3 DEF Accounted
  <2>9. ASSUME NEW c \in U
        PROVE  placed'.categories[c] = Cardinality({k \in F' : c \in Categories[slots'[k]]})
    <3> DEFINE Sharing == {k \in F : c \in Categories[slots[k]]}
    <3>1. placed.categories[c] = Cardinality(Sharing) /\ placed.categories \in [U -> Nat]
      BY <1>1 DEF Accounted, IInv, Remembered
    <3>2. placed'.categories[c] = Cardinality(Sharing) + (IF c \in Categories[s] THEN 1 ELSE 0)
      BY <2>3, <3>1
    <3>3. {k \in F' : c \in Categories[slots'[k]]}
              = IF c \in Categories[s] THEN Sharing \cup {n + 1} ELSE Sharing
      BY <1>4, <1>6, <2>2
    <3>4. IsFiniteSet(Sharing) /\ n + 1 \notin Sharing
      BY <1>6, <1>7
    <3>5. PICK X : X = {k \in F' : c \in Categories[slots'[k]]}
      OBVIOUS
    <3> HIDE DEF Sharing
    <3>6. X = IF c \in Categories[s] THEN Sharing \cup {n + 1} ELSE Sharing
      BY <3>3, <3>5
    <3>7. Cardinality(Sharing) \in Nat /\ Cardinality(Sharing \cup {n + 1}) = Cardinality(Sharing) + 1
      BY <3>4, FS_AddElement, FS_CardinalityType
    <3>8. placed'.categories[c] = Cardinality(X)
      BY <3>2, <3>6, <3>7
    <3>9. QED
      BY <3>5, <3>8
  <2>10. Empty \notin ToSet(slots')
    <3>1. Empty \notin ToSet(slots)
      BY <1>1, <2>1 DEF Accounted
    <3>2. QED
      BY <1>3, <1>4, <1>9, <3>1 DEF ToSet
  <2>11. Accounted'
    BY <2>7, <2>8, <2>9, <2>10 DEF Accounted
  <2>12. QED
    BY <2>1, <2>3, <2>5, <2>11 DEF TypeOK
<1>10. QED
  BY <1>8, <1>9

LEMMA NoBidCounted == <<<<"request", <<>>>>>> \in Seq({"request", "opportunity"} \X Seq(Ads))
<1> DEFINE T == {"request", "opportunity"} \X Seq(Ads)
<1>1. <<>> \in Seq(Ads)
  OBVIOUS
<1>2. <<"request", <<>>>> \in T
  BY <1>1
<1>3. ASSUME NEW e \in T PROVE <<e>> \in Seq(T)
  <2> HIDE DEF T
  <2>1. QED
    OBVIOUS
<1>4. QED
  BY <1>2, <1>3

\* Before anything is ranked, and where there is no pod.
LEMMA NothingPacked ==
    ASSUME request \in Requests, stage \in {"received", "none"}, ranked = <<>>, slots = <<>>,
           bids = <<>>, tasks = <<>>, placed = NothingPlaced(0)
    PROVE  PodInv
<1>1. IInv
  BY NothingSeparated DEF IInv, RankedOnce
<1>2. placed.left = 0 /\ placed.ads = {}
  BY DEF NothingPlaced
<1>3. TypeOK
  BY <1>2 DEF TypeOK, Stages
<1>4. FilledSlots = {} /\ ToSet(ranked) = {}
  BY DEF FilledSlots, ToSet
<1>5. QED
  BY <1>1, <1>2, <1>3, <1>4 DEF PodInv, Accounted, Opening, FirstSlotFirst

LEMMA InitPodInv == Init => PodInv
  BY NothingPacked DEF Init

\* Steps that have no part in the pod: on the way to serve_ads, and to no bid.
LEMMA AsidePodInv ==
    ASSUME PodInv, IInv', UNCHANGED <<request, ranked, slots, placed, bids>>,
           stage' \in {"serving", "none"}, tasks' = tasks \/ tasks' = <<<<"request", <<>>>>>>
    PROVE  PodInv'
<1>1. TypeOK'
  <2>1. <<<<"request", <<>>>>>> \in Seq({"request", "opportunity"} \X Seq(Ads))
    BY NoBidCounted
  <2>2. tasks' \in Seq({"request", "opportunity"} \X Seq(Ads))
    BY <2>1 DEF PodInv, TypeOK
  <2>3. QED
    BY <2>2 DEF PodInv, TypeOK, Stages
<1>2. Opening'
  BY DEF PodInv, Opening, FilledSlots, IsFilled
<1>3. QED
  BY <1>1, <1>2 DEF PodInv, Accounted, FirstSlotFirst

LEMMA ServeAdsPodInv == ASSUME PodInv, IInv', ServeAds PROVE PodInv'
<1>1. /\ stage = "serving" /\ slots = <<>> /\ UNCHANGED <<request, slots, bids>>
      /\ request \in Requests
  BY DEF ServeAds, PodInv, IInv, TypeOK
<1>2. /\ stage' \in {"none", "pod", "pricing"} /\ (stage' = "pricing" => ~ IsPod)
      /\ stage' = "pod" => placed' = NothingPlaced(PodDuration)
      /\ placed' = placed \/ placed' = NothingPlaced(PodDuration)
      /\ tasks' = tasks \/ tasks' = <<<<"request", <<>>>>>>
  BY DEF ServeAds, Decline
<1>3. IsPod' = IsPod /\ PodDuration' = PodDuration
  BY <1>1 DEF IsPod, PodDuration
<1>4. PodDuration \in Nat
  BY <1>1, ExchangeAssumption DEF PodDuration, RequestType
<1>5. FilledSlots' = {} /\ ToSet(slots') = {}
  BY <1>1 DEF FilledSlots, ToSet
<1>6. RankedOnce' /\ \A a \in ToSet(ranked') : Price[a] >= request.floor
  <2>1. PICK k \in 0 .. Cardinality(Ads) :
            \E s \in [1 .. k -> {a \in Ads : Price[a] >= request.floor}] : ranked' = s
    BY DEF ServeAds
  <2>2. k \in Nat
    BY <2>1, FS_CardinalityType, ExchangeAssumption
  <2>3. QED
    BY <2>1, <2>2 DEF ToSet, IInv
<1>7. TypeOK'
  <2>1. <<<<"request", <<>>>>>> \in Seq({"request", "opportunity"} \X Seq(Ads))
    BY NoBidCounted
  <2>2. placed'.left \in Nat /\ placed'.ads \subseteq Ads
    BY <1>2, <1>4 DEF NothingPlaced, PodInv, TypeOK
  <2>3. stage' \in Stages
    BY <1>2 DEF Stages
  <2>4. QED
    BY <1>1, <1>2, <1>6, <2>1, <2>2, <2>3 DEF PodInv, TypeOK, RankedOnce
<1>8. Accounted'
  <2> SUFFICES ASSUME stage' = "pod" PROVE Accounted'
    BY DEF Accounted
  <2>1. /\ placed'.left = PodDuration /\ placed'.ads = {} /\ placed'.advertisers = {}
        /\ placed'.domains = {}
        /\ placed'.categories = [c \in UNION {Categories[a] : a \in Ads} |-> 0]
    BY <1>2 DEF NothingPlaced
  <2>2. Cardinality({}) = 0
    BY FS_EmptySet
  <2>3. Taken' = 0
    <3>1. UNION {{k} \X (1 .. Duration(slots'[k])) : k \in FilledSlots'} = {}
      BY <1>5
    <3>2. QED
      BY <2>2, <3>1 DEF Taken
  <2>4. \A c : {k \in FilledSlots' : c \in Categories[slots'[k]]} = {}
    BY <1>5
  <2> DEFINE U == UNION {Categories[a] : a \in Ads}
  <2>5. \A c \in U : placed'.categories[c] = 0
    BY <2>1
  <2> HIDE DEF U
  <2>6. \A c \in U : placed'.categories[c] = Cardinality({k \in FilledSlots' : c \in Categories[slots'[k]]})
    BY <2>2, <2>4, <2>5
  <2>7. QED
    BY <1>3, <1>4, <1>5, <2>1, <2>3, <2>6 DEF Accounted, U
<1>9. Opening'
  BY <1>1, <1>2, <1>3, <1>5, <1>6 DEF Opening
<1>10. QED
  BY <1>2, <1>7, <1>8, <1>9 DEF PodInv, FirstSlotFirst

LEMMA FillSlotPodInv == ASSUME PodInv, IInv', FillSlot PROVE PodInv'
<1>1. /\ TypeOK /\ IInv /\ Accounted /\ Opening /\ RankedOnce
      /\ slots \in Seq(Ads \cup {Empty})
  BY DEF PodInv, IInv
<1>2. Accounted' /\ placed'.left \in Nat /\ placed'.ads \subseteq Ads
  BY <1>1, FilledSlotAccounted
<1>3. PICK s \in Ads \cup {Empty} :
          /\ slots' = Append(slots, s)
          /\ s = Empty => Eligible = {} /\ placed' = placed
          /\ s # Empty => /\ s \in Eligible /\ placed' = Remember(s)
                          /\ Position = 1 => \A b \in Eligible : Price[s] >= Price[b]
  BY <1>1, SlotFilled
<1>4. stage = "pod" /\ UNCHANGED <<request, stage, ranked, bids, tasks>>
  BY <1>1, SlotFilled
<1>5. TypeOK'
  BY <1>1, <1>2, <1>4 DEF TypeOK, IInv
<1>6. PICK n \in Nat : n = Len(slots) /\ DOMAIN slots = 1 .. n
  BY <1>1
<1>7. /\ DOMAIN slots' = 1 .. n + 1 /\ slots' # <<>>
      /\ slots'[n + 1] = s /\ \A i \in 1 .. n : slots'[i] = slots[i]
  BY <1>1, <1>3, <1>6
<1>8. FilledSlots' = IF s = Empty THEN FilledSlots ELSE FilledSlots \cup {n + 1}
  BY <1>6, <1>7 DEF FilledSlots, IsFilled
<1>9. Eligible' \subseteq Eligible /\ Eligible \subseteq ToSet(ranked) /\ ToSet(ranked) \subseteq Ads
  <2>1. Eligible \subseteq ToSet(ranked) /\ ToSet(ranked) \subseteq Ads
    BY <1>1 DEF Eligible, ToSet, RankedOnce
  <2>2. CASE s = Empty
    <3>1. Signals' = Signals /\ placed' = placed
      BY <1>3, <1>4, <2>2 DEF Signals
    <3>2. Eligible' = Eligible
      BY <1>4, <3>1 DEF Eligible, Fits, Separated
    <3>3. QED
      BY <2>1, <3>2
  <2>3. CASE s # Empty
    <3>1. ASSUME NEW a \in Eligible' PROVE a \in Eligible
      <4>1. a \in ToSet(ranked) /\ a \in Ads /\ Fits(a)' /\ Separated(a)' /\ Signals' = Signals
        BY <1>4, <2>1, <3>1 DEF Eligible, Signals
      <4>2. /\ placed'.left = placed.left - Duration(s)
            /\ placed'.ads = placed.ads \cup {s}
            /\ placed'.advertisers = placed.advertisers \cup {Advertiser[s]}
            /\ placed'.domains = placed.domains \cup ({Domain[s]} \ {NoDomain})
            /\ placed'.categories = [c \in DOMAIN placed.categories |->
                   placed.categories[c] + (IF c \in Categories[s] THEN 1 ELSE 0)]
        BY <1>3, <2>3 DEF Remember
      <4>3. Fits(a)
        <5>1. Duration(a) \in Nat /\ Duration(s) \in Nat /\ placed.left \in Nat
          BY <1>1, <1>3, <2>3, <4>1, ExchangeAssumption DEF Duration, TypeOK
        <5>2. QED
          BY <4>1, <4>2, <5>1 DEF Fits
      <4>4. ASSUME 2 \in Signals, NEW c \in Categories[a]
            PROVE  placed.categories[c] < MaxSameCategory
        <5>1. /\ DOMAIN placed.categories = UNION {Categories[b] : b \in Ads}
              /\ placed.categories[c] \in Nat
          BY <1>1, <1>4, <4>1 DEF IInv, Remembered
        <5>2. placed'.categories[c] = placed.categories[c] + (IF c \in Categories[s] THEN 1 ELSE 0)
          BY <4>1, <4>2, <5>1
        <5>3. placed'.categories[c] < MaxSameCategory
          BY <4>1, <4>4 DEF Separated
        <5>4. QED
          BY <5>1, <5>2, <5>3 DEF MaxSameCategory
      <4>5. Separated(a)
        BY <4>1, <4>2, <4>4 DEF Separated
      <4>6. QED
        BY <4>1, <4>3, <4>5 DEF Eligible
    <3>2. QED
      BY <2>1, <3>1
  <2>4. QED
    BY <2>1, <2>2, <2>3
<1>10. Price \in [Ads -> Nat]
  BY ExchangeAssumption
<1>11. CASE s = Empty
  <2>1. Eligible = {} /\ FilledSlots' = FilledSlots
    BY <1>3, <1>8, <1>11
  <2>2. \A k \in FilledSlots : slots'[k] = slots[k]
    BY <1>6, <1>7 DEF FilledSlots
  <2>3. QED
    BY <1>1, <1>2, <1>3, <1>4, <1>5, <1>8, <1>9, <1>11, <2>1, <2>2 DEF PodInv, Opening, FirstSlotFirst
<1>12. CASE s # Empty
  <2>1. s \in Eligible /\ FilledSlots' = FilledSlots \cup {n + 1}
    BY <1>3, <1>8, <1>12
  <2>2. \A k \in FilledSlots : slots'[k] = slots[k] /\ slots[k] \in Ads
    BY <1>1, <1>6, <1>7 DEF FilledSlots, IsFilled
  <2>3. CASE n = 0
    <3>1. FilledSlots' = {1} /\ slots'[1] = s /\ \A b \in Eligible : Price[s] >= Price[b]
      BY <1>3, <1>6, <1>7, <1>12, <2>1, <2>3 DEF FilledSlots, Position
    <3>2. Price[s] \in Nat
      BY <1>9, <1>10, <2>1
    <3>3. QED
      BY <1>1, <1>2, <1>4, <1>5, <1>9, <2>1, <3>1, <3>2 DEF PodInv, Opening, FirstSlotFirst
  <2>4. CASE n # 0
    <3>1. \A a \in Eligible : 1 \in FilledSlots /\ Price[slots[1]] >= Price[a]
      BY <1>1, <1>4, <1>6, <2>4 DEF Opening
    <3>2. 1 \in FilledSlots /\ slots'[1] = slots[1]
      BY <2>1, <2>2, <3>1
    <3>3. \A k \in FilledSlots' :
              slots'[k] \in ToSet(ranked) /\ 1 \in FilledSlots' /\ Price[slots'[1]] >= Price[slots'[k]]
      BY <1>1, <1>7, <1>9, <2>1, <2>2, <3>1, <3>2 DEF Opening
    <3>4. QED
      BY <1>1, <1>2, <1>4, <1>5, <1>9, <2>1, <3>1, <3>2, <3>3 DEF PodInv, Opening, FirstSlotFirst
  <2>5. QED
    BY <2>3, <2>4
<1>13. QED
  BY <1>11, <1>12

LEMMA FilledOnce ==
    ASSUME slots \in Seq(Ads \cup {Empty})
    PROVE  /\ Filled \in Seq(Ads)
           /\ \A k \in DOMAIN Filled : \E i \in FilledSlots : Filled[k] = slots[i]
           /\ 1 \in FilledSlots => 1 \in DOMAIN Filled /\ Filled[1] = slots[1]
<1>1. FilledSlots \in SUBSET DOMAIN slots /\ \A i \in FilledSlots : slots[i] \in Ads
  BY DEF FilledSlots, IsFilled
<1>2. /\ Filled \in Seq(Ads \cup {Empty})
      /\ \A k \in DOMAIN Filled : \E i \in FilledSlots : Filled[k] = slots[i]
      /\ 1 \in FilledSlots => 1 \in DOMAIN Filled /\ Filled[1] = slots[1]
  BY <1>1, PickedOnce DEF Filled
<1>3. Filled \in Seq(Ads)
  BY <1>1, <1>2
<1>4. QED
  BY <1>2, <1>3

LEMMA EndPodPodInv == ASSUME PodInv, IInv', EndPod PROVE PodInv'
<1>1. CASE Filled = <<>>
  BY <1>1, AsidePodInv DEF EndPod, Decline
<1>2. CASE Filled # <<>>
  <2>1. /\ stage = "pod" /\ stage' = "pricing"
        /\ UNCHANGED <<request, ranked, slots, placed, bids, tasks>>
    BY <1>2 DEF EndPod
  <2>2. FilledSlots # {}
    <3>1. slots \in Seq(Ads \cup {Empty})
      BY DEF PodInv, IInv
    <3>2. Filled \in Seq(Ads) /\ \A k \in DOMAIN Filled : FilledSlots # {}
      BY <3>1, FilledOnce
    <3>3. 1 \in DOMAIN Filled
      BY <1>2, <3>2
    <3>4. QED
      BY <3>2, <3>3
  <2>3. Opening'
    BY <2>1, <2>2 DEF PodInv, Opening, FilledSlots, IsFilled
  <2>4. TypeOK'
    BY <2>1 DEF PodInv, TypeOK, Stages
  <2>5. QED
    BY <2>1, <2>3, <2>4 DEF PodInv, Accounted, FirstSlotFirst
<1>3. QED
  BY <1>1, <1>2

\* The winners are candidates that reach the floor, the first of them one nobody outbids.
LEMMA WinnersOnce ==
    ASSUME Candidates \in Seq(Ads), request.floor \in Nat
    PROVE  /\ Winners \in Seq(Ads)
           /\ (1 \in Above /\ \A k \in Above : Price[Candidates[1]] >= Price[Candidates[k]]) =>
                  1 \in DOMAIN Winners /\ Winners[1] = Candidates[1]
<1> DEFINE s == InOrder(Above, Ahead)
           n == Cardinality(Above)
<1>1. Above \subseteq 1 .. Len(Candidates) /\ DOMAIN Candidates = 1 .. Len(Candidates)
      /\ Len(Candidates) \in Nat
  BY DEF Above
<1>2. IsFiniteSet(Above)
  <2>1. IsFiniteSet(1 .. Len(Candidates))
    BY <1>1, FS_Interval
  <2>2. QED
    BY <1>1, <2>1, FS_Subset
<1>3. \A k \in Above : k \in Int /\ Candidates[k] \in Ads /\ Price[Candidates[k]] \in Nat
  BY <1>1, ExchangeAssumption
<1>4. IsStrictOrder(Ahead, Above)
  <2> DEFINE V(k) == Price[Candidates[k]]
  <2>1. \A e, f \in Above : <<e, f>> \in Ahead <=> V(e) > V(f) \/ (V(e) = V(f) /\ e < f)
    BY DEF Ahead
  <2>2. \A k \in Above : k \in Int /\ V(k) \in Int
    BY <1>3
  <2> HIDE DEF V
  <2>3. ASSUME NEW e \in Above, NEW f \in Above, NEW g \in Above,
               <<e, f>> \in Ahead, <<f, g>> \in Ahead
        PROVE  <<e, g>> \in Ahead
    <3>1. /\ V(e) > V(f) \/ (V(e) = V(f) /\ e < f)
          /\ V(f) > V(g) \/ (V(f) = V(g) /\ f < g)
      BY <2>1, <2>3
    <3>2. V(e) > V(g) \/ (V(e) = V(g) /\ e < g)
      BY <2>2, <3>1
    <3>3. QED
      BY <2>1, <3>2
  <2>4. ASSUME NEW e \in Above, NEW f \in Above, e # f
        PROVE  <<e, f>> \in Ahead \/ <<f, e>> \in Ahead
    BY <2>1, <2>2, <2>4
  <2>5. \A e \in Above : <<e, e>> \notin Ahead
    BY <2>1, <2>2
  <2>6. QED
    BY <2>3, <2>4, <2>5 DEF IsStrictOrder
<1>5. /\ n \in Nat /\ s \in [1 .. n -> Above]
      /\ \A e \in Above : \E i \in 1 .. n : s[i] = e
      /\ \A i \in 1 .. n : Cardinality({f \in Above : <<f, s[i]>> \in Ahead}) = i - 1
  BY <1>2, <1>4, InOrderOnce
<1> HIDE DEF s, n
<1>6. Winners = [k \in 1 .. n |-> Candidates[s[k]]]
  BY <1>5 DEF Winners, s, n
<1>7. ASSUME 1 \in Above, \A k \in Above : Price[Candidates[1]] >= Price[Candidates[k]]
      PROVE  1 \in 1 .. n /\ s[1] = 1
  <2>1. PICK i \in 1 .. n : s[i] = 1
    BY <1>5, <1>7
  <2>2. ASSUME NEW f \in Above, <<f, 1>> \in Ahead PROVE FALSE
    <3>1. /\ f \in 1 .. Len(Candidates) /\ Price[Candidates[1]] >= Price[Candidates[f]]
          /\ \/ Price[Candidates[f]] > Price[Candidates[1]]
             \/ f < 1
      BY <1>1, <1>7, <2>2 DEF Ahead
    <3>2. QED
      BY <1>3, <1>7, <3>1
  <2>3. {f \in Above : <<f, s[i]>> \in Ahead} = {}
    BY <2>1, <2>2
  <2>4. i - 1 = 0
    BY <1>5, <2>3, FS_EmptySet
  <2>5. QED
    BY <2>1, <2>4
<1>8. Winners \in Seq(Ads)
  BY <1>3, <1>5, <1>6
<1>9. QED
  BY <1>6, <1>7, <1>8

LEMMA ResponseOnce ==
    ASSUME Winners \in Seq(Ads), request.imps \in Nat \ {0}
    PROVE  /\ Response \in Seq([ad : Ads, imp : Nat \ {0}])
           /\ \A i, j \in DOMAIN Response :
                  Response[i].imp = Response[j].imp /\ i # j => Response[i].imp = 1
           /\ 1 \in DOMAIN Winners /\ Winners[1] \in Playable =>
                  Response[1] = [ad |-> Winners[1], imp |-> 1]
<1> DEFINE all == [k \in DOMAIN Winners |->
                       [ad |-> Winners[k], imp |-> IF k <= request.imps THEN k ELSE 1]]
           P == {k \in DOMAIN all : all[k].ad \in Playable}
           T == [ad : Ads, imp : Nat \ {0}]
<1>1. DOMAIN Winners = 1 .. Len(Winners) /\ Len(Winners) \in Nat
  OBVIOUS
<1>2. all \in Seq(T)
  <2>1. \A k \in 1 .. Len(Winners) : all[k] \in T
    BY <1>1
  <2> HIDE DEF T
  <2>2. QED
    BY <1>1, <2>1
<1>3. P \in SUBSET DOMAIN all
  OBVIOUS
<1>4. Response = Picked(all, P)
  BY DEF Response
<1>5. \A i, j \in P : i # j /\ all[i].imp = all[j].imp => all[i].imp = 1
  BY <1>1
<1>6. 1 \in DOMAIN Winners /\ Winners[1] \in Playable =>
          1 \in P /\ all[1] = [ad |-> Winners[1], imp |-> 1]
  OBVIOUS
<1> HIDE DEF all, P, T
<1>7. /\ Response \in Seq(T)
      /\ \A k, m \in DOMAIN Response : k # m =>
             \E i, j \in P : i # j /\ Response[k] = all[i] /\ Response[m] = all[j]
      /\ 1 \in P => 1 \in DOMAIN Response /\ Response[1] = all[1]
  BY <1>2, <1>3, <1>4, PickedOnce
<1>8. \A i, j \in DOMAIN Response :
          Response[i].imp = Response[j].imp /\ i # j => Response[i].imp = 1
  BY <1>5, <1>7
<1>9. QED
  BY <1>6, <1>7, <1>8 DEF T

LEMMA AnswerPodInv == ASSUME PodInv, IInv', Answer PROVE PodInv'
<1>1. /\ stage = "pricing" /\ bids' = Response /\ UNCHANGED <<request, ranked, slots, placed>>
      /\ TypeOK /\ Opening /\ RankedOnce /\ slots \in Seq(Ads \cup {Empty})
  BY DEF Answer, PodInv, IInv
<1>2. request.imps \in Nat \ {0} /\ request.floor \in Nat
  BY <1>1, ExchangeAssumption DEF TypeOK, RequestType
<1>3. Candidates \in Seq(Ads)
  BY <1>1, FilledOnce DEF Candidates, RankedOnce
<1>4. Winners \in Seq(Ads)
  BY <1>2, <1>3, WinnersOnce
<1>5. /\ Response \in Seq([ad : Ads, imp : Nat \ {0}])
      /\ \A i, j \in DOMAIN Response :
             Response[i].imp = Response[j].imp /\ i # j => Response[i].imp = 1
  BY <1>2, <1>4, ResponseOnce
<1>6. CASE bids' = <<>>
  <2>1. stage' = "none" /\ tasks' = <<<<"request", <<>>>>>>
    BY <1>6 DEF Answer, Decline
  <2>2. TypeOK'
    BY <1>1, <1>5, <2>1, NoBidCounted DEF TypeOK, Stages
  <2>3. Opening'
    BY <1>1, <2>1 DEF Opening, FilledSlots, IsFilled
  <2>4. QED
    BY <2>1, <2>2, <2>3 DEF PodInv, Accounted, FirstSlotFirst
<1>7. CASE bids' # <<>>
  <2> DEFINE ads == [k \in DOMAIN bids' |-> bids'[k].ad]
  <2>1. stage' = "bid" /\ tasks' = <<<<"request", ads>>, <<"opportunity", ads>>>>
    BY <1>7 DEF Answer
  <2>2. ads \in Seq(Ads)
    <3>1. PICK b : b = bids' /\ b \in Seq([ad : Ads, imp : Nat \ {0}])
      BY <1>1, <1>5
    <3>2. \A k \in DOMAIN b : b[k] \in [ad : Ads, imp : Nat \ {0}]
      <4> DEFINE T == [ad : Ads, imp : Nat \ {0}]
      <4>1. b \in Seq(T)
        BY <3>1
      <4> HIDE DEF T
      <4>2. \A k \in DOMAIN b : b[k] \in T
        BY <4>1
      <4>3. QED
        BY <4>2 DEF T
    <3>3. DOMAIN b = 1 .. Len(b) /\ Len(b) \in Nat /\ \A k \in DOMAIN b : b[k].ad \in Ads
      BY <3>1, <3>2
    <3>4. QED
      BY <3>1, <3>3
  <2> HIDE DEF ads
  <2>3. tasks' \in Seq({"request", "opportunity"} \X Seq(Ads))
    <3> DEFINE T == {"request", "opportunity"} \X Seq(Ads)
    <3>1. <<"request", ads>> \in T /\ <<"opportunity", ads>> \in T
      BY <2>2
    <3>2. ASSUME NEW e \in T, NEW f \in T PROVE <<e, f>> \in Seq(T)
      <4> HIDE DEF T
      <4>1. QED
        OBVIOUS
    <3>3. QED
      BY <2>1, <3>1, <3>2
  <2>4. TypeOK'
    BY <1>1, <1>5, <2>1, <2>3 DEF TypeOK, Stages
  <2>5. IsPod' = IsPod /\ FilledSlots' = FilledSlots
    BY <1>1 DEF IsPod, FilledSlots, IsFilled
  <2>6. Opening'
    BY <1>1, <2>1, <2>5 DEF Opening
  <2>7. ASSUME IsPod, slots[1] \in Playable PROVE bids'[1] = [ad |-> slots[1], imp |-> 1]
    <3>1. /\ Candidates = Filled /\ FilledSlots # {}
          /\ \A k \in FilledSlots : slots[k] \in ToSet(ranked) /\ 1 \in FilledSlots
                                    /\ Price[slots[1]] >= Price[slots[k]]
          /\ \A a \in ToSet(ranked) : Price[a] >= request.floor
      BY <1>1, <2>7 DEF Candidates, Opening
    <3>2. 1 \in FilledSlots /\ 1 \in DOMAIN Candidates /\ Candidates[1] = slots[1]
      BY <1>1, <3>1, FilledOnce
    <3>3. \A k \in DOMAIN Candidates : \E i \in FilledSlots : Candidates[k] = slots[i]
      BY <1>1, <3>1, FilledOnce
    <3>4. 1 \in Above /\ \A k \in Above : Price[Candidates[1]] >= Price[Candidates[k]]
      BY <3>1, <3>2, <3>3 DEF Above
    <3>5. 1 \in DOMAIN Winners /\ Winners[1] = slots[1]
      BY <1>2, <1>3, <3>2, <3>4, WinnersOnce
    <3>6. QED
      BY <1>1, <1>2, <1>4, <2>7, <3>5, ResponseOnce
  <2>8. FirstSlotFirst'
    BY <1>1, <1>5, <2>5, <2>7 DEF FirstSlotFirst
  <2>9. QED
    BY <2>1, <2>4, <2>6, <2>8 DEF PodInv, Accounted
<1>8. QED
  BY <1>6, <1>7

LEMMA StepPodInv == PodInv /\ [Next]_vars => PodInv'
<1> SUFFICES ASSUME PodInv, [Next]_vars PROVE PodInv'
  OBVIOUS
<1>1. IInv'
  BY StepInv DEF PodInv
<1>2. CASE TooLate
  BY <1>1, <1>2, AsidePodInv DEF TooLate
<1>3. CASE Accept
  BY <1>1, <1>3, AsidePodInv DEF Accept, Decline
<1>4. CASE ServeAds
  BY <1>1, <1>4, ServeAdsPodInv
<1>5. CASE Raise
  BY <1>1, <1>5, AsidePodInv DEF Raise, Decline
<1>6. CASE FillSlot
  BY <1>1, <1>6, FillSlotPodInv
<1>7. CASE EndPod
  BY <1>1, <1>7, EndPodPodInv
<1>8. CASE Answer
  BY <1>1, <1>8, AnswerPodInv
<1>9. CASE UNCHANGED vars
  <2>1. UNCHANGED <<request, stage, ranked, slots, placed, bids, tasks>>
    BY <1>9 DEF vars
  <2>2. /\ Signals' = Signals /\ PodDuration' = PodDuration /\ IsPod' = IsPod
        /\ FilledSlots' = FilledSlots /\ ToSet(ranked)' = ToSet(ranked)
        /\ ToSet(slots)' = ToSet(slots)
    BY <2>1 DEF Signals, PodDuration, IsPod, FilledSlots, IsFilled
  <2>3. Eligible' = Eligible
    BY <2>1, <2>2 DEF Eligible, Fits, Separated
  <2>4. Taken' = Taken
    BY <2>1, <2>2 DEF Taken
  <2>5. Accounted'
    BY <2>1, <2>2, <2>3, <2>4 DEF PodInv, Accounted
  <2>6. Opening'
    BY <2>1, <2>2, <2>3 DEF PodInv, Opening
  <2>7. TypeOK' /\ FirstSlotFirst'
    BY <2>1, <2>2 DEF PodInv, TypeOK, FirstSlotFirst
  <2>8. QED
    BY <1>1, <2>5, <2>6, <2>7 DEF PodInv
<1>10. QED
  BY <1>2, <1>3, <1>4, <1>5, <1>6, <1>7, <1>8, <1>9 DEF Next

\* The slots of a pod never take more time than the break has, and one stays empty only if
\* no candidate of serve_ads could have joined the others.
THEOREM PodPacked == Spec => []PodIsPacked
<1>1. PodInv => PodIsPacked
  <2> SUFFICES ASSUME PodInv, stage = "pod" PROVE PodIsPacked
    BY DEF PodIsPacked
  <2>1. placed.left \in Nat /\ placed.left + Taken = PodDuration /\ Accounted /\ IInv
    BY DEF PodInv, TypeOK, Accounted
  <2>2. Taken \in Nat
    <3> DEFINE D == [k \in FilledSlots |-> Duration(slots[k])]
    <3>1. slots \in Seq(Ads \cup {Empty}) /\ IsFiniteSet(FilledSlots)
      BY <2>1, SlotsFinite DEF IInv
    <3>2. \A k \in FilledSlots : D[k] \in Nat
      BY <3>1, ExchangeAssumption DEF FilledSlots, IsFilled, Duration
    <3>3. Taken = Cardinality(UNION {{k} \X (1 .. D[k]) : k \in FilledSlots})
      BY DEF Taken
    <3> HIDE DEF D
    <3>4. QED
      BY <3>1, <3>2, <3>3, SecondsFinite, FS_CardinalityType
  <2>3. ASSUME Empty \in ToSet(slots), NEW a \in ToSet(ranked), CouldJoin(a) PROVE FALSE
    <3>1. Eligible = {} /\ a \in Ads
      BY <2>1, <2>3 DEF Accounted, IInv, RankedOnce, ToSet
    <3>2. Fits(a)
      <4>1. Duration(a) \in Nat
        BY <3>1, ExchangeAssumption DEF Duration
      <4>2. QED
        BY <2>1, <2>2, <2>3, <4>1 DEF CouldJoin, Fits
    <3>3. Separated(a)
      <4>1. /\ placed.ads \subseteq {slots[k] : k \in FilledSlots}
            /\ placed.advertisers \subseteq {Advertiser[slots[k]] : k \in FilledSlots}
            /\ placed.domains \subseteq {Domain[slots[k]] : k \in FilledSlots}
            /\ \A c \in Categories[a] : placed.categories[c]
                    = Cardinality({k \in FilledSlots : c \in Categories[slots[k]]})
        BY <2>1, <3>1 DEF Accounted
      <4>2. \A k \in FilledSlots :
                /\ Advertiser[slots[k]] # Advertiser[a]
                /\ 3 \in Signals /\ Domain[slots[k]] = Domain[a] => Domain[a] = NoDomain
        BY <2>3 DEF CouldJoin, FilledSlots
      <4>3. 2 \in Signals => \A c \in Categories[a] : placed.categories[c] < MaxSameCategory
        BY <2>3, <4>1 DEF CouldJoin
      <4>4. QED
        BY <4>1, <4>2, <4>3 DEF Separated
    <3>4. QED
      BY <2>3, <3>1, <3>2, <3>3 DEF Eligible
  <2>4. Taken <= PodDuration
    BY <2>1, <2>2
  <2>5. QED
    BY <2>3, <2>4 DEF PodIsPacked
<1>2. QED
  BY <1>1, InitPodInv, StepPodInv, PTL DEF Spec

\* Sorting by bid keeps a playable opening slot at the head of the response, on the first
\* impression, and no impression but the first is answered twice.
THEOREM OpeningSlotFirst == Spec => []FirstSlotFirst
<1>1. PodInv => FirstSlotFirst
  BY DEF PodInv
<1>2. QED
  BY <1>1, InitPodInv, StepPodInv, PTL DEF Spec

-----------------------------------------------------------------------------
(* The fields of a bid request, through the instance of BidRequests.         *)

USE DEF brVars

LEMMA NamesOfFields == BR!Params = Params /\ BR!Names = Names /\ BR!NoObject = NoObject
BY DEF BR!Params, Params, BR!Texts, Texts, BR!Numbers, Numbers, BR!Parsed, Parsed,
       BR!Names, Names, BR!NoObject, NoObject

LEMMA ParamsList ==
    /\ BR!Macros \subseteq Params
    /\ "dnt" \in Params
BY NamesOfFields DEF BR!Macros, Params, Numbers

-----------------------------------------------------------------------------
(* The query as an AdRequest.                                                *)

Changed == {"lat", "lon", "country_code", "region", "metro", "city", "zip", "geo_type",
            "ipservice", "w", "h", "min_dur", "max_dur", "ip", "dnt", "coppa", "ifa", "ua",
            "os", "app_name", "ct_genre", "ct_episode", "lmt", "environment", "bid_floor"}

LEMMA QueryOK ==
    ASSUME NEW q \in Queries
    PROVE  /\ DOMAIN q = Params
           /\ \A p \in Params : q[p] \in {p, None, Zero, Junk}
BY SignalsAssumption, NamesOfFields DEF BR!QueryType

LEMMA RequestParts ==
    ASSUME NEW q \in Queries, NEW p \in Params
    PROVE  /\ p \in DOMAIN BR!Request(q)
           /\ p \notin Changed => BR!Request(q)[p] = q[p]
BY QueryOK DEF BR!Request, Changed, BR!PlaceOf, BR!Place, BR!Over

LEMMA RequestPlaces ==
    ASSUME NEW q \in Queries, NEW p \in BR!Place, q[p] # None
    PROVE  BR!Request(q)[p] = q[p]
BY QueryOK DEF BR!Request, BR!PlaceOf, BR!Place, BR!Over, BR!Located

LEMMA RequestChanged ==
    ASSUME NEW q \in Queries
    PROVE  /\ BR!Request(q).w = BR!Given(q.w, "default")
           /\ BR!Request(q).h = BR!Given(q.h, "default")
           /\ BR!Request(q).min_dur = BR!Given(q.min_dur, "default")
           /\ BR!Request(q).max_dur = BR!Given(q.max_dur, "default")
           /\ BR!Request(q).dnt = BR!Given(q.dnt, Zero)
           /\ BR!Request(q).coppa = BR!Given(q.coppa, Zero)
           /\ BR!Request(q).ifa = BR!Ifa(q)
           /\ BR!Request(q).ua = BR!UserAgent(q)
           /\ q.os \notin BR!Falsy => BR!Request(q).os = q.os
           /\ BR!Request(q).app_name = BR!Or(q.app_name, q.ct_chan)
           /\ BR!Request(q).ct_genre = BR!Or(q.ct_genre, q.content_type)
           /\ BR!Request(q).ct_episode = BR!Or(q.ct_episode, BR!IntOf(q.ct_eps))
           /\ BR!Request(q).lmt = (BR!Given(q.dnt, Zero) = "dnt")
           /\ BR!Request(q).bid_floor = None
<1> DEFINE r == BR!Request(q)
<1>1. r.w = BR!Given(q.w, "default") /\ r.h = BR!Given(q.h, "default")
  BY DEF BR!Request, BR!PlaceOf, BR!Place, BR!Over
<1>2. r.lmt = (BR!Given(q.dnt, Zero) = "dnt") /\ r.bid_floor = None
  BY DEF BR!Request, BR!PlaceOf, BR!Place, BR!Over
<1>3. q.os \notin BR!Falsy => BR!Request(q).os = q.os
  BY DEF BR!Request, BR!PlaceOf, BR!Place, BR!Over, BR!Or
<1>4. r.min_dur = BR!Given(q.min_dur, "default") /\ r.max_dur = BR!Given(q.max_dur, "default")
  BY DEF BR!Request, BR!PlaceOf, BR!Place, BR!Over
<1>5. r.dnt = BR!Given(q.dnt, Zero) /\ r.coppa = BR!Given(q.coppa, Zero)
  BY DEF BR!Request, BR!PlaceOf, BR!Place, BR!Over
<1>6. r.ifa = BR!Ifa(q) /\ r.ua = BR!UserAgent(q)
  BY DEF BR!Request, BR!PlaceOf, BR!Place, BR!Over
<1>7. r.app_name = BR!Or(q.app_name, q.ct_chan) /\ r.ct_genre = BR!Or(q.ct_genre, q.content_type)
  BY DEF BR!Request, BR!PlaceOf, BR!Place, BR!Over
<1>8. r.ct_episode = BR!Or(q.ct_episode, BR!IntOf(q.ct_eps))
  BY DEF BR!Request, BR!PlaceOf, BR!Place, BR!Over
<1>9. QED
  BY <1>1, <1>2, <1>3, <1>4, <1>5, <1>6, <1>7, <1>8

LEMMA RequestEchoes ==
    ASSUME NEW q \in Queries, NEW p \in Params \ {"ip", "geo_type", "ipservice"}, q[p] = p
    PROVE  BR!Request(q)[p] = p
<1>1. p \notin {None, Zero, EmptyList}
  BY SignalsAssumption
<1>2. CASE p \notin Changed
  BY <1>2, RequestParts
<1>3. CASE p \in BR!Place
  BY <1>1, <1>3, RequestPlaces
<1>4. CASE p \in {"w", "h", "min_dur", "max_dur", "dnt", "coppa"}
  BY <1>1, <1>4, RequestChanged DEF BR!Given
<1>5. CASE p \in {"ifa", "ua", "os", "app_name", "ct_genre", "ct_episode"}
  BY <1>1, <1>5, RequestChanged DEF BR!Or, BR!Falsy, BR!Ifa, BR!UserAgent
<1>6. p \notin {"lmt", "environment", "bid_floor"}
  BY DEF Params, Texts, Numbers, Parsed
<1>7. QED
  BY <1>2, <1>3, <1>4, <1>5, <1>6 DEF Changed, BR!Place

-----------------------------------------------------------------------------
(* The AdRequest as a bid request.                                           *)

\* The AdRequest of a VAST tag.
TagAd == query \in Queries /\ ad = BR!Request(query)

LEMMA AdEchoes ==
    ASSUME TagAd
    PROVE  /\ \A p \in Params \ {"ip", "geo_type", "ipservice"} : query[p] = p => ad[p] = p
           /\ \A p \in BR!Meant : query[p] = Zero => ad[p] = Zero
           /\ \A p \in Params : p \notin {None, Zero, Junk, EmptyList}
<1>1. \A p \in BR!Meant : p \in Params /\ p \notin Changed
  BY DEF BR!Meant, Params, Numbers, Changed
<1>2. QED
  BY <1>1, RequestEchoes, RequestParts, SignalsAssumption DEF TagAd

\* A field of the bid request that stands for a parameter.
Echo(object, f, p) ==
    /\ query[p] = p => f \in DOMAIN object /\ object[f] = p
    /\ query[p] = Zero /\ p \in BR!Meant => f \in DOMAIN object /\ object[f] = Zero

LEMMA BuiltParts ==
    /\ BR!BuiltBid.video = BR!Video /\ BR!BuiltBid.device = BR!Device
    /\ BR!BuiltBid.geo = BR!Geo /\ BR!BuiltBid.app = BR!App /\ BR!BuiltBid.content = BR!Content
    /\ BR!BuiltBid.imp.exp = ad.exp /\ "exp" \in DOMAIN BR!BuiltBid.imp
    /\ BR!BuiltBid.imp.bidfloor = BR!Floor /\ "bidfloor" \in DOMAIN BR!BuiltBid.imp
    /\ BR!BuiltBid.regs.coppa = ad.coppa /\ BR!BuiltBid.regs.us_privacy = ad.us_privacy
    /\ DOMAIN BR!BuiltBid.regs = {"coppa", "us_privacy", "gpp_sid"}
    /\ BR!BuiltBid.regs.gpp_sid = "default"
    /\ BR!BuiltBid.top.bcat = BR!Or(ad.bcat, "default") /\ BR!BuiltBid.top.badv = BR!Strs(ad.badv)
    /\ {"bcat", "badv"} \subseteq DOMAIN BR!BuiltBid.top
    /\ DOMAIN BR!BuiltBid = {"top", "imp", "video", "device", "geo", "app", "content", "user",
                             "source", "regs"}
BY DEF BR!BuiltBid

LEMMA BuiltEchoes ==
    ASSUME TagAd, NEW o \in DOMAIN BR!Carried, NEW f \in DOMAIN BR!Carried[o]
    PROVE  Echo(BR!BuiltBid[o], f, BR!Carried[o][f])
<1> USE AdEchoes
<1> USE DEF BR!Or, BR!Given, BR!Falsy, BR!Ints, BR!IntOf, BR!Strs
<1>1. CASE o = "video"
  <2>1. Echo(BR!Video, f, BR!Carried["video"][f])
    BY <1>1 DEF Echo, BR!Video, BR!Carried, BR!Meant, Params, Texts, Numbers, Parsed
  <2>2. QED
    BY <1>1, <2>1, BuiltParts
<1>2. CASE o = "device"
  <2>1. CASE f \in {"ua", "ifa", "os", "make", "model", "carrier", "didsha1", "didmd5"}
    <3>1. BR!Carried["device"][f] \notin BR!Meant
      BY <2>1 DEF BR!Carried, BR!Meant
    <3>2. f \in DOMAIN BR!Device /\ BR!Device[f] = ad[BR!Carried["device"][f]]
      BY <2>1 DEF BR!Device, BR!Carried
    <3>3. BR!Carried["device"][f] \in Params \ {"ip", "geo_type", "ipservice"}
      BY <2>1 DEF BR!Carried, Params, Texts, Numbers, Parsed
    <3>4. QED
      BY <1>2, <3>1, <3>2, <3>3, BuiltParts DEF Echo
  <2>2. CASE f \in {"osv", "language", "devicetype"}
    <3>1. /\ "osv" \in DOMAIN BR!Device /\ "language" \in DOMAIN BR!Device
          /\ "devicetype" \in DOMAIN BR!Device
          /\ \E x1 : BR!Device.osv = BR!Or(ad.osv, x1)
          /\ \E x1 : BR!Device.language = BR!Or(ad.device_language, x1)
          /\ \E x1 : BR!Device.devicetype = BR!Given(ad.device_type, x1)
      BY DEF BR!Device
    <3>2. /\ BR!Carried["device"]["osv"] = "osv"
          /\ BR!Carried["device"]["language"] = "device_language"
          /\ BR!Carried["device"]["devicetype"] = "device_type"
          /\ "osv" \notin BR!Meant /\ "device_language" \notin BR!Meant
          /\ {"osv", "device_language", "device_type"} \subseteq
                 Params \ {"ip", "geo_type", "ipservice"}
      BY DEF BR!Carried, BR!Meant, Params, Texts, Numbers, Parsed
    <3>3. None # Zero
      BY SignalsAssumption
    <3>4. QED
      BY <1>2, <2>2, <3>1, <3>2, <3>3, BuiltParts DEF Echo
  <2>3. QED
    BY <1>2, <2>1, <2>2 DEF BR!Carried
<1>3. CASE o = "geo"
  <2>1. Echo(BR!Geo, f, BR!Carried["geo"][f])
    BY <1>3 DEF Echo, BR!Geo, BR!PublisherGeo, BR!Carried, BR!Meant, Params, Texts, Numbers,
                Parsed
  <2>2. QED
    BY <1>3, <2>1, BuiltParts
<1>4. CASE o = "app"
  <2>1. Echo(BR!App, f, BR!Carried["app"][f])
    BY <1>4 DEF Echo, BR!App, BR!Carried, BR!Meant, Params, Texts, Numbers, Parsed
  <2>2. QED
    BY <1>4, <2>1, BuiltParts
<1>5. CASE o = "content"
  <2> DEFINE p == BR!Carried["content"][f]
  <2>1. /\ p \in Params \ {"ip", "geo_type", "ipservice"}
        /\ p \in {"ct_id", "ct_title", "ct_ser", "ct_seas", "ct_genre", "ct_url", "ct_lang",
                  "ct_producer", "ct_prodq", "ct_qa_media_rating", "app_cat", "ct_chan",
                  "ct_net", "ct_genres", "ct_live_str", "ct_episode", "ct_context",
                  "ct_gtax", "ct_len"}
    BY <1>5 DEF BR!Carried, Params, Texts, Numbers, Parsed
  <2>2. ad[p] # None => BR!HasContent
    <3> HIDE DEF p
    <3>1. QED
      BY <2>1 DEF BR!HasContent
  <2>3. ASSUME BR!HasContent
        PROVE  /\ f \in DOMAIN BR!Content
               /\ \/ BR!Content[f] = ad[p]
                  \/ p \in {"ct_genres", "app_cat"} /\ BR!Content[f] = BR!Strs(ad[p])
                  \/ p \in {"ct_prodq", "ct_qa_media_rating"} /\ BR!Content[f] = BR!IntOf(ad[p])
                  \/ p \in {"ct_lang", "ct_context"} /\ \E x1 : BR!Content[f] = BR!Or(ad[p], x1)
    BY <1>5, <2>3 DEF BR!Content, BR!Carried
  <2>4. p \in BR!Meant => p \notin {"ct_genres", "app_cat", "ct_prodq", "ct_qa_media_rating",
                                   "ct_lang", "ct_context"}
    BY DEF BR!Meant
  <2>5. None # Zero
    BY SignalsAssumption
  <2> HIDE DEF p
  <2>6. Echo(BR!Content, f, p)
    BY <2>1, <2>2, <2>3, <2>4, <2>5 DEF Echo
  <2>7. QED
    BY <1>5, <2>6, BuiltParts DEF p
<1>6. CASE o \in {"imp", "regs", "top"}
  BY <1>6, BuiltParts DEF Echo, BR!Carried, BR!Meant, Params, Texts, Numbers, Parsed
<1>7. QED
  BY <1>1, <1>2, <1>3, <1>4, <1>5, <1>6 DEF BR!Carried

-----------------------------------------------------------------------------
(* Enrichment and slimming keep what is said.                                *)

Said(v) == v \notin {None, EmptyList}

LEMMA FillInKeeps ==
    ASSUME NEW object, NEW defaults, NEW f \in DOMAIN object, Said(object[f])
    PROVE  /\ f \in DOMAIN BR!FillIn(object, defaults)
           /\ BR!FillIn(object, defaults)[f] = object[f]
BY DEF BR!FillIn, Said

\* Of a whole bid request: an address or a browser is zero only as a default.
LEMMA EnrichedKeeps ==
    ASSUME NEW b, {"top", "imp", "video", "device", "geo", "app", "content", "source",
                   "regs"} \subseteq DOMAIN b,
           NEW o \in DOMAIN b \ {"geo"}, NEW f \in DOMAIN b[o], Said(b[o][f]),
           o = "device" /\ f \in {"ip", "ua"} => b[o][f] # Zero
    PROVE  f \in DOMAIN BR!Enriched(b)[o] /\ BR!Enriched(b)[o][f] = b[o][f]
<1>1. ~ BR!Absent(b[o])
  BY DEF BR!Absent
<1> DEFINE tv == ~ BR!Absent(b.device) /\ BR!SaysTv(b.device.devicetype)
           Blanked == IF BR!Absent(b[o]) THEN BR!Blank(o) ELSE b[o]
<1>2. Blanked = b[o]
  BY <1>1
<1>3. CASE o \in {"top", "imp", "video", "app"}
  <2>1. \E g : BR!Enriched(b)[o] = BR!FillIn(b[o], g)
    BY <1>1, <1>3 DEF BR!Enriched, BR!OrBlank
  <2>2. QED
    BY <2>1, FillInKeeps
<1>4. CASE o = "device"
  <2>1. BR!Enriched(b)[o] = BR!EnrichedDevice(b[o], tv)
    BY <1>4 DEF BR!Enriched
  <2> DEFINE e == [b[o] EXCEPT !.ip = BR!Or(@, BR!ClientIp), !.ua = BR!Or(@, BR!ClientUa)]
  <2>2. \E g : BR!EnrichedDevice(b[o], tv) = BR!FillIn(e, g)
    BY <1>1, <1>4 DEF BR!EnrichedDevice
  <2>3. f \in DOMAIN e /\ e[f] = b[o][f]
    BY <1>4 DEF BR!Or, BR!Falsy, Said
  <2>4. Said(e[f])
    BY <2>3
  <2> HIDE DEF e
  <2>5. QED
    BY <2>1, <2>2, <2>3, <2>4, FillInKeeps
<1>5. CASE o \in {"content", "source", "regs"}
  BY <1>1, <1>5 DEF BR!Enriched
<1>6. CASE o \notin {"top", "imp", "video", "device", "geo", "app", "content", "source", "regs"}
  BY <1>6 DEF BR!Enriched
<1>7. QED
  BY <1>3, <1>4, <1>5, <1>6

LEMMA EnrichedDomain ==
    ASSUME NEW b PROVE DOMAIN BR!Enriched(b) = DOMAIN b
BY DEF BR!Enriched

Omitted == {"instl", "tagid", "gpp_sid", "gpp", "consent", "ext_gdpr"}

LEMMA SlimKeeps ==
    ASSUME NEW b, NEW o \in DOMAIN b, NEW f \in DOMAIN b[o], Said(b[o][f]),
           f \notin Omitted
    PROVE  f \in DOMAIN BR!Slim(b)[o] /\ BR!Slim(b)[o][f] = b[o][f]
BY DEF BR!Slim, BR!Over, BR!Dropped, Said, Omitted

\* What a partner is sent of what was said in the bid request.
LEMMA SentKeeps ==
    ASSUME NEW o \in DOMAIN BR!BuiltBid, NEW f \in DOMAIN BR!BuiltBid[o],
           Said(BR!BuiltBid[o][f]), f \notin Omitted,
           o = "device" /\ f \in {"ip", "ua"} => BR!BuiltBid[o][f] # Zero,
           o = "geo" => "country" \in DOMAIN BR!Geo /\ BR!Geo.country # None
    PROVE  /\ f \in DOMAIN BR!Slim(BR!Enriched(BR!BuiltBid))[o]
           /\ BR!Slim(BR!Enriched(BR!BuiltBid))[o][f] = BR!BuiltBid[o][f]
<1> DEFINE b == BR!BuiltBid
<1>1. {"top", "imp", "video", "device", "geo", "app", "content", "source", "regs"} \subseteq DOMAIN b
  BY BuiltParts
<1>2. CASE o # "geo"
  BY <1>1, <1>2, EnrichedKeeps, EnrichedDomain, SlimKeeps
<1>3. CASE o = "geo"
  <2>1. b.geo = BR!Geo /\ f \in DOMAIN BR!Geo
    BY <1>3, BuiltParts
  <2>2. ~ BR!Absent(b.geo) /\ b.geo.country # None
    BY <1>3, <2>1 DEF BR!Absent
  <2>3. BR!Enriched(b).geo = b.geo
    <3> HIDE DEF b
    <3>1. QED
      BY <1>1, <2>2 DEF BR!Enriched
  <2>4. QED
    BY <1>3, <2>3, EnrichedDomain, SlimKeeps
<1>4. QED
  BY <1>2, <1>3

LEMMA SentEchoes ==
    ASSUME TagAd, NEW o \in DOMAIN BR!Carried, NEW f \in DOMAIN BR!Carried[o]
    PROVE  Echo(BR!Slim(BR!Enriched(BR!BuiltBid))[o], f, BR!Carried[o][f])
<1> DEFINE p == BR!Carried[o][f]
<1>1. Echo(BR!BuiltBid[o], f, p)
  BY BuiltEchoes
<1>2. /\ o \in DOMAIN BR!BuiltBid /\ p \in Params
      /\ f \notin Omitted
      /\ o = "geo" => f = "country" /\ p \notin BR!Meant
      /\ o = "device" /\ f \in {"ip", "ua"} => p \notin BR!Meant
  BY BuiltParts DEF BR!Carried, BR!Meant, Omitted, Params, Texts, Numbers, Parsed
<1> HIDE DEF p
<1>3. Said(p) /\ Said(Zero) /\ p # Zero
  BY <1>2, SignalsAssumption DEF Said
<1>4. ASSUME query[p] = p PROVE Echo(BR!Slim(BR!Enriched(BR!BuiltBid))[o], f, p)
  <2>1. f \in DOMAIN BR!BuiltBid[o] /\ BR!BuiltBid[o][f] = p
    BY <1>1, <1>4 DEF Echo
  <2>2. o = "geo" => "country" \in DOMAIN BR!Geo /\ BR!Geo.country # None
    BY <1>2, <1>3, <2>1, BuiltParts DEF Said
  <2>3. QED
    BY <1>2, <1>3, <1>4, <2>1, <2>2, SentKeeps DEF Echo
<1>5. ASSUME query[p] = Zero, p \in BR!Meant
      PROVE  Echo(BR!Slim(BR!Enriched(BR!BuiltBid))[o], f, p)
  <2>1. f \in DOMAIN BR!BuiltBid[o] /\ BR!BuiltBid[o][f] = Zero
    BY <1>1, <1>5 DEF Echo
  <2>2. QED
    BY <1>2, <1>3, <1>5, <2>1, SentKeeps DEF Echo
<1>6. QED
  BY <1>4, <1>5 DEF Echo, p

\* The place: with an address MaxMind's, but for the country; without, the publisher's.
LEMMA GeoParts ==
    ASSUME TagAd
    PROVE  /\ ad.ip \notin BR!Falsy =>
                 /\ DOMAIN BR!Geo = DOMAIN BR!PublisherGeo
                 /\ BR!Geo.country # None
                 /\ \A f \in DOMAIN BR!Replaced : BR!Geo[f] = BR!Looked(ad.ip)
           /\ ad.ip \in BR!Falsy /\ query.country_code # None =>
                 /\ DOMAIN BR!Geo = DOMAIN BR!PublisherGeo
                 /\ BR!Geo.country # None
                 /\ \A f \in DOMAIN BR!Replaced :
                       query[BR!Replaced[f]] # None => BR!Geo[f] = query[BR!Replaced[f]]
<1>1. \A f \in DOMAIN BR!Replaced : f \in BR!Place /\ BR!Replaced[f] = f
  BY DEF BR!Replaced, BR!Place
<1>2. BR!Looked(ad.ip) # None
  BY SignalsAssumption DEF BR!Looked
<1>3. ASSUME ad.ip \notin BR!Falsy
      PROVE  /\ DOMAIN BR!Geo = DOMAIN BR!PublisherGeo
             /\ BR!Geo.country # None
             /\ \A f \in DOMAIN BR!Replaced : BR!Geo[f] = BR!Looked(ad.ip)
  <2>1. BR!Geo = [f \in DOMAIN BR!PublisherGeo |->
                     IF f = "country" THEN BR!Or(ad.country_code, BR!Looked(ad.ip))
                                      ELSE BR!Looked(ad.ip)]
    BY <1>3 DEF BR!Geo
  <2>2. "country" \in DOMAIN BR!PublisherGeo /\ DOMAIN BR!Replaced \subseteq DOMAIN BR!PublisherGeo
        /\ "country" \notin DOMAIN BR!Replaced
    BY DEF BR!PublisherGeo, BR!Replaced
  <2>3. BR!Or(ad.country_code, BR!Looked(ad.ip)) # None
    BY <1>2 DEF BR!Or, BR!Falsy
  <2>4. QED
    BY <2>1, <2>2, <2>3
<1>4. ASSUME ad.ip \in BR!Falsy, query.country_code # None
      PROVE  /\ DOMAIN BR!Geo = DOMAIN BR!PublisherGeo
             /\ BR!Geo.country # None
             /\ \A f \in DOMAIN BR!Replaced :
                   query[BR!Replaced[f]] # None => BR!Geo[f] = query[BR!Replaced[f]]
  <2>1. ad.country_code = query.country_code
    BY <1>4, RequestPlaces DEF TagAd, BR!Place
  <2>2. BR!Geo = BR!PublisherGeo
    BY <1>4, <2>1 DEF BR!Geo
  <2>3. \A f \in DOMAIN BR!Replaced : query[f] # None => ad[f] = query[f]
    BY <1>1, RequestPlaces DEF TagAd
  <2>4. BR!PublisherGeo.country = ad.country_code
        /\ \A f \in DOMAIN BR!Replaced : BR!PublisherGeo[f] = ad[f]
    BY DEF BR!PublisherGeo, BR!Replaced
  <2>5. QED
    BY <1>1, <1>4, <2>1, <2>2, <2>3, <2>4
<1>5. QED
  BY <1>3, <1>4

LEMMA SentPlace ==
    ASSUME TagAd, NEW f \in DOMAIN BR!Replaced
    PROVE  LET geo == BR!Slim(BR!Enriched(BR!BuiltBid)).geo IN
           /\ ad.ip \notin BR!Falsy => f \in DOMAIN geo /\ geo[f] = BR!Looked(ad.ip)
           /\ ad.ip \in BR!Falsy /\ query.country_code # None
                 /\ query[BR!Replaced[f]] # None =>
                     f \in DOMAIN geo /\ geo[f] = query[BR!Replaced[f]]
<1> DEFINE geo == BR!Slim(BR!Enriched(BR!BuiltBid)).geo
<1>1. /\ f \in DOMAIN BR!PublisherGeo /\ "country" \in DOMAIN BR!PublisherGeo
      /\ f \notin Omitted /\ BR!Replaced[f] \in Params
  BY DEF BR!Replaced, BR!PublisherGeo, Omitted, Params, Texts, Numbers
<1>2. "geo" \in DOMAIN BR!BuiltBid /\ BR!BuiltBid["geo"] = BR!Geo
  BY BuiltParts
<1>3. ASSUME ad.ip \notin BR!Falsy PROVE f \in DOMAIN geo /\ geo[f] = BR!Looked(ad.ip)
  <2>1. BR!Geo[f] = BR!Looked(ad.ip) /\ f \in DOMAIN BR!Geo /\ "country" \in DOMAIN BR!Geo
        /\ BR!Geo.country # None
    BY <1>1, <1>3, GeoParts
  <2>2. Said(BR!Looked(ad.ip))
    BY SignalsAssumption DEF Said, BR!Looked
  <2>3. QED
    BY <1>1, <1>2, <2>1, <2>2, SentKeeps
<1>4. ASSUME ad.ip \in BR!Falsy, query.country_code # None, query[BR!Replaced[f]] # None
      PROVE  f \in DOMAIN geo /\ geo[f] = query[BR!Replaced[f]]
  <2>1. BR!Geo[f] = query[BR!Replaced[f]] /\ f \in DOMAIN BR!Geo /\ "country" \in DOMAIN BR!Geo
        /\ BR!Geo.country # None
    BY <1>1, <1>4, GeoParts
  <2>2. query[BR!Replaced[f]] # EmptyList
    BY <1>1, QueryOK, SignalsAssumption DEF TagAd
  <2>3. Said(query[BR!Replaced[f]])
    BY <1>4, <2>2 DEF Said
  <2>4. QED
    BY <1>1, <1>2, <2>1, <2>3, SentKeeps
<1>5. QED
  BY <1>3, <1>4

\* The rating is sent along with other content only.
LEMMA SentRating ==
    ASSUME TagAd, query.ct_rat = "ct_rat"
    PROVE  LET content == BR!Slim(BR!Enriched(BR!BuiltBid)).content IN
           IF BR!HasContent THEN content.contentrating = "ct_rat"
                            ELSE "contentrating" \notin DOMAIN content
<1> DEFINE b == BR!Enriched(BR!BuiltBid)
           content == BR!Slim(b).content
<1>1. "content" \in DOMAIN BR!BuiltBid /\ BR!BuiltBid["content"] = BR!Content
  BY BuiltParts
<1>2. "ct_rat" \in Params /\ "ct_rat" \notin {"ip", "geo_type", "ipservice"}
  BY DEF Params, Texts
<1>3. ad.ct_rat = "ct_rat" /\ Said("ct_rat")
  BY <1>2, AdEchoes DEF Said
<1>4. ASSUME BR!HasContent PROVE content.contentrating = "ct_rat"
  <2>1. "contentrating" \in DOMAIN BR!Content /\ BR!Content["contentrating"] = "ct_rat"
    BY <1>3, <1>4 DEF BR!Content
  <2>2. "contentrating" \notin Omitted
    BY DEF Omitted
  <2>3. QED
    BY <1>1, <1>3, <2>1, <2>2, SentKeeps
<1>5. ASSUME ~ BR!HasContent PROVE "contentrating" \notin DOMAIN content
  <2>1. "contentrating" \notin DOMAIN BR!Content
    BY <1>5, NamesOfFields DEF BR!Content, NoObject
  <2>2. b["content"] = BR!Content \/ b["content"].contentrating = None
    <3>1. BR!Blank("content") = [f \in DOMAIN Names["content"] |-> None]
      BY NamesOfFields DEF BR!Blank
    <3>2. "contentrating" \in DOMAIN Names["content"]
      BY DEF Names
    <3>3. QED
      BY <1>1, <3>1, <3>2 DEF BR!Enriched
  <2>3. "content" \in DOMAIN b
    BY <1>1, EnrichedDomain
  <2> HIDE DEF b
  <2>4. "contentrating" \notin DOMAIN BR!Slim(b)["content"]
    BY <2>1, <2>2, <2>3, NamesOfFields DEF BR!Slim, BR!Over, NoObject
  <2>5. QED
    BY <2>4
<1>6. QED
  BY <1>4, <1>5

-----------------------------------------------------------------------------
(* The URL of a demand tag, and the request of an exchange.                  *)

LEMMA MacroEchoes ==
    ASSUME TagAd, NEW m \in BR!Echoed, query[m] = m
    PROVE  m \in BR!Macros /\ BR!Macro(m) = m /\ m # None
<1>1. m \in BR!Macros /\ m \in Params /\ m \notin {"ip", "content_type", "ct_eps"}
      /\ m \notin {"geo_type", "ipservice"}
  BY NamesOfFields DEF BR!Echoed, BR!Macros
<1>2. m \notin {None, Zero, Junk, EmptyList}
  BY <1>1, AdEchoes
<1>3. ad[m] = m
  BY <1>1, AdEchoes
<1>4. CASE m \in {"w", "h", "min_dur", "max_dur"}
  <2>1. BR!Macro(m) = BR!Or(ad[m], "default")
    BY <1>4 DEF BR!Macro
  <2>2. BR!Or(m, "default") = m
    BY <1>2 DEF BR!Or, BR!Falsy
  <2>3. QED
    BY <1>1, <1>2, <1>3, <2>1, <2>2
<1>5. CASE m = "uip"
  <2>1. ad.ip = "uip"
    BY <1>2, <1>5 DEF TagAd, BR!Request, BR!PlaceOf, BR!Place, BR!Over, BR!Or, BR!Falsy, BR!Ip
  <2>2. QED
    BY <1>1, <1>2, <1>5, <2>1 DEF BR!Macro
<1>6. CASE m = "dnt"
  <2>1. ad.lmt = TRUE
    BY <1>2, <1>6, RequestChanged DEF TagAd, BR!Given
  <2>2. QED
    BY <1>1, <1>2, <1>6, <2>1 DEF BR!Macro
<1>7. CASE m = "device_type"
  BY <1>1, <1>2, <1>3, <1>7 DEF BR!Macro, BR!Given
<1>8. CASE m \notin {"w", "h", "min_dur", "max_dur", "uip", "dnt", "device_type"}
  BY <1>1, <1>2, <1>3, <1>8 DEF BR!Macro
<1>9. QED
  BY <1>4, <1>5, <1>6, <1>7, <1>8

\* The AdRequest of an exchange.
InboundAd == inbound \in Inbounds /\ ad = BR!Internal(BR!Enriched(inbound))

LEMMA InboundKeeps ==
    ASSUME inbound \in Inbounds, NEW o \in DOMAIN inbound \ {"geo"}, NEW f \in DOMAIN inbound[o],
           inbound[o][f] \in Params \cup {"lmt"}
    PROVE  /\ BR!Enriched(inbound)[o][f] = inbound[o][f]
           /\ f \in DOMAIN BR!Enriched(inbound)[o]
<1>1. {"top", "imp", "video", "device", "geo", "app", "content", "source", "regs"}
          \subseteq DOMAIN inbound
  BY SignalsAssumption, NamesOfFields DEF BR!IsInbound, Names
<1>2. Said(inbound[o][f]) /\ inbound[o][f] # Zero
  BY SignalsAssumption DEF Said
<1>3. QED
  BY <1>1, <1>2, EnrichedKeeps

LEMMA ContextEchoes ==
    ASSUME InboundAd, ~ BR!FromTag, NEW o \in DOMAIN inbound \ {"geo"}, NEW f \in DOMAIN inbound[o],
           inbound[o][f] = Names[o][f], Names[o][f] \in DOMAIN BR!Context
    PROVE  BR!Context[Names[o][f]] = Names[o][f]
<1> DEFINE b == BR!Enriched(inbound)
           p == Names[o][f]
           flat == {"ifa", "os", "osv", "device_model", "app_id", "app_name", "app_bundle",
                    "ct_genre", "ct_rat", "ct_id", "ct_net", "startdelay", "min_dur",
                    "max_dur", "environment"}
<1>1. o \in DOMAIN Names /\ f \in DOMAIN Names[o]
  BY SignalsAssumption, NamesOfFields DEF InboundAd, BR!IsInbound, BR!Absent
<1>2. p \in BR!Place \cup flat
  BY DEF BR!Context, BR!Over, BR!Place
<1>3. \/ o = "device" /\ f \in {"ifa", "os", "osv", "model"}
      \/ o = "app" /\ f \in {"id", "name", "bundle"}
      \/ o = "content" /\ f \in {"id", "genre", "contentrating", "network"}
      \/ o = "video" /\ f \in {"minduration", "maxduration", "startdelay"}
  BY <1>1, <1>2 DEF Names, BR!Place
<1>4. p \in flat \ {"environment"} /\ p \notin BR!Place /\ p \in Params
  BY <1>3 DEF Names, BR!Place, Params, Texts, Numbers
<1>5. BR!Context[p] = ad[p]
  <2> HIDE DEF p
  <2>1. QED
    BY <1>4 DEF BR!Context, BR!Over
<1>6. b[o][f] = p /\ f \in DOMAIN b[o]
  BY <1>4, InboundKeeps DEF InboundAd
<1>7. p \notin {None, Zero, EmptyList}
  BY <1>4, SignalsAssumption
<1> HIDE DEF b
<1>8. ad[p] = p
  <2>1. CASE o = "device"
    BY <1>3, <1>6, <2>1 DEF InboundAd, BR!Internal, b, Names
  <2>2. CASE o = "app"
    BY <1>3, <1>6, <2>2 DEF InboundAd, BR!Internal, b, Names
  <2>3. CASE o = "content"
    <3>1. ~ BR!Absent(b.content)
      BY <1>6, <2>3 DEF BR!Absent
    <3>2. QED
      BY <1>3, <1>6, <2>3, <3>1 DEF InboundAd, BR!Internal, BR!OrBlank, b, Names
  <2>4. CASE o = "video"
    BY <1>3, <1>6, <1>7, <2>4 DEF InboundAd, BR!Internal, BR!Or, BR!Falsy, b, Names
  <2>5. QED
    BY <1>3, <2>1, <2>2, <2>3, <2>4
<1>9. QED
  BY <1>5, <1>8

LEMMA ContextPlace ==
    ASSUME ~ BR!FromTag, NEW p \in BR!Place \ {"zip"} PROVE BR!Context[p] = None
BY DEF BR!Context, BR!Over

LEMMA InboundSignals ==
    ASSUME InboundAd
    PROVE  /\ \A f \in DOMAIN inbound.regs \ {"ext_gdpr"} :
                 inbound.regs[f] = Names.regs[f] => ad[Names.regs[f]] = Names.regs[f]
           /\ BR!Absent(inbound.regs) \/ inbound.regs.gdpr = None => ad.gdpr = None
           /\ ~ BR!Absent(inbound.device) =>
                 ("lmt" = inbound.device.lmt \/ "dnt" = inbound.device.dnt => ad.lmt)
           /\ inbound.imp.bidfloor = "bidfloor" => ad.bid_floor = "bidfloor"
<1> DEFINE b == BR!Enriched(inbound)
<1>1. BR!IsInbound(inbound)
  BY SignalsAssumption DEF InboundAd
<1>2. \A o \in DOMAIN Names : o \in DOMAIN inbound /\
          (DOMAIN inbound[o] = {} \/ DOMAIN inbound[o] = DOMAIN Names[o])
  BY <1>1, NamesOfFields DEF BR!IsInbound, BR!Absent
<1>3. ad = BR!Internal(b)
  BY DEF InboundAd
<1>4. ASSUME NEW f \in DOMAIN inbound.regs \ {"ext_gdpr"}, inbound.regs[f] = Names.regs[f]
      PROVE  ad[Names.regs[f]] = Names.regs[f]
  <2> DEFINE p == Names.regs[f]
  <2>1. /\ f \in {"coppa", "us_privacy", "gdpr", "consent", "gpp", "gpp_sid"}
        /\ "regs" \in DOMAIN inbound \ {"geo"}
    BY <1>2 DEF Names
  <2>2. p \in Params
    BY <2>1 DEF Names, Params, Texts, Numbers
  <2>3. b.regs[f] = p
    BY <1>4, <2>1, <2>2, InboundKeeps DEF InboundAd
  <2>4. p \notin BR!Falsy
    BY <2>2, SignalsAssumption DEF BR!Falsy
  <2>5. /\ ad.coppa = b.regs.coppa /\ ad.us_privacy = b.regs.us_privacy
        /\ ad.gdpr = b.regs.gdpr /\ ad.gdpr_consent = b.regs.consent /\ ad.gpp = b.regs.gpp
        /\ ad.gpp_sid = BR!Or(b.regs.gpp_sid, None)
    <3> HIDE DEF b
    <3>1. QED
      BY <1>3 DEF BR!Internal
  <2>6. p = CASE f = "coppa" -> "coppa" [] f = "us_privacy" -> "us_privacy"
              [] f = "gdpr" -> "gdpr" [] f = "consent" -> "gdpr_consent"
              [] f = "gpp" -> "gpp" [] f = "gpp_sid" -> "gpp_sid"
    BY <2>1 DEF Names
  <2> HIDE DEF b, p
  <2>7. ad[p] = p
    BY <2>1, <2>3, <2>4, <2>5, <2>6 DEF BR!Or
  <2>8. QED
    BY <2>7 DEF p
<1>8. ASSUME BR!Absent(inbound.regs) \/ inbound.regs.gdpr = None PROVE ad.gdpr = None
  <2>1. ad.gdpr = b.regs.gdpr
    <3> HIDE DEF b
    <3>1. QED
      BY <1>3 DEF BR!Internal
  <2>2. b.regs = IF BR!Absent(inbound.regs) THEN [BR!Blank("regs") EXCEPT !.coppa = Zero]
                 ELSE inbound.regs
    BY <1>2 DEF BR!Enriched, Names
  <2>3. BR!Blank("regs").gdpr = None
    BY NamesOfFields DEF BR!Blank, Names
  <2>4. QED
    BY <1>8, <2>1, <2>2, <2>3
<1>5. ASSUME ~ BR!Absent(inbound.device), "lmt" = inbound.device.lmt \/ "dnt" = inbound.device.dnt
      PROVE  ad.lmt
  <2>1. {"lmt", "dnt"} \subseteq DOMAIN inbound.device /\ "device" \in DOMAIN inbound \ {"geo"}
    BY <1>2, <1>5 DEF BR!Absent, Names
  <2>2. b.device.lmt = "lmt" \/ b.device.dnt = "dnt"
    BY <1>5, <2>1, ParamsList, InboundKeeps DEF InboundAd
  <2>3. BR!Limited(b.device)
    BY <2>2 DEF BR!Limited
  <2> HIDE DEF b
  <2>4. ad.lmt = BR!Limited(b.device)
    BY <1>3 DEF BR!Internal
  <2>5. QED
    BY <2>3, <2>4
<1>6. ASSUME inbound.imp.bidfloor = "bidfloor" PROVE ad.bid_floor = "bidfloor"
  <2>1. "bidfloor" \in DOMAIN inbound.imp /\ "imp" \in DOMAIN inbound \ {"geo"}
    BY <1>1, <1>2 DEF BR!IsInbound, BR!Absent, Names
  <2>2. "bidfloor" \in Params
    BY DEF Params, Numbers
  <2>3. b.imp.bidfloor = "bidfloor"
    BY <1>6, <2>1, <2>2, InboundKeeps DEF InboundAd
  <2>4. "bidfloor" # Zero
    BY <2>2, SignalsAssumption
  <2> HIDE DEF b
  <2>5. QED
    BY <1>3, <2>3, <2>4 DEF BR!Internal
<1>7. QED
  BY <1>4, <1>5, <1>6, <1>8

-----------------------------------------------------------------------------
(* What a partner is told of the floors, and of the viewer's wish.           *)


LEMMA FloorHolds ==
    ASSUME world \in BR!World
    PROVE  /\ BR!Floor \in Nat
           /\ BR!Floor >= world.endpoint /\ BR!Floor >= world.tag
           /\ ad.bidfloor = "bidfloor" => BR!Floor >= world.publisher
<1> DEFINE S == {world.endpoint, world.tag} \cup
                    (IF ad.bidfloor = "bidfloor" THEN {world.publisher} ELSE {})
<1>1. world.endpoint \in Nat /\ world.tag \in Nat /\ world.publisher \in Nat
  BY DEF BR!World
<1>2. \E m \in S : \A n \in S : m >= n
  BY <1>1
<1>3. S \subseteq Nat
  BY <1>1
<1>4. BR!Floor \in S /\ \A n \in S : BR!Floor >= n
  <2>1. BR!Floor = CHOOSE m \in S : \A n \in S : m >= n
    BY DEF BR!Floor, BR!Max
  <2> HIDE DEF S
  <2>2. QED
    BY <1>2, <2>1
<1>5. QED
  BY <1>3, <1>4

LEMMA SentSignals ==
    ASSUME TagAd, world \in Worlds
    PROVE  LET payload == BR!Slim(BR!Enriched(BR!BuiltBid)) IN
           /\ payload.imp.bidfloor >= world.endpoint
           /\ payload.imp.bidfloor >= world.tag
           /\ query.bidfloor = "bidfloor" => payload.imp.bidfloor >= world.publisher
           /\ query.dnt = "dnt" => payload.device.dnt = "dnt" /\ payload.device.lmt = "dnt"
           /\ \A f \in {"coppa", "us_privacy"} : query[f] = f => payload.regs[f] = f
           /\ DOMAIN payload.regs \subseteq {"coppa", "us_privacy", "gppSid"}
           /\ payload.regs.gppSid = "default"
<1> DEFINE payload == BR!Slim(BR!Enriched(BR!BuiltBid))
<1>1. world \in BR!World
  BY SignalsAssumption
<1>2. BR!Floor \in Nat /\ Said(BR!Floor)
  BY <1>1, FloorHolds, SignalsAssumption DEF Said
<1>3. payload.imp.bidfloor = BR!Floor
  <2>1. /\ "imp" \in DOMAIN BR!BuiltBid /\ "bidfloor" \in DOMAIN BR!BuiltBid["imp"]
        /\ BR!BuiltBid["imp"]["bidfloor"] = BR!Floor /\ "bidfloor" \notin Omitted
    BY BuiltParts DEF Omitted
  <2>2. QED
    BY <1>2, <2>1, SentKeeps
<1>4. query.bidfloor = "bidfloor" => ad.bidfloor = "bidfloor"
  BY AdEchoes DEF Params, Numbers
<1>5. ASSUME query.dnt = "dnt" PROVE payload.device.dnt = "dnt" /\ payload.device.lmt = "dnt"
  <2>1. "dnt" \notin {None, Zero, EmptyList}
    BY ParamsList, AdEchoes
  <2>2. ad.lmt = TRUE
    BY <1>5, <2>1, RequestChanged DEF TagAd, BR!Given
  <2>3. /\ "device" \in DOMAIN BR!BuiltBid /\ {"dnt", "lmt"} \subseteq DOMAIN BR!BuiltBid["device"]
        /\ BR!BuiltBid["device"]["dnt"] = "dnt" /\ BR!BuiltBid["device"]["lmt"] = "dnt"
    BY <2>2, BuiltParts DEF BR!Device
  <2>4. Said("dnt")
    BY <2>1 DEF Said
  <2>5. "dnt" \notin Omitted /\ "lmt" \notin Omitted
    BY DEF Omitted
  <2>6. QED
    BY <2>3, <2>4, <2>5, SentKeeps
<1>6. ASSUME NEW f \in {"coppa", "us_privacy"}, query[f] = f PROVE payload.regs[f] = f
  <2>1. "regs" \in DOMAIN BR!Carried /\ f \in DOMAIN BR!Carried["regs"]
        /\ BR!Carried["regs"][f] = f
    BY DEF BR!Carried
  <2>2. QED
    BY <1>6, <2>1, SentEchoes DEF Echo
<1>7. /\ DOMAIN payload.regs \subseteq {"coppa", "us_privacy", "gppSid"}
      /\ payload.regs.gppSid = "default"
  <2> DEFINE b == BR!Enriched(BR!BuiltBid)
  <2>1. b["regs"] = BR!BuiltBid["regs"] /\ "regs" \in DOMAIN b
    BY BuiltParts DEF BR!Enriched, BR!Absent
  <2>2. DOMAIN b["regs"] = {"coppa", "us_privacy", "gpp_sid"} /\ b["regs"].gpp_sid = "default"
    BY <2>1, BuiltParts
  <2> HIDE DEF b
  <2>3. /\ DOMAIN BR!Slim(b)["regs"] \subseteq {"coppa", "us_privacy", "gppSid"}
        /\ BR!Slim(b)["regs"].gppSid = "default"
    BY <2>1, <2>2 DEF BR!Slim, BR!Over, BR!Dropped
  <2>4. QED
    BY <2>3 DEF b
<1> HIDE DEF payload
<1>8. QED
  BY <1>1, <1>3, <1>4, <1>5, <1>6, <1>7, FloorHolds DEF payload

-----------------------------------------------------------------------------
(* The state of a translation, per stage.                                    *)

\* What has been found out so far is a function of what came in.
Translated ==
    /\ where \in {"query", "inbound", "received", "read", "context", "built", "enriched",
                  "sent", "resolved", "served", "rejected"}
    /\ where # "rejected" => world \in Worlds
    /\ where \in {"query", "context", "built", "enriched", "sent", "resolved"} => BR!FromTag
    /\ where \in {"inbound", "received", "served"} => ~ BR!FromTag
    /\ where = "query" => query \in Queries
    /\ where \in {"inbound", "received"} => inbound \in Inbounds
    /\ where = "read" => IF BR!FromTag THEN TagAd ELSE InboundAd
    /\ where \in {"context", "built", "enriched", "sent", "resolved"} => TagAd
    /\ where = "inbound" => bid = inbound
    /\ where = "received" => bid = BR!Enriched(inbound)
    /\ where = "built" => bid = BR!BuiltBid
    /\ where = "enriched" => bid = BR!Enriched(BR!BuiltBid)
    /\ where = "sent" => sent = BR!Slim(BR!Enriched(BR!BuiltBid))
    /\ where = "resolved" =>
          url = [m \in {n \in BR!Macros : BR!Macro(n) # None} |-> BR!Macro(m)]
    /\ where = "served" => InboundAd /\ context = BR!Context

LEMMA SameSource ==
    ASSUME UNCHANGED <<world, query, inbound>>
    PROVE  /\ BR!FromTag' = BR!FromTag /\ BR!Client' = BR!Client
           /\ \A ip : BR!Looked(ip)' = BR!Looked(ip)
           /\ \A q : BR!Request(q)' = BR!Request(q)
           /\ \A t, o, u : BR!Environment(t, o, u)' = BR!Environment(t, o, u)
           /\ \A b : BR!Internal(b)' = BR!Internal(b)
<1>1. BR!FromTag' = BR!FromTag
  BY DEF BR!FromTag
<1>2. BR!Client' = BR!Client /\ \A ip : BR!Looked(ip)' = BR!Looked(ip)
  BY DEF BR!Client, BR!Looked
<1>3. \A t, o, u : BR!Environment(t, o, u)' = BR!Environment(t, o, u)
  BY DEF BR!Environment
<1>4. ASSUME NEW q PROVE BR!Request(q)' = BR!Request(q)
  <2>1. BR!Ip(q)' = BR!Ip(q) /\ BR!PlaceOf(q)' = BR!PlaceOf(q)
    BY <1>2 DEF BR!PlaceOf, BR!Ip
  <2>2. BR!UserAgent(q)' = BR!UserAgent(q)
    BY DEF BR!UserAgent
  <2>3. QED
    BY <1>3, <2>1, <2>2 DEF BR!Request
<1>5. ASSUME NEW b PROVE BR!Internal(b)' = BR!Internal(b)
  BY <1>3 DEF BR!Internal
<1>6. QED
  BY <1>1, <1>2, <1>3, <1>4, <1>5

\* The enricher reads the AdRequest only on the way of a VAST tag.
LEMMA SameEnrichment ==
    ASSUME UNCHANGED <<world, inbound>>, BR!FromTag => UNCHANGED ad, NEW b
    PROVE  BR!Enriched(b)' = BR!Enriched(b)
<1> DEFINE tv == ~ BR!Absent(b.device) /\ BR!SaysTv(b.device.devicetype)
<1>1. /\ BR!FromTag' = BR!FromTag /\ BR!Client' = BR!Client
      /\ \A ip : BR!Looked(ip)' = BR!Looked(ip)
  BY DEF BR!FromTag, BR!Client, BR!Looked
<1>2. BR!ClientIp' = BR!ClientIp /\ BR!ClientUa' = BR!ClientUa
  BY <1>1 DEF BR!ClientIp, BR!ClientUa
<1>3. \A t : BR!SaysTv(t)' = BR!SaysTv(t)
  BY DEF BR!SaysTv
<1>4. \A e, s : BR!DeviceDefaults(e, s)' = BR!DeviceDefaults(e, s)
  BY <1>3 DEF BR!DeviceDefaults
<1>5. \A e, s : BR!EnrichedDevice(e, s)' = BR!EnrichedDevice(e, s)
  BY <1>2, <1>4 DEF BR!EnrichedDevice
<1>6. tv' = tv
  BY <1>3
<1>7. BR!EnrichedDevice(b.device, tv)' = BR!EnrichedDevice(b.device, tv)
  BY <1>5, <1>6
<1>8. ASSUME NEW o \in DOMAIN b PROVE BR!Enriched(b)'[o] = BR!Enriched(b)[o]
  <2>1. CASE o = "top" \/ o = "imp"
    BY <1>6, <2>1 DEF BR!Enriched
  <2>2. CASE o = "video" \/ o = "app"
    BY <2>2 DEF BR!Enriched
  <2>3. CASE o = "geo"
    <3> DEFINE device == BR!EnrichedDevice(b.device, tv)
    <3>1. device' = device
      BY <1>7
    <3>2. BR!Looked(device.ip)' = BR!Looked(device.ip)
      <4> HIDE DEF device
      <4>1. QED
        BY <3>1 DEF BR!Looked
    <3>3. BR!Enriched(b).geo =
              IF device.ip \in BR!Falsy \/ (~ BR!Absent(b.geo) /\ b.geo.country # None) THEN b.geo
              ELSE [f \in DOMAIN BR!Names.geo |-> BR!Looked(device.ip)]
      BY <2>3 DEF BR!Enriched
    <3>4. BR!Enriched(b).geo' =
              IF device'.ip \in BR!Falsy \/ (~ BR!Absent(b.geo) /\ b.geo.country # None) THEN b.geo
              ELSE [f \in DOMAIN BR!Names.geo |-> BR!Looked(device.ip)']
      BY <2>3 DEF BR!Enriched
    <3> HIDE DEF device
    <3>5. QED
      BY <2>3, <3>1, <3>2, <3>3, <3>4
  <2>4. CASE o = "device"
    BY <1>6, <1>7, <2>4 DEF BR!Enriched
  <2>5. CASE o = "content"
    <3> DEFINE device == BR!EnrichedDevice(b.device, tv)
               Made(t, l) == IF BR!Absent(b.content) /\ t
                             THEN [BR!Blank("content") EXCEPT !.livestream = Zero,
                                      !.language = IF BR!Absent(b.app) THEN "default" ELSE l]
                             ELSE b.content
    <3>1. device' = device /\ BR!Blank("content")' = BR!Blank("content")
      BY <1>7 DEF BR!Blank
    <3>2. BR!Enriched(b).content = Made(tv, device.language)
      BY <2>5 DEF BR!Enriched
    <3>3. BR!Enriched(b).content' = Made(tv', device'.language)
      BY <2>5, <3>1 DEF BR!Enriched
    <3> HIDE DEF device, tv, Made
    <3>4. QED
      BY <1>6, <2>5, <3>1, <3>2, <3>3
  <2>6. CASE o \notin {"top", "imp", "video", "app", "device", "content", "geo"}
    BY <2>6 DEF BR!Enriched
  <2>7. QED
    BY <2>1, <2>2, <2>3, <2>4, <2>5, <2>6
<1>9. BR!Enriched(b) = [o \in DOMAIN b |-> BR!Enriched(b)[o]]
  BY DEF BR!Enriched
<1>10. BR!Enriched(b)' = [o \in DOMAIN b |-> BR!Enriched(b)'[o]]
  BY DEF BR!Enriched
<1>11. QED
  BY <1>8, <1>9, <1>10

LEMMA SameAd ==
    ASSUME UNCHANGED <<world, query, inbound, ad>>
    PROVE  /\ BR!BuiltBid' = BR!BuiltBid
           /\ \A b : BR!Enriched(b)' = BR!Enriched(b)
           /\ BR!Context' = BR!Context
           /\ \A m : BR!Macro(m)' = BR!Macro(m)
           /\ TagAd' = TagAd /\ InboundAd' = InboundAd
<1>1. BR!FromTag' = BR!FromTag /\ \A ip : BR!Looked(ip)' = BR!Looked(ip)
  BY SameSource
<1>2. BR!IsCtv' = BR!IsCtv /\ BR!IsV6' = BR!IsV6 /\ BR!Floor' = BR!Floor
  BY DEF BR!IsCtv, BR!IsV6, BR!Floor
<1>3. BR!Video' = BR!Video
  BY <1>2 DEF BR!Video
<1>4. BR!Geo' = BR!Geo
  BY <1>1 DEF BR!Geo, BR!PublisherGeo
<1>5. BR!Device' = BR!Device
  BY <1>2 DEF BR!Device
<1>6. BR!App' = BR!App
  BY DEF BR!App
<1>7. BR!Content' = BR!Content
  <2>1. BR!HasContent' = BR!HasContent
    BY DEF BR!HasContent
  <2>2. QED
    BY <1>2, <2>1 DEF BR!Content
<1>8. BR!BuiltBid' = BR!BuiltBid
  BY <1>2, <1>3, <1>4, <1>5, <1>6, <1>7 DEF BR!BuiltBid
<1>9. \A b : BR!Enriched(b)' = BR!Enriched(b)
  BY SameEnrichment
<1>10. BR!Context' = BR!Context
  BY <1>1 DEF BR!Context
<1>11. ASSUME NEW m PROVE BR!Macro(m)' = BR!Macro(m)
  BY DEF BR!Macro
<1>12. TagAd' = TagAd
  BY SameSource DEF TagAd
<1>13. InboundAd' = InboundAd
  BY <1>9, SameSource DEF InboundAd
<1>14. QED
  BY <1>8, <1>9, <1>10, <1>11, <1>12, <1>13

LEMMA SameTranslation == ASSUME Translated, UNCHANGED brVars PROVE Translated'
<1>1. UNCHANGED <<world, query, inbound, ad>>
  OBVIOUS
<1>2. QED
  BY <1>1, SameSource, SameAd DEF Translated

LEMMA ReadQueryStep == ASSUME Translated, BR!ReadQuery PROVE Translated'
<1>1. UNCHANGED <<world, query, inbound>> /\ where = "query" /\ BR!FromTag
  BY DEF BR!ReadQuery, Translated
<1>2. where' = "rejected" \/ (where' = "read" /\ ad' = BR!Request(query))
  BY Zenon DEF BR!ReadQuery
<1>3. world \in Worlds /\ query \in Queries
  BY <1>1 DEF Translated
<1>4. where' = "read" => TagAd'
  BY <1>1, <1>2, <1>3, SameSource DEF TagAd
<1>5. QED
  BY <1>1, <1>2, <1>3, <1>4, SameSource DEF Translated

LEMMA BuildContextStep == ASSUME Translated, BR!BuildContext PROVE Translated'
<1>1. UNCHANGED <<world, query, inbound, ad>> /\ where = "read" /\ context' = BR!Context
  BY DEF BR!BuildContext
<1>2. where' = IF BR!FromTag THEN "context" ELSE "served"
  BY DEF BR!BuildContext
<1>3. world \in Worlds /\ IF BR!FromTag THEN TagAd ELSE InboundAd
  BY <1>1 DEF Translated
<1>4. QED
  BY <1>1, <1>2, <1>3, SameSource, SameAd DEF Translated

LEMMA BuildBidRequestStep == ASSUME Translated, BR!BuildBidRequest PROVE Translated'
<1>1. UNCHANGED <<world, query, inbound, ad>> /\ where = "context" /\ where' = "built"
      /\ bid' = BR!BuiltBid
  BY DEF BR!BuildBidRequest
<1>2. world \in Worlds /\ BR!FromTag /\ TagAd
  BY <1>1 DEF Translated
<1>3. QED
  BY <1>1, <1>2, SameSource, SameAd DEF Translated

LEMMA EnrichStep == ASSUME Translated, BR!Enrich PROVE Translated'
<1>1. UNCHANGED <<world, query, inbound, ad>> /\ where \in {"inbound", "built"}
      /\ bid' = BR!Enriched(bid)
  BY DEF BR!Enrich
<1>2. world \in Worlds /\ (BR!FromTag <=> where = "built")
  BY <1>1 DEF Translated
<1>3. where' = IF where = "built" THEN "enriched" ELSE "received"
  BY <1>2 DEF BR!Enrich
<1>4. CASE where = "built"
  <2>1. TagAd /\ bid = BR!BuiltBid
    BY <1>4 DEF Translated
  <2>2. QED
    BY <1>1, <1>2, <1>3, <1>4, <2>1, SameSource, SameAd DEF Translated
<1>5. CASE where = "inbound"
  <2>1. inbound \in Inbounds /\ bid = inbound
    BY <1>5 DEF Translated
  <2>2. QED
    BY <1>1, <1>2, <1>3, <1>5, <2>1, SameSource, SameAd DEF Translated
<1>6. QED
  BY <1>1, <1>4, <1>5

LEMMA SendStep == ASSUME Translated, BR!Send PROVE Translated'
<1>1. UNCHANGED <<world, query, inbound, ad>> /\ where = "enriched" /\ where' = "sent"
      /\ sent' = BR!Slim(bid)
  BY DEF BR!Send
<1>2. world \in Worlds /\ BR!FromTag /\ TagAd /\ bid = BR!Enriched(BR!BuiltBid)
  BY <1>1 DEF Translated
<1>3. QED
  BY <1>1, <1>2, SameSource, SameAd DEF Translated

LEMMA ResolveTagStep == ASSUME Translated, BR!ResolveTag PROVE Translated'
<1>1. UNCHANGED <<world, query, inbound, ad>> /\ where = "context" /\ where' = "resolved"
      /\ url' = [m \in {n \in BR!Macros : BR!Macro(n) # None} |-> BR!Macro(m)]
  BY DEF BR!ResolveTag
<1>2. world \in Worlds /\ BR!FromTag /\ TagAd
  BY <1>1 DEF Translated
<1>3. QED
  BY <1>1, <1>2, SameSource, SameAd DEF Translated

LEMMA ToInternalStep == ASSUME Translated, BR!ToInternal PROVE Translated'
<1>1. UNCHANGED <<world, query, inbound>> /\ where = "received"
  BY DEF BR!ToInternal
<1>2. where' = "rejected" \/ (where' = "read" /\ ad' = BR!Internal(bid))
  BY Zenon DEF BR!ToInternal
<1>3. world \in Worlds /\ inbound \in Inbounds /\ bid = BR!Enriched(inbound) /\ ~ BR!FromTag
  BY <1>1 DEF Translated
<1>4. ASSUME where' = "read" PROVE InboundAd'
  <2>1. ad' = BR!Internal(BR!Enriched(inbound))
    BY <1>2, <1>3, <1>4
  <2>2. BR!Enriched(inbound)' = BR!Enriched(inbound)
    BY <1>1, <1>3, SameEnrichment
  <2>3. QED
    BY <1>1, <1>3, <2>1, <2>2, SameSource DEF InboundAd
<1>5. QED
  BY <1>1, <1>2, <1>3, <1>4, SameSource DEF Translated

LEMMA InitTranslated == MCInit => Translated
<1> SUFFICES ASSUME MCInit PROVE Translated
  OBVIOUS
<1>1. CASE kind = "signals" /\ PodRests /\ BR!Init /\ VT!Init
  <2>1. world \in Worlds /\ bid = inbound
    BY <1>1 DEF BR!Init
  <2>2. CASE where = "query" /\ query \in Queries /\ inbound = NoObject
    BY <2>1, <2>2, NamesOfFields DEF Translated, BR!FromTag, BR!Absent, NoObject
  <2>3. CASE where = "inbound" /\ query = NoObject /\ inbound \in Inbounds
    <3>1. DOMAIN inbound # {}
      BY <2>3, SignalsAssumption, NamesOfFields DEF BR!IsInbound, Names
    <3>2. QED
      BY <2>1, <2>3, <3>1 DEF Translated, BR!FromTag, BR!Absent
  <2>4. QED
    BY <1>1, <2>2, <2>3, NamesOfFields DEF BR!Init
<1>2. CASE SignalsRest
  BY <1>2 DEF SignalsRest, Translated
<1>3. QED
  BY <1>1, <1>2 DEF MCInit

LEMMA StepTranslated ==
    Translated /\ [MCNext]_<<kind, vars, brVars, vtVars>> => Translated'
<1> SUFFICES ASSUME Translated, [MCNext]_<<kind, vars, brVars, vtVars>> PROVE Translated'
  OBVIOUS
<1>1. CASE BR!Next
  BY <1>1, ReadQueryStep, BuildContextStep, BuildBidRequestStep, EnrichStep, SendStep,
     ResolveTagStep, ToInternalStep DEF BR!Next
<1>2. CASE UNCHANGED brVars
  BY <1>2, SameTranslation
<1>3. QED
  BY <1>1, <1>2 DEF MCNext

\* Whatever the queries, bid requests and surroundings, a parameter of the payload or the URL
\* precedes every default, header and guess, and so does the context local campaigns see of an
\* exchange; the place but for the country, the lone rating and the place an exchange tells
\* fare as PublisherFirst says: replaced, dropped and left out.
THEOREM PublisherComesFirst == MCSpec => []PublisherFirst
<1>1. Translated => PublisherFirst
  <2> SUFFICES ASSUME Translated PROVE PublisherFirst
    OBVIOUS
  <2>1. ASSUME where = "sent", NEW o \in DOMAIN BR!Carried, NEW f \in DOMAIN BR!Carried[o]
        PROVE  Echo(sent[o], f, BR!Carried[o][f])
    BY <2>1, SentEchoes DEF Translated
  <2>2. ASSUME where = "resolved", NEW m \in BR!Echoed, query[m] = m
        PROVE  m \in DOMAIN url /\ url[m] = m
    BY <2>2, MacroEchoes DEF Translated
  <2>3. ASSUME where = "served", NEW o \in DOMAIN inbound \ {"geo"}, NEW f \in DOMAIN inbound[o],
               inbound[o][f] = Names[o][f], Names[o][f] \in DOMAIN context
        PROVE  context[Names[o][f]] = Names[o][f]
    BY <2>3, ContextEchoes DEF Translated
  <2>4. ASSUME where = "sent", NEW f \in DOMAIN BR!Replaced
        PROVE  /\ ad.ip \notin BR!Falsy => f \in DOMAIN sent.geo /\ sent.geo[f] = BR!Looked(ad.ip)
               /\ ad.ip \in BR!Falsy /\ query.country_code # None
                     /\ query[BR!Replaced[f]] # None =>
                         f \in DOMAIN sent.geo /\ sent.geo[f] = query[BR!Replaced[f]]
    BY <2>4, SentPlace DEF Translated
  <2>5. ASSUME where = "sent", query.ct_rat = "ct_rat"
        PROVE  IF BR!HasContent THEN sent.content.contentrating = "ct_rat"
                                ELSE "contentrating" \notin DOMAIN sent.content
    BY <2>5, SentRating DEF Translated
  <2>6. ASSUME where = "served", NEW p \in BR!Place \ {"zip"} PROVE context[p] = None
    BY <2>6, ContextPlace DEF Translated
  <2>7. CASE where = "sent"
    BY <2>1, <2>4, <2>5, <2>7 DEF PublisherFirst, BR!PublisherFirst, Echo
  <2>8. CASE where # "sent"
    BY <2>2, <2>3, <2>6, <2>8, NamesOfFields DEF PublisherFirst, BR!PublisherFirst
  <2>9. QED
    BY <2>7, <2>8
<1>2. QED
  BY <1>1, InitTranslated, StepTranslated, PTL DEF MCSpec

\* For any queries, bid requests and surroundings Do Not Track, COPPA, us_privacy and the floor
\* reach a partner, and the regs, the limit on tracking and the floor of an exchange the
\* AdRequest; a tag's words on GDPR and GPP reach no partner, its floor no local campaign, and
\* GDPR told in an exchange's extension no one.
THEOREM SignalsStay == MCSpec => []SignalsKept
<1>1. Translated => SignalsKept
  <2> SUFFICES ASSUME Translated PROVE SignalsKept
    OBVIOUS
  <2>1. CASE where = "sent"
    <3>1. TagAd /\ world \in Worlds
      BY <2>1 DEF Translated
    <3>2. QED
      BY <2>1, <3>1, SentSignals DEF Translated, SignalsKept, BR!SignalsKept
  <2>2. CASE where \in {"read", "served"} /\ ~ BR!FromTag
    <3>1. InboundAd
      BY <2>2 DEF Translated
    <3>2. QED
      BY <2>2, <3>1, InboundSignals, NamesOfFields DEF SignalsKept, BR!SignalsKept
  <2>3. CASE where \in {"read", "context"} /\ BR!FromTag
    <3>1. TagAd
      BY <2>3 DEF Translated
    <3>2. ad.bid_floor = None
      BY <3>1, RequestChanged DEF TagAd
    <3>3. QED
      BY <2>3, <3>2 DEF SignalsKept, BR!SignalsKept
  <2>4. QED
    BY <2>1, <2>2, <2>3 DEF SignalsKept, BR!SignalsKept
<1>2. QED
  BY <1>1, InitTranslated, StepTranslated, PTL DEF MCSpec

-----------------------------------------------------------------------------
(* The types of all that takes part.                                         *)

\* Where a request is, and what it is about.
Heard ==
    /\ where \in {"query", "inbound", "received", "read", "context", "built", "enriched",
                  "sent", "resolved", "served", "rejected"}
    /\ world \in Worlds
    /\ IF BR!FromTag THEN query \in Queries ELSE inbound \in Inbounds

LEMMA HeardStep == ASSUME Heard, BR!Next PROVE Heard'
<1>1. UNCHANGED <<world, query, inbound>>
  BY DEF BR!Next, BR!ReadQuery, BR!BuildContext, BR!BuildBidRequest, BR!Enrich, BR!Send,
     BR!ResolveTag, BR!ToInternal
<1>2. where' \in {"received", "read", "context", "built", "enriched", "sent", "resolved",
                 "served", "rejected"}
  BY DEF BR!Next, BR!ReadQuery, BR!BuildContext, BR!BuildBidRequest, BR!Enrich, BR!Send,
     BR!ResolveTag, BR!ToInternal
<1>3. QED
  BY <1>1, <1>2 DEF Heard, BR!FromTag

LEMMA HeardTyped == Heard => BR!TypeOK
<1> SUFFICES ASSUME Heard PROVE BR!TypeOK
  OBVIOUS
<1>1. world \in BR!World
  BY SignalsAssumption DEF Heard
<1>2. IF BR!FromTag THEN query \in BR!QueryType ELSE BR!IsInbound(inbound)
  <2> HIDE DEF BR!QueryType, BR!IsInbound, BR!FromTag
  <2>1. QED
    BY SignalsAssumption DEF Heard
<1>3. QED
  BY <1>1, <1>2 DEF Heard, BR!TypeOK

LEMMA PodAtRest == PodRests => PodInv
<1> SUFFICES ASSUME PodRests PROVE PodInv
  OBVIOUS
<1>1. request \in Requests
  <2>1. \E r \in Requests : TRUE
    BY SignalsAssumption
  <2>2. QED
    BY <2>1 DEF PodRests
<1>2. QED
  BY <1>1, NothingPacked DEF PodRests

LEMMA SignalsAtRest == SignalsRest => Heard
<1> SUFFICES ASSUME SignalsRest PROVE Heard
  OBVIOUS
<1>1. world \in Worlds /\ query \in Queries
  <2>1. (\E w \in Worlds : TRUE) /\ (\E q \in Queries : TRUE)
    BY SignalsAssumption
  <2>2. QED
    BY <2>1 DEF SignalsRest
<1>2. BR!FromTag
  BY NamesOfFields DEF SignalsRest, BR!FromTag, BR!Absent, NoObject
<1>3. QED
  BY <1>1, <1>2 DEF SignalsRest, Heard

LEMMA SignalsHeard == BR!Init => Heard
<1> SUFFICES ASSUME BR!Init PROVE Heard
  OBVIOUS
<1>1. CASE where = "query" /\ query \in Queries /\ inbound = NoObject
  BY <1>1, NamesOfFields DEF BR!Init, Heard, BR!FromTag, BR!Absent, NoObject
<1>2. CASE where = "inbound" /\ inbound \in Inbounds
  <2>1. DOMAIN inbound # {}
    BY <1>2, SignalsAssumption, NamesOfFields DEF BR!IsInbound, Names
  <2>2. QED
    BY <1>2, <2>1 DEF BR!Init, Heard, BR!FromTag, BR!Absent
<1>3. \/ where = "query" /\ query \in Queries /\ inbound = NoObject
      \/ where = "inbound" /\ inbound \in Inbounds
  BY NamesOfFields DEF BR!Init
<1>4. QED
  BY <1>1, <1>2, <1>3

LEMMA InitAll == MCInit => PodInv /\ Heard /\ VT!IInv
<1> SUFFICES ASSUME MCInit PROVE PodInv /\ Heard /\ VT!IInv
  OBVIOUS
<1>1. VT!Init
  BY DEF MCInit
<1>2. VT!IInv
  BY <1>1, InstanceAssumption, VT!InitInv
<1>3. PodInv
  BY InitPodInv, PodAtRest DEF MCInit
<1>4. Heard
  BY SignalsAtRest, SignalsHeard DEF MCInit
<1>5. QED
  BY <1>2, <1>3, <1>4

LEMMA StepAll ==
    PodInv /\ Heard /\ VT!IInv /\ [MCNext]_<<kind, vars, brVars, vtVars>>
        => (PodInv /\ Heard /\ VT!IInv)'
<1> SUFFICES ASSUME PodInv, Heard, VT!IInv, [MCNext]_<<kind, vars, brVars, vtVars>>
             PROVE  (PodInv /\ Heard /\ VT!IInv)'
  OBVIOUS
<1>1. PodInv'
  <2>1. [Next]_vars
    BY DEF MCNext
  <2>2. QED
    BY <2>1, StepPodInv
<1>2. Heard'
  <2>1. CASE BR!Next
    BY <2>1, HeardStep
  <2>2. CASE UNCHANGED brVars
    BY <2>2 DEF Heard, brVars, BR!FromTag
  <2>3. QED
    BY <2>1, <2>2 DEF MCNext
<1>3. VT!IInv'
  <2>1. [VT!Next]_vtVars
    BY DEF MCNext
  <2>2. QED
    BY <2>1, InstanceAssumption, VT!StepInv DEF vtVars, VT!vars, VT!counters
<1>4. QED
  BY <1>1, <1>2, <1>3

\* Every variable keeps its type, of a pod, of a translation and of a tag request, whatever
\* is asked and bid and whatever fails.
THEOREM TypesCorrect == MCSpec => []TypesOK
<1>1. PodInv /\ Heard /\ VT!IInv => TypesOK
  <2>1. VT!IInv => VT!TypeOK
    BY InstanceAssumption, VT!TypesImply DEF VT!IInv
  <2>2. QED
    BY <2>1, HeardTyped DEF PodInv, TypesOK
<1>2. QED
  BY <1>1, InitAll, StepAll, PTL DEF MCSpec
=============================================================================
