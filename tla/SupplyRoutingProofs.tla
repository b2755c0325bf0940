------------------------ MODULE SupplyRoutingProofs ------------------------
(***************************************************************************)
(* Theorems about SupplyRouting, for every number of calls, workers and    *)
(* sources, every life of an entry and every bound on a lookup.            *)
(***************************************************************************)
EXTENDS SupplyRouting, TLAPS

USE DEF GoTo, rowVars, caches, session, locals, callVars, vars, Waiting

LEMMA RowsExist ==
    /\ Tag \in Rows
    /\ \A s \in Sources : Mapping(s) \in Rows /\ Source(s) \in Rows
BY DEF Rows

LEMMA InitTypes == Init => TypeOK
BY RoutingAssumption DEF Init, TypeOK, Window

\* What a coroutine knows keeps its type, also when it ends.
LocalsOK ==
    /\ asked \in [Calls -> Nat] /\ found \in [Calls -> BOOLEAN]
    /\ held \in [Calls -> SUBSET Sources]
    /\ loaded \in [Calls -> SUBSET Sources] /\ loadedOn \in [Calls -> SUBSET Sources]

LEMMA EndTypes == ASSUME TypeOK, NEW D, End(D) PROVE LocalsOK'
<1>1. \A d \in Calls : /\ asked[d] \in Nat /\ found[d] \in BOOLEAN
                       /\ held[d] \in SUBSET Sources /\ loaded[d] \in SUBSET Sources
                       /\ loadedOn[d] \in SUBSET Sources
  BY DEF TypeOK
<1>2. asked' \in [Calls -> Nat] /\ found' \in [Calls -> BOOLEAN]
  BY <1>1 DEF End
<1>3. /\ held' \in [Calls -> SUBSET Sources]
      /\ loaded' \in [Calls -> SUBSET Sources] /\ loadedOn' \in [Calls -> SUBSET Sources]
  BY <1>1 DEF End
<1>4. QED
  BY <1>2, <1>3 DEF LocalsOK

LEMMA SendTypes ==
    ASSUME TypeOK, NEW d \in Calls, NEW R \in SUBSET Sources, Send(d, R)
    PROVE  /\ pc' \in [Calls -> {"idle", "done", "failed"} \cup Waiting]
           /\ sentAt' \in [Calls -> Nat] /\ sent' \in [Calls -> SUBSET Sources] /\ LocalsOK'
<1>1. LocalsOK'
  BY EndTypes DEF Send
<1>2. QED
  BY <1>1 DEF Send, TypeOK

\* What finding, or not finding, the mappings does to a call.
LEMMA UseTagTypes ==
    ASSUME TypeOK, NEW d \in Calls, NEW isOn \in BOOLEAN, UseTag(d, isOn)
    PROVE  /\ pc' \in [Calls -> {"idle", "done", "failed"} \cup Waiting]
           /\ sentAt' \in [Calls -> Nat] /\ sent' \in [Calls -> SUBSET Sources] /\ LocalsOK'
<1>1. home[d] \in Workers
  BY RoutingAssumption
<1>2. ASSUME Fresh(mapCache[home[d]]) PROVE mapCache[home[d]].routes \in SUBSET Sources
  BY <1>1, <1>2 DEF Fresh, TypeOK
<1>3. CASE Ask(d, "mappings")
  BY <1>3 DEF Ask, LocalsOK, TypeOK
<1>4. QED
  BY <1>2, <1>3, SendTypes DEF UseTag, GetMappings

LEMMA StepTypes ==
    ASSUME TypeOK, [Next]_vars
    PROVE  TypeOK'
<1>1. ASSUME NEW d \in Calls, Begin(d) PROVE TypeOK'
  <2>1. home[d] \in Workers
    BY RoutingAssumption
  <2>2. /\ begun' \in [Calls -> Nat] /\ UNCHANGED <<clock, rowVars, caches>>
    BY <1>1 DEF Begin, TypeOK
  <2>3. CASE Fresh(tagCache[home[d]]) /\ UseTag(d, tagCache[home[d]].on)
    <3>1. tagCache[home[d]].on \in BOOLEAN
      BY <2>1, <2>3 DEF Fresh, TypeOK
    <3>2. QED
      BY <2>2, <2>3, <3>1, UseTagTypes DEF LocalsOK, TypeOK
  <2>4. CASE Ask(d, "tag")
    BY <2>2, <2>4 DEF Ask, TypeOK
  <2>5. QED
    BY <1>1, <2>3, <2>4 DEF Begin
<1>2. ASSUME NEW d \in Calls, SelectTag(d) PROVE TypeOK'
  <2>1. on[Tag] \in BOOLEAN
    BY RowsExist DEF TypeOK
  <2>2. QED
    BY <1>2, <2>1 DEF SelectTag, TypeOK
<1>3. ASSUME NEW d \in Calls, SelectTagMappings(d) PROVE TypeOK'
  BY <1>3 DEF SelectTagMappings, ReadMappings, TypeOK
<1>4. ASSUME NEW d \in Calls, SelectTagSources(d) PROVE TypeOK'
  <2>1. held[d] \in SUBSET Sources /\ {s \in held[d] : on[Source(s)]} \in SUBSET Sources
    BY DEF TypeOK
  <2>2. QED
    BY <1>4, <2>1 DEF SelectTagSources, TypeOK
<1>5. ASSUME NEW d \in Calls, StoreTag(d) PROVE TypeOK'
  <2>1. found[d] \in BOOLEAN /\ asked[d] \in Nat /\ home[d] \in Workers
    BY RoutingAssumption DEF TypeOK
  <2>2. UseTag(d, found[d]) /\ UNCHANGED <<clock, rowVars, mapCache, begun>>
    BY <1>5 DEF StoreTag
  <2>3. tagCache' \in [Workers -> {NoEntry} \cup [at : Nat, on : BOOLEAN]]
    BY <1>5, <2>1 DEF StoreTag, TypeOK
  <2>4. QED
    BY <2>1, <2>2, <2>3, UseTagTypes DEF LocalsOK, TypeOK
<1>6. ASSUME NEW d \in Calls, SelectMappings(d) PROVE TypeOK'
  BY <1>6 DEF SelectMappings, ReadMappings, TypeOK
<1>7. ASSUME NEW d \in Calls, SelectSources(d) PROVE TypeOK'
  <2>1. {s \in held[d] : IF s \in loaded[d] THEN s \in loadedOn[d] ELSE on[Source(s)]}
            \in SUBSET Sources
    BY DEF TypeOK
  <2>2. QED
    BY <1>7, <2>1 DEF SelectSources, TypeOK
<1>8. ASSUME NEW d \in Calls, StoreMappings(d) PROVE TypeOK'
  <2>1. held[d] \in SUBSET Sources /\ asked[d] \in Nat
    BY DEF TypeOK
  <2>2. mapCache' \in [Workers -> {NoEntry} \cup [at : Nat, routes : SUBSET Sources]]
    BY <1>8, <2>1 DEF StoreMappings, TypeOK
  <2>3. QED
    BY <1>8, <2>1, <2>2, SendTypes DEF StoreMappings, LocalsOK, TypeOK
<1>9. ASSUME NEW d \in Calls, Raise(d) PROVE TypeOK'
  <2>1. LocalsOK'
    BY <1>9, EndTypes DEF Raise
  <2>2. QED
    BY <1>9, <2>1 DEF Raise, LocalsOK, TypeOK
<1>10. ASSUME NEW r \in Rows, Flip(r) PROVE TypeOK'
  BY <1>10 DEF Flip, TypeOK
<1>11. ASSUME NEW w \in Workers, Restart(w) PROVE TypeOK'
  <2>1. LocalsOK'
    BY <1>11, EndTypes DEF Restart
  <2>2. QED
    BY <1>11, <2>1 DEF Restart, LocalsOK, TypeOK
<1>12. CASE Tick
  BY <1>12 DEF Tick, TypeOK
<1>13. CASE UNCHANGED vars
  BY <1>13 DEF TypeOK
<1>14. QED
  BY <1>1, <1>2, <1>3, <1>4, <1>5, <1>6, <1>7, <1>8, <1>9, <1>10, <1>11, <1>12,
     <1>13 DEF Next, Step

\* What a worker remembers, and what a lookup holds, keep their types: an entry always
\* carries its time, and only sources are ever asked.
THEOREM TypeCorrect == Spec => []TypeOK
<1>1. TypeOK /\ [Next]_vars => TypeOK'
  BY StepTypes
<1>2. QED
  BY InitTypes, <1>1, PTL DEF Spec

-----------------------------------------------------------------------------
(* What is remembered was so at the time it is stamped with, or later: the   *)
(* stamp is taken before the question is asked.                              *)

FlippedInv == \A r \in Rows : flipped[r] <= clock

\* R was the right set of sources, as far as mappings and sources go, at t or later.
RoutesSince(R, t) ==
    \A s \in Sources :
        IF s \in R
        THEN LastOn(Mapping(s), TRUE) >= t /\ LastOn(Source(s), TRUE) >= t
        ELSE LastOn(Mapping(s), FALSE) >= t \/ LastOn(Source(s), FALSE) >= t

\* M are the mappings that were active at t or later.
MappedSince(M, t) ==
    \A s \in Sources : LastOn(Mapping(s), s \in M) >= t

TagEntryTrue(w) ==
    tagCache[w] # NoEntry => LastOn(Tag, tagCache[w].on) >= tagCache[w].at

MapEntryTrue(w) ==
    mapCache[w] # NoEntry => RoutesSince(mapCache[w].routes, mapCache[w].at - Lag)

\* The sources of a session were so since t.
SessionSince(d, t) ==
    \A s \in Sources : s \in loaded[d] => LastOn(Source(s), s \in loadedOn[d]) >= t

\* A lookup is young, and so is what it has learned: mappings since it asked, sources
\* perhaps only since the call, and its session, began.
CallTrue(d) ==
    /\ pc[d] \in Waiting =>
           begun[d] <= asked[d] /\ asked[d] <= clock /\ clock <= begun[d] + Lag
    /\ pc[d] \in {"tagMappings", "tagSources", "tagRead"} => LastOn(Tag, found[d]) >= asked[d]
    /\ pc[d] \in {"mappings", "sources", "sourcesRead"} => begun[d] < LastOn(Tag, TRUE) + Ttl
    /\ pc[d] = "sources" => MappedSince(held[d], asked[d])
    /\ pc[d] = "sourcesRead" => RoutesSince(held[d], begun[d])
    /\ pc[d] = "idle" => loaded[d] = {}
    /\ pc[d] \in Waiting => SessionSince(d, begun[d])

\* RoutesAreCurrent, of one call.
Current(d) ==
    pc[d] = "done" =>
        \A s \in Sources :
            IF s \in sent[d]
            THEN \A r \in {Tag, Mapping(s), Source(s)} : Recently(d, r, TRUE)
            ELSE \E r \in {Tag, Mapping(s), Source(s)} : Recently(d, r, FALSE)

TrueInv ==
    /\ FlippedInv
    /\ \A w \in Workers : TagEntryTrue(w) /\ MapEntryTrue(w)
    /\ \A d \in Calls : CallTrue(d) /\ Current(d)

LEMMA InitTrue == Init => TrueInv
<1>1. -Window <= 0
  BY RoutingAssumption DEF Window
<1>2. QED
  BY <1>1 DEF Init, TrueInv, FlippedInv, TagEntryTrue, MapEntryTrue, CallTrue, Current

\* Only Flip touches a row, only Tick the clock.
LEMMA WhoMoves ==
    ASSUME [Next]_vars
    PROVE  \/ UNCHANGED rowVars /\ (clock' = clock \/ Tick)
           \/ \E r \in Rows : Flip(r) /\ clock' = clock
<1>1. ASSUME NEW d \in Calls, Begin(d) \/ Step(d) PROVE UNCHANGED <<clock, rowVars>>
  BY <1>1 DEF Begin, Step, SelectTag, SelectTagMappings, SelectTagSources, ReadMappings,
              StoreTag, SelectMappings, SelectSources, StoreMappings, Raise
<1>2. ASSUME NEW w \in Workers, Restart(w) PROVE UNCHANGED <<clock, rowVars>>
  BY <1>2 DEF Restart
<1>3. ASSUME NEW r \in Rows, Flip(r) PROVE clock' = clock
  BY <1>3 DEF Flip
<1>4. CASE Tick
  BY <1>4 DEF Tick
<1>5. CASE UNCHANGED vars
  BY <1>5
<1>6. QED
  BY <1>1, <1>2, <1>3, <1>4, <1>5 DEF Next

LEMMA LastOnGrows ==
    ASSUME TypeOK, FlippedInv, [Next]_vars, NEW r \in Rows, NEW b \in BOOLEAN
    PROVE  /\ LastOn(r, b) \in Int /\ LastOn(r, b)' \in Int
           /\ LastOn(r, b) <= LastOn(r, b)'
<1>1. LastOn(r, b) \in Int /\ LastOn(r, b)' \in Int
  BY StepTypes DEF LastOn, TypeOK
<1>2. CASE UNCHANGED rowVars /\ (clock' = clock \/ Tick)
  BY <1>1, <1>2 DEF Tick, LastOn, TypeOK
<1>3. ASSUME NEW q \in Rows, Flip(q), clock' = clock
      PROVE  LastOn(r, b) <= LastOn(r, b)'
  <2>1. on[r] \in BOOLEAN /\ flipped[r] <= clock /\ clock \in Nat
    BY DEF FlippedInv, TypeOK
  <2>2. CASE q = r
    BY <1>3, <2>1, <2>2 DEF Flip, LastOn, TypeOK
  <2>3. CASE q # r
    BY <1>1, <1>3, <2>3 DEF Flip, LastOn, TypeOK
  <2>4. QED
    BY <2>2, <2>3
<1>4. QED
  BY <1>1, <1>2, <1>3, WhoMoves

LEMMA StepFlipped ==
    ASSUME TypeOK, FlippedInv, [Next]_vars
    PROVE  FlippedInv'
<1>1. CASE UNCHANGED rowVars /\ (clock' = clock \/ Tick)
  BY <1>1 DEF Tick, TypeOK, FlippedInv
<1>2. ASSUME NEW r \in Rows, Flip(r), clock' = clock PROVE FlippedInv'
  BY <1>2 DEF Flip, TypeOK, FlippedInv
<1>3. QED
  BY <1>1, <1>2, WhoMoves

\* Time and edits only make what is known of a route younger.
LEMMA RoutesStay ==
    ASSUME TypeOK, FlippedInv, [Next]_vars,
           NEW R \in SUBSET Sources, NEW t \in Int, RoutesSince(R, t)
    PROVE  RoutesSince(R, t)'
<1>1. ASSUME NEW s \in Sources, NEW r \in {Mapping(s), Source(s)}, NEW b \in BOOLEAN,
             LastOn(r, b) >= t
      PROVE  LastOn(r, b)' >= t
  <2>1. r \in Rows
    BY <1>1, RowsExist
  <2>2. QED
    BY <1>1, <2>1, LastOnGrows
<1>2. QED
  BY <1>1 DEF RoutesSince

LEMMA MappedStays ==
    ASSUME TypeOK, FlippedInv, [Next]_vars,
           NEW M \in SUBSET Sources, NEW t \in Int, MappedSince(M, t)
    PROVE  MappedSince(M, t)'
<1>1. ASSUME NEW s \in Sources PROVE LastOn(Mapping(s), s \in M)' >= t
  <2>1. Mapping(s) \in Rows /\ (s \in M) \in BOOLEAN
    BY RowsExist
  <2>2. PICK b \in BOOLEAN : b = (s \in M)
    BY <2>1
  <2>3. LastOn(Mapping(s), b) >= t
    BY <2>2 DEF MappedSince
  <2>4. LastOn(Mapping(s), b)' >= t
    BY <2>1, <2>3, LastOnGrows
  <2>5. QED
    BY <2>2, <2>4
<1>2. QED
  BY <1>1 DEF MappedSince

LEMMA SessionStays ==
    ASSUME TypeOK, FlippedInv, [Next]_vars, NEW d \in Calls, NEW t \in Int, SessionSince(d, t),
           loaded'[d] = loaded[d], loadedOn'[d] = loadedOn[d]
    PROVE  SessionSince(d, t)'
<1>1. ASSUME NEW s \in Sources, s \in loaded[d]
      PROVE  LastOn(Source(s), s \in loadedOn[d])' >= t
  <2>1. Source(s) \in Rows /\ (s \in loadedOn[d]) \in BOOLEAN
    BY RowsExist
  <2>2. PICK b \in BOOLEAN : b = (s \in loadedOn[d])
    BY <2>1
  <2>3. LastOn(Source(s), b) >= t
    BY <1>1, <2>2 DEF SessionSince
  <2>4. LastOn(Source(s), b)' >= t
    BY <2>1, <2>3, LastOnGrows
  <2>5. b = (s \in loadedOn'[d])
    BY <2>2
  <2>6. QED
    BY <2>4, <2>5
<1>2. QED
  BY <1>1 DEF SessionSince

\* What is true since t is true since any earlier time.
LEMMA RoutesOlder ==
    ASSUME TypeOK, NEW R \in SUBSET Sources, NEW t \in Int, NEW u \in Int, u <= t,
           RoutesSince(R, t)
    PROVE  RoutesSince(R, u)
<1>1. \A r \in Rows, b \in BOOLEAN : LastOn(r, b) \in Int
  BY DEF LastOn, TypeOK
<1>2. \A a \in Int : a >= t => a >= u
  OBVIOUS
<1>3. ASSUME NEW s \in Sources, NEW b \in BOOLEAN
      PROVE  /\ LastOn(Mapping(s), b) >= t => LastOn(Mapping(s), b) >= u
             /\ LastOn(Source(s), b) >= t => LastOn(Source(s), b) >= u
  BY <1>1, <1>2, RowsExist, Zenon
<1>4. QED
  BY <1>3 DEF RoutesSince

-----------------------------------------------------------------------------
(* The dictionaries, and then the calls.                                     *)

LEMMA StepTagEntry ==
    ASSUME TypeOK, TrueInv, [Next]_vars, NEW w \in Workers
    PROVE  TagEntryTrue(w)'
<1>1. CASE tagCache'[w] = tagCache[w]
  <2>1. CASE tagCache[w] = NoEntry
    BY <1>1, <2>1 DEF TagEntryTrue
  <2>2. CASE tagCache[w] # NoEntry
    <3>1. tagCache[w].on \in BOOLEAN /\ tagCache[w].at \in Nat
      BY <2>2 DEF TypeOK
    <3>2. PICK b \in BOOLEAN, t \in Nat : b = tagCache[w].on /\ t = tagCache[w].at
      BY <3>1
    <3>3. LastOn(Tag, b) >= t
      BY <2>2, <3>2 DEF TrueInv, TagEntryTrue
    <3>4. LastOn(Tag, b)' >= t
      BY <3>3, LastOnGrows, RowsExist DEF TrueInv
    <3>5. QED
      BY <1>1, <2>2, <3>2, <3>4 DEF TagEntryTrue
  <2>3. QED
    BY <2>1, <2>2
<1>2. ASSUME NEW d \in Calls, StoreTag(d), home[d] = w PROVE TagEntryTrue(w)'
  <2>1. PICK b \in BOOLEAN, t \in Nat : b = found[d] /\ t = asked[d]
    BY DEF TypeOK
  <2>2. LastOn(Tag, b) >= t
    BY <1>2, <2>1 DEF StoreTag, TrueInv, CallTrue
  <2>3. LastOn(Tag, b)' >= t
    BY <2>2, LastOnGrows, RowsExist DEF TrueInv
  <2>4. tagCache'[w] = [at |-> t, on |-> b]
    BY <1>2, <2>1 DEF StoreTag, TypeOK
  <2>5. QED
    BY <2>3, <2>4 DEF TagEntryTrue
<1>3. ASSUME NEW d \in Calls, Begin(d) \/ Step(d), ~(StoreTag(d) /\ home[d] = w)
      PROVE  tagCache'[w] = tagCache[w]
  BY <1>3 DEF Begin, Step, SelectTag, SelectTagMappings, SelectTagSources, ReadMappings,
              StoreTag, SelectMappings, SelectSources, StoreMappings, Raise, TypeOK
<1>4. ASSUME NEW q \in Workers, Restart(q) PROVE TagEntryTrue(w)'
  <2>1. CASE q = w
    BY <1>4, <2>1 DEF Restart, TagEntryTrue, TypeOK
  <2>2. CASE q # w
    BY <1>1, <1>4, <2>2 DEF Restart, TypeOK
  <2>3. QED
    BY <2>1, <2>2
<1>5. CASE (\E r \in Rows : Flip(r)) \/ Tick \/ UNCHANGED vars
  BY <1>1, <1>5 DEF Flip, Tick
<1>6. QED
  BY <1>1, <1>2, <1>3, <1>4, <1>5 DEF Next

LEMMA StepMapEntry ==
    ASSUME TypeOK, TrueInv, [Next]_vars, NEW w \in Workers
    PROVE  MapEntryTrue(w)'
<1>1. CASE mapCache'[w] = mapCache[w]
  <2>1. CASE mapCache[w] = NoEntry
    BY <1>1, <2>1 DEF MapEntryTrue
  <2>2. CASE mapCache[w] # NoEntry
    <3>1. mapCache[w].routes \in SUBSET Sources /\ mapCache[w].at - Lag \in Int
      BY <2>2, RoutingAssumption DEF TypeOK
    <3>2. PICK R \in SUBSET Sources, t \in Int :
              R = mapCache[w].routes /\ t = mapCache[w].at - Lag
      BY <3>1
    <3>3. RoutesSince(R, t)
      BY <2>2, <3>2 DEF TrueInv, MapEntryTrue
    <3>4. RoutesSince(R, t)'
      BY <3>3, RoutesStay DEF TrueInv
    <3>5. QED
      BY <1>1, <2>2, <3>2, <3>4 DEF MapEntryTrue, RoutesSince
  <2>3. QED
    BY <2>1, <2>2
<1>2. ASSUME NEW d \in Calls, StoreMappings(d), home[d] = w PROVE MapEntryTrue(w)'
  <2>1. held[d] \in SUBSET Sources /\ asked[d] \in Int /\ begun[d] \in Int /\ clock \in Int
        /\ Lag \in Int
    BY RoutingAssumption DEF TypeOK
  <2>2. PICK R \in SUBSET Sources, t \in Int : R = held[d] /\ t = asked[d]
    BY <2>1
  <2>3. RoutesSince(R, begun[d]) /\ asked[d] <= clock /\ clock <= begun[d] + Lag
    BY <1>2, <2>2 DEF StoreMappings, TrueInv, CallTrue
  <2>4. t - Lag <= begun[d] /\ t - Lag \in Int
    BY <2>1, <2>2, <2>3
  <2>5. RoutesSince(R, t - Lag)
    BY <2>1, <2>3, <2>4, RoutesOlder
  <2>6. RoutesSince(R, t - Lag)'
    BY <2>4, <2>5, RoutesStay DEF TrueInv
  <2>7. mapCache'[w] = [at |-> t, routes |-> R]
    BY <1>2, <2>2 DEF StoreMappings, TypeOK
  <2>8. mapCache'[w].at = t /\ mapCache'[w].routes = R
    BY <2>7
  <2>9. QED
    BY <2>6, <2>8 DEF MapEntryTrue, RoutesSince
<1>3. ASSUME NEW d \in Calls, Begin(d) \/ Step(d), ~(StoreMappings(d) /\ home[d] = w)
      PROVE  mapCache'[w] = mapCache[w]
  BY <1>3 DEF Begin, Step, SelectTag, SelectTagMappings, SelectTagSources, ReadMappings,
              StoreTag, SelectMappings, SelectSources, StoreMappings, Raise, TypeOK
<1>4. ASSUME NEW q \in Workers, Restart(q) PROVE MapEntryTrue(w)'
  <2>1. CASE q = w
    BY <1>4, <2>1 DEF Restart, MapEntryTrue, TypeOK
  <2>2. CASE q # w
    BY <1>1, <1>4, <2>2 DEF Restart, TypeOK
  <2>3. QED
    BY <2>1, <2>2
<1>5. CASE (\E r \in Rows : Flip(r)) \/ Tick \/ UNCHANGED vars
  BY <1>1, <1>5 DEF Flip, Tick
<1>6. QED
  BY <1>1, <1>2, <1>3, <1>4, <1>5 DEF Next

\* A call that asks R now is current if R and the tag are known well enough.
LEMMA SendIsCurrent ==
    ASSUME TypeOK, TypeOK', NEW d \in Calls, NEW R \in SUBSET Sources, Send(d, R),
           UNCHANGED <<clock, rowVars>>,
           \/ clock < LastOn(Tag, FALSE) + Window /\ R = {}
           \/ /\ clock < LastOn(Tag, TRUE) + Window
              /\ \E t \in Int : clock < t + Window /\ RoutesSince(R, t)
    PROVE  CallTrue(d)' /\ Current(d)'
<1>1. pc'[d] = "done" /\ sent'[d] = R /\ sentAt'[d] = clock
  BY DEF Send, TypeOK
<1>2. ASSUME NEW r \in Rows, NEW b \in BOOLEAN
      PROVE  LastOn(r, b)' = LastOn(r, b) /\ LastOn(r, b) \in Int
  BY DEF LastOn, TypeOK
<1>3. clock \in Int /\ Window \in Int
  BY RoutingAssumption DEF TypeOK, Window
<1>4. ASSUME NEW s \in Sources, s \in R
      PROVE  \A r \in {Tag, Mapping(s), Source(s)} : clock < LastOn(r, TRUE) + Window
  <2>1. LastOn(Tag, TRUE) \in Int /\ LastOn(Mapping(s), TRUE) \in Int /\ LastOn(Source(s), TRUE) \in Int
    BY <1>2, RowsExist
  <2>2. clock < LastOn(Tag, TRUE) + Window
    BY <1>4
  <2>3. PICK t \in Int : clock < t + Window /\ RoutesSince(R, t)
    BY <1>4
  <2>4. LastOn(Mapping(s), TRUE) >= t /\ LastOn(Source(s), TRUE) >= t
    BY <1>4, <2>3 DEF RoutesSince
  <2>5. \A a \in Int : a >= t => clock < a + Window
    BY <1>3, <2>3
  <2>6. clock < LastOn(Mapping(s), TRUE) + Window /\ clock < LastOn(Source(s), TRUE) + Window
    BY <2>1, <2>4, <2>5, Zenon
  <2>7. QED
    BY <2>2, <2>6
<1>5. ASSUME NEW s \in Sources, s \notin R
      PROVE  \E r \in {Tag, Mapping(s), Source(s)} : clock < LastOn(r, FALSE) + Window
  <2>1. LastOn(Mapping(s), FALSE) \in Int /\ LastOn(Source(s), FALSE) \in Int
    BY <1>2, RowsExist
  <2>2. CASE clock < LastOn(Tag, FALSE) + Window
    BY <2>2
  <2>3. ASSUME NEW t \in Int, clock < t + Window, RoutesSince(R, t)
        PROVE  \/ clock < LastOn(Mapping(s), FALSE) + Window
               \/ clock < LastOn(Source(s), FALSE) + Window
    <3>1. LastOn(Mapping(s), FALSE) >= t \/ LastOn(Source(s), FALSE) >= t
      BY <1>5, <2>3 DEF RoutesSince
    <3>2. \A a \in Int : a >= t => clock < a + Window
      BY <1>3, <2>3
    <3>3. QED
      BY <2>1, <3>1, <3>2, Zenon
  <2>4. QED
    BY <2>2, <2>3
<1>6. Current(d)'
  BY <1>1, <1>2, <1>4, <1>5, RowsExist DEF Current, Recently
<1>7. QED
  BY <1>1, <1>6 DEF CallTrue

\* A call that has its tag, and hits or asks for the mappings.
LEMMA TagUsed ==
    ASSUME TypeOK, TypeOK', TrueInv, NEW d \in Calls, NEW isOn \in BOOLEAN, UseTag(d, isOn),
           UNCHANGED <<clock, rowVars>>,
           clock < LastOn(Tag, isOn) + Window,
           begun'[d] < LastOn(Tag, isOn) + Ttl,
           begun'[d] <= clock, clock <= begun'[d] + Lag, SessionSince(d, begun'[d])
    PROVE  CallTrue(d)' /\ Current(d)'
<1>1. home[d] \in Workers /\ clock \in Int
  BY RoutingAssumption DEF TypeOK
<1>2. CASE ~isOn
  BY <1>2, SendIsCurrent DEF UseTag
<1>3. CASE isOn /\ Fresh(mapCache[home[d]])
  <2>1. mapCache[home[d]].routes \in SUBSET Sources /\ mapCache[home[d]].at \in Int
    BY <1>1, <1>3 DEF Fresh, TypeOK
  <2>2. PICK R \in SUBSET Sources, t \in Int :
            R = mapCache[home[d]].routes /\ t = mapCache[home[d]].at
    BY <2>1
  <2>3. Send(d, R)
    BY <1>3, <2>2 DEF UseTag, GetMappings
  <2>4. RoutesSince(R, t - Lag)
    BY <1>1, <1>3, <2>2 DEF Fresh, TrueInv, MapEntryTrue
  <2>5. clock < t - Lag + Window /\ t - Lag \in Int
    BY <1>1, <1>3, <2>2, RoutingAssumption DEF Fresh, Window
  <2>6. clock < LastOn(Tag, TRUE) + Window
    BY <1>3
  <2>7. QED
    BY <2>3, <2>4, <2>5, <2>6, SendIsCurrent
<1>4. CASE isOn /\ ~Fresh(mapCache[home[d]])
  <2>1. pc'[d] = "mappings" /\ asked'[d] = clock
    BY <1>4 DEF UseTag, GetMappings, Ask, TypeOK
  <2>2. begun'[d] < LastOn(Tag, TRUE)' + Ttl
    BY <1>4 DEF LastOn
  <2>3. begun'[d] <= asked'[d] /\ asked'[d] <= clock' /\ clock' <= begun'[d] + Lag
    BY <1>1, <2>1
  <2>4. SessionSince(d, begun[d])'
    <3>1. UNCHANGED <<loaded, loadedOn>>
      BY <1>4 DEF UseTag, GetMappings, Ask
    <3>2. QED
      BY <3>1 DEF SessionSince, LastOn
  <2>5. QED
    BY <2>1, <2>2, <2>3, <2>4 DEF CallTrue, Current
<1>5. QED
  BY <1>2, <1>3, <1>4

\* What every waiting call keeps.
LEMMA Young ==
    ASSUME TypeOK, TrueInv, NEW d \in Calls
    PROVE  /\ clock \in Int /\ begun[d] \in Int /\ asked[d] \in Int /\ home[d] \in Workers
           /\ pc[d] \in Waiting =>
                  begun[d] <= asked[d] /\ asked[d] <= clock /\ clock <= begun[d] + Lag
           /\ \A r \in Rows, b \in BOOLEAN : LastOn(r, b) \in Int
           /\ Lag \in Int /\ Ttl \in Int /\ Ttl > 0 /\ Window = Ttl + Lag
BY RoutingAssumption DEF TypeOK, TrueInv, CallTrue, LastOn, Window

LEMMA BeginTrue ==
    ASSUME TypeOK, TypeOK', TrueInv, NEW d \in Calls, Begin(d)
    PROVE  CallTrue(d)' /\ Current(d)'
<1>1. begun'[d] = clock /\ UNCHANGED <<clock, rowVars>> /\ loaded[d] = {}
  BY DEF Begin, TypeOK, TrueInv, CallTrue
<1>2. CASE Fresh(tagCache[home[d]]) /\ UseTag(d, tagCache[home[d]].on)
  <2>1. tagCache[home[d]].on \in BOOLEAN /\ tagCache[home[d]].at \in Int
    BY <1>2, Young DEF Fresh, TypeOK
  <2>2. PICK b \in BOOLEAN, t \in Int :
            b = tagCache[home[d]].on /\ t = tagCache[home[d]].at
    BY <2>1
  <2>3. LastOn(Tag, b) >= t /\ clock < t + Ttl
    BY <1>2, <2>2, Young DEF Fresh, TrueInv, TagEntryTrue
  <2>4. LastOn(Tag, b) \in Int
    BY Young, RowsExist
  <2>5. clock < LastOn(Tag, b) + Ttl /\ clock < LastOn(Tag, b) + Window
    BY <2>3, <2>4, Young, RoutingAssumption
  <2>6. begun'[d] < LastOn(Tag, b) + Ttl /\ begun'[d] <= clock /\ clock <= begun'[d] + Lag
    BY <1>1, <2>5, Young, RoutingAssumption
  <2>7. UseTag(d, b)
    BY <1>2, <2>2
  <2>8. SessionSince(d, begun'[d])
    BY <1>1 DEF SessionSince
  <2>9. QED
    BY <1>1, <2>5, <2>6, <2>7, <2>8, TagUsed
<1>3. CASE Ask(d, "tag")
  <2>1. pc'[d] = "tag" /\ asked'[d] = clock /\ loaded'[d] = {}
    BY <1>1, <1>3 DEF Ask, TypeOK
  <2>2. SessionSince(d, begun[d])'
    BY <2>1 DEF SessionSince
  <2>3. QED
    BY <1>1, <2>1, <2>2, Young, RoutingAssumption DEF CallTrue, Current
<1>4. QED
  BY <1>2, <1>3 DEF Begin

\* The first lookup of a call: the tag, its mappings and their sources.
LEMMA TagLookupTrue ==
    ASSUME TypeOK, TypeOK', TrueInv, NEW d \in Calls,
           SelectTag(d) \/ SelectTagMappings(d) \/ SelectTagSources(d) \/ StoreTag(d)
    PROVE  CallTrue(d)' /\ Current(d)'
<1>1. CASE SelectTag(d)
  <2>1. /\ pc[d] = "tag" /\ pc'[d] \in {"tagMappings", "tagRead"} /\ found'[d] = on[Tag]
        /\ UNCHANGED <<clock, rowVars, begun, asked, session>>
    BY <1>1 DEF SelectTag, TypeOK
  <2>2. LastOn(Tag, found[d])' = clock
    BY <2>1 DEF LastOn
  <2>3. SessionSince(d, begun[d])'
    BY <2>1 DEF TrueInv, CallTrue, SessionSince, LastOn
  <2>4. found'[d] = TRUE \/ pc'[d] = "tagRead"
    BY <1>1, RowsExist DEF SelectTag, TypeOK
  <2>5. QED
    BY <2>1, <2>2, <2>3, <2>4, Young DEF CallTrue, Current
<1>2. CASE SelectTagMappings(d)
  <2>1. /\ pc[d] = "tagMappings" /\ pc'[d] \in {"tagSources", "tagRead"}
        /\ UNCHANGED <<clock, rowVars, begun, asked, found, session>>
    BY <1>2 DEF SelectTagMappings, ReadMappings, TypeOK
  <2>2. SessionSince(d, begun[d])'
    BY <2>1 DEF TrueInv, CallTrue, SessionSince, LastOn
  <2>3. LastOn(Tag, found[d])' >= asked'[d]
    BY <2>1 DEF TrueInv, CallTrue, LastOn
  <2>4. QED
    BY <2>1, <2>2, <2>3, Young DEF CallTrue, Current
<1>3. CASE SelectTagSources(d)
  <2>1. /\ pc[d] = "tagSources" /\ pc'[d] = "tagRead"
        /\ UNCHANGED <<clock, rowVars, begun, asked, found>>
        /\ loaded'[d] = held[d] /\ loadedOn'[d] = {s \in held[d] : on[Source(s)]}
    BY <1>3 DEF SelectTagSources, TypeOK
  <2>2. ASSUME NEW s \in Sources, s \in loaded'[d]
        PROVE  LastOn(Source(s), s \in loadedOn[d])' >= begun'[d]
    <3>1. on[Source(s)] \in BOOLEAN /\ on'[Source(s)] = on[Source(s)]
      BY <2>1, RowsExist DEF TypeOK
    <3>2. (s \in loadedOn'[d]) = on[Source(s)]
      BY <2>1, <2>2, <3>1
    <3>3. LastOn(Source(s), s \in loadedOn[d])' = clock
      BY <2>1, <3>1, <3>2 DEF LastOn
    <3>4. begun'[d] <= clock
      BY <2>1, Young
    <3>5. QED
      BY <3>3, <3>4, Young
  <2>3. SessionSince(d, begun[d])'
    BY <2>2 DEF SessionSince
  <2>4. LastOn(Tag, found[d])' >= asked'[d]
    BY <2>1 DEF TrueInv, CallTrue, LastOn
  <2>5. QED
    BY <2>1, <2>3, <2>4, Young DEF CallTrue, Current
<1>4. CASE StoreTag(d)
  <2>1. pc[d] = "tagRead" /\ UNCHANGED <<clock, rowVars, begun>>
    BY <1>4 DEF StoreTag
  <2>2. PICK b \in BOOLEAN : b = found[d]
    BY DEF TypeOK
  <2>3. UseTag(d, b)
    BY <1>4, <2>2 DEF StoreTag
  <2>4. LastOn(Tag, b) >= asked[d] /\ SessionSince(d, begun'[d])
    BY <2>1, <2>2 DEF TrueInv, CallTrue
  <2>5. LastOn(Tag, b) \in Int
    BY Young, RowsExist
  <2>6. /\ clock < LastOn(Tag, b) + Window /\ begun'[d] < LastOn(Tag, b) + Ttl
        /\ begun'[d] <= clock /\ clock <= begun'[d] + Lag
    BY <2>1, <2>4, <2>5, Young
  <2>7. QED
    BY <2>1, <2>3, <2>4, <2>6, TagUsed
<1>5. QED
  BY <1>1, <1>2, <1>3, <1>4

\* The second one: its two statements.
LEMMA MappingLookupTrue ==
    ASSUME TypeOK, TypeOK', TrueInv, NEW d \in Calls, SelectMappings(d) \/ SelectSources(d)
    PROVE  CallTrue(d)' /\ Current(d)'
<1>1. /\ pc[d] \in {"mappings", "sources"} /\ pc'[d] \in {"sources", "sourcesRead"}
      /\ UNCHANGED <<clock, rowVars, begun, asked, session>>
  BY DEF SelectMappings, ReadMappings, SelectSources, TypeOK
<1>2. begun'[d] < LastOn(Tag, TRUE)' + Ttl
  BY <1>1 DEF TrueInv, CallTrue, LastOn
<1>3. begun'[d] <= asked'[d] /\ asked'[d] <= clock' /\ clock' <= begun'[d] + Lag
  BY <1>1, Young
<1>4. ASSUME NEW r \in Rows, NEW b \in BOOLEAN, on[r] = b
      PROVE  LastOn(r, b)' >= asked'[d]
  BY <1>1, <1>3, <1>4 DEF LastOn
<1>5. ASSUME NEW r \in Rows, NEW b \in BOOLEAN
      PROVE  LastOn(r, b)' = LastOn(r, b)
  BY <1>1 DEF LastOn
<1>6. /\ begun'[d] \in Int /\ asked'[d] \in Int /\ begun'[d] <= asked'[d]
      /\ SessionSince(d, begun[d]) /\ SessionSince(d, begun[d])'
  BY <1>1, <1>3, Young DEF TrueInv, CallTrue, SessionSince, LastOn
<1>7. \A a \in Int : a >= asked'[d] => a >= begun'[d]
  BY <1>6
<1>8. CASE SelectMappings(d)
  <2>1. held'[d] = {s \in Sources : on[Mapping(s)]} /\ pc'[d] = "sourcesRead" => held'[d] = {}
    BY <1>8 DEF SelectMappings, ReadMappings, TypeOK
  <2>2. ASSUME NEW s \in Sources PROVE LastOn(Mapping(s), s \in held[d])' >= asked'[d]
    <3>1. on[Mapping(s)] \in BOOLEAN
      BY RowsExist DEF TypeOK
    <3>2. (s \in held'[d]) = on[Mapping(s)]
      BY <1>8, <3>1 DEF SelectMappings, ReadMappings, TypeOK
    <3>3. QED
      BY <1>1, <1>3, <3>2 DEF LastOn
  <2>3. MappedSince(held[d], asked[d])'
    BY <2>2 DEF MappedSince
  <2>4. ASSUME pc'[d] = "sourcesRead" PROVE RoutesSince(held[d], begun[d])'
    <3>1. \A s \in Sources : s \notin held'[d] /\ on[Mapping(s)] = FALSE
      BY <1>8, <2>4, RowsExist DEF SelectMappings, ReadMappings, TypeOK
    <3>2. ASSUME NEW s \in Sources PROVE LastOn(Mapping(s), FALSE)' >= begun'[d]
      <4>1. LastOn(Mapping(s), FALSE)' = clock
        BY <1>1, <3>1 DEF LastOn
      <4>2. begun'[d] <= clock /\ clock \in Int
        BY <1>1, Young
      <4>3. QED
        BY <1>6, <4>1, <4>2
    <3>3. QED
      BY <3>1, <3>2 DEF RoutesSince
  <2>5. QED
    BY <1>1, <1>2, <1>3, <1>6, <2>3, <2>4 DEF CallTrue, Current
<1>9. CASE SelectSources(d)
  <2>1. pc[d] = "sources" /\ pc'[d] = "sourcesRead"
    BY <1>9 DEF SelectSources, TypeOK
  <2>2. \A s \in Sources : s \in held'[d] <=>
            s \in held[d] /\ (IF s \in loaded[d] THEN s \in loadedOn[d] ELSE on[Source(s)])
    BY <1>9 DEF SelectSources, TypeOK
  \* The mapping, as it was since the lookup asked, and the source, read now or known
  \* since the session began.
  <2>3. ASSUME NEW s \in Sources, NEW m \in BOOLEAN, m = (s \in held[d])
        PROVE  LastOn(Mapping(s), m)' >= begun'[d]
    <3>1. LastOn(Mapping(s), m) >= asked[d]
      BY <2>1, <2>3 DEF TrueInv, CallTrue, MappedSince
    <3>2. LastOn(Mapping(s), m)' = LastOn(Mapping(s), m) /\ LastOn(Mapping(s), m) \in Int
      BY <1>5, RowsExist, Young
    <3>3. asked'[d] = asked[d]
      BY <1>1
    <3>4. QED
      BY <1>7, <3>1, <3>2, <3>3
  <2>4. ASSUME NEW s \in Sources, NEW u \in BOOLEAN,
               u = (IF s \in loaded[d] THEN s \in loadedOn[d] ELSE on[Source(s)])
        PROVE  LastOn(Source(s), u)' >= begun'[d]
    <3>1. CASE s \in loaded[d]
      <4>1. LastOn(Source(s), u) >= begun[d]
        BY <1>6, <2>4, <3>1 DEF SessionSince
      <4>2. QED
        BY <1>1, <1>5, <4>1, RowsExist
    <3>2. CASE s \notin loaded[d]
      <4>1. LastOn(Source(s), u)' = clock
        BY <1>1, <2>4, <3>2 DEF LastOn
      <4>2. begun'[d] <= clock /\ clock \in Int
        BY <1>1, Young
      <4>3. QED
        BY <1>6, <4>1, <4>2
    <3>3. QED
      BY <3>1, <3>2
  <2>5. ASSUME NEW s \in Sources
        PROVE  IF s \in held'[d]
               THEN LastOn(Mapping(s), TRUE)' >= begun'[d] /\ LastOn(Source(s), TRUE)' >= begun'[d]
               ELSE LastOn(Mapping(s), FALSE)' >= begun'[d] \/ LastOn(Source(s), FALSE)' >= begun'[d]
    <3>1. /\ (s \in held[d]) \in BOOLEAN
          /\ (IF s \in loaded[d] THEN s \in loadedOn[d] ELSE on[Source(s)]) \in BOOLEAN
      <4>1. on[Source(s)] \in BOOLEAN
        BY RowsExist DEF TypeOK
      <4>2. (s \in held[d]) \in BOOLEAN /\ (s \in loadedOn[d]) \in BOOLEAN
        OBVIOUS
      <4>3. QED
        BY <4>1, <4>2, Zenon
    <3>2. PICK m \in BOOLEAN : m = (s \in held[d])
      BY <3>1
    <3>3. PICK u \in BOOLEAN : u = (IF s \in loaded[d] THEN s \in loadedOn[d] ELSE on[Source(s)])
      BY <3>1
    <3>4. LastOn(Mapping(s), m)' >= begun'[d] /\ LastOn(Source(s), u)' >= begun'[d]
      BY <2>3, <2>4, <3>2, <3>3
    <3>5. (s \in held'[d]) <=> (m = TRUE /\ u = TRUE)
      BY <2>2, <3>2, <3>3
    <3>6. QED
      BY <3>4, <3>5
  <2>6. RoutesSince(held[d], begun[d])'
    BY <2>5 DEF RoutesSince
  <2>7. QED
    BY <1>1, <1>2, <1>3, <1>6, <2>1, <2>6 DEF CallTrue, Current
<1>10. QED
  BY <1>8, <1>9

LEMMA StoreMappingsTrue ==
    ASSUME TypeOK, TypeOK', TrueInv, NEW d \in Calls, StoreMappings(d)
    PROVE  CallTrue(d)' /\ Current(d)'
<1>1. pc[d] = "sourcesRead" /\ Send(d, held[d]) /\ UNCHANGED <<clock, rowVars>>
  BY DEF StoreMappings
<1>2. RoutesSince(held[d], begun[d]) /\ begun[d] < LastOn(Tag, TRUE) + Ttl
  BY <1>1 DEF TrueInv, CallTrue
<1>3. PICK a \in Int : a = LastOn(Tag, TRUE)
  BY Young, RowsExist
<1>4. clock < LastOn(Tag, TRUE) + Window /\ clock < begun[d] + Window
  <2>1. begun[d] < a + Ttl
    BY <1>2, <1>3, Zenon
  <2>2. clock < a + Window /\ clock < begun[d] + Window
    BY <1>1, <2>1, Young
  <2>3. QED
    BY <1>3, <2>2
<1>5. held[d] \in SUBSET Sources /\ begun[d] \in Int
  BY DEF TypeOK
<1>6. QED
  BY <1>1, <1>2, <1>4, <1>5, SendIsCurrent

\* A call nobody touches, or that ends with nothing sent.
LEMMA OthersTrue ==
    ASSUME TypeOK, TypeOK', TrueInv, [Next]_vars, NEW d \in Calls,
           \/ pc'[d] = "failed"
           \/ /\ pc'[d] = pc[d] /\ begun'[d] = begun[d] /\ asked'[d] = asked[d]
              /\ found'[d] = found[d] /\ held'[d] = held[d]
              /\ loaded'[d] = loaded[d] /\ loadedOn'[d] = loadedOn[d]
              /\ sent'[d] = sent[d] /\ sentAt'[d] = sentAt[d]
    PROVE  CallTrue(d)' /\ Current(d)'
<1>1. CASE pc'[d] = "failed"
  BY <1>1 DEF CallTrue, Current
<1>2. CASE /\ pc'[d] = pc[d] /\ begun'[d] = begun[d] /\ asked'[d] = asked[d]
           /\ found'[d] = found[d] /\ held'[d] = held[d]
           /\ loaded'[d] = loaded[d] /\ loadedOn'[d] = loadedOn[d]
           /\ sent'[d] = sent[d] /\ sentAt'[d] = sentAt[d]
  <2>1. FlippedInv /\ CallTrue(d) /\ Current(d)
    BY DEF TrueInv
  <2>2. ASSUME pc[d] \in Waiting
        PROVE  /\ begun'[d] <= asked'[d] /\ asked'[d] <= clock'
               /\ clock' <= begun'[d] + Lag
    <3>1. CASE clock' = clock
      BY <1>2, <2>2, <3>1, Young
    <3>2. CASE Tick
      BY <1>2, <2>2, <3>2, Young DEF Tick
    <3>3. QED
      BY <3>1, <3>2, WhoMoves
  <2>3. ASSUME pc[d] \in {"tagMappings", "tagSources", "tagRead"}
        PROVE  LastOn(Tag, found[d])' >= asked'[d]
    <3>1. PICK b \in BOOLEAN, t \in Int : b = found[d] /\ t = asked[d]
      BY DEF TypeOK
    <3>2. LastOn(Tag, b)' >= t
      BY <2>1, <2>3, <3>1, LastOnGrows, RowsExist DEF CallTrue
    <3>3. QED
      BY <1>2, <3>1, <3>2
  <2>4. ASSUME pc[d] \in {"mappings", "sources", "sourcesRead"}
        PROVE  begun'[d] < LastOn(Tag, TRUE)' + Ttl
    <3>1. begun[d] < LastOn(Tag, TRUE) + Ttl
      BY <2>1, <2>4 DEF CallTrue
    <3>2. LastOn(Tag, TRUE) \in Int /\ LastOn(Tag, TRUE)' \in Int
          /\ LastOn(Tag, TRUE) <= LastOn(Tag, TRUE)'
      BY <2>1, LastOnGrows, RowsExist
    <3>3. PICK a \in Int : a = LastOn(Tag, TRUE)
      BY <3>2
    <3>4. PICK z \in Int : z = LastOn(Tag, TRUE)'
      BY <3>2
    <3>5. begun[d] < a + Ttl /\ a <= z
      BY <3>1, <3>2, <3>3, <3>4, Zenon
    <3>6. begun[d] < z + Ttl
      BY <3>5, Young
    <3>7. QED
      BY <1>2, <3>4, <3>6
  <2>5. held[d] \in SUBSET Sources /\ asked[d] \in Int /\ begun[d] \in Int
    BY DEF TypeOK
  <2>6. PICK R \in SUBSET Sources, t \in Int, u \in Int :
            R = held[d] /\ t = asked[d] /\ u = begun[d]
    BY <2>5
  <2>7. ASSUME pc[d] = "sources" PROVE MappedSince(held[d], asked[d])'
    <3>1. MappedSince(R, t)'
      BY <2>1, <2>6, <2>7, MappedStays DEF CallTrue
    <3>2. QED
      BY <1>2, <2>6, <3>1 DEF MappedSince
  <2>8. ASSUME pc[d] = "sourcesRead" PROVE RoutesSince(held[d], begun[d])'
    <3>1. RoutesSince(R, u)'
      BY <2>1, <2>6, <2>8, RoutesStay DEF CallTrue
    <3>2. QED
      BY <1>2, <2>6, <3>1 DEF RoutesSince
  <2>9. ASSUME pc[d] \in Waiting PROVE SessionSince(d, begun[d])'
    <3>1. SessionSince(d, u)'
      BY <1>2, <2>1, <2>6, <2>9, SessionStays DEF CallTrue
    <3>2. QED
      BY <1>2, <2>6, <3>1 DEF SessionSince
  <2>10. CallTrue(d)'
    BY <1>2, <2>1, <2>2, <2>3, <2>4, <2>7, <2>8, <2>9 DEF CallTrue
  <2>11. ASSUME NEW r \in Rows, NEW b \in BOOLEAN, Recently(d, r, b)
         PROVE  Recently(d, r, b)'
    <3>1. LastOn(r, b) \in Int /\ LastOn(r, b)' \in Int /\ LastOn(r, b) <= LastOn(r, b)'
      BY <2>1, LastOnGrows
    <3>2. sentAt[d] \in Int /\ sentAt'[d] = sentAt[d]
      BY <1>2 DEF TypeOK
    <3>3. QED
      BY <2>11, <3>1, <3>2, Young DEF Recently
  <2>12. Current(d)'
    BY <1>2, <2>1, <2>11, RowsExist DEF Current
  <2>13. QED
    BY <2>10, <2>12
<1>3. QED
  BY <1>1, <1>2

LEMMA StepCalls ==
    ASSUME TypeOK, TrueInv, [Next]_vars, NEW d \in Calls
    PROVE  CallTrue(d)' /\ Current(d)'
<1>1. TypeOK'
  BY StepTypes
<1>2. ASSUME NEW e \in Calls, Begin(e) \/ Step(e) PROVE CallTrue(d)' /\ Current(d)'
  <2>1. CASE e = d
    <3>1. ASSUME Raise(d) PROVE pc'[d] = "failed"
      BY <3>1 DEF Raise, TypeOK
    <3>2. CASE Begin(d)
      BY <1>1, <3>2, BeginTrue
    <3>3. CASE SelectTag(d) \/ SelectTagMappings(d) \/ SelectTagSources(d) \/ StoreTag(d)
      BY <1>1, <3>3, TagLookupTrue
    <3>4. CASE SelectMappings(d) \/ SelectSources(d)
      BY <1>1, <3>4, MappingLookupTrue
    <3>5. CASE StoreMappings(d)
      BY <1>1, <3>5, StoreMappingsTrue
    <3>6. CASE Raise(d)
      BY <1>1, <3>1, <3>6, OthersTrue
    <3>7. QED
      BY <1>2, <2>1, <3>2, <3>3, <3>4, <3>5, <3>6 DEF Step
  <2>2. CASE e # d
    <3>1. /\ pc'[d] = pc[d] /\ begun'[d] = begun[d] /\ asked'[d] = asked[d]
          /\ found'[d] = found[d] /\ held'[d] = held[d]
          /\ loaded'[d] = loaded[d] /\ loadedOn'[d] = loadedOn[d]
          /\ sent'[d] = sent[d] /\ sentAt'[d] = sentAt[d]
      BY <1>2, <2>2 DEF Begin, Step, UseTag, GetMappings, Send, End, Ask, SelectTag, StoreTag,
                        SelectTagMappings, SelectTagSources, ReadMappings, SelectMappings,
                        SelectSources, StoreMappings, Raise, TypeOK
    <3>2. QED
      BY <1>1, <3>1, OthersTrue
  <2>3. QED
    BY <2>1, <2>2
<1>3. CASE (\E r \in Rows : Flip(r)) \/ Tick \/ UNCHANGED vars
  BY <1>1, <1>3, OthersTrue DEF Flip, Tick
<1>4. ASSUME NEW w \in Workers, Restart(w) PROVE CallTrue(d)' /\ Current(d)'
  BY <1>1, <1>4, OthersTrue DEF Restart, End, TypeOK
<1>5. QED
  BY <1>2, <1>3, <1>4 DEF Next

\* The requests follow the tables, for every number of calls, workers and sources:
\* no entry is older than its life, and no call slower than its bound.
THEOREM RoutesFollowTheTables == Spec => []RoutesAreCurrent
<1>1. Init => TypeOK /\ TrueInv
  BY InitTypes, InitTrue
<1>2. TypeOK /\ TrueInv /\ [Next]_vars => TypeOK' /\ TrueInv'
  <2>1. SUFFICES ASSUME TypeOK, TrueInv, [Next]_vars PROVE TypeOK' /\ TrueInv'
    OBVIOUS
  <2>2. FlippedInv'
    BY <2>1, StepFlipped DEF TrueInv
  <2>3. QED
    BY <2>1, <2>2, StepTypes, StepTagEntry, StepMapEntry, StepCalls DEF TrueInv
<1>3. TrueInv => RoutesAreCurrent
  BY DEF TrueInv, Current, RoutesAreCurrent
<1>4. QED
  BY <1>1, <1>2, <1>3, PTL DEF Spec
=============================================================================
