--------------------------- MODULE SupplyRouting ---------------------------
(***************************************************************************)
(* DemandForwarder.forward up to the requests it sends: which demand       *)
(* sources a supply tag's request goes to.                                 *)
(*                                                                         *)
(* The tag and its active mappings come from PostgreSQL, through two       *)
(* dictionaries each worker process keeps for itself.  An entry is stamped *)
(* with the time its lookup began, a missing tag is cached like any other  *)
(* answer, and no edit of a row reaches the dictionaries.  A lookup is     *)
(* suspended between asking, the statement's snapshot and the answer, so   *)
(* that lookups overlap and the older may overwrite the younger.           *)
(*                                                                         *)
(* A tag comes with its mappings and their sources (lazy="selectin"), and  *)
(* the session keeps them: the second lookup, in the same session, sees    *)
(* the sources as they were then.                                          *)
(***************************************************************************)
EXTENDS Integers

CONSTANTS Calls,       \* forward coroutines
          Workers,     \* worker processes
          home,        \* the worker a call runs in
          Sources,     \* demand endpoints and demand VAST tags
          Ttl,         \* _SUPPLY_CACHE_TTL
          Lag,         \* the longest the two lookups of a call take
          NoEntry,     \* a dictionary without the key
          MaxClock     \* BOUND: the horizon

ASSUME RoutingAssumption ==
    /\ home \in [Calls -> Workers]
    /\ Ttl \in Nat \ {0}
    /\ Lag \in Nat
    /\ MaxClock \in Nat
    /\ NoEntry \notin [at : Nat, on : BOOLEAN] \cup [at : Nat, routes : SUBSET Sources]

\* How long a change may go unnoticed.
Window == Ttl + Lag

\* The rows a route hangs on: the supply tag, the mapping, and the source it names.
Tag == <<"tag">>
Mapping(s) == <<"mapping", s>>
Source(s) == <<"source", s>>
Rows == {Tag} \cup {Mapping(s) : s \in Sources} \cup {Source(s) : s \in Sources}

VARIABLES
    clock,
    on,          \* row exists with status ACTIVE
    flipped,     \* HISTORY: when that last changed
    tagCache,    \* _supply_tag_cache[slot_id] of each worker
    mapCache,    \* _mapping_cache[tag.id] of each worker
    pc,          \* where a call is suspended
    begun,       \* HISTORY: when it began
    asked,       \* `now` of the lookup it is in
    found,       \* the tag its SELECT returned, TRUE if there was one
    held,        \* the mappings its SELECT returned
    loaded,      \* the sources its session knows since the tag was loaded
    loadedOn,    \* those of them that were active
    sent,        \* the sources it went on to ask
    sentAt       \* HISTORY: when

rowVars  == <<on, flipped>>
caches   == <<tagCache, mapCache>>
session  == <<loaded, loadedOn>>
locals   == <<asked, found, held, session>>
callVars == <<pc, begun, locals, sent, sentAt>>
vars     == <<clock, rowVars, caches, callVars>>

Waiting == {"tag", "tagMappings", "tagSources", "tagRead",
            "mappings", "sources", "sourcesRead"}

TypeOK ==
    /\ clock \in Nat
    /\ on \in [Rows -> BOOLEAN]
    /\ flipped \in [Rows -> Int]
    /\ tagCache \in [Workers -> {NoEntry} \cup [at : Nat, on : BOOLEAN]]
    /\ mapCache \in [Workers -> {NoEntry} \cup [at : Nat, routes : SUBSET Sources]]
    /\ pc \in [Calls -> {"idle", "done", "failed"} \cup Waiting]
    /\ begun \in [Calls -> Nat]
    /\ asked \in [Calls -> Nat]
    /\ found \in [Calls -> BOOLEAN]
    /\ held \in [Calls -> SUBSET Sources]
    /\ loaded \in [Calls -> SUBSET Sources]
    /\ loadedOn \in [Calls -> SUBSET Sources]
    /\ sent \in [Calls -> SUBSET Sources]
    /\ sentAt \in [Calls -> Nat]

Init ==
    /\ clock = 0
    /\ on \in [Rows -> BOOLEAN]
    /\ flipped = [r \in Rows |-> -Window]
    /\ tagCache = [w \in Workers |-> NoEntry]
    /\ mapCache = [w \in Workers |-> NoEntry]
    /\ pc = [d \in Calls |-> "idle"]
    /\ begun = [d \in Calls |-> 0]
    /\ asked = [d \in Calls |-> 0]
    /\ found = [d \in Calls |-> FALSE]
    /\ held = [d \in Calls |-> {}]
    /\ loaded = [d \in Calls |-> {}]
    /\ loadedOn = [d \in Calls |-> {}]
    /\ sent = [d \in Calls |-> {}]
    /\ sentAt = [d \in Calls |-> 0]

GoTo(d, s) == pc' = [pc EXCEPT ![d] = s]

-----------------------------------------------------------------------------
(* _do_forward. What hits a dictionary goes on without suspending.           *)

Fresh(e) == e # NoEntry /\ clock - e.at < Ttl

\* What coroutines that end knew goes with them and their sessions.
End(D) ==
    LET Drop(f, nothing) == [d \in Calls |-> IF d \in D THEN nothing ELSE f[d]]
    IN  /\ asked' = Drop(asked, 0) /\ found' = Drop(found, FALSE) /\ held' = Drop(held, {})
        /\ loaded' = Drop(loaded, {}) /\ loadedOn' = Drop(loadedOn, {})

Send(d, R) ==
    /\ End({d})
    /\ sent' = [sent EXCEPT ![d] = R]
    /\ sentAt' = [sentAt EXCEPT ![d] = clock]
    /\ GoTo(d, "done")

\* Ask the database, remembering since when.
Ask(d, s) ==
    /\ GoTo(d, s)
    /\ asked' = [asked EXCEPT ![d] = clock]
    /\ UNCHANGED <<found, held, session, sent, sentAt>>

GetMappings(d) ==
    LET e == mapCache[home[d]]
    IN \/ Fresh(e) /\ Send(d, e.routes)
       \/ ~Fresh(e) /\ Ask(d, "mappings")

\* Without a tag nobody is asked.
UseTag(d, isOn) ==
    \/ isOn /\ GetMappings(d)
    \/ ~isOn /\ Send(d, {})

Begin(d) ==
    LET e == tagCache[home[d]]
    IN /\ pc[d] = "idle"
       /\ begun' = [begun EXCEPT ![d] = clock]
       /\ \/ Fresh(e) /\ UseTag(d, e.on)
          \/ ~Fresh(e) /\ Ask(d, "tag")
       /\ UNCHANGED <<clock, rowVars, caches>>

SelectTag(d) ==
    /\ pc[d] = "tag"
    /\ found' = [found EXCEPT ![d] = on[Tag]]
    /\ GoTo(d, IF on[Tag] THEN "tagMappings" ELSE "tagRead")
    /\ UNCHANGED <<clock, rowVars, caches, begun, asked, held, session, sent, sentAt>>

\* A statement for mappings; if there are any, one for the rows they name follows.
ReadMappings(d, here, some, none) ==
    LET active == {s \in Sources : on[Mapping(s)]}
    IN /\ pc[d] = here
       /\ held' = [held EXCEPT ![d] = active]
       /\ GoTo(d, IF active = {} THEN none ELSE some)
       /\ UNCHANGED <<clock, rowVars, caches, begun, asked, found, session, sent, sentAt>>

SelectTagMappings(d) == ReadMappings(d, "tagMappings", "tagSources", "tagRead")

SelectTagSources(d) ==
    /\ pc[d] = "tagSources"
    /\ loaded' = [loaded EXCEPT ![d] = held[d]]
    /\ loadedOn' = [loadedOn EXCEPT ![d] = {s \in held[d] : on[Source(s)]}]
    /\ GoTo(d, "tagRead")
    /\ UNCHANGED <<clock, rowVars, caches, begun, asked, found, held, sent, sentAt>>

\* Mutant: the entry is stamped when it is written.
StoreTagNow(d) ==
    /\ pc[d] = "tagRead"
    /\ tagCache' = [tagCache EXCEPT ![home[d]] = [at |-> clock, on |-> found[d]]]
    /\ UseTag(d, found[d])
    /\ UNCHANGED <<clock, rowVars, mapCache, begun>>

StoreTag(d) ==
    /\ pc[d] = "tagRead"
    /\ tagCache' = [tagCache EXCEPT ![home[d]] = [at |-> asked[d], on |-> found[d]]]
    /\ UseTag(d, found[d])
    /\ UNCHANGED <<clock, rowVars, mapCache, begun>>

\* Mutant: the mapping rows are taken for the sources they name.
SelectMappingRows(d) ==
    LET active == {s \in Sources : on[Mapping(s)]}
    IN /\ pc[d] = "mappings"
       /\ held' = [held EXCEPT ![d] = {Mapping(s) : s \in active}]
       /\ GoTo(d, IF active = {} THEN "sourcesRead" ELSE "sources")
       /\ UNCHANGED <<clock, rowVars, caches, begun, asked, found, session, sent, sentAt>>

SelectMappings(d) == ReadMappings(d, "mappings", "sources", "sourcesRead")

\* What the session knows is not read again.
SelectSources(d) ==
    /\ pc[d] = "sources"
    /\ held' = [held EXCEPT ![d] =
           {s \in @ : IF s \in loaded[d] THEN s \in loadedOn[d] ELSE on[Source(s)]}]
    /\ GoTo(d, "sourcesRead")
    /\ UNCHANGED <<clock, rowVars, caches, begun, asked, found, session, sent, sentAt>>

StoreMappings(d) ==
    /\ pc[d] = "sourcesRead"
    /\ mapCache' = [mapCache EXCEPT ![home[d]] = [at |-> asked[d], routes |-> held[d]]]
    /\ Send(d, held[d])
    /\ UNCHANGED <<clock, rowVars, tagCache, begun>>

\* The pool or PostgreSQL raises: forward is over, the dictionaries keep what they have.
Raise(d) ==
    /\ pc[d] \in Waiting
    /\ GoTo(d, "failed") /\ End({d})
    /\ UNCHANGED <<clock, rowVars, caches, begun, sent, sentAt>>

-----------------------------------------------------------------------------
(* The operator of the exchange, and time.                                   *)

\* supply_demand.py: create, update, soft-delete a tag, a source or a mapping.
Flip(r) ==
    /\ on' = [on EXCEPT ![r] = ~@]
    /\ flipped' = [flipped EXCEPT ![r] = clock]
    /\ UNCHANGED <<clock, caches, callVars>>

\* A worker starts with empty dictionaries; its calls die with it.
Restart(w) ==
    LET dead == {d \in Calls : home[d] = w /\ pc[d] \in Waiting}
    IN  /\ tagCache' = [tagCache EXCEPT ![w] = NoEntry]
        /\ mapCache' = [mapCache EXCEPT ![w] = NoEntry]
        /\ pc' = [d \in Calls |-> IF d \in dead THEN "failed" ELSE pc[d]]
        /\ End(dead)
        /\ UNCHANGED <<clock, rowVars, begun, sent, sentAt>>

Tick ==
    /\ clock < MaxClock
    /\ \A d \in Calls : pc[d] \in Waiting => clock < begun[d] + Lag
    /\ clock' = clock + 1
    /\ UNCHANGED <<rowVars, caches, callVars>>

-----------------------------------------------------------------------------

Step(d) ==
    \/ SelectTag(d) \/ SelectTagMappings(d) \/ SelectTagSources(d) \/ StoreTag(d)
    \/ SelectMappings(d) \/ SelectSources(d) \/ StoreMappings(d)
    \/ Raise(d)

Next ==
    \/ \E d \in Calls : Begin(d) \/ Step(d)
    \/ \E r \in Rows : Flip(r)
    \/ \E w \in Workers : Restart(w)
    \/ Tick

Spec == Init /\ [][Next]_vars

-----------------------------------------------------------------------------
(* Properties.                                                               *)

\* When a row was last so, as far as it is known now.
LastOn(r, b) == IF on[r] = b THEN clock ELSE flipped[r]

\* A row was so within the window before the call went on.
Recently(d, r, b) == sentAt[d] < LastOn(r, b) + Window

\* Requests follow the tables within one life of an entry and one call: a source is
\* asked only if tag, mapping and source were active that recently, and one that was
\* all that time linked and active is not left out, whatever lookups of the same
\* worker overlapped, and although a tag that was missing is remembered as missing.
RoutesAreCurrent ==
    \A d \in Calls : pc[d] = "done" =>
        \A s \in Sources :
            IF s \in sent[d]
            THEN \A r \in {Tag, Mapping(s), Source(s)} : Recently(d, r, TRUE)
            ELSE \E r \in {Tag, Mapping(s), Source(s)} : Recently(d, r, FALSE)
=============================================================================
