----------------------------- MODULE Reporting -----------------------------
(***************************************************************************)
(* AnalyticsService: from the counters in Redis to the tables the reports  *)
(* read.                                                                   *)
(*                                                                         *)
(* Requests and events increment one hash per campaign and hour, and       *)
(* impressions one hash of spend per campaign and day. POST /flush copies  *)
(* the hashes of an hour into hourly_stats, POST /sync-spend those of the  *)
(* day into the campaigns. Both read everything in one MULTI, write the    *)
(* rows one by one in one transaction and commit when the session closes.  *)
(* Nothing keeps two of them, or the traffic, apart.                       *)
(*                                                                         *)
(* A hash is represented by the number of increments it has received.      *)
(***************************************************************************)
EXTENDS Integers, FiniteSets, Sequences, SequencesExt

CONSTANTS Campaigns,    \* rows of campaigns
          Jobs,         \* calls of /flush and /sync-spend
          HoursPerDay,  \* 24
          StatTtl,      \* _CACHE_TTL_STATS, in hours
          NoRow,        \* hourly_stats has no row
          MaxHour,      \* BOUND: hours that pass
          MaxCount      \* BOUND: increments of the hash of a campaign and an hour

Hours == 0 .. MaxHour
Day(h) == h \div HoursPerDay
Days == {Day(h) : h \in Hours}
Kinds == {"flush", "sync"}

ASSUME ReportingAssumption ==
    /\ IsFiniteSet(Campaigns) /\ IsFiniteSet(Jobs)
    /\ HoursPerDay \in Nat \ {0} /\ StatTtl \in Nat \ {0}
    /\ MaxHour \in Nat /\ MaxCount \in [Campaigns -> [Hours -> Nat]]
    /\ NoRow \notin Nat

VARIABLES
    hour,      \* the clock
    stat,      \* stat:{campaign}:{hour}, 0 without a key
    happened,  \* HISTORY: increments made, expired hashes included
    budget,    \* budget:{campaign}:{day}, 0 without a key
    stored,    \* hourly_stats
    version,   \* HISTORY: how often a row of hourly_stats was written
    spent,     \* Campaign.spent_today and spent_total
    synced,    \* HISTORY: how often it was written, and the day last written
    job        \* the calls

redisVars == <<stat, happened, budget>>
tableVars == <<stored, version, spent, synced>>
vars == <<hour, redisVars, tableVars, job>>

Idle == [pc |-> "idle", kind |-> "flush", key |-> 0, todo |-> <<>>, done |-> {},
         read |-> [c \in Campaigns |-> 0], seen |-> [c \in Campaigns |-> 0]]

Job == [pc : {"idle", "chosen", "read", "done", "failed"}, kind : Kinds, key : Hours,
        todo : Seq(Campaigns), done : SUBSET Campaigns,
        read : [Campaigns -> Nat], seen : [Campaigns -> Nat]]

TypeOK ==
    /\ hour \in Hours
    /\ stat \in [Campaigns -> [Hours -> Nat]] /\ happened \in [Campaigns -> [Hours -> Nat]]
    /\ budget \in [Campaigns -> [Days -> Nat]]
    /\ stored \in [Campaigns -> [Hours -> Nat \cup {NoRow}]]
    /\ version \in [Campaigns -> [Hours -> Nat]]
    /\ spent \in [Campaigns -> [today : Nat, total : Nat]]
    /\ synced \in [Campaigns -> [times : Nat, day : Days]]
    /\ job \in [Jobs -> Job]

Init ==
    /\ hour = 0
    /\ stat = [c \in Campaigns |-> [h \in Hours |-> 0]]
    /\ happened = stat
    /\ budget = [c \in Campaigns |-> [d \in Days |-> 0]]
    /\ stored = [c \in Campaigns |-> [h \in Hours |-> NoRow]]
    /\ version = [c \in Campaigns |-> [h \in Hours |-> 0]]
    /\ spent = [c \in Campaigns |-> [today |-> 0, total |-> 0]]
    /\ synced = [c \in Campaigns |-> [times |-> 0, day |-> Day(0)]]
    /\ job = [j \in Jobs |-> Idle]

-----------------------------------------------------------------------------
(* Traffic. The hour is read before the MULTI is sent, so that an increment  *)
(* may arrive in the hour after the one it names.                            *)

Bump(C, h) ==
    /\ h \in {hour, hour - 1} \cap Hours
    /\ \A c \in C : happened[c][h] < MaxCount[c][h]
    /\ stat' = [c \in Campaigns |->
                   IF c \in C THEN [stat[c] EXCEPT ![h] = @ + 1] ELSE stat[c]]
    /\ happened' = [c \in Campaigns |->
                   IF c \in C THEN [happened[c] EXCEPT ![h] = @ + 1] ELSE happened[c]]

\* A request counts for all of its local candidates, in one MULTI. (It counts for
\* campaign 0 as well, which has no row and is never copied.)
CountRequest(C, h) ==
    /\ Bump(C, h)
    /\ UNCHANGED <<hour, budget, tableVars, job>>

\* An impression of a local campaign accrues its cost as well.
CountImpression(c, h) ==
    /\ Bump({c}, h)
    /\ budget' = [budget EXCEPT ![c][Day(h)] = @ + 1]
    /\ UNCHANGED <<hour, tableVars, job>>

\* The hash of an hour is gone StatTtl after it was last written.
ExpireStat(c, h) ==
    /\ stat[c][h] > 0 /\ hour > h + StatTtl
    /\ stat' = [stat EXCEPT ![c][h] = 0]
    /\ UNCHANGED <<hour, happened, budget, tableVars, job>>

Tick ==
    /\ hour < MaxHour
    /\ hour' = hour + 1
    /\ UNCHANGED <<redisVars, tableVars, job>>

-----------------------------------------------------------------------------
(* The calls.                                                                *)

\* A flush is of the hour before, or of the one it is given.
StartFlush(j, h) ==
    /\ job[j].pc = "idle"
    /\ job' = [job EXCEPT ![j] = [Idle EXCEPT !.pc = "chosen", !.key = h]]
    /\ UNCHANGED <<hour, redisVars, tableVars>>

StartSync(j) ==
    /\ job[j].pc = "idle"
    /\ job' = [job EXCEPT ![j] = [Idle EXCEPT !.pc = "chosen", !.kind = "sync",
                                              !.key = hour]]
    /\ UNCHANGED <<hour, redisVars, tableVars>>

Hash(j, c) == IF job[j].kind = "flush" THEN stat[c][job[j].key]
                                       ELSE budget[c][Day(job[j].key)]

Written(j, c) == IF job[j].kind = "flush" THEN version[c][job[j].key]
                                          ELSE synced[c].times

\* SELECT Campaign.id has no ORDER BY: the campaigns may come back in any order.
Orders(S) == SetToSeqs(S)

Read(j, todo) ==
    /\ job[j].pc = "chosen"
    /\ job' = [job EXCEPT ![j].pc = "read", ![j].todo = todo,
                          ![j].read = [c \in Campaigns |-> Hash(j, c)],
                          ![j].seen = [c \in Campaigns |-> Written(j, c)]]
    /\ UNCHANGED <<hour, redisVars, tableVars>>

\* Mutant: a campaign without a hash is written with zeros.
ReadEverything(j) == \E todo \in Orders(Campaigns) : Read(j, todo)

\* One MULTI of HGETALLs; campaigns without a hash are passed over.
ReadCounters(j) == \E todo \in Orders({c \in Campaigns : Hash(j, c) > 0}) : Read(j, todo)

\* The row j writes for c, and who has written it and not committed.
Row(j, c) == IF job[j].kind = "flush" THEN <<c, job[j].key>> ELSE <<c>>
Holders(j, c) == {k \in Jobs \ {j} : /\ job[k].pc = "read" /\ c \in job[k].done
                                     /\ Row(k, c) = Row(j, c)}

\* The upsert of a row, or the UPDATE of a campaign, waits for the row.
WriteRow(j) ==
    /\ job[j].pc = "read" /\ job[j].todo # <<>>
    /\ LET c == Head(job[j].todo)
       IN  /\ Holders(j, c) = {}
           /\ job' = [job EXCEPT ![j].todo = Tail(@), ![j].done = @ \cup {c}]
    /\ UNCHANGED <<hour, redisVars, tableVars>>

\* Mutant: the upsert adds what was read to the row.
CommitSum(j) ==
    /\ job[j].pc = "read" /\ job[j].todo = <<>> /\ job[j].kind = "flush"
    /\ LET h == job[j].key
           Sum(c) == IF stored[c][h] = NoRow THEN job[j].read[c]
                                             ELSE stored[c][h] + job[j].read[c]
       IN  stored' = [c \in Campaigns |->
               IF c \in job[j].done THEN [stored[c] EXCEPT ![h] = Sum(c)] ELSE stored[c]]
    /\ job' = [job EXCEPT ![j].pc = "done"]
    /\ UNCHANGED <<hour, redisVars, version, spent, synced>>

\* Mutant: the row gets what was counted since it was last written.
CommitDifference(j) ==
    /\ job[j].pc = "read" /\ job[j].todo = <<>> /\ job[j].kind = "flush"
    /\ LET h == job[j].key
           New(c) == IF stored[c][h] = NoRow THEN job[j].read[c]
                                             ELSE job[j].read[c] - stored[c][h]
       IN  stored' = [c \in Campaigns |->
               IF c \in job[j].done THEN [stored[c] EXCEPT ![h] = New(c)] ELSE stored[c]]
    /\ job' = [job EXCEPT ![j].pc = "done"]
    /\ UNCHANGED <<hour, redisVars, version, spent, synced>>

\* The values in the row are replaced by those that were read.
CommitFlush(j) ==
    /\ job[j].pc = "read" /\ job[j].todo = <<>> /\ job[j].kind = "flush"
    /\ LET h == job[j].key
       IN  /\ stored' = [c \in Campaigns |->
                  IF c \in job[j].done THEN [stored[c] EXCEPT ![h] = job[j].read[c]]
                                       ELSE stored[c]]
           /\ version' = [c \in Campaigns |->
                  IF c \in job[j].done THEN [version[c] EXCEPT ![h] = @ + 1]
                                       ELSE version[c]]
    /\ job' = [job EXCEPT ![j].pc = "done"]
    /\ UNCHANGED <<hour, redisVars, spent, synced>>

\* Mutant: the total gets the difference since the last sync instead of adding it.
CommitIncrement(j) ==
    /\ job[j].pc = "read" /\ job[j].todo = <<>> /\ job[j].kind = "sync"
    /\ spent' = [c \in Campaigns |->
                    IF c \in job[j].done /\ job[j].read[c] >= spent[c].today
                    THEN [today |-> job[j].read[c], total |-> job[j].read[c] - spent[c].today]
                    ELSE spent[c]]
    /\ job' = [job EXCEPT ![j].pc = "done"]
    /\ UNCHANGED <<hour, redisVars, stored, version, synced>>

\* spent_today and spent_total of the hash are incremented together and live a day.
CommitSync(j) ==
    /\ job[j].pc = "read" /\ job[j].todo = <<>> /\ job[j].kind = "sync"
    /\ spent' = [c \in Campaigns |->
                    IF c \in job[j].done
                    THEN [today |-> job[j].read[c], total |-> job[j].read[c]]
                    ELSE spent[c]]
    /\ synced' = [c \in Campaigns |->
                    IF c \in job[j].done
                    THEN [times |-> synced[c].times + 1, day |-> Day(job[j].key)]
                    ELSE synced[c]]
    /\ job' = [job EXCEPT ![j].pc = "done"]
    /\ UNCHANGED <<hour, redisVars, stored, version>>

\* Mutant: the call is tried again from the start.
Retry(j) ==
    /\ job' = [job EXCEPT ![j].pc = "chosen", ![j].done = {}, ![j].todo = <<>>]
    /\ UNCHANGED <<hour, redisVars, tableVars>>

\* An exception rolls the transaction back, and the call answers an error.
RollBack(j) ==
    /\ job' = [job EXCEPT ![j] = [Idle EXCEPT !.pc = "failed"]]
    /\ UNCHANGED <<hour, redisVars, tableVars>>

\* Redis or the database fails, or the worker dies.
Fail(j) == job[j].pc \in {"chosen", "read"} /\ RollBack(j)

Waiting(j) == IF job[j].pc = "read" /\ job[j].todo # <<>>
              THEN Holders(j, Head(job[j].todo)) ELSE {}

\* Each of two calls waits for a row of the other: the database fails one of them.
BreakDeadlock(j) ==
    /\ \E k \in Waiting(j) : j \in Waiting(k)
    /\ RollBack(j)

Start(j) == StartSync(j) \/ \E h \in 0 .. hour : StartFlush(j, h)
Step(j) == ReadCounters(j) \/ WriteRow(j) \/ CommitFlush(j) \/ CommitSync(j)

Next ==
    \/ \E h \in Hours :
           \/ \E C \in SUBSET Campaigns \ {{}} : CountRequest(C, h)
           \/ \E c \in Campaigns : CountImpression(c, h) \/ ExpireStat(c, h)
    \/ Tick
    \/ \E j \in Jobs : Start(j) \/ Step(j) \/ Fail(j) \/ BreakDeadlock(j)

\* A call that can go on does, and the database looks for deadlocks.
Fairness == \A j \in Jobs : WF_vars(Step(j)) /\ WF_vars(BreakDeadlock(j))

Spec == Init /\ [][Next]_vars /\ Fairness

-----------------------------------------------------------------------------
(* Properties.                                                               *)

\* hourly_stats never reports more than happened, however often and from however
\* many calls an hour is flushed: "on re-flush the row is replaced rather than
\* duplicated". The same for the spend of a campaign.
NothingInvented ==
    /\ \A c \in Campaigns, h \in Hours :
           stored[c][h] = NoRow \/ stored[c][h] \in 1 .. happened[c][h]
    /\ \A c \in Campaigns : \E d \in Days : spent[c].total \in 0 .. budget[c][d]

\* A row of hourly_stats falls only when two flushes of the hour overlap: the one
\* that commits last read the counters before the other committed. In particular
\* a flush that comes after the hash has expired leaves the row as it was.
RowsFallOnlyInRaces ==
    [][\A c \in Campaigns, h \in Hours :
           stored[c][h] # NoRow /\ (stored'[c][h] = NoRow \/ stored'[c][h] < stored[c][h])
               => \E j \in Jobs : /\ job[j].pc = "read" /\ job'[j].pc = "done"
                                 /\ job[j].seen[c] < version[c][h]]_vars

\* spent_total, which is copied from the hash of one day, falls only when the hash is of
\* another day than the one copied before, or when two syncs overlap.
TotalFallsOnlyAtMidnight ==
    [][\A c \in Campaigns : spent'[c].total < spent[c].total
           => \/ synced'[c].day # synced[c].day
              \/ \E j \in Jobs : /\ job[j].pc = "read" /\ job'[j].pc = "done"
                                 /\ job[j].seen[c] < synced[c].times]_vars

\* Every call ends, through any interleaving: two calls that write the same rows in
\* different orders do not wait for each other for ever.
EveryJobEnds ==
    \A j \in Jobs : job[j].pc = "chosen" ~> job[j].pc \in {"done", "failed"}
=============================================================================
