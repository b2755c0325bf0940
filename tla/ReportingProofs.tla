-------------------------- MODULE ReportingProofs --------------------------
(***************************************************************************)
(* Theorems about Reporting, for every number of campaigns, of calls and of *)
(* hours, and every life of a hash of at least an hour.                     *)
(***************************************************************************)
EXTENDS Reporting, SequenceTheorems, FiniteSetTheorems, TLAPS

USE DEF redisVars, tableVars, vars, Hours, Days, Kinds

Pc == {"idle", "chosen", "read", "done", "failed"}

-----------------------------------------------------------------------------
(* Types.                                                                    *)

LEMMA HoursAreNat == Hours \subseteq Nat /\ 0 \in Hours /\ Day(0) \in Days
  BY ReportingAssumption

LEMMA OrdersAreSeqs ==
    ASSUME NEW S \in SUBSET Campaigns, NEW todo \in Orders(S)
    PROVE  todo \in Seq(S)
<1>1. Cardinality(S) \in Nat
  BY ReportingAssumption, FS_Subset, FS_CardinalityType
<1>2. todo \in [1 .. Cardinality(S) -> S]
  BY DEF Orders, SetToSeqs
<1>3. QED
  BY <1>1, <1>2

LEMMA IdleIsJob == Idle \in Job
  BY HoursAreNat DEF Idle, Job

LEMMA InitTypes == Init => TypeOK
  BY HoursAreNat, IdleIsJob, ReportingAssumption DEF Init, TypeOK

\* The parts of a call.
LEMMA JobFields ==
    ASSUME TypeOK, NEW j \in Jobs
    PROVE  /\ job[j] \in Job /\ job[j].pc \in Pc /\ job[j].kind \in Kinds
           /\ job[j].key \in Hours /\ Day(job[j].key) \in Days
           /\ job[j].todo \in Seq(Campaigns) /\ job[j].done \in SUBSET Campaigns
           /\ job[j].read \in [Campaigns -> Nat] /\ job[j].seen \in [Campaigns -> Nat]
  BY DEF TypeOK, Job, Pc

\* The row of a campaign in each of the tables.
LEMMA RowTypes ==
    ASSUME TypeOK, NEW c \in Campaigns
    PROVE  /\ stat[c] \in [Hours -> Nat] /\ happened[c] \in [Hours -> Nat]
           /\ budget[c] \in [Days -> Nat] /\ version[c] \in [Hours -> Nat]
           /\ stored[c] \in [Hours -> Nat \cup {NoRow}]
           /\ spent[c] \in [today : Nat, total : Nat]
           /\ synced[c] \in [times : Nat, day : Days] /\ synced[c].times \in Nat
           /\ \A h \in Hours : /\ stat[c][h] \in Nat /\ happened[c][h] \in Nat
                              /\ version[c][h] \in Nat
                              /\ stored[c][h] \in Nat \cup {NoRow}
           /\ \A d \in Days : budget[c][d] \in Nat
<1>1. /\ stat[c] \in [Hours -> Nat] /\ happened[c] \in [Hours -> Nat]
      /\ budget[c] \in [Days -> Nat] /\ version[c] \in [Hours -> Nat]
      /\ stored[c] \in [Hours -> Nat \cup {NoRow}]
  BY DEF TypeOK
<1>2. spent[c] \in [today : Nat, total : Nat]
  BY DEF TypeOK
<1>3. synced[c] \in [times : Nat, day : Days]
  BY DEF TypeOK
<1>4. synced[c].times \in Nat
  BY <1>3
<1>5. \A d \in Days : budget[c][d] \in Nat
  BY <1>1
<1>6. \A h \in Hours : /\ stat[c][h] \in Nat /\ happened[c][h] \in Nat
                       /\ version[c][h] \in Nat /\ stored[c][h] \in Nat \cup {NoRow}
  BY <1>1
<1>7. QED
  BY <1>1, <1>2, <1>3, <1>4, <1>5, <1>6

LEMMA JobUpdate ==
    ASSUME TypeOK, NEW j \in Jobs, NEW new \in Job, job' = [job EXCEPT ![j] = new]
    PROVE  job' \in [Jobs -> Job]
  BY DEF TypeOK

\* What one call reads, or has done before it.
LEMMA HashTypes ==
    ASSUME TypeOK, NEW j \in Jobs, NEW c \in Campaigns
    PROVE  Hash(j, c) \in Nat /\ Written(j, c) \in Nat
<1>1. job[j].key \in Hours /\ Day(job[j].key) \in Days
  BY JobFields
<1>2. /\ stat[c][job[j].key] \in Nat /\ version[c][job[j].key] \in Nat
      /\ budget[c][Day(job[j].key)] \in Nat /\ synced[c].times \in Nat
  BY <1>1, RowTypes
<1>3. QED
  BY <1>2 DEF Hash, Written

LEMMA BumpTypes ==
    ASSUME TypeOK, NEW C \in SUBSET Campaigns, NEW h \in Hours, Bump(C, h)
    PROVE  /\ stat' \in [Campaigns -> [Hours -> Nat]]
           /\ happened' \in [Campaigns -> [Hours -> Nat]]
<1>1. ASSUME NEW f \in [Campaigns -> [Hours -> Nat]], NEW c \in Campaigns
      PROVE  [f[c] EXCEPT ![h] = @ + 1] \in [Hours -> Nat]
  <2>1. f[c] \in [Hours -> Nat] /\ f[c][h] \in Nat
    OBVIOUS
  <2>2. QED
    BY <2>1
<1>2. stat \in [Campaigns -> [Hours -> Nat]] /\ happened \in [Campaigns -> [Hours -> Nat]]
  BY DEF TypeOK
<1>3. QED
  BY <1>1, <1>2 DEF Bump

\* Reading chooses what to write.
LEMMA ReadTypes ==
    ASSUME TypeOK, NEW j \in Jobs, NEW todo \in Seq(Campaigns), Read(j, todo)
    PROVE  job' \in [Jobs -> Job]
<1>1. \A c \in Campaigns : Hash(j, c) \in Nat /\ Written(j, c) \in Nat
  BY HashTypes
<1>2. /\ [c \in Campaigns |-> Hash(j, c)] \in [Campaigns -> Nat]
      /\ [c \in Campaigns |-> Written(j, c)] \in [Campaigns -> Nat]
  BY <1>1
<1> DEFINE new == [job[j] EXCEPT !.pc = "read", !.todo = todo,
                                 !.read = [c \in Campaigns |-> Hash(j, c)],
                                 !.seen = [c \in Campaigns |-> Written(j, c)]]
<1>3. new \in Job
  BY <1>2, JobFields DEF Job
<1>4. job' = [job EXCEPT ![j] = new]
  BY DEF Read
<1>5. QED
  BY <1>3, <1>4, JobUpdate

LEMMA WriteTypes ==
    ASSUME TypeOK, NEW j \in Jobs, WriteRow(j)
    PROVE  job' \in [Jobs -> Job]
<1>1. job[j].todo \in Seq(Campaigns) /\ job[j].todo # <<>> /\ job[j].done \in SUBSET Campaigns
  BY JobFields DEF WriteRow
<1>2. Head(job[j].todo) \in Campaigns /\ Tail(job[j].todo) \in Seq(Campaigns)
  BY <1>1, HeadTailProperties
<1> DEFINE new == [job[j] EXCEPT !.todo = Tail(job[j].todo),
                                 !.done = job[j].done \cup {Head(job[j].todo)}]
<1>4. job[j].done \cup {Head(job[j].todo)} \in SUBSET Campaigns
  BY <1>1, <1>2
<1>5. job' = [job EXCEPT ![j] = new]
  BY DEF WriteRow
<1>6. new \in Job
  BY <1>2, <1>4, JobFields DEF Job
<1>7. QED
  BY <1>5, <1>6, JobUpdate

LEMMA EndTypes ==
    ASSUME TypeOK, NEW j \in Jobs, job' = [job EXCEPT ![j].pc = "done"]
    PROVE  job' \in [Jobs -> Job]
<1> DEFINE new == [job[j] EXCEPT !.pc = "done"]
<1>1. new \in Job
  BY JobFields DEF Job
<1>2. job' = [job EXCEPT ![j] = new]
  OBVIOUS
<1>3. QED
  BY <1>1, <1>2, JobUpdate

LEMMA StepTypes == TypeOK /\ [Next]_vars => TypeOK'
<1> SUFFICES ASSUME TypeOK, [Next]_vars PROVE TypeOK'
  OBVIOUS
<1>1. ASSUME NEW h \in Hours, NEW C \in SUBSET Campaigns, CountRequest(C, h) PROVE TypeOK'
  BY <1>1, BumpTypes DEF CountRequest, TypeOK
<1>2. ASSUME NEW h \in Hours, NEW c \in Campaigns, CountImpression(c, h) PROVE TypeOK'
  <2>1. /\ stat' \in [Campaigns -> [Hours -> Nat]]
        /\ happened' \in [Campaigns -> [Hours -> Nat]]
    BY <1>2, BumpTypes DEF CountImpression
  <2>2. Day(h) \in Days
    OBVIOUS
  <2>3. [budget[c] EXCEPT ![Day(h)] = @ + 1] \in [Days -> Nat]
    <3>1. budget[c] \in [Days -> Nat] /\ budget[c][Day(h)] \in Nat
      BY <2>2, RowTypes
    <3>2. QED
      BY <3>1
  <2>4. budget' = [budget EXCEPT ![c] = [budget[c] EXCEPT ![Day(h)] = @ + 1]]
    BY <1>2 DEF CountImpression
  <2>5. budget' \in [Campaigns -> [Days -> Nat]]
    BY <2>3, <2>4 DEF TypeOK
  <2>6. QED
    BY <1>2, <2>1, <2>5 DEF CountImpression, TypeOK
<1>3. ASSUME NEW h \in Hours, NEW c \in Campaigns, ExpireStat(c, h) PROVE TypeOK'
  <2>1. stat' = [stat EXCEPT ![c] = [stat[c] EXCEPT ![h] = 0]]
    BY <1>3 DEF ExpireStat
  <2>2. [stat[c] EXCEPT ![h] = 0] \in [Hours -> Nat]
    BY RowTypes
  <2>3. QED
    BY <1>3, <2>1, <2>2 DEF ExpireStat, TypeOK
<1>4. CASE Tick
  <2>1. hour' \in Hours
    BY <1>4, ReportingAssumption DEF Tick, TypeOK
  <2>2. QED
    BY <1>4, <2>1 DEF Tick, TypeOK
<1>5. ASSUME NEW j \in Jobs, Start(j) PROVE TypeOK'
  <2>1. job' \in [Jobs -> Job]
    <3>1. hour \in Hours /\ job \in [Jobs -> Job]
      BY DEF TypeOK
    <3>2. \A h \in 0 .. hour : h \in Hours
      BY <3>1, ReportingAssumption
    <3>3. ASSUME NEW h \in 0 .. hour, StartFlush(j, h) PROVE job' \in [Jobs -> Job]
      <4>1. [Idle EXCEPT !.pc = "chosen", !.key = h] \in Job
        BY <3>2, IdleIsJob DEF Job
      <4>2. QED
        BY <3>3, <4>1, JobUpdate DEF StartFlush
    <3>4. ASSUME StartSync(j) PROVE job' \in [Jobs -> Job]
      <4>1. [Idle EXCEPT !.pc = "chosen", !.kind = "sync", !.key = hour] \in Job
        BY <3>1, IdleIsJob DEF Job
      <4>2. QED
        BY <3>4, <4>1, JobUpdate DEF StartSync
    <3>5. QED
      BY <1>5, <3>3, <3>4 DEF Start
  <2>2. QED
    BY <1>5, <2>1 DEF Start, StartFlush, StartSync, TypeOK
<1>6. ASSUME NEW j \in Jobs, ReadCounters(j) PROVE TypeOK'
  <2>1. PICK todo \in Orders({c \in Campaigns : Hash(j, c) > 0}) : Read(j, todo)
    BY <1>6 DEF ReadCounters
  <2>2. todo \in Seq(Campaigns)
    BY OrdersAreSeqs, SeqMonotonic
  <2>3. QED
    BY <2>1, <2>2, ReadTypes DEF Read, TypeOK
<1>7. ASSUME NEW j \in Jobs, WriteRow(j) PROVE TypeOK'
  BY <1>7, WriteTypes DEF WriteRow, TypeOK
<1>8. ASSUME NEW j \in Jobs, CommitFlush(j) PROVE TypeOK'
  <2>1. job[j].key \in Hours /\ job[j].read \in [Campaigns -> Nat]
    BY JobFields
  <2>2. stored' \in [Campaigns -> [Hours -> Nat \cup {NoRow}]]
    <3>1. \A c \in Campaigns : [stored[c] EXCEPT ![job[j].key] = job[j].read[c]]
                                  \in [Hours -> Nat \cup {NoRow}]
      BY <2>1, RowTypes
    <3>2. QED
      BY <1>8, <3>1, RowTypes DEF CommitFlush
  <2>3. ASSUME NEW c \in Campaigns
        PROVE  [version[c] EXCEPT ![job[j].key] = @ + 1] \in [Hours -> Nat]
    <3>1. PICK v : v = version[c]
      OBVIOUS
    <3>2. PICK k : k = job[j].key
      OBVIOUS
    <3>3. v \in [Hours -> Nat] /\ k \in Hours /\ v[k] \in Nat
      BY <2>1, <3>1, <3>2, RowTypes
    <3>4. [v EXCEPT ![k] = @ + 1] \in [Hours -> Nat]
      BY <3>3
    <3>5. QED
      BY <3>1, <3>2, <3>4
  <2>4. version' \in [Campaigns -> [Hours -> Nat]]
    BY <1>8, <2>3, RowTypes DEF CommitFlush
  <2>5. job' \in [Jobs -> Job]
    BY <1>8, EndTypes DEF CommitFlush
  <2>6. QED
    BY <1>8, <2>2, <2>4, <2>5 DEF CommitFlush, TypeOK
<1>9. ASSUME NEW j \in Jobs, CommitSync(j) PROVE TypeOK'
  <2>1. Day(job[j].key) \in Days /\ job[j].read \in [Campaigns -> Nat]
    BY JobFields
  <2>2. spent' \in [Campaigns -> [today : Nat, total : Nat]]
    BY <1>9, <2>1, RowTypes DEF CommitSync
  <2>3. synced' \in [Campaigns -> [times : Nat, day : Days]]
    <3>1. ASSUME NEW c \in Campaigns PROVE synced[c].times + 1 \in Nat
      <4>1. synced[c].times \in Nat
        BY RowTypes
      <4>2. QED
        BY <4>1
    <3>2. QED
      BY <1>9, <2>1, <3>1 DEF CommitSync, TypeOK
  <2>4. job' \in [Jobs -> Job]
    BY <1>9, EndTypes DEF CommitSync
  <2>5. QED
    BY <1>9, <2>2, <2>3, <2>4 DEF CommitSync, TypeOK
<1>10. ASSUME NEW j \in Jobs, RollBack(j) PROVE TypeOK'
  BY <1>10, IdleIsJob DEF RollBack, TypeOK, Job
<1>11. CASE UNCHANGED vars
  BY <1>11 DEF TypeOK
<1>12. QED
  BY <1>1, <1>2, <1>3, <1>4, <1>5, <1>6, <1>7, <1>8, <1>9, <1>10, <1>11
     DEF Next, Step, Fail, BreakDeadlock

-----------------------------------------------------------------------------
(* The inductive invariant.                                                  *)

\* A hash holds all that was counted, or is gone and takes nothing any more.
HashesComplete ==
    \A c \in Campaigns, h \in Hours :
        stat[c][h] = happened[c][h] \/ (stat[c][h] = 0 /\ hour > h + 1)

RowsHappened ==
    \A c \in Campaigns, h \in Hours :
        stored[c][h] = NoRow \/ stored[c][h] \in 1 .. happened[c][h]

\* A total is within the hash of the day it was copied from.
TotalsAccrued ==
    \A c \in Campaigns : spent[c].total \in 0 .. budget[c][synced[c].day]

\* The campaigns a call has written or is going to write.
Takes(j, c) ==
    c \in job[j].done \/ \E i \in 1 .. Len(job[j].todo) : job[j].todo[i] = c

\* What a flush has read happened, and is no less than the row unless another flush has
\* written it in the meantime.
FlushOk(j, c, h) ==
    /\ job[j].read[c] <= happened[c][h]
    /\ job[j].seen[c] <= version[c][h]
    /\ Takes(j, c) => job[j].read[c] >= 1
    /\ job[j].read[c] >= 1 /\ job[j].seen[c] = version[c][h]
           => stored[c][h] = NoRow \/ stored[c][h] <= job[j].read[c]

\* What a sync has read is within the hash of its day, and no less than the total, unless
\* that is of another day or another sync has written it in the meantime.
SyncOk(j, c, d) ==
    /\ job[j].read[c] <= budget[c][d]
    /\ job[j].seen[c] <= synced[c].times
    /\ job[j].seen[c] = synced[c].times /\ d = synced[c].day
           => spent[c].total <= job[j].read[c]

Reading(j) ==
    /\ job[j].pc = "chosen" => job[j].done = {}
    /\ job[j].pc = "read" =>
           IF job[j].kind = "flush"
           THEN \A c \in Campaigns : FlushOk(j, c, job[j].key)
           ELSE \A c \in Campaigns : SyncOk(j, c, Day(job[j].key))

IInv == /\ TypeOK /\ HashesComplete /\ RowsHappened /\ TotalsAccrued
        /\ \A j \in Jobs : Reading(j)

LEMMA InitInv == Init => IInv
<1> SUFFICES ASSUME Init PROVE IInv
  OBVIOUS
<1>1. TypeOK
  BY InitTypes
<1>2. HashesComplete /\ RowsHappened
  BY DEF Init, HashesComplete, RowsHappened
<1>3. TotalsAccrued
  <2>1. ASSUME NEW c \in Campaigns
        PROVE  spent[c].total \in 0 .. budget[c][Day(0)] /\ synced[c].day = Day(0)
    BY HoursAreNat DEF Init
  <2>2. QED
    BY <2>1 DEF TotalsAccrued
<1>4. ASSUME NEW j \in Jobs PROVE Reading(j)
  BY DEF Init, Idle, Reading
<1>5. QED
  BY <1>1, <1>2, <1>3, <1>4 DEF IInv

\* The counters now and after a step.
LEMMA Counters ==
    ASSUME TypeOK, TypeOK'
    PROVE  /\ \A c \in Campaigns, h \in Hours :
                  happened[c][h] \in Nat /\ happened'[c][h] \in Nat
           /\ \A c \in Campaigns, d \in Days :
                  budget[c][d] \in Nat /\ budget'[c][d] \in Nat
<1>1. ASSUME NEW f \in [Campaigns -> [Hours -> Nat]]
      PROVE  \A c \in Campaigns, h \in Hours : f[c][h] \in Nat
  OBVIOUS
<1>2. ASSUME NEW f \in [Campaigns -> [Days -> Nat]]
      PROVE  \A c \in Campaigns, d \in Days : f[c][d] \in Nat
  OBVIOUS
<1>3. /\ happened \in [Campaigns -> [Hours -> Nat]]
      /\ happened' \in [Campaigns -> [Hours -> Nat]]
      /\ budget \in [Campaigns -> [Days -> Nat]]
      /\ budget' \in [Campaigns -> [Days -> Nat]]
  BY DEF TypeOK
<1>4. QED
  BY <1>1, <1>2, <1>3

\* Traffic and time only add.
LEMMA TrafficInv ==
    ASSUME IInv, TypeOK', HashesComplete', UNCHANGED <<tableVars, job>>,
           \A c \in Campaigns, h \in Hours : happened[c][h] <= happened'[c][h],
           \A c \in Campaigns, d \in Days : budget[c][d] <= budget'[c][d]
    PROVE  IInv'
<1> USE DEF IInv
<1>1. RowsHappened'
  <2> SUFFICES ASSUME NEW c \in Campaigns, NEW h \in Hours, stored[c][h] # NoRow
               PROVE  stored[c][h] \in 1 .. happened'[c][h]
    BY DEF RowsHappened
  <2>1. happened[c][h] \in Nat /\ happened'[c][h] \in Nat
    BY Counters
  <2>2. stored[c][h] \in 1 .. happened[c][h]
    BY DEF RowsHappened
  <2>3. QED
    BY <2>1, <2>2
<1>2. TotalsAccrued'
  <2> SUFFICES ASSUME NEW c \in Campaigns
               PROVE  spent[c].total \in 0 .. budget'[c][synced[c].day]
    BY DEF TotalsAccrued
  <2>1. PICK d \in Days : d = synced[c].day /\ spent[c].total \in 0 .. budget[c][d]
    <3>1. synced[c].day \in Days
      BY RowTypes
    <3>2. QED
      BY <3>1 DEF TotalsAccrued
  <2>2. budget[c][d] \in Nat /\ budget'[c][d] \in Nat
    BY Counters
  <2>3. QED
    BY <2>1, <2>2
<1>3. ASSUME NEW j \in Jobs PROVE Reading(j)'
  <2> SUFFICES ASSUME job[j].pc = "read" PROVE Reading(j)'
    BY DEF Reading
  <2>1. job[j].key \in Hours /\ Day(job[j].key) \in Days
    BY JobFields
  <2>2. ASSUME NEW c \in Campaigns
        PROVE  /\ job[j].read[c] \in Nat
               /\ happened[c][job[j].key] \in Nat /\ happened'[c][job[j].key] \in Nat
               /\ budget[c][Day(job[j].key)] \in Nat /\ budget'[c][Day(job[j].key)] \in Nat
    <3>1. job[j].read \in [Campaigns -> Nat]
      BY JobFields
    <3>2. QED
      BY <2>1, <3>1, Counters
  <2>3. ASSUME NEW c \in Campaigns, NEW h \in Hours, h = job[j].key, FlushOk(j, c, h)
        PROVE  FlushOk(j, c, h)'
    <3>1. Takes(j, c)' <=> Takes(j, c)
      BY DEF Takes
    <3>2. job[j].read[c] <= happened'[c][h]
      BY <2>2, <2>3 DEF FlushOk
    <3>3. QED
      BY <2>3, <3>1, <3>2 DEF FlushOk
  <2>4. ASSUME NEW c \in Campaigns, NEW d \in Days, d = Day(job[j].key), SyncOk(j, c, d)
        PROVE  SyncOk(j, c, d)'
    <3>1. job[j].read[c] <= budget'[c][d]
      BY <2>2, <2>4 DEF SyncOk
    <3>2. QED
      BY <2>4, <3>1 DEF SyncOk
  <2>5. QED
    BY <2>1, <2>3, <2>4 DEF Reading
<1>4. QED
  BY <1>1, <1>2, <1>3

\* A step of a call that only changes the call.
LEMMA CallInv ==
    ASSUME IInv, TypeOK', UNCHANGED <<hour, redisVars, tableVars>>,
           NEW j \in Jobs, NEW new, job' = [job EXCEPT ![j] = new], Reading(j)'
    PROVE  IInv'
<1> USE DEF IInv
<1>1. HashesComplete' /\ RowsHappened' /\ TotalsAccrued'
  BY DEF HashesComplete, RowsHappened, TotalsAccrued
<1>2. ASSUME NEW k \in Jobs, k # j PROVE Reading(k)'
  <2>1. job'[k] = job[k]
    BY <1>2 DEF TypeOK
  <2>2. QED
    BY <2>1 DEF Reading, FlushOk, SyncOk, Takes
<1>3. QED
  BY <1>1, <1>2

LEMMA StartInv == ASSUME IInv, TypeOK', NEW j \in Jobs, Start(j) PROVE IInv'
<1>1. ASSUME NEW new, new.pc = "chosen", job' = [job EXCEPT ![j] = new],
             new.done = {}, UNCHANGED <<hour, redisVars, tableVars>>
      PROVE  IInv'
  <2>1. job'[j].pc = "chosen" /\ job'[j].done = {}
    BY <1>1 DEF IInv, TypeOK
  <2>2. Reading(j)'
    BY <2>1 DEF Reading
  <2>3. QED
    BY <1>1, <2>2, CallInv
<1>2. CASE StartSync(j)
  <2> DEFINE n == [Idle EXCEPT !.pc = "chosen", !.kind = "sync", !.key = hour]
  <2>1. n.pc = "chosen" /\ n.done = {}
    BY DEF Idle
  <2>2. job' = [job EXCEPT ![j] = n] /\ UNCHANGED <<hour, redisVars, tableVars>>
    BY <1>2 DEF StartSync
  <2> HIDE DEF n
  <2>3. QED
    BY <1>1, <2>1, <2>2
<1>3. ASSUME NEW h \in 0 .. hour, StartFlush(j, h) PROVE IInv'
  <2> DEFINE n == [Idle EXCEPT !.pc = "chosen", !.key = h]
  <2>1. n.pc = "chosen" /\ n.done = {}
    BY DEF Idle
  <2>2. job' = [job EXCEPT ![j] = n] /\ UNCHANGED <<hour, redisVars, tableVars>>
    BY <1>3 DEF StartFlush
  <2> HIDE DEF n
  <2>3. QED
    BY <1>1, <2>1, <2>2
<1>4. QED
  BY <1>2, <1>3 DEF Start

LEMMA RollBackInv == ASSUME IInv, TypeOK', NEW j \in Jobs, RollBack(j) PROVE IInv'
<1>1. job'[j].pc = "failed"
  BY DEF RollBack, Idle, IInv, TypeOK
<1>2. Reading(j)'
  BY <1>1 DEF Reading
<1>3. QED
  BY <1>2, CallInv DEF RollBack

\* What is read of a hash that is there is all that happened, and the row holds no more.
LEMMA ReadInv == ASSUME IInv, TypeOK', NEW j \in Jobs, ReadCounters(j) PROVE IInv'
<1> USE DEF IInv
<1>1. PICK todo \in Orders({c \in Campaigns : Hash(j, c) > 0}) : Read(j, todo)
  BY DEF ReadCounters
<1>2. todo \in Seq({c \in Campaigns : Hash(j, c) > 0})
  BY OrdersAreSeqs
<1>3. \A i \in 1 .. Len(todo) : Hash(j, todo[i]) > 0
  BY <1>2, ElementOfSeq
<1> DEFINE new == [job[j] EXCEPT !.pc = "read", !.todo = todo,
                                 !.read = [c \in Campaigns |-> Hash(j, c)],
                                 !.seen = [c \in Campaigns |-> Written(j, c)]]
<1>4. job' = [job EXCEPT ![j] = new] /\ UNCHANGED <<hour, redisVars, tableVars>>
  BY <1>1 DEF Read
<1>5. /\ job'[j].kind = job[j].kind /\ job'[j].key = job[j].key
      /\ job'[j].todo = todo /\ job'[j].done = job[j].done /\ job'[j].pc = "read"
      /\ \A c \in Campaigns : /\ job'[j].read[c] = Hash(j, c)
                              /\ job'[j].seen[c] = Written(j, c)
  <2>1. job'[j] = new
    BY <1>4 DEF TypeOK
  <2>2. job[j] \in Job
    BY JobFields
  <2>3. /\ new.kind = job[j].kind /\ new.key = job[j].key /\ new.pc = "read"
        /\ new.todo = todo /\ new.done = job[j].done
        /\ new.read = [c \in Campaigns |-> Hash(j, c)]
        /\ new.seen = [c \in Campaigns |-> Written(j, c)]
    BY <2>2 DEF Job
  <2>4. QED
    BY <2>1, <2>3
<1>6. job[j].key \in Hours /\ job[j].kind \in Kinds /\ Day(job[j].key) \in Days
  BY JobFields
<1>7. \A c \in Campaigns : Hash(j, c) \in Nat /\ Written(j, c) \in Nat
  BY HashTypes
<1>8. job[j].done = {}
  BY <1>1 DEF Read, Reading
<1>9. ASSUME job[j].kind = "flush", NEW c \in Campaigns, NEW h \in Hours, h = job[j].key
      PROVE  FlushOk(j, c, h)'
  <2>1. Hash(j, c) = stat[c][h] /\ Written(j, c) = version[c][h]
    BY <1>9 DEF Hash, Written
  <2>2. /\ stat[c][h] \in Nat /\ happened[c][h] \in Nat /\ version[c][h] \in Nat
        /\ stored[c][h] \in Nat \cup {NoRow}
    BY RowTypes
  <2>3. stat[c][h] = happened[c][h] \/ stat[c][h] = 0
    BY DEF HashesComplete
  <2>4. stored[c][h] = NoRow \/ stored[c][h] \in 1 .. happened[c][h]
    BY DEF RowsHappened
  <2>5. Takes(j, c)' => stat[c][h] > 0
    BY <1>3, <1>5, <1>8, <2>1 DEF Takes
  <2>6. job'[j].read[c] = stat[c][h] /\ job'[j].seen[c] = version[c][h]
    BY <1>5, <2>1
  <2>7. UNCHANGED <<happened, version, stored>>
    BY <1>4
  <2>8. QED
    BY <2>2, <2>3, <2>4, <2>5, <2>6, <2>7 DEF FlushOk
<1>10. ASSUME job[j].kind # "flush", NEW c \in Campaigns, NEW d \in Days, d = Day(job[j].key)
       PROVE  SyncOk(j, c, d)'
  <2>1. Hash(j, c) = budget[c][d] /\ Written(j, c) = synced[c].times
    BY <1>10 DEF Hash, Written
  <2>2. budget[c][d] \in Nat /\ synced[c].times \in Nat
    BY RowTypes
  <2>3. d = synced[c].day => spent[c].total <= budget[c][d]
    BY <2>2 DEF TotalsAccrued
  <2>4. job'[j].read[c] = budget[c][d] /\ job'[j].seen[c] = synced[c].times
    BY <1>5, <2>1
  <2>5. UNCHANGED <<budget, synced, spent>>
    BY <1>4
  <2>6. QED
    BY <2>2, <2>3, <2>4, <2>5 DEF SyncOk
<1>11. Reading(j)'
  BY <1>4, <1>5, <1>6, <1>9, <1>10 DEF Reading
<1>12. QED
  BY <1>4, <1>11, CallInv

LEMMA WriteInv == ASSUME IInv, TypeOK', NEW j \in Jobs, WriteRow(j) PROVE IInv'
<1> USE DEF IInv
<1> DEFINE new == [job[j] EXCEPT !.todo = Tail(job[j].todo),
                                 !.done = job[j].done \cup {Head(job[j].todo)}]
<1>1. job' = [job EXCEPT ![j] = new] /\ UNCHANGED <<hour, redisVars, tableVars>>
  BY DEF WriteRow
<1>2. /\ job'[j].kind = job[j].kind /\ job'[j].key = job[j].key
      /\ job'[j].pc = job[j].pc /\ job[j].pc = "read"
      /\ job'[j].read = job[j].read /\ job'[j].seen = job[j].seen
      /\ job'[j].todo = Tail(job[j].todo)
      /\ job'[j].done = job[j].done \cup {Head(job[j].todo)}
  <2>1. job'[j] = new /\ job[j] \in Job
    BY <1>1 DEF TypeOK
  <2>2. QED
    BY <2>1 DEF Job, WriteRow
<1>3. ASSUME NEW c \in Campaigns, Takes(j, c)' PROVE Takes(j, c)
  <2>1. PICK s \in Seq(Campaigns) : s = job[j].todo
    BY JobFields
  <2>2. s # <<>>
    BY <2>1 DEF WriteRow
  <2>3. /\ Len(s) \in Nat \ {0} /\ Len(Tail(s)) = Len(s) - 1
        /\ \A i \in 1 .. Len(Tail(s)) : Tail(s)[i] = s[i + 1]
    BY <2>2, HeadTailProperties, EmptySeq
  <2>4. Head(s) = s[1]
    BY <2>2
  <2>5. CASE c \in job'[j].done
    BY <1>2, <2>1, <2>3, <2>4, <2>5 DEF Takes
  <2>6. ASSUME NEW i \in 1 .. Len(Tail(s)), Tail(s)[i] = c PROVE Takes(j, c)
    <3>1. i + 1 \in 1 .. Len(s) /\ s[i + 1] = c
      BY <2>3, <2>6
    <3>2. QED
      BY <2>1, <3>1 DEF Takes
  <2>7. QED
    BY <1>2, <1>3, <2>1, <2>5, <2>6 DEF Takes
<1>4. ASSUME NEW c \in Campaigns, NEW h \in Hours, FlushOk(j, c, h)
      PROVE  FlushOk(j, c, h)'
  BY <1>1, <1>2, <1>3, <1>4 DEF FlushOk
<1>5. job[j].key \in Hours
  BY JobFields
<1>6. ASSUME NEW c \in Campaigns, NEW d, SyncOk(j, c, d) PROVE SyncOk(j, c, d)'
  BY <1>1, <1>2, <1>6 DEF SyncOk
<1>7. Reading(j)'
  BY <1>1, <1>2, <1>4, <1>5, <1>6 DEF Reading
<1>8. QED
  BY <1>1, <1>7, CallInv

-----------------------------------------------------------------------------
(* The commits.                                                              *)

\* What a flush does to a row, and to the call.
LEMMA FlushedRow ==
    ASSUME TypeOK, NEW j \in Jobs, CommitFlush(j), NEW c \in Campaigns, NEW h \in Hours
    PROVE  IF c \in job[j].done /\ h = job[j].key
           THEN stored'[c][h] = job[j].read[c] /\ version'[c][h] = version[c][h] + 1
           ELSE stored'[c][h] = stored[c][h] /\ version'[c][h] = version[c][h]
<1>1. stored[c] \in [Hours -> Nat \cup {NoRow}] /\ version[c] \in [Hours -> Nat]
  BY RowTypes
<1>2. PICK k \in Hours : k = job[j].key
  BY JobFields
<1>3. /\ stored'[c] = IF c \in job[j].done THEN [stored[c] EXCEPT ![k] = job[j].read[c]]
                                            ELSE stored[c]
      /\ version'[c] = IF c \in job[j].done THEN [version[c] EXCEPT ![k] = @ + 1]
                                             ELSE version[c]
  BY <1>2 DEF CommitFlush
<1>4. QED
  BY <1>1, <1>2, <1>3

LEMMA Ended ==
    ASSUME TypeOK, NEW j \in Jobs, job' = [job EXCEPT ![j].pc = "done"]
    PROVE  /\ job'[j].pc = "done" /\ Reading(j)'
           /\ \A k \in Jobs \ {j} : job'[k] = job[k]
<1>1. job'[j] = [job[j] EXCEPT !.pc = "done"] /\ job[j] \in Job
  BY DEF TypeOK
<1>2. job'[j].pc = "done"
  BY <1>1 DEF Job
<1>3. QED
  BY <1>2 DEF Reading, TypeOK

LEMMA CommitFlushInv == ASSUME IInv, TypeOK', NEW j \in Jobs, CommitFlush(j) PROVE IInv'
<1> USE DEF IInv
<1>1. /\ UNCHANGED <<hour, redisVars, spent, synced>>
      /\ job[j].pc = "read" /\ job[j].kind = "flush"
      /\ job' = [job EXCEPT ![j].pc = "done"]
  BY DEF CommitFlush
<1>2. HashesComplete' /\ TotalsAccrued'
  BY <1>1 DEF HashesComplete, TotalsAccrued
<1>3. PICK k \in Hours : k = job[j].key
  BY JobFields
<1>4. ASSUME NEW c \in Campaigns
      PROVE  /\ job[j].read[c] \in Nat /\ job[j].read[c] <= happened[c][k]
             /\ c \in job[j].done => job[j].read[c] >= 1
  <2>1. FlushOk(j, c, k)
    BY <1>1, <1>3 DEF Reading
  <2>2. job[j].read \in [Campaigns -> Nat]
    BY JobFields
  <2>3. QED
    BY <2>1, <2>2 DEF FlushOk, Takes
<1>5. RowsHappened'
  <2> SUFFICES ASSUME NEW c \in Campaigns, NEW h \in Hours
               PROVE  stored'[c][h] = NoRow \/ stored'[c][h] \in 1 .. happened[c][h]
    BY <1>1 DEF RowsHappened
  <2>1. happened[c][h] \in Nat
    BY RowTypes
  <2>2. CASE c \in job[j].done /\ h = k
    BY <1>3, <1>4, <2>1, <2>2, FlushedRow
  <2>3. CASE ~(c \in job[j].done /\ h = k)
    BY <1>3, <2>3, FlushedRow DEF RowsHappened
  <2>4. QED
    BY <2>2, <2>3
<1>6. ASSUME NEW i \in Jobs, i # j PROVE Reading(i)'
  <2>1. job'[i] = job[i] /\ job[i].key \in Hours
    BY <1>1, <1>6, Ended, JobFields
  <2>2. ASSUME NEW c \in Campaigns, NEW h \in Hours, FlushOk(i, c, h)
        PROVE  FlushOk(i, c, h)'
    <3>1. /\ version[c][h] \in Nat /\ job[i].seen[c] \in Nat
          /\ stored[c][h] \in Nat \cup {NoRow}
      <4>1. job[i].seen \in [Campaigns -> Nat]
        BY JobFields
      <4>2. QED
        BY <4>1, RowTypes
    <3>2. Takes(i, c)' <=> Takes(i, c)
      BY <2>1 DEF Takes
    <3>3. CASE c \in job[j].done /\ h = k
      <4>1. version'[c][h] = version[c][h] + 1
        BY <1>3, <3>3, FlushedRow
      <4>2. QED
        BY <1>1, <2>1, <2>2, <3>1, <3>2, <4>1 DEF FlushOk
    <3>4. CASE ~(c \in job[j].done /\ h = k)
      <4>1. version'[c][h] = version[c][h] /\ stored'[c][h] = stored[c][h]
        BY <1>3, <3>4, FlushedRow
      <4>2. QED
        BY <1>1, <2>1, <2>2, <3>2, <4>1 DEF FlushOk
    <3>5. QED
      BY <3>3, <3>4
  <2>3. ASSUME NEW c \in Campaigns, NEW d, SyncOk(i, c, d) PROVE SyncOk(i, c, d)'
    BY <1>1, <2>1, <2>3 DEF SyncOk
  <2>4. QED
    BY <1>1, <2>1, <2>2, <2>3 DEF Reading
<1>7. Reading(j)'
  BY <1>1, Ended
<1>8. QED
  BY <1>2, <1>5, <1>6, <1>7

\* What a sync does to the row of a campaign.
LEMMA SyncedRow ==
    ASSUME TypeOK, NEW j \in Jobs, CommitSync(j), NEW c \in Campaigns
    PROVE  IF c \in job[j].done
           THEN /\ spent'[c].total = job[j].read[c]
                /\ synced'[c].times = synced[c].times + 1
                /\ synced'[c].day = Day(job[j].key)
           ELSE spent'[c] = spent[c] /\ synced'[c] = synced[c]
<1>1. /\ spent'[c] = IF c \in job[j].done
                      THEN [today |-> job[j].read[c], total |-> job[j].read[c]] ELSE spent[c]
      /\ synced'[c] = IF c \in job[j].done
                       THEN [times |-> synced[c].times + 1, day |-> Day(job[j].key)]
                       ELSE synced[c]
  BY DEF CommitSync
<1>2. QED
  BY <1>1

LEMMA CommitSyncInv == ASSUME IInv, TypeOK', NEW j \in Jobs, CommitSync(j) PROVE IInv'
<1> USE DEF IInv
<1>1. /\ UNCHANGED <<hour, redisVars, stored, version>>
      /\ job[j].pc = "read" /\ job[j].kind = "sync"
      /\ job' = [job EXCEPT ![j].pc = "done"]
  BY DEF CommitSync
<1>2. HashesComplete' /\ RowsHappened'
  BY <1>1 DEF HashesComplete, RowsHappened
<1>3. PICK d \in Days : d = Day(job[j].key)
  BY JobFields
<1>4. TotalsAccrued'
  <2> SUFFICES ASSUME NEW c \in Campaigns
               PROVE  spent'[c].total \in 0 .. budget[c][synced'[c].day]
    BY <1>1 DEF TotalsAccrued
  <2>1. CASE c \in job[j].done
    <3>1. job[j].read[c] <= budget[c][d]
      BY <1>1, <1>3 DEF Reading, SyncOk
    <3>2. job[j].read[c] \in Nat /\ budget[c][d] \in Nat
      <4>1. job[j].read \in [Campaigns -> Nat]
        BY JobFields
      <4>2. QED
        BY <4>1, RowTypes
    <3>3. spent'[c].total = job[j].read[c] /\ synced'[c].day = d
      BY <1>3, <2>1, SyncedRow
    <3>4. QED
      BY <3>1, <3>2, <3>3
  <2>2. CASE c \notin job[j].done
    <3>1. spent'[c] = spent[c] /\ synced'[c] = synced[c]
      BY <2>2, SyncedRow
    <3>2. QED
      BY <3>1 DEF TotalsAccrued
  <2>3. QED
    BY <2>1, <2>2
<1>5. ASSUME NEW i \in Jobs, i # j PROVE Reading(i)'
  <2>1. job'[i] = job[i]
    BY <1>1, <1>5, Ended
  <2>2. ASSUME NEW c \in Campaigns, NEW e, SyncOk(i, c, e) PROVE SyncOk(i, c, e)'
    <3>1. synced[c].times \in Nat /\ job[i].seen[c] \in Nat
      <4>1. job[i].seen \in [Campaigns -> Nat]
        BY JobFields
      <4>2. QED
        BY <4>1, RowTypes
    <3>2. QED
      BY <1>1, <2>1, <2>2, <3>1, SyncedRow DEF SyncOk
  <2>3. ASSUME NEW c \in Campaigns, NEW h, FlushOk(i, c, h) PROVE FlushOk(i, c, h)'
    BY <1>1, <2>1, <2>3 DEF FlushOk, Takes
  <2>4. QED
    BY <1>1, <2>1, <2>2, <2>3 DEF Reading
<1>6. Reading(j)'
  BY <1>1, Ended
<1>7. QED
  BY <1>2, <1>4, <1>5, <1>6

-----------------------------------------------------------------------------
(* Traffic.                                                                  *)

\* An increment comes in its own hour or the next, when the hash is still there.
LEMMA BumpInv ==
    ASSUME IInv, TypeOK', NEW C \in SUBSET Campaigns, NEW h \in Hours, Bump(C, h),
           UNCHANGED <<hour, tableVars, job>>,
           \A c \in Campaigns, d \in Days : budget[c][d] <= budget'[c][d]
    PROVE  IInv'
<1> USE DEF IInv
<1>1. ASSUME NEW c \in Campaigns, NEW g \in Hours
      PROVE  IF c \in C /\ g = h
             THEN stat'[c][g] = stat[c][g] + 1 /\ happened'[c][g] = happened[c][g] + 1
             ELSE stat'[c][g] = stat[c][g] /\ happened'[c][g] = happened[c][g]
  <2>1. stat[c] \in [Hours -> Nat] /\ happened[c] \in [Hours -> Nat]
    BY RowTypes
  <2>2. /\ stat'[c] = IF c \in C THEN [stat[c] EXCEPT ![h] = @ + 1] ELSE stat[c]
        /\ happened'[c] = IF c \in C THEN [happened[c] EXCEPT ![h] = @ + 1]
                                      ELSE happened[c]
    BY DEF Bump
  <2>3. QED
    BY <2>1, <2>2
<1>2. h \in Int /\ hour \in Int /\ ~(hour > h + 1)
  <2>1. h \in Int /\ hour \in Int
    BY HoursAreNat DEF TypeOK
  <2>2. h = hour \/ h = hour - 1
    BY DEF Bump
  <2>3. QED
    BY <2>1, <2>2
<1>3. ASSUME NEW c \in Campaigns, NEW g \in Hours
      PROVE  /\ stat'[c][g] = happened'[c][g] \/ (stat'[c][g] = 0 /\ hour > g + 1)
             /\ happened[c][g] <= happened'[c][g]
  <2>1. stat[c][g] \in Nat /\ happened[c][g] \in Nat
    BY RowTypes
  <2>2. stat[c][g] = happened[c][g] \/ (stat[c][g] = 0 /\ hour > g + 1)
    BY DEF HashesComplete
  <2>3. QED
    BY <1>1, <1>2, <2>1, <2>2
<1>4. HashesComplete'
  BY <1>3 DEF HashesComplete
<1>5. QED
  BY <1>3, <1>4, TrafficInv

LEMMA ExpireInv ==
    ASSUME IInv, TypeOK', NEW c \in Campaigns, NEW h \in Hours, ExpireStat(c, h)
    PROVE  IInv'
<1> USE DEF IInv
<1>1. UNCHANGED <<hour, happened, budget, tableVars, job>>
  BY DEF ExpireStat
<1>2. hour > h + 1
  <2>1. hour \in Int /\ h \in Int
    BY HoursAreNat DEF TypeOK
  <2>2. hour > h + StatTtl
    BY DEF ExpireStat
  <2>3. QED
    BY <2>1, <2>2, ReportingAssumption
<1>3. ASSUME NEW b \in Campaigns, NEW g \in Hours
      PROVE  stat'[b][g] = stat[b][g] \/ (stat'[b][g] = 0 /\ g = h)
  <2>1. stat[b] \in [Hours -> Nat]
    BY RowTypes
  <2>2. stat'[b] = IF b = c THEN [stat[b] EXCEPT ![h] = 0] ELSE stat[b]
    BY DEF ExpireStat, TypeOK
  <2>3. QED
    BY <2>1, <2>2
<1>4. HashesComplete'
  BY <1>1, <1>2, <1>3 DEF HashesComplete
<1>5. /\ \A b \in Campaigns, g \in Hours : happened[b][g] <= happened'[b][g]
      /\ \A b \in Campaigns, d \in Days : budget[b][d] <= budget'[b][d]
  <2>1. \A n \in Nat : n <= n
    OBVIOUS
  <2>2. QED
    BY <1>1, <2>1, Counters
<1>6. QED
  BY <1>1, <1>4, <1>5, TrafficInv

\* Nothing changes but the clock, if that.
LEMMA ClockInv ==
    ASSUME IInv, TypeOK', UNCHANGED <<redisVars, tableVars, job>>, hour <= hour'
    PROVE  IInv'
<1> USE DEF IInv
<1>1. ASSUME NEW g \in Hours, hour > g + 1 PROVE hour' > g + 1
  <2>1. hour \in Int /\ hour' \in Int /\ g \in Int
    BY HoursAreNat DEF TypeOK
  <2>2. QED
    BY <1>1, <2>1
<1>2. HashesComplete'
  BY <1>1 DEF HashesComplete
<1>3. /\ \A b \in Campaigns, g \in Hours : happened[b][g] <= happened'[b][g]
      /\ \A b \in Campaigns, d \in Days : budget[b][d] <= budget'[b][d]
  <2>1. \A n \in Nat : n <= n
    OBVIOUS
  <2>2. QED
    BY <2>1, Counters
<1>4. QED
  BY <1>2, <1>3, TrafficInv

LEMMA StepInv == IInv /\ [Next]_vars => IInv'
<1> SUFFICES ASSUME IInv, [Next]_vars PROVE IInv'
  OBVIOUS
<1>0. TypeOK /\ TypeOK' /\ hour \in Int
  <2>1. TypeOK
    BY DEF IInv
  <2>2. hour \in Int
    BY <2>1, HoursAreNat DEF TypeOK
  <2>3. QED
    BY <2>1, <2>2, StepTypes
<1>1. ASSUME NEW h \in Hours, NEW C \in SUBSET Campaigns, CountRequest(C, h) PROVE IInv'
  <2>1. \A c \in Campaigns, d \in Days : budget[c][d] <= budget'[c][d]
    <3>1. \A n \in Nat : n <= n
      OBVIOUS
    <3>2. QED
      BY <1>0, <1>1, <3>1, Counters DEF CountRequest
  <2>2. QED
    BY <1>0, <1>1, <2>1, BumpInv DEF CountRequest
<1>2. ASSUME NEW h \in Hours, NEW c \in Campaigns, CountImpression(c, h) PROVE IInv'
  <2>1. ASSUME NEW b \in Campaigns, NEW d \in Days PROVE budget[b][d] <= budget'[b][d]
    <3>1. budget[b] \in [Days -> Nat] /\ budget[b][d] \in Nat
      BY <1>0, RowTypes
    <3>2. budget'[b] = IF b = c THEN [budget[b] EXCEPT ![Day(h)] = @ + 1] ELSE budget[b]
      BY <1>0, <1>2 DEF CountImpression, TypeOK
    <3>3. budget'[b][d] \in {budget[b][d], budget[b][d] + 1}
      BY <3>1, <3>2
    <3>4. QED
      BY <3>1, <3>3
  <2>2. QED
    BY <1>0, <1>2, <2>1, BumpInv DEF CountImpression
<1>3. ASSUME NEW h \in Hours, NEW c \in Campaigns, ExpireStat(c, h) PROVE IInv'
  BY <1>0, <1>3, ExpireInv
<1>4. CASE Tick
  BY <1>0, <1>4, ClockInv DEF Tick
<1>5. ASSUME NEW j \in Jobs, Start(j) PROVE IInv'
  BY <1>0, <1>5, StartInv
<1>6. ASSUME NEW j \in Jobs, ReadCounters(j) PROVE IInv'
  BY <1>0, <1>6, ReadInv
<1>7. ASSUME NEW j \in Jobs, WriteRow(j) PROVE IInv'
  BY <1>0, <1>7, WriteInv
<1>8. ASSUME NEW j \in Jobs, CommitFlush(j) PROVE IInv'
  BY <1>0, <1>8, CommitFlushInv
<1>9. ASSUME NEW j \in Jobs, CommitSync(j) PROVE IInv'
  BY <1>0, <1>9, CommitSyncInv
<1>10. ASSUME NEW j \in Jobs, RollBack(j) PROVE IInv'
  BY <1>0, <1>10, RollBackInv
<1>11. CASE UNCHANGED vars
  BY <1>0, <1>11, ClockInv
<1>12. QED
  BY <1>1, <1>2, <1>3, <1>4, <1>5, <1>6, <1>7, <1>8, <1>9, <1>10, <1>11
     DEF Next, Step, Fail, BreakDeadlock

LEMMA Invariance == Spec => []IInv
  BY InitInv, StepInv, PTL DEF Spec

\* A step that leaves less in a row of hourly_stats than was there commits a flush that
\* did not see the last one.
LEMMA RowFalls ==
    IInv /\ [Next]_vars =>
        [\A c \in Campaigns, h \in Hours :
           stored[c][h] # NoRow /\ (stored'[c][h] = NoRow \/ stored'[c][h] < stored[c][h])
               => \E j \in Jobs : /\ job[j].pc = "read" /\ job'[j].pc = "done"
                                 /\ job[j].seen[c] < version[c][h]]_vars
<1> SUFFICES ASSUME IInv, Next, NEW c \in Campaigns, NEW h \in Hours, stored[c][h] # NoRow,
                    stored'[c][h] = NoRow \/ stored'[c][h] < stored[c][h]
             PROVE  \E j \in Jobs : /\ job[j].pc = "read" /\ job'[j].pc = "done"
                                   /\ job[j].seen[c] < version[c][h]
  OBVIOUS
<1> USE DEF IInv
<1>1. PICK n \in Nat : n = stored[c][h]
  BY RowTypes
<1>2. stored' # stored
  BY <1>1, ReportingAssumption
<1>3. PICK j \in Jobs : CommitFlush(j)
  BY <1>2 DEF Next, Start, StartFlush, StartSync, Step, ReadCounters, Read, WriteRow,
              CommitSync, Fail, BreakDeadlock, RollBack, Tick, CountRequest,
              CountImpression, ExpireStat
<1>4. /\ job[j].pc = "read" /\ job[j].kind = "flush"
      /\ job' = [job EXCEPT ![j].pc = "done"]
  BY <1>3 DEF CommitFlush
<1>5. job'[j].pc = "done"
  BY <1>4, Ended
<1>6. c \in job[j].done /\ h = job[j].key /\ stored'[c][h] = job[j].read[c]
  BY <1>1, <1>3, FlushedRow, ReportingAssumption
<1>7. FlushOk(j, c, h)
  BY <1>4, <1>6 DEF Reading
<1>8. job[j].read[c] \in Nat /\ job[j].seen[c] \in Nat /\ version[c][h] \in Nat
  <2>1. job[j].read \in [Campaigns -> Nat] /\ job[j].seen \in [Campaigns -> Nat]
    BY JobFields
  <2>2. QED
    BY <2>1, RowTypes
<1>9. job[j].read[c] < n
  BY <1>1, <1>6, <1>8, ReportingAssumption
<1>10. job[j].seen[c] < version[c][h]
  BY <1>1, <1>6, <1>7, <1>8, <1>9 DEF FlushOk, Takes
<1>11. QED
  BY <1>4, <1>5, <1>10

\* A step that leaves less in a total commits a sync of another day, or one that did not
\* see the last one.
LEMMA TotalFalls ==
    IInv /\ [Next]_vars =>
        [\A c \in Campaigns : spent'[c].total < spent[c].total
           => \/ synced'[c].day # synced[c].day
              \/ \E j \in Jobs : /\ job[j].pc = "read" /\ job'[j].pc = "done"
                                 /\ job[j].seen[c] < synced[c].times]_vars
<1> SUFFICES ASSUME IInv, Next, NEW c \in Campaigns, spent'[c].total < spent[c].total,
                    synced'[c].day = synced[c].day
             PROVE  \E j \in Jobs : /\ job[j].pc = "read" /\ job'[j].pc = "done"
                                   /\ job[j].seen[c] < synced[c].times
  OBVIOUS
<1> USE DEF IInv
<1>1. PICK n \in Nat : n = spent[c].total
  BY RowTypes
<1>2. spent' # spent
  BY <1>1
<1>3. PICK j \in Jobs : CommitSync(j)
  BY <1>2 DEF Next, Start, StartFlush, StartSync, Step, ReadCounters, Read, WriteRow,
              CommitFlush, Fail, BreakDeadlock, RollBack, Tick, CountRequest,
              CountImpression, ExpireStat
<1>4. /\ job[j].pc = "read" /\ job[j].kind = "sync"
      /\ job' = [job EXCEPT ![j].pc = "done"]
  BY <1>3 DEF CommitSync
<1>5. job'[j].pc = "done"
  BY <1>4, Ended
<1>6. /\ spent'[c].total = job[j].read[c] /\ synced[c].day = Day(job[j].key)
  BY <1>1, <1>3, SyncedRow
<1>7. SyncOk(j, c, Day(job[j].key))
  BY <1>4 DEF Reading
<1>8. job[j].read[c] \in Nat /\ job[j].seen[c] \in Nat /\ synced[c].times \in Nat
  <2>1. job[j].read \in [Campaigns -> Nat] /\ job[j].seen \in [Campaigns -> Nat]
    BY JobFields
  <2>2. QED
    BY <2>1, RowTypes
<1>9. job[j].seen[c] < synced[c].times
  BY <1>1, <1>6, <1>7, <1>8 DEF SyncOk
<1>10. QED
  BY <1>4, <1>5, <1>9

-----------------------------------------------------------------------------

\* Every variable keeps its type.
THEOREM TypeCorrect == Spec => []TypeOK
  BY InitTypes, StepTypes, PTL DEF Spec

\* No table ever reports more than was counted, through any overlap of calls, any expiry
\* and any failure.
THEOREM ReportsOnlyWhatHappened == Spec => []NothingInvented
<1>1. IInv => NothingInvented
  <2>1. ASSUME IInv, NEW c \in Campaigns
        PROVE  \E d \in Days : spent[c].total \in 0 .. budget[c][d]
    BY <2>1, RowTypes DEF IInv, TotalsAccrued
  <2>2. QED
    BY <2>1 DEF IInv, RowsHappened, NothingInvented
<1>2. QED
  BY <1>1, Invariance, PTL

\* A row falls only when two flushes of the hour overlap.
THEOREM RowsFallInRaces == Spec => RowsFallOnlyInRaces
  BY Invariance, RowFalls, PTL DEF Spec, RowsFallOnlyInRaces

\* A total falls only when the day changes, or when two syncs overlap.
THEOREM TotalsFallAtMidnight == Spec => TotalFallsOnlyAtMidnight
  BY Invariance, TotalFalls, PTL DEF Spec, TotalFallsOnlyAtMidnight
=============================================================================
