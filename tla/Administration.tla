--------------------------- MODULE Administration ---------------------------
(***************************************************************************)
(* The calls that administer accounts, campaigns, creatives, targeting     *)
(* rules, supply tags, demand sources and mappings: /api/v1/demand (by the *)
(* advertiser), /api/v1/admin and the exchange's operator.                 *)
(*                                                                         *)
(* A call runs in one session, one READ COMMITTED transaction. It loads    *)
(* the rows it needs without locking them, and sets attributes; flush      *)
(* writes those columns whose value is not the one that was loaded, and    *)
(* locks the row until the transaction commits or rolls back.  refresh,    *)
(* which only reads, and the labels and ratios of the answers are left out.*)
(***************************************************************************)
EXTENDS Integers, FiniteSets, Sequences, Functions, TLC

CONSTANTS Calls,                        \* requests being handled
          Advertisers, Campaigns, Creatives, Rules, Tags, DemandSources, Mappings,
                                        \* ids, used or not yet
          Admin,                        \* a caller of the admin or supply API
          Opening,                      \* rows in the tables at the start
          Asked,                        \* values a column may be set to
          MaxRequests                   \* BOUND: requests handled

Ids == UNION {Advertisers, Campaigns, Creatives, Rules, Tags, DemandSources, Mappings}

ACTIVE == 1
DELETED == 3

\* The columns the calls set; names, URLs and sizes behave like these.
SupplyColumns(i) == IF i \in Tags THEN {"slot_id", "status"} ELSE {"status"}

Columns(i) ==
    CASE i \in Advertisers            -> {"balance", "daily_budget", "status"}
      [] i \in Campaigns              -> {"bid_amount", "budget_daily", "budget_total", "status"}
      [] i \in Creatives              -> {"title", "status"}
      [] i \in Tags \cup DemandSources -> SupplyColumns(i)
      [] i \in Rules \cup Mappings    -> {}

\* Column sets one request may change: the update bodies, and the PATCH calls. A body
\* of the advertiser has neither a bid nor a status.
OwnEdits(i) ==
    CASE i \in Advertisers -> {{"daily_budget"}}
      [] i \in Campaigns   -> {{"bid_amount"}, {"status"}} \cup SUBSET {"budget_daily", "budget_total"}
      [] i \in Creatives   -> {{"title"}}

AdminEdits(i) ==
    IF i \in Campaigns
    THEN {{"status"}} \cup SUBSET {"bid_amount", "budget_daily", "budget_total"}
    ELSE SUBSET Columns(i)

\* Tags and demand sources.
SupplyEdits(i) == SUBSET Columns(i)

Edits(as, i) ==
    CASE as # Admin                            -> OwnEdits(i)
      [] as = Admin /\ i \in Tags \cup DemandSources -> SupplyEdits(i)
      [] OTHER                                 -> AdminEdits(i)

\* What the foreign keys of a row name.
References(i) ==
    CASE i \in Advertisers \cup Tags \cup DemandSources -> {{}}
      [] i \in Campaigns         -> {{a} : a \in Advertisers}
      [] i \in Creatives \cup Rules -> {{k} : k \in Campaigns}
      [] i \in Mappings          -> {{t, s} : t \in Tags, s \in DemandSources}

\* up: the rows a row refers to.
NoRow == [up |-> {}, col |-> <<>>]
Row(up, col) == [up |-> up, col |-> col]
Fits(i, row) == row \in [up : References(i), col : [Columns(i) -> Nat]]

\* Every table has its own ids, an administrator is no advertiser, and the tables are
\* well-formed at the start.
ASSUME AdministrationAssumption ==
    /\ Advertisers \cap UNION {Campaigns, Creatives, Rules, Tags, DemandSources, Mappings} = {}
    /\ Campaigns \cap UNION {Creatives, Rules, Tags, DemandSources, Mappings} = {}
    /\ Creatives \cap UNION {Rules, Tags, DemandSources, Mappings} = {}
    /\ Rules \cap UNION {Tags, DemandSources, Mappings} = {}
    /\ Tags \cap UNION {DemandSources, Mappings} = {}
    /\ DemandSources \cap Mappings = {}
    /\ IsFiniteSet(Campaigns)
    /\ Admin \notin Advertisers
    /\ Asked \subseteq Nat /\ MaxRequests \in Nat
    /\ DOMAIN Opening \subseteq Ids /\ \A i \in DOMAIN Opening : Fits(i, Opening[i])
    /\ \A t, u \in DOMAIN Opening \cap Tags :
           t # u => Opening[t].col["slot_id"] # Opening[u].col["slot_id"]

NoRequest == [op |-> "none", as |-> Admin, row |-> CHOOSE i \in Ids : TRUE,
              up |-> {}, ask |-> <<>>]

VARIABLES
    db,        \* committed rows
    used,      \* ids the sequences have given out
    pc,        \* where a call is suspended
    req,       \* its request
    todo,      \* rows it has yet to load
    loaded,    \* columns of its row as loaded
    written,   \* columns its flush wrote, not yet committed
    counted,   \* total_campaigns of an account
    stale,     \* HISTORY: what others changed of its row since it was loaded
    requests   \* BOUND

vars == <<db, used, pc, req, todo, loaded, written, counted, stale, requests>>

Init ==
    /\ db = [i \in Ids |-> IF i \in DOMAIN Opening THEN Opening[i] ELSE NoRow]
    /\ used = DOMAIN Opening
    /\ pc = [c \in Calls |-> "idle"]
    /\ req = [c \in Calls |-> NoRequest]
    /\ todo = [c \in Calls |-> <<>>]
    /\ loaded = [c \in Calls |-> <<>>]
    /\ written = [c \in Calls |-> <<>>]
    /\ counted = [c \in Calls |-> 0]
    /\ stale = [c \in Calls |-> {}]
    /\ requests = 0

Exists(i) == db[i] # NoRow
Owner(camp) == CHOOSE a \in db[camp].up : TRUE

\* Whose row it is: the advertiser above it.
Belongs(i, a) ==
    \/ i = a
    \/ a \in db[i].up
    \/ \E k \in db[i].up \cap Campaigns : a \in db[k].up

-----------------------------------------------------------------------------
(* Requests.                                                                 *)

Request(op, as, row, up, ask) == [op |-> op, as |-> as, row |-> row, up |-> up, ask |-> ask]

\* Mutant: a new row has no status.
NewValues(i, v) == [k \in Columns(i) \ {"status"} |-> v]

\* A new row has status ACTIVE; the rest comes from the body.
NewColumns(i, v) == [k \in Columns(i) |-> IF k = "status" THEN ACTIVE ELSE v]

New(as, i, up, v) == Request("create", as, i, up, NewColumns(i, v))
Remove(as, i) == Request("update", as, i, {}, [k \in {"status"} |-> DELETED])
Simple(op, as, i) == Request(op, as, i, {}, <<>>)
Changes(as, i) == {Request("update", as, i, {}, ask) : ask \in UNION {[E -> Asked] : E \in Edits(as, i)}}

\* /api/v1/demand: an account is named by its id, and everything else is asked for
\* with the id of the advertiser who calls.
AccountCalls ==
    UNION {{New(a, a, {}, 0), Simple("account", a, a), Simple("fund", a, a)} \cup Changes(a, a)
           : a \in Advertisers}

OwnCampaignCalls ==
    UNION {{New(a, k, {a}, 1), Simple("list", a, a), Simple("get", a, k)} \cup Changes(a, k)
           : a \in Advertisers, k \in Campaigns}

OwnCreativeCalls ==
    UNION {{New(a, v, {k}, 1), Simple("list", a, k), Remove(a, v)} \cup Changes(a, v)
           : a \in Advertisers, k \in Campaigns, v \in Creatives}

OwnRuleCalls ==
    UNION {{New(a, r, {k}, 1), Simple("list", a, k), Simple("delete", a, r)}
           : a \in Advertisers, k \in Campaigns, r \in Rules}

\* Statistics and spend of a campaign, and the dashboard of an account.
ReportCalls ==
    {Simple("get", a, i) : a \in Advertisers, i \in Campaigns} \cup {Simple("get", a, a) : a \in Advertisers}

\* /api/v1/admin.
AdvertiserCalls ==
    UNION {{New(Admin, a, {}, 0), Simple("get", Admin, a), Remove(Admin, a)} \cup Changes(Admin, a)
           : a \in Advertisers}

CampaignCalls ==
    UNION {{New(Admin, k, {a}, 1), Simple("list", Admin, a), Simple("get", Admin, k), Remove(Admin, k)}
               \cup Changes(Admin, k)
           : a \in Advertisers, k \in Campaigns}

CreativeCalls ==
    UNION {{New(Admin, v, {k}, 1), Simple("list", Admin, k), Simple("get", Admin, v), Remove(Admin, v)}
               \cup Changes(Admin, v)
           : k \in Campaigns, v \in Creatives}

RuleCalls ==
    UNION {{New(Admin, r, {k}, 1), Simple("list", Admin, k), Simple("delete", Admin, r)}
           : k \in Campaigns, r \in Rules}

\* The operator of the exchange.
TagCalls ==
    UNION {{New(Admin, t, {}, v) : v \in Asked} \cup {Simple("get", Admin, t), Remove(Admin, t)}
               \cup Changes(Admin, t) : t \in Tags}

\* Endpoints and VAST tags.
SourceCalls ==
    UNION {{New(Admin, s, {}, 1), Simple("get", Admin, s), Remove(Admin, s)} \cup Changes(Admin, s)
           : s \in DemandSources}

\* A mapping names a tag and one source: create_mapping refuses none and both.
MappingCalls ==
    UNION {{New(Admin, m, {t, s}, 1), Simple("list", Admin, t), Simple("delete", Admin, m)}
           : m \in Mappings, t \in Tags, s \in DemandSources}

\* A new row gets an id that no row has had; the others name a row there was once.
Requests ==
    {r \in UNION {AccountCalls, OwnCampaignCalls, OwnCreativeCalls, OwnRuleCalls, ReportCalls,
                  AdvertiserCalls, CampaignCalls, CreativeCalls, RuleCalls, TagCalls,
                  SourceCalls, MappingCalls} :
        r.op = "create" <=> r.row \notin used}

-----------------------------------------------------------------------------
(* Loading.                                                                  *)

\* get_or_404 calls of a handler, in order.
ToLoad(r) ==
    CASE r.op = "create" /\ r.row \in Mappings -> <<CHOOSE t \in r.up : t \in Tags,
                                                   CHOOSE s \in r.up : s \in DemandSources>>
      [] r.op = "create" /\ r.row \notin Mappings ->
             IF r.up = {} THEN <<>> ELSE <<CHOOSE k \in r.up : TRUE>>
      \* The lists of an administrator, and an advertiser's campaigns, check nothing.
      [] r.op = "list" /\ (r.as = Admin \/ r.row \in Advertisers) -> <<>>
      [] OTHER -> <<r.row>>

Arrive(c) ==
    /\ pc[c] = "idle"
    /\ requests < MaxRequests
    /\ requests' = requests + 1
    /\ \E r \in Requests :
           /\ req' = [req EXCEPT ![c] = r]
           /\ todo' = [todo EXCEPT ![c] = ToLoad(r)]
           /\ used' = IF r.op = "create" THEN used \cup {r.row} ELSE used
    /\ pc' = [pc EXCEPT ![c] = "loading"]
    /\ UNCHANGED <<db, loaded, written, counted, stale>>

\* The session is closed: nothing is left of the call but what it committed.
Close(c) ==
    /\ pc' = [pc EXCEPT ![c] = "idle"]
    /\ req' = [req EXCEPT ![c] = NoRequest]
    /\ todo' = [todo EXCEPT ![c] = <<>>]
    /\ loaded' = [loaded EXCEPT ![c] = <<>>]
    /\ written' = [written EXCEPT ![c] = <<>>]
    /\ counted' = [counted EXCEPT ![c] = 0]

\* Without a write or a commit: an answer, 404, 403, or an exception.
End(c) ==
    /\ Close(c)
    /\ stale' = [stale EXCEPT ![c] = {}]
    /\ UNCHANGED <<db, used, requests>>

\* _verify_campaign_owner, and the same test in the calls on a creative or a rule.
Forbidden(c, i) == req[c].as # Admin /\ i \in Campaigns /\ req[c].as # Owner(i)

\* Mutant: a creative or rule is not looked up to its campaign.
LoadOnly(c) ==
    /\ pc[c] = "loading" /\ todo[c] # <<>>
    /\ LET i == Head(todo[c])
       IN IF ~Exists(i) \/ Forbidden(c, i)
          THEN End(c)
          ELSE /\ todo' = [todo EXCEPT ![c] = Tail(@)]
               /\ loaded' = IF i = req[c].row THEN [loaded EXCEPT ![c] = db[i].col] ELSE loaded
               /\ stale' = IF i = req[c].row THEN [stale EXCEPT ![c] = {}] ELSE stale
               /\ UNCHANGED <<db, used, pc, req, written, counted, requests>>

\* A creative or rule of the self-service API is followed by its campaign.
Load(c) ==
    /\ pc[c] = "loading" /\ todo[c] # <<>>
    /\ LET i == Head(todo[c])
           next == IF i \in Creatives \cup Rules /\ req[c].as # Admin
                   THEN <<CHOOSE k \in db[i].up : TRUE>> ELSE Tail(todo[c])
       IN IF ~Exists(i) \/ Forbidden(c, i)
          THEN End(c)
          ELSE /\ todo' = [todo EXCEPT ![c] = next]
               /\ loaded' = IF i = req[c].row THEN [loaded EXCEPT ![c] = db[i].col] ELSE loaded
               /\ stale' = IF i = req[c].row THEN [stale EXCEPT ![c] = {}] ELSE stale
               /\ UNCHANGED <<db, used, pc, req, written, counted, requests>>

Checked(c) == pc[c] = "loading" /\ todo[c] = <<>>

-----------------------------------------------------------------------------
(* Reading calls.                                                            *)

\* Creatives an advertiser lists are those not deleted; everything else is shown as it is.
Under(c) ==
    {i \in Ids : /\ Exists(i)
                 /\ req[c].row \in db[i].up
                 /\ ~(i \in Creatives /\ req[c].as # Admin /\ db[i].col["status"] = DELETED)}

Shown(c) == IF req[c].op = "list" THEN Under(c) ELSE {req[c].row}

Show(c) == Checked(c) /\ req[c].op \in {"get", "list"} /\ End(c)

CampaignsOf(a) == {k \in Campaigns : Exists(k) /\ a \in db[k].up}
ActiveOf(a) == {k \in CampaignsOf(a) : db[k].col["status"] = ACTIVE}

\* get_account counts in one statement all campaigns, and in the next the active ones.
CountTotal(c) ==
    /\ Checked(c) /\ req[c].op = "account"
    /\ counted' = [counted EXCEPT ![c] = Cardinality(CampaignsOf(req[c].row))]
    /\ stale' = [stale EXCEPT ![c] = {}]
    /\ pc' = [pc EXCEPT ![c] = "counting"]
    /\ UNCHANGED <<db, used, req, todo, loaded, written, requests>>

ShowAccount(c) == pc[c] = "counting" /\ End(c)

-----------------------------------------------------------------------------
(* Writing calls.                                                            *)

\* Mutant: rows are locked when they are loaded.
LockedByReaders(c, i) ==
    \E d \in Calls \ {c} : pc[d] \in {"loading", "flushed"} /\ req[d].row = i /\ todo[d] = <<>>

Writes(c, w) == req[c].op = "delete" \/ DOMAIN w # {}

Locked(c, i) == \E d \in Calls \ {c} : pc[d] = "flushed" /\ req[d].row = i /\ Writes(d, written[d])

\* Mutant: a deposit is the balance.
SetDeposit(c) == IF req[c].op = "fund" THEN [k \in {"balance"} |-> 1] ELSE req[c].ask

\* apply_updates, and the assignments of the PATCH calls and of the deposits.
SetAttributes(c) ==
    IF req[c].op = "fund" THEN [k \in {"balance"} |-> loaded[c]["balance"] + 1] ELSE req[c].ask

\* Mutant: the whole row is written back.
WholeRow(c) ==
    LET set == SetAttributes(c)
    IN [k \in DOMAIN loaded[c] \cup DOMAIN set |->
            IF k \in DOMAIN set THEN set[k] ELSE loaded[c][k]]

\* flush: the attributes that differ from what was loaded.
ChangedAttributes(c) ==
    LET set == SetAttributes(c)
    IN Restrict(set, {k \in DOMAIN set : k \notin DOMAIN loaded[c] \/ set[k] # loaded[c][k]})

\* slot_id is unique. A slot another transaction takes or gives up is waited for.
Slot(w) == IF "slot_id" \in DOMAIN w THEN {w["slot_id"]} ELSE {}
SlotTaken(c, w) ==
    \E t \in Tags \ {req[c].row} :
        Exists(t) /\ db[t].col["slot_id"] \in Slot(w)
SlotUnsettled(c, w) ==
    \E d \in Calls \ {c} :
        /\ pc[d] = "flushed" /\ req[d].row \in Tags /\ "slot_id" \in DOMAIN written[d]
        /\ \/ written[d]["slot_id"] \in Slot(w)
           \/ Exists(req[d].row) /\ db[req[d].row].col["slot_id"] \in Slot(w)

\* Mutant: without the unique index.
FlushAny(c) ==
    LET w == ChangedAttributes(c)
    IN /\ Checked(c) /\ req[c].op \in {"create", "update", "fund", "delete"}
       /\ Writes(c, w) => ~Locked(c, req[c].row)
       /\ written' = [written EXCEPT ![c] = w]
       /\ pc' = [pc EXCEPT ![c] = "flushed"]
       /\ UNCHANGED <<db, used, req, todo, loaded, counted, stale, requests>>

\* INSERT, UPDATE or DELETE; a second writer of a row waits for the first.
Flush(c) ==
    LET w == ChangedAttributes(c)
    IN /\ Checked(c) /\ req[c].op \in {"create", "update", "fund", "delete"}
       /\ Writes(c, w) => ~Locked(c, req[c].row)
       /\ ~SlotUnsettled(c, w)
       /\ IF SlotTaken(c, w)
          THEN End(c)
          ELSE /\ written' = [written EXCEPT ![c] = w]
               /\ pc' = [pc EXCEPT ![c] = "flushed"]
               /\ UNCHANGED <<db, used, req, todo, loaded, counted, stale, requests>>

\* What the commit leaves of its row; a row deleted twice is deleted.
Committed(c) ==
    LET r == req[c]
    IN IF r.op = "create" THEN Row(r.up, r.ask)
       ELSE IF r.op = "delete" THEN NoRow
       ELSE [db[r.row] EXCEPT !.col = [k \in DOMAIN @ |->
                IF k \in DOMAIN written[c] THEN written[c][k] ELSE @[k]]]

\* HISTORY: to calls on the same row, or counting under it, something changed.
Touched(c, d) ==
    IF pc[d] = "idle" THEN {}
    ELSE IF req[d].row = req[c].row THEN DOMAIN written[c]
    ELSE IF req[c].op = "create" /\ req[d].row \in req[c].up THEN {"new"} ELSE {}

Commit(c) ==
    /\ pc[c] = "flushed"
    /\ db' = [db EXCEPT ![req[c].row] = Committed(c)]
    /\ stale' = [d \in Calls |-> IF d = c THEN {} ELSE stale[d] \cup Touched(c, d)]
    /\ Close(c)
    /\ UNCHANGED <<used, requests>>

\* An exception, a lost connection, the end of the process: session() rolls back.
Rollback(c) == pc[c] # "idle" /\ End(c)

-----------------------------------------------------------------------------

Step(c) == Load(c) \/ Show(c) \/ CountTotal(c) \/ ShowAccount(c) \/ Flush(c) \/ Commit(c)

Next == \E c \in Calls : Arrive(c) \/ Step(c) \/ Rollback(c)

\* A handler runs on; the arrival of requests and failures are up to others.
Fairness == \A c \in Calls : WF_vars(Step(c))

Spec == Init /\ [][Next]_vars /\ Fairness

-----------------------------------------------------------------------------
(* Properties.                                                               *)

TypeOK ==
    /\ DOMAIN db = Ids
    /\ \A i \in Ids : Exists(i) => Fits(i, db[i]) /\ i \in used
    /\ pc \in [Calls -> {"idle", "loading", "counting", "flushed"}]
    /\ \A c \in Calls :
           /\ DOMAIN written[c] \subseteq Columns(req[c].row)
           /\ counted[c] \in Nat
           /\ stale[c] \subseteq Columns(req[c].row) \cup {"new"}

\* What the self-service API answers with belongs to the advertiser who asked, however
\* the rows came and went between the check of a campaign and the answer; and so does
\* every row it creates, changes or deletes, unless another call has deleted it before
\* (demand.py).
OwnRowsOnly ==
    [][\A c \in Calls :
           /\ Show(c) /\ req[c].as # Admin => \A i \in Shown(c) : Belongs(i, req[c].as)
           /\ Commit(c) => \A i \in Ids, a \in Advertisers :
                  req[c].row = i /\ req[c].as = a =>
                      Belongs(i, a) \/ Belongs(i, a)' \/ db'[i] = db[i]]_vars

\* A committed edit is in its row and nowhere else: two edits of one row at once keep
\* each other's columns, a removal included; a column asked to have the value it was
\* loaded with is the only one another edit may have overtaken (orm_utils.py, flush).
EditsAreKept ==
    [][\A c \in Calls : Commit(c) /\ req[c].op = "update" =>
           \A k \in Columns(req[c].row) :
               LET new == db'[req[c].row].col[k]
               IN IF k \in DOMAIN req[c].ask
                  THEN new = req[c].ask[k] \/ (req[c].ask[k] = loaded[c][k] /\ k \in stale[c])
                  ELSE new = db[req[c].row].col[k]]_vars

\* A deposit is added to the balance, unless the balance was written by another call
\* after the deposit read it (fund_account).
DepositsAdd ==
    [][\A c \in Calls : Commit(c) /\ req[c].op = "fund" =>
           \/ db'[req[c].row].col["balance"] = db[req[c].row].col["balance"] + 1
           \/ "balance" \in stale[c]]_vars

\* No two supply tags answer to one slot, whatever transactions race for it.
SlotsUnique ==
    \A t, u \in Tags : Exists(t) /\ Exists(u) /\ t # u =>
        db[t].col["slot_id"] # db[u].col["slot_id"]

\* Every call ends: none waits for a row or a slot for good.
EveryCallEnds == \A c \in Calls : pc[c] # "idle" ~> pc[c] = "idle"
=============================================================================
