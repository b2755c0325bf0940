------------------------ MODULE AdministrationProofs ------------------------
(***************************************************************************)
(* Theorems about Administration, for every number of calls, rows and      *)
(* requests, every content of the tables at the start and every value asked for.          *)
(***************************************************************************)
EXTENDS Administration, FiniteSetTheorems, TLAPS

-----------------------------------------------------------------------------
(* The inductive invariant.                                                  *)

Own(r) == r.as # Admin

\* What a request may be about.
RequestOK(r) ==
    /\ r.row \in Ids /\ r.as \in Advertisers \cup {Admin}
    /\ r.op \in {"create", "update", "fund", "delete", "get", "list", "account"}
    /\ r.op = "create" => Fits(r.row, Row(r.up, r.ask))
    /\ r.op = "update" => /\ r.row \notin Rules \cup Mappings
                          /\ DOMAIN r.ask \subseteq Columns(r.row)
                          /\ \A k \in DOMAIN r.ask : r.ask[k] \in Nat
    /\ r.op = "delete" => r.row \in Rules \cup Mappings /\ r.ask = <<>>
    /\ r.op \in {"fund", "account"} => r.row \in Advertisers
    /\ Own(r) =>
           /\ r.row \in Advertisers => r.row = r.as
           /\ r.row \notin UNION {Tags, DemandSources, Mappings}
           /\ r.op = "create" /\ r.row \in Campaigns => r.up = {r.as}
           /\ r.op \in {"get", "list"} => r.row \in Advertisers \cup Campaigns

Creating(c, i) == req[c].op = "create" /\ req[c].row = i

\* No call will create the row any more.
Settled(i) == i \in used /\ \A d \in Calls : ~ Creating(d, i)

\* The advertiser of a call has been found to own campaign k, or will be tested.
OwnerKnown(c, k) == todo[c] = <<k>> \/ (todo[c] = <<>> /\ req[c].as \in db[k].up)

\* A call that creates a row: it is not there, and its parents are checked in turn.
CreateOK(c) ==
    /\ loaded[c] = <<>>
    /\ req[c].row \in used /\ ~ Exists(req[c].row)
    /\ \/ todo[c] = <<>>
       \/ \E x \in req[c].up : todo[c] = <<x>>
       \/ \E x, y \in req[c].up : todo[c] = <<x, y>>
    /\ Own(req[c]) /\ req[c].row \in Creatives \cup Rules =>
           \E k \in Campaigns : req[c].up = {k} /\ OwnerKnown(c, k)

\* The columns of its row are those it loaded, or others have written them since.
HasLoaded(c) ==
    /\ Exists(req[c].row)
    /\ loaded[c] \in [Columns(req[c].row) -> Nat]
    /\ \A k \in Columns(req[c].row) : k \in stale[c] \/ db[req[c].row].col[k] = loaded[c][k]

\* Any other call, once it has loaded its row.
Passed(c) ==
    /\ req[c].op \in {"update", "fund"} => HasLoaded(c)
    /\ Own(req[c]) /\ req[c].row \in Campaigns => req[c].as \in db[req[c].row].up
    /\ Own(req[c]) /\ req[c].row \in Creatives \cup Rules =>
           /\ Settled(req[c].row)
           /\ \E k \in Campaigns : /\ Exists(req[c].row) => db[req[c].row].up = {k}
                                   /\ OwnerKnown(c, k)
    /\ todo[c] = <<>> \/ (Own(req[c]) /\ req[c].row \in Creatives \cup Rules)

CallOK(c) ==
    /\ pc[c] = "idle" => /\ req[c] = NoRequest
                         /\ todo[c] = <<>> /\ loaded[c] = <<>> /\ stale[c] = {}
    /\ pc[c] # "idle" =>
           /\ RequestOK(req[c])
           /\ stale[c] \subseteq Columns(req[c].row) \cup {"new"}
           /\ req[c].op = "create" => CreateOK(c)
           /\ req[c].op # "create" => todo[c] = <<req[c].row>> \/ Passed(c)
    /\ pc[c] \in {"counting", "flushed"} => todo[c] = <<>>
    /\ pc[c] # "flushed" => written[c] = <<>>
    /\ pc[c] = "flushed" => /\ written[c] = ChangedAttributes(c)
                            /\ req[c].op \in {"create", "update", "fund", "delete"}
    /\ counted[c] \in Nat

Domains ==
    /\ DOMAIN db = Ids /\ pc \in [Calls -> {"idle", "loading", "counting", "flushed"}]
    /\ DOMAIN req = Calls /\ DOMAIN todo = Calls /\ DOMAIN loaded = Calls
    /\ DOMAIN written = Calls /\ DOMAIN counted = Calls /\ DOMAIN stale = Calls

Tables == used \subseteq Ids /\ \A i \in Ids : Exists(i) => Fits(i, db[i]) /\ i \in used

\* Two calls never create the same row.
Apart == \A c, d \in Calls, i \in Ids : Creating(c, i) /\ Creating(d, i) => c = d

Inv == Domains /\ Tables /\ Apart /\ \A c \in Calls : CallOK(c)

\* A slot that a transaction has taken is no other tag's, and is taken by no other.
Takes(c) == pc[c] = "flushed" /\ req[c].row \in Tags /\ "slot_id" \in DOMAIN written[c]
SlotInv ==
    /\ SlotsUnique
    /\ \A c \in Calls : Takes(c) =>
           /\ \A t \in Tags \ {req[c].row} :
                  Exists(t) => db[t].col["slot_id"] # written[c]["slot_id"]
           /\ \A d \in Calls \ {c} :
                  Takes(d) => written[d]["slot_id"] # written[c]["slot_id"]

-----------------------------------------------------------------------------
(* Rows and requests.                                                        *)

LEMMA TableColumns ==
    /\ \A i \in Advertisers : /\ Columns(i) = {"balance", "daily_budget", "status"}
                              /\ References(i) = {{}}
    /\ \A i \in Campaigns : /\ Columns(i) = {"bid_amount", "budget_daily", "budget_total", "status"}
                            /\ References(i) = {{a} : a \in Advertisers}
    /\ \A i \in Creatives : /\ Columns(i) = {"title", "status"}
                            /\ References(i) = {{k} : k \in Campaigns}
    /\ \A i \in Rules : Columns(i) = {} /\ References(i) = {{k} : k \in Campaigns}
    /\ \A i \in Tags : Columns(i) = {"slot_id", "status"} /\ References(i) = {{}}
    /\ \A i \in DemandSources : Columns(i) = {"status"} /\ References(i) = {{}}
    /\ \A i \in Mappings : /\ Columns(i) = {}
                           /\ References(i) = {{t, s} : t \in Tags, s \in DemandSources}
BY AdministrationAssumption DEF Columns, SupplyColumns, References

\* A row of a table is never taken for none.
LEMMA RowsShow ==
    ASSUME NEW i \in Ids, NEW row, Fits(i, row)
    PROVE  row # NoRow /\ row = Row(row.up, row.col)
<1>1. row = [up |-> row.up, col |-> row.col] /\ row.up \in References(i)
      /\ row.col \in [Columns(i) -> Nat]
  BY DEF Fits
<1>2. row.up # {} \/ Columns(i) # {}
  <2>1. CASE i \in Campaigns \cup Creatives \cup Rules \cup Mappings
    <3>1. CASE i \in Mappings
      <4>1. \A p \in References(i) : \E t \in Tags, s \in DemandSources : p = {t, s}
        BY <3>1, TableColumns
      <4>2. QED
        BY <1>1, <4>1
    <3>2. CASE i \in Campaigns
      <4>1. \A p \in References(i) : \E a \in Advertisers : p = {a}
        BY <3>2, TableColumns
      <4>2. QED
        BY <1>1, <4>1
    <3>3. CASE i \in Creatives \cup Rules
      <4>1. \A p \in References(i) : \E k \in Campaigns : p = {k}
        BY <3>3, TableColumns
      <4>2. QED
        BY <1>1, <4>1
    <3>4. QED
      BY <2>1, <3>1, <3>2, <3>3
  <2>2. CASE i \in Advertisers \cup Tags \cup DemandSources
    <3>1. "status" \in Columns(i)
      BY <2>2, TableColumns
    <3>2. QED
      BY <3>1
  <2>3. QED
    BY <2>1, <2>2 DEF Ids
<1>3. row.up # {} \/ row.col # <<>>
  <2>1. Columns(i) # {} => DOMAIN row.col # {}
    BY <1>1
  <2>2. QED
    BY <1>2, <2>1
<1>4. QED
  BY <1>1, <1>3 DEF NoRow, Row

\* What each kind of request may be.
LEMMA NewOK ==
    ASSUME NEW as \in Advertisers \cup {Admin}, NEW i \in Ids, NEW up \in References(i),
           NEW v \in Nat,
           as # Admin => \/ i = as
                         \/ i \in Campaigns /\ up = {as}
                         \/ i \in Creatives \cup Rules
    PROVE  RequestOK(New(as, i, up, v))
<1>1. Fits(i, Row(up, NewColumns(i, v)))
  BY DEF Fits, Row, NewColumns, ACTIVE
<1>2. as # Admin => /\ i \in Advertisers => i = as
                    /\ i \notin UNION {Tags, DemandSources, Mappings}
                    /\ i \in Campaigns => up = {as}
  BY AdministrationAssumption
<1>3. QED
  BY <1>1, <1>2 DEF RequestOK, New, Request, Own

LEMMA UpdateOK ==
    ASSUME NEW as \in Advertisers \cup {Admin}, NEW i \in Ids \ (Rules \cup Mappings), NEW ask,
           DOMAIN ask \subseteq Columns(i), \A k \in DOMAIN ask : ask[k] \in Nat,
           as # Admin => i = as \/ i \in Campaigns \cup Creatives
    PROVE  RequestOK(Request("update", as, i, {}, ask))
<1>1. as # Admin => /\ i \in Advertisers => i = as
                    /\ i \notin UNION {Tags, DemandSources, Mappings}
  BY AdministrationAssumption
<1>2. QED
  BY <1>1 DEF RequestOK, Request, Own

LEMMA ChangesOK ==
    ASSUME NEW as \in Advertisers \cup {Admin}, NEW i \in Ids \ (Rules \cup Mappings),
           as # Admin => i = as \/ i \in Campaigns \cup Creatives,
           NEW r \in Changes(as, i)
    PROVE  RequestOK(r)
<1>1. PICK E \in Edits(as, i) : \E a \in [E -> Asked] : r = Request("update", as, i, {}, a)
  BY DEF Changes
<1> PICK ask \in [E -> Asked] : r = Request("update", as, i, {}, ask)
  BY <1>1
<1>2. E \subseteq Columns(i)
  <2>1. CASE as # Admin
    <3>1. E \in OwnEdits(i)
      BY <1>1, <2>1 DEF Edits
    <3>2. CASE i = as
      <4>1. i \in Advertisers
        BY <2>1, <3>2
      <4>2. OwnEdits(i) = {{"daily_budget"}}
        BY <4>1, AdministrationAssumption DEF OwnEdits
      <4>3. E = {"daily_budget"}
        BY <3>1, <4>2
      <4>4. QED
        BY <4>1, <4>3, TableColumns
    <3>3. CASE i \in Campaigns
      <4>1. OwnEdits(i) = {{"bid_amount"}, {"status"}} \cup SUBSET {"budget_daily", "budget_total"}
        BY <3>3, AdministrationAssumption DEF OwnEdits
      <4>2. QED
        BY <3>1, <3>3, <4>1, TableColumns
    <3>4. CASE i \in Creatives
      <4>1. OwnEdits(i) = {{"title"}}
        BY <3>4, AdministrationAssumption DEF OwnEdits
      <4>2. QED
        BY <3>1, <3>4, <4>1, TableColumns
    <3>5. QED
      BY <2>1, <3>2, <3>3, <3>4
  <2>2. CASE as = Admin /\ i \in Tags \cup DemandSources
    BY <1>1, <2>2 DEF Edits, SupplyEdits
  <2>3. CASE as = Admin /\ i \notin Tags \cup DemandSources
    <3>1. E \in AdminEdits(i)
      BY <1>1, <2>3 DEF Edits
    <3>2. QED
      BY <3>1, TableColumns DEF AdminEdits
  <2>4. QED
    BY <2>1, <2>2, <2>3
<1>3. DOMAIN ask \subseteq Columns(i) /\ \A k \in DOMAIN ask : ask[k] \in Nat
  BY <1>2, AdministrationAssumption
<1>4. QED
  BY <1>3, UpdateOK

LEMMA RemoveOK ==
    ASSUME NEW as \in Advertisers \cup {Admin}, NEW i \in Ids \ (Rules \cup Mappings),
           as # Admin => i = as \/ i \in Campaigns \cup Creatives
    PROVE  RequestOK(Remove(as, i))
<1>1. "status" \in Columns(i)
  BY TableColumns DEF Ids
<1>2. DOMAIN [k \in {"status"} |-> DELETED] = {"status"}
  OBVIOUS
<1>3. \A k \in {"status"} : [l \in {"status"} |-> DELETED][k] \in Nat
  BY DEF DELETED
<1>4. QED
  BY <1>1, <1>2, <1>3, UpdateOK DEF Remove

LEMMA SimpleOK ==
    ASSUME NEW as \in Advertisers \cup {Admin}, NEW i \in Ids, NEW op,
           \/ op \in {"fund", "account"} /\ i \in Advertisers /\ (as # Admin => i = as)
           \/ op \in {"get", "list"} /\ (as # Admin => i = as \/ i \in Campaigns)
           \/ op = "delete" /\ i \in Rules
           \/ op = "delete" /\ i \in Mappings /\ as = Admin
    PROVE  RequestOK(Simple(op, as, i))
<1>1. as # Admin => /\ i \in Advertisers => i = as
                    /\ i \notin UNION {Tags, DemandSources, Mappings}
  BY AdministrationAssumption
<1>2. as # Admin /\ op \in {"get", "list"} => i \in Advertisers \cup Campaigns
  OBVIOUS
<1>3. QED
  BY <1>1, <1>2 DEF RequestOK, Simple, Request, Own

LEMMA RequestsOK ==
    ASSUME NEW r \in Requests
    PROVE  RequestOK(r) /\ (r.op = "create" <=> r.row \notin used)
<1>1. Advertisers \subseteq Ids /\ Campaigns \subseteq Ids /\ Creatives \subseteq Ids
      /\ Rules \subseteq Ids /\ Tags \subseteq Ids /\ DemandSources \subseteq Ids
      /\ Mappings \subseteq Ids
  BY DEF Ids
<1>2. \A i \in UNION {Advertisers, Campaigns, Creatives, Tags, DemandSources} :
          i \in Ids \ (Rules \cup Mappings)
  <2>1. \A i \in UNION {Advertisers, Campaigns, Creatives, Tags, DemandSources} :
            i \notin Rules \cup Mappings
    BY AdministrationAssumption
  <2>2. QED
    BY <1>1, <2>1
<1>3. Asked \subseteq Nat /\ 0 \in Nat /\ 1 \in Nat
  BY AdministrationAssumption
<1>4. /\ \A a \in Advertisers : {} \in References(a)
      /\ \A k \in Campaigns, a \in Advertisers : {a} \in References(k)
      /\ \A v \in Creatives \cup Rules, k \in Campaigns : {k} \in References(v)
      /\ \A t \in Tags \cup DemandSources : {} \in References(t)
      /\ \A m \in Mappings, t \in Tags, s \in DemandSources : {t, s} \in References(m)
  BY TableColumns
<1>5. ASSUME r \in AccountCalls PROVE RequestOK(r)
  <2>1. PICK a \in Advertisers :
            r \in {New(a, a, {}, 0), Simple("account", a, a), Simple("fund", a, a)}
                      \cup Changes(a, a)
    BY <1>5 DEF AccountCalls
  <2>2. QED
    BY <1>1, <1>2, <1>3, <1>4, <2>1, NewOK, SimpleOK, ChangesOK
<1>6. ASSUME r \in OwnCampaignCalls PROVE RequestOK(r)
  <2>1. PICK a \in Advertisers, k \in Campaigns :
            r \in {New(a, k, {a}, 1), Simple("list", a, a), Simple("get", a, k)} \cup Changes(a, k)
    BY <1>6 DEF OwnCampaignCalls
  <2>2. QED
    BY <1>1, <1>2, <1>3, <1>4, <2>1, NewOK, SimpleOK, ChangesOK
<1>7. ASSUME r \in OwnCreativeCalls PROVE RequestOK(r)
  <2>1. PICK a \in Advertisers, k \in Campaigns, v \in Creatives :
            r \in {New(a, v, {k}, 1), Simple("list", a, k), Remove(a, v)} \cup Changes(a, v)
    BY <1>7 DEF OwnCreativeCalls
  <2>2. QED
    BY <1>1, <1>2, <1>3, <1>4, <2>1, NewOK, SimpleOK, ChangesOK, RemoveOK
<1>8. ASSUME r \in OwnRuleCalls PROVE RequestOK(r)
  <2>1. PICK a \in Advertisers, k \in Campaigns, l \in Rules :
            r \in {New(a, l, {k}, 1), Simple("list", a, k), Simple("delete", a, l)}
    BY <1>8 DEF OwnRuleCalls
  <2>2. QED
    BY <1>1, <1>2, <1>3, <1>4, <2>1, NewOK, SimpleOK
<1>9. ASSUME r \in AdvertiserCalls PROVE RequestOK(r)
  <2>1. PICK a \in Advertisers :
            r \in {New(Admin, a, {}, 0), Simple("get", Admin, a), Remove(Admin, a)}
                      \cup Changes(Admin, a)
    BY <1>9 DEF AdvertiserCalls
  <2>2. QED
    BY <1>1, <1>2, <1>3, <1>4, <2>1, NewOK, SimpleOK, ChangesOK, RemoveOK
<1>10. ASSUME r \in CampaignCalls PROVE RequestOK(r)
  <2>1. PICK a \in Advertisers, k \in Campaigns :
            r \in {New(Admin, k, {a}, 1), Simple("list", Admin, a), Simple("get", Admin, k),
                  Remove(Admin, k)} \cup Changes(Admin, k)
    BY <1>10 DEF CampaignCalls
  <2>2. QED
    BY <1>1, <1>2, <1>3, <1>4, <2>1, NewOK, SimpleOK, ChangesOK, RemoveOK
<1>11. ASSUME r \in CreativeCalls PROVE RequestOK(r)
  <2>1. PICK k \in Campaigns, v \in Creatives :
            r \in {New(Admin, v, {k}, 1), Simple("list", Admin, k), Simple("get", Admin, v),
                  Remove(Admin, v)} \cup Changes(Admin, v)
    BY <1>11 DEF CreativeCalls
  <2>2. QED
    BY <1>1, <1>2, <1>3, <1>4, <2>1, NewOK, SimpleOK, ChangesOK, RemoveOK
<1>12. ASSUME r \in RuleCalls PROVE RequestOK(r)
  <2>1. PICK k \in Campaigns, l \in Rules :
            r \in {New(Admin, l, {k}, 1), Simple("list", Admin, k), Simple("delete", Admin, l)}
    BY <1>12 DEF RuleCalls
  <2>2. QED
    BY <1>1, <1>2, <1>3, <1>4, <2>1, NewOK, SimpleOK
<1>13. ASSUME r \in TagCalls PROVE RequestOK(r)
  <2>1. PICK t \in Tags :
            r \in {New(Admin, t, {}, v) : v \in Asked}
                      \cup {Simple("get", Admin, t), Remove(Admin, t)} \cup Changes(Admin, t)
    BY <1>13 DEF TagCalls
  <2>2. QED
    BY <1>1, <1>2, <1>3, <1>4, <2>1, NewOK, SimpleOK, ChangesOK, RemoveOK
<1>14. ASSUME r \in SourceCalls PROVE RequestOK(r)
  <2>1. PICK s \in DemandSources :
            r \in {New(Admin, s, {}, 1), Simple("get", Admin, s), Remove(Admin, s)}
                      \cup Changes(Admin, s)
    BY <1>14 DEF SourceCalls
  <2>2. QED
    BY <1>1, <1>2, <1>3, <1>4, <2>1, NewOK, SimpleOK, ChangesOK, RemoveOK
<1>15. ASSUME r \in MappingCalls PROVE RequestOK(r)
  <2> DEFINE Of(m, t, s) ==
                 {New(Admin, m, {t, s}, 1), Simple("list", Admin, t), Simple("delete", Admin, m)}
  <2>1. MappingCalls = UNION {Of(m, t, s) : m \in Mappings, t \in Tags, s \in DemandSources}
    BY DEF MappingCalls
  <2>2. PICK m \in Mappings, t \in Tags, s \in DemandSources : r \in Of(m, t, s)
    <3> HIDE DEF Of
    <3>1. QED
      BY <1>15, <2>1
  <2>3. QED
    BY <1>1, <1>2, <1>3, <1>4, <2>2, NewOK, SimpleOK
<1>16. ASSUME r \in ReportCalls PROVE RequestOK(r)
  BY <1>1, <1>16, SimpleOK DEF ReportCalls
<1>17. QED
  BY <1>5, <1>6, <1>7, <1>8, <1>9, <1>10, <1>11, <1>12, <1>13, <1>14, <1>15, <1>16 DEF Requests

-----------------------------------------------------------------------------
(* The invariant holds at the start and is kept by every step.               *)

\* What the rows a new row refers to may be.
LEMMA ParentsOK ==
    ASSUME NEW r, RequestOK(r), r.op = "create"
    PROVE  /\ r.up \subseteq UNION {Advertisers, Campaigns, Tags, DemandSources}
           /\ r.row \notin r.up
           /\ r.row \in Creatives \cup Rules => \E k \in Campaigns : r.up = {k}
           /\ r.row \in Mappings => \E t \in Tags, s \in DemandSources : r.up = {t, s}
           /\ r.row \notin Mappings => r.up = {} \/ \E x : r.up = {x}
<1>1. r.row \in Ids /\ r.up \in References(r.row)
  BY DEF RequestOK, Fits, Row
<1>2. CASE r.row \in Advertisers \cup Tags \cup DemandSources
  <2>1. r.up = {}
    BY <1>1, <1>2, TableColumns
  <2>2. QED
    BY <1>2, <2>1, AdministrationAssumption
<1>3. CASE r.row \in Campaigns
  <2>1. PICK a \in Advertisers : r.up = {a}
    BY <1>1, <1>3, TableColumns
  <2>2. QED
    BY <1>3, <2>1, AdministrationAssumption
<1>4. CASE r.row \in Creatives \cup Rules
  <2>1. PICK k \in Campaigns : r.up = {k}
    BY <1>1, <1>4, TableColumns
  <2>2. QED
    BY <1>4, <2>1, AdministrationAssumption
<1>5. CASE r.row \in Mappings
  <2>1. PICK t \in Tags, s \in DemandSources : r.up = {t, s}
    BY <1>1, <1>5, TableColumns
  <2>2. QED
    BY <1>5, <2>1, AdministrationAssumption
<1>6. QED
  BY <1>1, <1>2, <1>3, <1>4, <1>5 DEF Ids

\* The advertiser a campaign belongs to.
LEMMA OwnersOK ==
    ASSUME Tables, NEW k \in Campaigns, Exists(k)
    PROVE  \E a \in Advertisers : db[k].up = {a} /\ Owner(k) = a
<1>1. db[k].up \in References(k)
  BY DEF Tables, Fits, Ids
<1>2. PICK a \in Advertisers : db[k].up = {a}
  BY <1>1, TableColumns
<1>3. QED
  BY <1>2 DEF Owner

\* A call that creates is not idle.
LEMMA CreatesOK ==
    ASSUME Inv, NEW c \in Calls, NEW i, Creating(c, i)
    PROVE  /\ pc[c] # "idle" /\ CreateOK(c) /\ RequestOK(req[c])
           /\ req[c].row = i /\ req[c].op = "create"
<1>1. CallOK(c) /\ req[c].op = "create" /\ req[c].row = i
  BY DEF Inv, Creating
<1>2. pc[c] # "idle"
  BY <1>1 DEF CallOK, NoRequest
<1>3. QED
  BY <1>1, <1>2 DEF CallOK

LEMMA InitInv == Init => Inv /\ SlotInv
<1> SUFFICES ASSUME Init PROVE Inv /\ SlotInv
  OBVIOUS
<1>1. \A i \in Ids : Exists(i) => i \in DOMAIN Opening /\ db[i] = Opening[i]
  BY DEF Init, Exists
<1>2. Domains
  BY DEF Init, Domains
<1>3. Tables
  BY <1>1, AdministrationAssumption DEF Tables, Init
<1>4. Apart
  BY DEF Apart, Init, Creating, NoRequest
<1>5. \A c \in Calls : CallOK(c)
  BY DEF CallOK, Init
<1>6. SlotInv
  <2>1. Tags \subseteq Ids
    BY DEF Ids
  <2>2. SlotsUnique
    BY <1>1, <2>1, AdministrationAssumption DEF SlotsUnique
  <2>3. \A c \in Calls : ~ Takes(c)
    BY DEF Init, Takes
  <2>4. QED
    BY <2>2, <2>3 DEF SlotInv
<1>7. QED
  BY <1>2, <1>3, <1>4, <1>5, <1>6 DEF Inv

\* A step of one call that leaves the tables alone leaves the others as they were.
LEMMA OthersKept ==
    ASSUME Inv, NEW c \in Calls, NEW d \in Calls \ {c},
           db' = db, used \subseteq used',
           pc'[d] = pc[d], req'[d] = req[d], todo'[d] = todo[d], loaded'[d] = loaded[d],
           written'[d] = written[d], counted'[d] = counted[d], stale'[d] = stale[d],
           \A e \in Calls, i \in used : Creating(e, i)' => Creating(e, i)
    PROVE  CallOK(d)'
<1>1. CallOK(d)
  BY DEF Inv
<1>2. \A i : Settled(i) => Settled(i)'
  BY DEF Settled
<1>3. CreateOK(d) => CreateOK(d)'
  BY DEF CreateOK, Exists, OwnerKnown
<1>4. HasLoaded(d) => HasLoaded(d)'
  BY DEF HasLoaded, Exists
<1>5. Passed(d) => Passed(d)'
  BY <1>2, <1>4 DEF Passed, Exists, OwnerKnown
<1>6. ChangedAttributes(d)' = ChangedAttributes(d)
  BY DEF ChangedAttributes, SetAttributes
<1>7. QED
  BY <1>1, <1>3, <1>5, <1>6 DEF CallOK

LEMMA EndKeeps ==
    ASSUME Inv, NEW c \in Calls, End(c)
    PROVE  Inv'
<1>1. Domains' /\ Tables'
  BY DEF Inv, Domains, Tables, End, Close, Exists
<1>2. \A d \in Calls, j \in Ids : Creating(d, j)' => Creating(d, j)
  BY DEF Inv, Domains, End, Close, Creating, NoRequest
<1>3. Apart'
  BY <1>2 DEF Inv, Apart
<1>4. ASSUME NEW d \in Calls PROVE CallOK(d)'
  <2>1. CASE d # c
    BY <1>2, <2>1, OthersKept DEF Inv, Domains, Tables, End, Close
  <2>2. CASE d = c
    BY <2>2 DEF Inv, Domains, End, Close, CallOK
  <2>3. QED
    BY <2>1, <2>2
<1>5. QED
  BY <1>1, <1>3, <1>4 DEF Inv

LEMMA ArriveKeeps ==
    ASSUME Inv, NEW c \in Calls, Arrive(c)
    PROVE  Inv'
<1>1. PICK r \in Requests : /\ req' = [req EXCEPT ![c] = r]
                            /\ todo' = [todo EXCEPT ![c] = ToLoad(r)]
                            /\ used' = IF r.op = "create" THEN used \cup {r.row} ELSE used
  BY DEF Arrive
<1>2. /\ pc[c] = "idle" /\ pc' = [pc EXCEPT ![c] = "loading"]
      /\ UNCHANGED <<db, loaded, written, counted, stale>>
  BY DEF Arrive
<1>3. RequestOK(r) /\ (r.op = "create" <=> r.row \notin used)
  BY RequestsOK
<1>4. Domains' /\ Tables'
  BY <1>1, <1>2, <1>3 DEF Inv, Domains, Tables, Exists, RequestOK
<1>5. \A d \in Calls, j \in Ids : Creating(d, j)' =>
          Creating(d, j) \/ (d = c /\ j = r.row /\ j \notin used)
  BY <1>1, <1>3 DEF Inv, Domains, Creating
<1>6. \A d \in Calls, j \in Ids : Creating(d, j) => j \in used
  BY CreatesOK DEF CreateOK
<1>7. Apart'
  BY <1>5, <1>6 DEF Inv, Apart
<1>8. ASSUME NEW d \in Calls PROVE CallOK(d)'
  <2>1. CASE d # c
    BY <1>1, <1>2, <1>5, <2>1, OthersKept DEF Inv, Domains, Tables
  <2>2. CASE d = c
    <3>1. /\ req'[c] = r /\ todo'[c] = ToLoad(r) /\ pc'[c] = "loading"
          /\ loaded'[c] = <<>> /\ stale'[c] = {} /\ written'[c] = <<>> /\ counted'[c] \in Nat
      BY <1>1, <1>2 DEF Inv, Domains, CallOK
    <3>2. ASSUME r.op = "create" PROVE CreateOK(c)'
      <4>1. r.row \in used' /\ ~ Exists(r.row)'
        BY <1>1, <1>2, <1>3, <3>2 DEF Inv, Tables, Exists, RequestOK
      <4>2. CASE r.row \in Mappings
        <5>1. PICK t \in Tags, s \in DemandSources : r.up = {t, s}
          BY <1>3, <3>2, <4>2, ParentsOK
        <5>2. \E x, y \in r.up : ToLoad(r) = <<x, y>>
          BY <3>2, <4>2, <5>1 DEF ToLoad
        <5>3. r.row \notin Creatives \cup Rules
          BY <4>2, AdministrationAssumption
        <5>4. QED
          BY <3>1, <4>1, <5>2, <5>3 DEF CreateOK
      <4>3. CASE r.row \notin Mappings
        <5>1. ToLoad(r) = IF r.up = {} THEN <<>> ELSE <<CHOOSE k \in r.up : TRUE>>
          BY <3>2, <4>3 DEF ToLoad
        <5>2. ToLoad(r) = <<>> \/ \E x \in r.up : ToLoad(r) = <<x>>
          BY <5>1
        <5>3. r.row \in Creatives \cup Rules =>
                  \E k \in Campaigns : r.up = {k} /\ ToLoad(r) = <<k>>
          BY <1>3, <3>2, <5>1, ParentsOK
        <5>4. QED
          BY <3>1, <4>1, <5>2, <5>3 DEF CreateOK, OwnerKnown
      <4>4. QED
        BY <4>2, <4>3
    <3>3. ASSUME r.op # "create" PROVE todo'[c] = <<r.row>> \/ Passed(c)'
      <4>1. CASE r.op = "list" /\ (r.as = Admin \/ r.row \in Advertisers)
        <5>1. ToLoad(r) = <<>>
          BY <4>1 DEF ToLoad
        <5>2. ~ Own(r) \/ r.row \notin Campaigns \cup Creatives \cup Rules
          BY <4>1, AdministrationAssumption DEF Own
        <5>3. QED
          BY <3>1, <4>1, <5>1, <5>2 DEF Passed
      <4>2. CASE ~ (r.op = "list" /\ (r.as = Admin \/ r.row \in Advertisers))
        BY <3>1, <3>3, <4>2 DEF ToLoad
      <4>3. QED
        BY <4>1, <4>2
    <3>4. QED
      BY <1>3, <2>2, <3>1, <3>2, <3>3 DEF CallOK
  <2>3. QED
    BY <2>1, <2>2
<1>9. QED
  BY <1>4, <1>7, <1>8 DEF Inv

LEMMA LoadKeeps ==
    ASSUME Inv, NEW c \in Calls, Load(c)
    PROVE  Inv'
<1> DEFINE i == Head(todo[c])
           next == IF i \in Creatives \cup Rules /\ req[c].as # Admin
                   THEN <<CHOOSE k \in db[i].up : TRUE>> ELSE Tail(todo[c])
<1>1. pc[c] = "loading" /\ todo[c] # <<>>
  BY DEF Load
<1>2. CASE ~ Exists(i) \/ Forbidden(c, i)
  BY <1>2, EndKeeps DEF Load
<1>3. CASE Exists(i) /\ ~ Forbidden(c, i)
  <2>1. /\ todo' = [todo EXCEPT ![c] = next]
        /\ loaded' = IF i = req[c].row THEN [loaded EXCEPT ![c] = db[i].col] ELSE loaded
        /\ stale' = IF i = req[c].row THEN [stale EXCEPT ![c] = {}] ELSE stale
        /\ UNCHANGED <<db, used, pc, req, written, counted, requests>>
    BY <1>3 DEF Load
  <2>2. Domains' /\ Tables' /\ Apart'
    BY <2>1 DEF Inv, Domains, Tables, Apart, Creating, Exists
  <2>3. CallOK(c) /\ RequestOK(req[c]) /\ written[c] = <<>>
    BY <1>1 DEF Inv, CallOK
  <2>4. /\ todo'[c] = next /\ req'[c] = req[c] /\ pc'[c] = pc[c]
        /\ written'[c] = <<>> /\ counted'[c] = counted[c]
        /\ i = req[c].row => loaded'[c] = db[i].col /\ stale'[c] = {}
        /\ i # req[c].row => loaded'[c] = loaded[c] /\ stale'[c] = stale[c]
    BY <2>1, <2>3 DEF Inv, Domains
  <2>5. i \in Campaigns /\ Own(req[c]) => req[c].as \in db[i].up
    BY <1>3, OwnersOK DEF Inv, Forbidden, Own
  <2>6. ASSUME req[c].op = "create" PROVE CreateOK(c)'
    <3>1. CreateOK(c)
      BY <1>1, <2>3, <2>6 DEF CallOK
    <3>2. i \in req[c].up
      BY <1>1, <3>1 DEF CreateOK
    <3>3. i # req[c].row /\ i \notin Creatives \cup Rules
      BY <2>3, <2>6, <3>2, ParentsOK, AdministrationAssumption
    <3>4. next = Tail(todo[c])
      BY <3>3
    <3>5. next = <<>> \/ \E x \in req[c].up : next = <<x>>
      <4>1. CASE \E x \in req[c].up : todo[c] = <<x>>
        BY <3>4, <4>1
      <4>2. CASE \E x, y \in req[c].up : todo[c] = <<x, y>>
        <5>1. PICK x \in req[c].up, y \in req[c].up : todo[c] = <<x, y>>
          BY <4>2
        <5>2. Tail(<<x, y>>) = <<y>>
          OBVIOUS
        <5>3. QED
          BY <3>4, <5>1, <5>2
      <4>3. QED
        BY <1>1, <3>1, <4>1, <4>2 DEF CreateOK
    <3>6. ASSUME Own(req[c]), req[c].row \in Creatives \cup Rules
          PROVE  \E k \in Campaigns : req[c].up = {k} /\ next = <<>> /\ req[c].as \in db[k].up
      <4>1. PICK k \in Campaigns : req[c].up = {k} /\ OwnerKnown(c, k)
        BY <3>1, <3>6 DEF CreateOK
      <4>2. todo[c] = <<k>> /\ i = k
        BY <1>1, <4>1 DEF OwnerKnown
      <4>3. QED
        BY <2>5, <3>4, <3>6, <4>1, <4>2
    <3>7. QED
      BY <2>1, <2>4, <3>1, <3>3, <3>5, <3>6 DEF CreateOK, Exists, OwnerKnown
  <2>7. ASSUME req[c].op # "create" PROVE Passed(c)'
    <3>1. \A d \in Calls, j \in Ids : Creating(d, j)' <=> Creating(d, j)
      BY <2>1 DEF Creating
    <3>2. CASE todo[c] = <<req[c].row>>
      <4>1. i = req[c].row /\ Fits(i, db[i]) /\ i \in used
        BY <1>3, <2>3, <3>2 DEF Inv, Tables, RequestOK
      <4>2. HasLoaded(c)'
        BY <1>3, <2>1, <2>4, <4>1 DEF HasLoaded, Exists, Fits
      <4>3. Settled(req[c].row)'
        <5>1. \A d \in Calls : ~ Creating(d, i)
          BY <1>3, CreatesOK DEF CreateOK
        <5>2. QED
          BY <2>1, <2>3, <3>1, <4>1, <5>1 DEF Settled, RequestOK
      <4>4. CASE Own(req[c]) /\ i \in Creatives \cup Rules
        <5>1. db[i].up \in References(i)
          BY <4>1 DEF Fits
        <5>2. PICK k \in Campaigns : db[i].up = {k}
          BY <4>4, <5>1, TableColumns
        <5>3. next = <<k>>
          BY <4>4, <5>2 DEF Own
        <5>4. i \notin Campaigns
          BY <4>4, AdministrationAssumption
        <5>5. req'[c].row = i /\ db'[i].up = {k} /\ OwnerKnown(c, k)'
          BY <2>1, <2>4, <4>1, <5>2, <5>3 DEF OwnerKnown
        <5>6. QED
          BY <2>1, <2>4, <4>1, <4>2, <4>3, <4>4, <5>4, <5>5 DEF Passed
      <4>5. CASE ~ (Own(req[c]) /\ i \in Creatives \cup Rules)
        <5>1. next = <<>>
          BY <3>2, <4>5 DEF Own
        <5>2. QED
          BY <2>1, <2>4, <2>5, <4>1, <4>2, <4>5, <5>1 DEF Passed
      <4>6. QED
        BY <4>4, <4>5
    <3>3. CASE todo[c] # <<req[c].row>>
      <4>1. Passed(c) /\ Own(req[c]) /\ req[c].row \in Creatives \cup Rules
        BY <1>1, <2>3, <2>7, <3>3 DEF CallOK, Passed
      <4>2. PICK k \in Campaigns : /\ Exists(req[c].row) => db[req[c].row].up = {k}
                                   /\ OwnerKnown(c, k)
        BY <4>1 DEF Passed
      <4>3. todo[c] = <<k>> /\ i = k
        BY <1>1, <4>2 DEF OwnerKnown
      <4>4. i # req[c].row /\ i \notin Creatives \cup Rules /\ req[c].row \notin Campaigns
        BY <4>1, <4>3, AdministrationAssumption
      <4>5. next = <<>> /\ req[c].as \in db[k].up
        BY <2>5, <4>1, <4>3, <4>4
      <4>6. Settled(req[c].row)'
        BY <2>1, <2>3, <3>1, <4>1 DEF Settled, Passed, RequestOK
      <4>7. HasLoaded(c) => HasLoaded(c)'
        BY <2>1, <2>4, <4>4 DEF HasLoaded, Exists
      <4>8. QED
        BY <2>1, <2>4, <4>1, <4>2, <4>4, <4>5, <4>6, <4>7 DEF Passed, OwnerKnown, Exists
    <3>4. QED
      BY <3>2, <3>3
  <2>8. ASSUME NEW d \in Calls PROVE CallOK(d)'
    <3>1. CASE d # c
      BY <2>1, <3>1, OthersKept DEF Inv, Domains, Creating
    <3>2. CASE d = c
      BY <1>1, <2>3, <2>4, <2>6, <2>7, <3>2 DEF CallOK
    <3>3. QED
      BY <3>1, <3>2
  <2>9. QED
    BY <2>2, <2>8 DEF Inv
<1>4. QED
  BY <1>2, <1>3

LEMMA CountKeeps ==
    ASSUME Inv, NEW c \in Calls, CountTotal(c)
    PROVE  Inv'
<1>1. /\ pc[c] = "loading" /\ todo[c] = <<>> /\ req[c].op = "account"
      /\ counted' = [counted EXCEPT ![c] = Cardinality(CampaignsOf(req[c].row))]
      /\ stale' = [stale EXCEPT ![c] = {}]
      /\ pc' = [pc EXCEPT ![c] = "counting"]
      /\ UNCHANGED <<db, used, req, todo, loaded, written, requests>>
  BY DEF CountTotal, Checked
<1>2. Cardinality(CampaignsOf(req[c].row)) \in Nat
  <2>1. CampaignsOf(req[c].row) \subseteq Campaigns
    BY DEF CampaignsOf
  <2>2. QED
    BY <2>1, AdministrationAssumption, FS_Subset, FS_CardinalityType
<1>3. Domains' /\ Tables' /\ Apart'
  BY <1>1 DEF Inv, Domains, Tables, Apart, Creating, Exists
<1>4. ASSUME NEW d \in Calls PROVE CallOK(d)'
  <2>1. CASE d # c
    BY <1>1, <2>1, OthersKept DEF Inv, Domains, Creating
  <2>2. CASE d = c
    <3>1. CallOK(c) /\ RequestOK(req[c])
      BY <1>1 DEF Inv, CallOK
    <3>2. Passed(c)
      BY <1>1, <3>1 DEF CallOK
    <3>3. Passed(c)'
      <4>1. req[c].row \notin Campaigns \cup Creatives \cup Rules
        BY <1>1, <3>1, AdministrationAssumption DEF RequestOK
      <4>2. QED
        BY <1>1, <4>1 DEF Passed
    <3>4. QED
      BY <1>1, <1>2, <2>2, <3>1, <3>3 DEF CallOK, Inv, Domains
  <2>3. QED
    BY <2>1, <2>2
<1>5. QED
  BY <1>3, <1>4 DEF Inv

LEMMA FlushKeeps ==
    ASSUME Inv, NEW c \in Calls, Flush(c)
    PROVE  Inv'
<1>1. CASE SlotTaken(c, ChangedAttributes(c))
  BY <1>1, EndKeeps DEF Flush
<1>2. CASE ~ SlotTaken(c, ChangedAttributes(c))
  <2>1. /\ pc[c] = "loading" /\ todo[c] = <<>>
        /\ req[c].op \in {"create", "update", "fund", "delete"}
        /\ written' = [written EXCEPT ![c] = ChangedAttributes(c)]
        /\ pc' = [pc EXCEPT ![c] = "flushed"]
        /\ UNCHANGED <<db, used, req, todo, loaded, counted, stale, requests>>
    BY <1>2 DEF Flush, Checked
  <2>2. Domains' /\ Tables' /\ Apart'
    BY <2>1 DEF Inv, Domains, Tables, Apart, Creating, Exists
  <2>3. ASSUME NEW d \in Calls PROVE CallOK(d)'
    <3>1. CASE d # c
      BY <2>1, <3>1, OthersKept DEF Inv, Domains, Creating
    <3>2. CASE d = c
      <4>1. CallOK(c)
        BY DEF Inv
      <4>2. CreateOK(c) => CreateOK(c)'
        BY <2>1 DEF CreateOK, OwnerKnown, Exists
      <4>3. Passed(c) => Passed(c)'
        BY <2>1 DEF Passed, HasLoaded, OwnerKnown, Exists, Settled, Creating
      <4>4. ChangedAttributes(c)' = ChangedAttributes(c)
        BY <2>1 DEF ChangedAttributes, SetAttributes
      <4>5. QED
        BY <2>1, <3>2, <4>1, <4>2, <4>3, <4>4 DEF CallOK, Inv, Domains
    <3>3. QED
      BY <3>1, <3>2
  <2>4. QED
    BY <2>2, <2>3 DEF Inv
<1>3. QED
  BY <1>1, <1>2

\* What a flush has written is of its row's columns.
LEMMA WrittenOK ==
    ASSUME Inv, NEW c \in Calls, pc[c] = "flushed"
    PROVE  /\ RequestOK(req[c]) /\ todo[c] = <<>> /\ written[c] = ChangedAttributes(c)
           /\ req[c].op = "create" => CreateOK(c)
           /\ req[c].op # "create" => Passed(c)
           /\ req[c].op \in {"update", "fund"} =>
                  HasLoaded(c) /\ req[c].row \notin Rules \cup Mappings
           /\ DOMAIN written[c] \subseteq Columns(req[c].row)
           /\ \A k \in DOMAIN written[c] : written[c][k] \in Nat
<1>1. CallOK(c)
  BY DEF Inv
<1>2. /\ RequestOK(req[c]) /\ todo[c] = <<>> /\ written[c] = ChangedAttributes(c)
      /\ req[c].op = "create" => CreateOK(c)
      /\ req[c].op # "create" => Passed(c)
      /\ req[c].op \in {"create", "update", "fund", "delete"}
  <2>1. /\ RequestOK(req[c]) /\ todo[c] = <<>> /\ written[c] = ChangedAttributes(c)
        /\ req[c].op = "create" => CreateOK(c)
        /\ req[c].op # "create" => todo[c] = <<req[c].row>> \/ Passed(c)
        /\ req[c].op \in {"create", "update", "fund", "delete"}
    BY <1>1 DEF CallOK
  <2>2. QED
    BY <2>1
<1>3. req[c].op \in {"update", "fund"} => HasLoaded(c) /\ req[c].row \notin Rules \cup Mappings
  BY <1>2, AdministrationAssumption DEF Passed, RequestOK
<1> DEFINE set == SetAttributes(c)
<1>4. DOMAIN set \subseteq Columns(req[c].row) /\ \A k \in DOMAIN set : set[k] \in Nat
  <2>1. CASE req[c].op = "fund"
    <3>1. "balance" \in Columns(req[c].row)
      BY <1>2, <2>1, TableColumns DEF RequestOK
    <3>2. loaded[c]["balance"] \in Nat
      BY <1>3, <2>1, <3>1 DEF HasLoaded
    <3>3. set = [k \in {"balance"} |-> loaded[c]["balance"] + 1]
      BY <2>1 DEF SetAttributes
    <3>4. QED
      BY <3>1, <3>2, <3>3
  <2>2. CASE req[c].op # "fund"
    <3>1. set = req[c].ask
      BY <2>2 DEF SetAttributes
    <3>2. CASE req[c].op = "create"
      BY <1>2, <3>1, <3>2 DEF RequestOK, Fits, Row
    <3>3. CASE req[c].op = "update"
      BY <1>2, <3>1, <3>3 DEF RequestOK
    <3>4. CASE req[c].op = "delete"
      BY <1>2, <3>1, <3>4 DEF RequestOK
    <3>5. QED
      BY <1>2, <2>2, <3>2, <3>3, <3>4
  <2>3. QED
    BY <2>1, <2>2
<1>5. /\ DOMAIN written[c] \subseteq DOMAIN set
      /\ \A k \in DOMAIN written[c] : written[c][k] = set[k]
  BY <1>2 DEF ChangedAttributes, Restrict
<1> HIDE DEF set
<1>6. QED
  BY <1>2, <1>3, <1>4, <1>5

\* What a commit does to the rows.
LEMMA CommitRows ==
    ASSUME Inv, NEW c \in Calls, Commit(c)
    PROVE  /\ \A i \in Ids \ {req[c].row} : db'[i] = db[i]
           /\ db'[req[c].row] = Committed(c) /\ DOMAIN db' = Ids
           /\ req[c].op = "create" => /\ ~ Exists(req[c].row) /\ db'[req[c].row] # NoRow
                                      /\ Fits(req[c].row, db'[req[c].row])
                                      /\ db'[req[c].row].up = req[c].up
           /\ req[c].op = "delete" => /\ req[c].row \in Rules \cup Mappings
                                      /\ db'[req[c].row] = NoRow
           /\ req[c].op \in {"update", "fund"} =>
                  /\ Exists(req[c].row) /\ db'[req[c].row] # NoRow
                  /\ Fits(req[c].row, db'[req[c].row])
                  /\ db'[req[c].row].up = db[req[c].row].up
                  /\ \A k \in Columns(req[c].row) :
                         db'[req[c].row].col[k] = IF k \in DOMAIN written[c] THEN written[c][k]
                                                  ELSE db[req[c].row].col[k]
           /\ req[c].op \in {"create", "update", "fund", "delete"}
<1> DEFINE i == req[c].row
<1>1. pc[c] = "flushed" /\ db' = [db EXCEPT ![i] = Committed(c)]
  BY DEF Commit
<1>2. RequestOK(req[c]) /\ i \in Ids /\ req[c].op \in {"create", "update", "fund", "delete"}
  BY <1>1, WrittenOK DEF Inv, CallOK, RequestOK
<1>3. /\ \A j \in Ids \ {i} : db'[j] = db[j]
      /\ db'[i] = Committed(c) /\ DOMAIN db' = Ids
  BY <1>1, <1>2 DEF Inv, Domains
<1> HIDE DEF i
<1>4. CASE req[c].op = "create"
  <2>1. ~ Exists(i)
    BY <1>1, <1>4, WrittenOK DEF CreateOK, i
  <2>2. Committed(c) = Row(req[c].up, req[c].ask)
    BY <1>4 DEF Committed
  <2>3. Fits(i, db'[i]) /\ db'[i].up = req[c].up
    BY <1>2, <1>3, <1>4, <2>2 DEF RequestOK, Row, i
  <2>4. db'[i] # NoRow
    BY <1>2, <2>3, RowsShow
  <2>5. QED
    BY <1>2, <1>3, <1>4, <2>1, <2>3, <2>4 DEF Exists, i
<1>5. CASE req[c].op = "delete"
  <2>1. i \in Rules \cup Mappings /\ Committed(c) = NoRow
    BY <1>2, <1>5 DEF RequestOK, Committed, i
  <2>2. QED
    BY <1>2, <1>3, <1>5, <2>1 DEF Exists, i
<1>6. CASE req[c].op \in {"update", "fund"}
  <2>1. Exists(i) /\ Fits(i, db[i])
    BY <1>1, <1>2, <1>6, WrittenOK DEF Inv, Tables, HasLoaded, i
  <2>2. db[i] = [up |-> db[i].up, col |-> db[i].col] /\ db[i].up \in References(i)
        /\ db[i].col \in [Columns(i) -> Nat]
    BY <2>1 DEF Fits
  <2> DEFINE col == [k \in Columns(i) |-> IF k \in DOMAIN written[c] THEN written[c][k]
                                          ELSE db[i].col[k]]
  <2>3. Committed(c) = [db[i] EXCEPT !.col = col]
    BY <1>6, <2>2 DEF Committed, i
  <2>4. db'[i].up = db[i].up /\ db'[i].col = col /\ db'[i] = [up |-> db[i].up, col |-> col]
    BY <1>3, <2>2, <2>3
  <2>5. col \in [Columns(i) -> Nat]
    BY <1>1, <2>2, WrittenOK DEF i
  <2>6. Fits(i, db'[i])
    BY <2>2, <2>4, <2>5 DEF Fits
  <2>7. db'[i] # NoRow
    BY <1>2, <2>6, RowsShow
  <2>8. QED
    BY <1>2, <1>3, <1>6, <2>1, <2>4, <2>6, <2>7 DEF Exists, i
<1>7. QED
  BY <1>2, <1>4, <1>5, <1>6

LEMMA RowsStay ==
    ASSUME Inv, NEW c \in Calls, Commit(c), NEW i \in Ids
    PROVE  /\ Exists(i) /\ i \notin Rules \cup Mappings => Exists(i)' /\ db'[i].up = db[i].up
           /\ Exists(i)' => Creating(c, i) \/ (Exists(i) /\ db'[i].up = db[i].up)
           /\ Exists(i) /\ Exists(i)' => \A k \in Columns(i) :
                  \/ db'[i].col[k] = db[i].col[k]
                  \/ i = req[c].row /\ k \in DOMAIN written[c]
           /\ Exists(i)' => Fits(i, db'[i]) /\ i \in used
<1>1. CASE i # req[c].row
  <2>1. db'[i] = db[i]
    BY <1>1, CommitRows
  <2>2. QED
    BY <2>1 DEF Exists, Inv, Tables
<1>2. CASE i = req[c].row
  <2>1. CASE req[c].op = "create"
    <3>1. ~ Exists(i) /\ Creating(c, i) /\ Fits(i, db'[i])
      BY <1>2, <2>1, CommitRows DEF Creating
    <3>2. i \in used
      BY <3>1, CreatesOK DEF CreateOK
    <3>3. QED
      BY <3>1, <3>2
  <2>2. CASE req[c].op = "delete"
    BY <1>2, <2>2, CommitRows DEF Exists
  <2>3. CASE req[c].op \in {"update", "fund"}
    <3>1. Exists(i) /\ Exists(i)' /\ Fits(i, db'[i]) /\ db'[i].up = db[i].up
      BY <1>2, <2>3, CommitRows DEF Exists
    <3>2. \A k \in Columns(i) : db'[i].col[k] = db[i].col[k] \/ k \in DOMAIN written[c]
      BY <1>2, <2>3, CommitRows
    <3>3. QED
      BY <1>2, <3>1, <3>2 DEF Inv, Tables
  <2>4. QED
    BY <2>1, <2>2, <2>3, CommitRows
<1>3. QED
  BY <1>1, <1>2

LEMMA CommitKeeps ==
    ASSUME Inv, NEW c \in Calls, Commit(c)
    PROVE  Inv'
<1>1. /\ pc[c] = "flushed" /\ Close(c) /\ UNCHANGED <<used, requests>>
      /\ stale' = [d \in Calls |-> IF d = c THEN {} ELSE stale[d] \cup Touched(c, d)]
  BY DEF Commit
<1>2. Domains' /\ Tables'
  <2>1. Domains'
    BY <1>1, CommitRows DEF Inv, Domains, Close
  <2>2. Tables'
    BY <1>1, RowsStay DEF Inv, Tables
  <2>3. QED
    BY <2>1, <2>2
<1>3. \A d \in Calls, j \in Ids : Creating(d, j)' => Creating(d, j) /\ d # c
  BY <1>1 DEF Inv, Domains, Close, Creating, NoRequest
<1>4. Apart'
  BY <1>3 DEF Inv, Apart
<1>5. CallOK(c)'
  BY <1>1 DEF Inv, Domains, Close, CallOK
<1>6. ASSUME NEW d \in Calls \ {c} PROVE CallOK(d)'
  <2>1. CallOK(d)
    BY DEF Inv
  <2>2. /\ pc'[d] = pc[d] /\ req'[d] = req[d] /\ todo'[d] = todo[d] /\ loaded'[d] = loaded[d]
        /\ written'[d] = written[d] /\ counted'[d] = counted[d] /\ used' = used
        /\ stale'[d] = stale[d] \cup Touched(c, d)
    BY <1>1 DEF Inv, Domains, Close
  <2>3. CASE pc[d] = "idle"
    <3>1. Touched(c, d) = {}
      BY <2>3 DEF Touched
    <3>2. QED
      BY <2>1, <2>2, <2>3, <3>1 DEF CallOK
  <2>4. CASE pc[d] # "idle"
    <3> DEFINE i == req[d].row
    <3>1. RequestOK(req[d]) /\ i \in Ids
      BY <2>1, <2>4 DEF CallOK, RequestOK
    <3>2. stale'[d] \subseteq Columns(i) \cup {"new"}
      <4>1. i = req[c].row => DOMAIN written[c] \subseteq Columns(i)
        BY <1>1, WrittenOK
      <4>2. Touched(c, d) \subseteq Columns(i) \cup {"new"}
        BY <4>1 DEF Touched
      <4>3. QED
        BY <2>1, <2>2, <2>4, <4>2 DEF CallOK
    <3>3. \A k \in Campaigns : OwnerKnown(d, k) => OwnerKnown(d, k)'
      <4> SUFFICES ASSUME NEW k \in Campaigns, req[d].as \in db[k].up
                   PROVE  req[d].as \in db'[k].up
        BY <2>2 DEF OwnerKnown
      <4>1. Exists(k) /\ k \in Ids /\ k \notin Rules \cup Mappings
        BY AdministrationAssumption DEF Exists, NoRow, Ids
      <4>2. QED
        BY <4>1, RowsStay
    <3>4. ASSUME req[d].op = "create" PROVE CreateOK(d)'
      <4>1. CreateOK(d) /\ Creating(d, i) /\ ~ Creating(c, i)
        BY <2>1, <2>4, <3>1, <3>4 DEF CallOK, Inv, Apart, Creating
      <4>2. ~ Exists(i)
        BY <4>1 DEF CreateOK
      <4> HIDE DEF i
      <4>3. db'[i] = NoRow
        BY <3>1, <4>1, <4>2, RowsStay DEF Exists
      <4> USE DEF i
      <4>4. QED
        BY <2>2, <3>3, <4>1, <4>3 DEF CreateOK, Exists
    <3>5. ASSUME req[d].op # "create", Passed(d) PROVE Passed(d)'
      <4>1. ASSUME req[d].op \in {"update", "fund"} PROVE HasLoaded(d)'
        <5>1. HasLoaded(d) /\ i \notin Rules \cup Mappings
          BY <3>1, <3>5, <4>1, AdministrationAssumption DEF Passed, RequestOK
        <5>2. Exists(i) /\ db'[i] # NoRow /\ \A k \in Columns(i) :
                  \/ db'[i].col[k] = db[i].col[k]
                  \/ i = req[c].row /\ k \in DOMAIN written[c]
          <6>1. Exists(i)
            BY <5>1 DEF HasLoaded
          <6> HIDE DEF i
          <6>2. db'[i] # NoRow
            BY <3>1, <5>1, <6>1, RowsStay DEF Exists
          <6>3. QED
            BY <3>1, <6>1, <6>2, RowsStay DEF Exists
        <5>3. i = req[c].row => DOMAIN written[c] \subseteq stale'[d]
          BY <2>2, <2>4 DEF Touched
        <5>4. QED
          BY <2>2, <5>1, <5>2, <5>3 DEF HasLoaded, Exists
      <4>2. ASSUME Own(req[d]), i \in Campaigns PROVE req[d].as \in db'[i].up
        <5>1. req[d].as \in db[i].up
          BY <3>5, <4>2 DEF Passed
        <5>2. Exists(i) /\ i \notin Rules \cup Mappings
          BY <4>2, <5>1, AdministrationAssumption DEF Exists, NoRow
        <5> HIDE DEF i
        <5>3. QED
          BY <3>1, <5>1, <5>2, RowsStay
      <4>3. ASSUME Own(req[d]), i \in Creatives \cup Rules
            PROVE  /\ Settled(i)'
                   /\ \E k \in Campaigns : /\ db'[i] # NoRow => db'[i].up = {k}
                                           /\ OwnerKnown(d, k)'
        <5>1. Settled(i)
          BY <3>5, <4>3 DEF Passed
        <5>2. PICK k \in Campaigns : (Exists(i) => db[i].up = {k}) /\ OwnerKnown(d, k)
          BY <3>5, <4>3 DEF Passed
        <5>3. ~ Creating(c, i)
          BY <5>1 DEF Settled
        <5>4. db'[i] # NoRow => db'[i].up = {k}
          <6> HIDE DEF i
          <6>1. QED
            BY <3>1, <5>2, <5>3, RowsStay DEF Exists
        <5>5. Settled(i)'
          BY <1>3, <2>2, <3>1, <5>1 DEF Settled
        <5>6. QED
          BY <3>3, <5>2, <5>4, <5>5
      <4>4. QED
        BY <2>2, <3>5, <4>1, <4>2, <4>3 DEF Passed, Exists
    <3>6. ChangedAttributes(d)' = ChangedAttributes(d)
      BY <2>2 DEF ChangedAttributes, SetAttributes
    <3>7. QED
      BY <2>1, <2>2, <2>4, <3>1, <3>2, <3>4, <3>5, <3>6 DEF CallOK
  <2>5. QED
    BY <2>3, <2>4
<1>7. QED
  BY <1>2, <1>4, <1>5, <1>6 DEF Inv

LEMMA NextInv == Inv /\ [Next]_vars => Inv'
<1> SUFFICES ASSUME Inv, [Next]_vars PROVE Inv'
  OBVIOUS
<1>1. ASSUME NEW c \in Calls, Arrive(c) PROVE Inv'
  BY <1>1, ArriveKeeps
<1>2. ASSUME NEW c \in Calls, Load(c) PROVE Inv'
  BY <1>2, LoadKeeps
<1>3. ASSUME NEW c \in Calls, Show(c) PROVE Inv'
  BY <1>3, EndKeeps DEF Show
<1>4. ASSUME NEW c \in Calls, CountTotal(c) PROVE Inv'
  BY <1>4, CountKeeps
<1>5. ASSUME NEW c \in Calls, ShowAccount(c) PROVE Inv'
  BY <1>5, EndKeeps DEF ShowAccount
<1>6. ASSUME NEW c \in Calls, Flush(c) PROVE Inv'
  BY <1>6, FlushKeeps
<1>7. ASSUME NEW c \in Calls, Commit(c) PROVE Inv'
  BY <1>7, CommitKeeps
<1>8. ASSUME NEW c \in Calls, Rollback(c) PROVE Inv'
  BY <1>8, EndKeeps DEF Rollback
<1>9. CASE UNCHANGED vars
  <2>1. Domains' /\ Tables' /\ Apart'
    BY <1>9 DEF vars, Inv, Domains, Tables, Apart, Creating, Exists
  <2>2. ASSUME NEW d \in Calls PROVE CallOK(d)'
    <3>1. CallOK(d)
      BY DEF Inv
    <3>2. CreateOK(d)' = CreateOK(d) /\ Passed(d)' = Passed(d)
          /\ ChangedAttributes(d)' = ChangedAttributes(d)
      BY <1>9 DEF vars, CreateOK, Passed, HasLoaded, OwnerKnown, Exists, Settled, Creating,
                  ChangedAttributes, SetAttributes
    <3>3. QED
      BY <1>9, <3>1, <3>2 DEF vars, CallOK
  <2>3. QED
    BY <2>1, <2>2 DEF Inv
<1>10. QED
  BY <1>1, <1>2, <1>3, <1>4, <1>5, <1>6, <1>7, <1>8, <1>9 DEF Next, Step

\* Every reachable state satisfies it.
LEMMA Invariance == Spec => []Inv
<1>1. Init => Inv
  BY InitInv
<1>2. Inv /\ [Next]_vars => Inv'
  BY NextInv
<1>3. QED
  BY <1>1, <1>2, PTL DEF Spec

\* Rows have the columns of their tables and refer to rows of the right ones, and what a
\* call holds of its row is of that row's columns.
THEOREM TypeCorrect == Spec => []TypeOK
<1>1. Inv => TypeOK
  <2> SUFFICES ASSUME Inv PROVE TypeOK
    OBVIOUS
  <2>1. ASSUME NEW c \in Calls
        PROVE  /\ DOMAIN written[c] \subseteq Columns(req[c].row)
               /\ counted[c] \in Nat
               /\ stale[c] \subseteq Columns(req[c].row) \cup {"new"}
    <3>1. CallOK(c)
      BY DEF Inv
    <3>2. CASE pc[c] = "flushed"
      BY <3>1, <3>2, WrittenOK DEF CallOK
    <3>3. CASE pc[c] # "flushed"
      BY <3>1, <3>3 DEF CallOK
    <3>4. QED
      BY <3>2, <3>3
  <2>2. QED
    BY <2>1 DEF Inv, Domains, Tables, TypeOK
<1>2. QED
  BY <1>1, Invariance, PTL

-----------------------------------------------------------------------------
(* Slots.                                                                    *)

\* No step but a flush takes a slot, and none but a commit changes one.
LEMMA SlotsKept ==
    ASSUME Inv, SlotInv, db' = db,
           \A d \in Calls : Takes(d)' => /\ Takes(d) /\ req'[d] = req[d]
                                         /\ written'[d] = written[d]
    PROVE  SlotInv'
BY DEF SlotInv, SlotsUnique, Exists

LEMMA FlushSlots ==
    ASSUME Inv, SlotInv, NEW c \in Calls, Flush(c)
    PROVE  SlotInv'
<1> DEFINE w == ChangedAttributes(c)
<1>1. CASE SlotTaken(c, w)
  <2>1. End(c)
    BY <1>1 DEF Flush
  <2>2. QED
    BY <2>1, SlotsKept DEF Inv, Domains, End, Close, Takes
<1>2. CASE ~ SlotTaken(c, w)
  <2>1. /\ ~ SlotUnsettled(c, w)
        /\ written' = [written EXCEPT ![c] = w] /\ pc' = [pc EXCEPT ![c] = "flushed"]
        /\ UNCHANGED <<db, req>>
    BY <1>2 DEF Flush
  <2> HIDE DEF w
  <2>2. \A d \in Calls \ {c} : /\ written'[d] = written[d] /\ pc'[d] = pc[d]
                               /\ Takes(d)' <=> Takes(d)
    BY <2>1 DEF Inv, Domains, Takes
  <2>3. written'[c] = w /\ req'[c] = req[c]
    BY <2>1 DEF Inv, Domains
  <2>4. ASSUME Takes(c)'
        PROVE  /\ \A t \in Tags \ {req[c].row} : Exists(t) => db[t].col["slot_id"] # w["slot_id"]
               /\ \A d \in Calls \ {c} : Takes(d) => written[d]["slot_id"] # w["slot_id"]
    <3>1. Slot(w) = {w["slot_id"]}
      BY <2>3, <2>4 DEF Slot, Takes
    <3>2. QED
      BY <1>2, <2>1, <3>1 DEF SlotTaken, SlotUnsettled, Takes
  <2>5. SlotsUnique'
    BY <2>1 DEF SlotInv, SlotsUnique, Exists
  <2>6. ASSUME NEW d \in Calls, Takes(d)'
        PROVE  /\ \A t \in Tags \ {req'[d].row} :
                      Exists(t)' => db'[t].col["slot_id"] # written'[d]["slot_id"]
               /\ \A e \in Calls \ {d} :
                      Takes(e)' => written'[e]["slot_id"] # written'[d]["slot_id"]
    <3>1. CASE d = c
      BY <2>1, <2>2, <2>3, <2>4, <2>6, <3>1 DEF Exists
    <3>2. CASE d # c
      <4>1. Takes(d) /\ written'[d] = written[d] /\ req'[d] = req[d]
        BY <2>1, <2>2, <2>6, <3>2
      <4>2. Takes(c)' => w["slot_id"] # written[d]["slot_id"]
        BY <2>4, <3>2, <4>1
      <4>3. QED
        BY <2>1, <2>2, <2>3, <4>1, <4>2 DEF SlotInv, Exists
    <3>3. QED
      BY <3>1, <3>2
  <2>7. QED
    BY <2>5, <2>6 DEF SlotInv
<1>3. QED
  BY <1>1, <1>2

LEMMA CommitSlots ==
    ASSUME Inv, SlotInv, NEW c \in Calls, Commit(c)
    PROVE  SlotInv'
<1> DEFINE i == req[c].row
           w == written[c]
<1>1. pc[c] = "flushed" /\ Tags \subseteq Ids
  BY DEF Commit, Ids
<1>2. ~ Takes(c)' /\ \A d \in Calls \ {c} : /\ Takes(d)' <=> Takes(d)
                                            /\ written'[d] = written[d] /\ req'[d] = req[d]
  BY DEF Inv, Domains, Commit, Close, Takes
\* The slot of a tag is the one the call took, or the one it had.
<1>3. ASSUME NEW t \in Tags, Exists(t)'
      PROVE  \/ t = i /\ Takes(c) /\ db'[t].col["slot_id"] = w["slot_id"]
             \/ Exists(t) /\ db'[t].col["slot_id"] = db[t].col["slot_id"]
  <2>1. "slot_id" \in Columns(t)
    BY TableColumns
  <2>2. CASE t # i
    <3>1. db'[t] = db[t]
      BY <1>1, <2>2, CommitRows
    <3>2. QED
      BY <1>3, <3>1 DEF Exists
  <2>3. CASE t = i /\ req[c].op = "create"
    <3>1. w = ChangedAttributes(c) /\ RequestOK(req[c]) /\ loaded[c] = <<>>
      BY <1>1, <2>3, WrittenOK DEF CreateOK
    <3>2. req[c].ask \in [Columns(i) -> Nat]
      BY <2>3, <3>1 DEF RequestOK, Fits, Row
    <3>3. SetAttributes(c) = req[c].ask
      BY <2>3 DEF SetAttributes
    <3>4. "slot_id" \in DOMAIN w /\ w["slot_id"] = req[c].ask["slot_id"]
      BY <2>1, <2>3, <3>1, <3>2, <3>3 DEF ChangedAttributes, Restrict
    <3>5. db'[i] = Row(req[c].up, req[c].ask)
      BY <2>3, CommitRows DEF Committed
    <3>6. QED
      BY <1>1, <2>3, <3>4, <3>5 DEF Takes, Row
  <2>4. CASE t = i /\ req[c].op \in {"update", "fund"}
    <3>1. /\ Exists(t)
          /\ db'[t].col["slot_id"] = IF "slot_id" \in DOMAIN w THEN w["slot_id"]
                                     ELSE db[t].col["slot_id"]
      BY <2>1, <2>4, CommitRows
    <3>2. QED
      BY <1>1, <2>4, <3>1 DEF Takes
  <2>5. CASE t = i /\ req[c].op = "delete"
    BY <1>3, <2>5, CommitRows DEF Exists
  <2>6. QED
    BY <2>2, <2>3, <2>4, <2>5, CommitRows
<1>4. SlotsUnique'
  <2> SUFFICES ASSUME NEW t \in Tags, NEW u \in Tags, Exists(t)', Exists(u)', t # u
               PROVE  db'[t].col["slot_id"] # db'[u].col["slot_id"]
    BY DEF SlotsUnique
  <2> HIDE DEF i
  <2>1. CASE t # i /\ u # i
    BY <1>3, <2>1 DEF SlotInv, SlotsUnique
  <2>2. CASE t = i
    BY <1>3, <2>2 DEF SlotInv, SlotsUnique, i
  <2>3. CASE u = i
    BY <1>3, <2>3 DEF SlotInv, SlotsUnique, i
  <2>4. QED
    BY <2>1, <2>2, <2>3
<1>5. ASSUME NEW d \in Calls, Takes(d)'
      PROVE  /\ \A t \in Tags \ {req'[d].row} :
                    Exists(t)' => db'[t].col["slot_id"] # written'[d]["slot_id"]
             /\ \A e \in Calls \ {d} :
                    Takes(e)' => written'[e]["slot_id"] # written'[d]["slot_id"]
  <2>1. d # c /\ Takes(d) /\ written'[d] = written[d] /\ req'[d] = req[d]
    BY <1>2, <1>5
  <2>2. ASSUME NEW t \in Tags \ {req[d].row}, Exists(t)'
        PROVE  db'[t].col["slot_id"] # written[d]["slot_id"]
    <3>1. CASE t = i /\ Takes(c) /\ db'[t].col["slot_id"] = w["slot_id"]
      BY <2>1, <3>1 DEF SlotInv
    <3>2. CASE Exists(t) /\ db'[t].col["slot_id"] = db[t].col["slot_id"]
      BY <2>1, <2>2, <3>2 DEF SlotInv
    <3>3. QED
      BY <1>3, <2>2, <3>1, <3>2
  <2>3. \A e \in Calls \ {d} : Takes(e)' => written'[e]["slot_id"] # written[d]["slot_id"]
    BY <1>2, <2>1 DEF SlotInv
  <2>4. QED
    BY <2>1, <2>2, <2>3
<1>6. QED
  BY <1>4, <1>5 DEF SlotInv

LEMMA NextSlots == Inv /\ SlotInv /\ [Next]_vars => SlotInv'
<1> SUFFICES ASSUME Inv, SlotInv, [Next]_vars PROVE SlotInv'
  OBVIOUS
<1>1. ASSUME NEW c \in Calls, End(c) PROVE SlotInv'
  BY <1>1, SlotsKept DEF Inv, Domains, End, Close, Takes
<1>2. ASSUME NEW c \in Calls, Arrive(c) PROVE SlotInv'
  BY <1>2, SlotsKept DEF Inv, Domains, Arrive, Takes
<1>3. ASSUME NEW c \in Calls, Load(c) PROVE SlotInv'
  BY <1>1, <1>3, SlotsKept DEF Load, Takes
<1>4. ASSUME NEW c \in Calls, CountTotal(c) PROVE SlotInv'
  BY <1>4, SlotsKept DEF Inv, Domains, CountTotal, Takes
<1>5. ASSUME NEW c \in Calls, Flush(c) PROVE SlotInv'
  BY <1>5, FlushSlots
<1>6. ASSUME NEW c \in Calls, Commit(c) PROVE SlotInv'
  BY <1>6, CommitSlots
<1>7. CASE UNCHANGED vars
  BY <1>7, SlotsKept DEF vars, Takes
<1>8. QED
  BY <1>1, <1>2, <1>3, <1>4, <1>5, <1>6, <1>7 DEF Next, Step, Show, ShowAccount, Rollback

\* No two supply tags ever answer to one slot: a flush waits for whoever takes or gives
\* up the slot it wants, and fails when it is taken.
THEOREM SlotsStayUnique == Spec => []SlotsUnique
<1>1. Init => SlotInv
  BY InitInv
<1>2. Inv /\ SlotInv /\ [Next]_vars => SlotInv'
  BY NextSlots
<1>3. SlotInv => SlotsUnique
  BY DEF SlotInv
<1>4. QED
  BY <1>1, <1>2, <1>3, Invariance, PTL DEF Spec

-----------------------------------------------------------------------------
(* Edits, deposits and whose rows a call touches.                            *)

LEMMA DepositStep ==
    ASSUME Inv, NEW c \in Calls, Commit(c), req[c].op = "fund"
    PROVE  \/ db'[req[c].row].col["balance"] = db[req[c].row].col["balance"] + 1
           \/ "balance" \in stale[c]
<1>1. pc[c] = "flushed"
  BY DEF Commit
<1>2. /\ RequestOK(req[c]) /\ HasLoaded(c) /\ written[c] = ChangedAttributes(c)
      /\ "balance" \in Columns(req[c].row)
  BY <1>1, WrittenOK, TableColumns DEF RequestOK
<1>3. /\ loaded[c]["balance"] \in Nat
      /\ "balance" \in stale[c] \/ db[req[c].row].col["balance"] = loaded[c]["balance"]
  BY <1>2 DEF HasLoaded
<1>4. SetAttributes(c) = [k \in {"balance"} |-> loaded[c]["balance"] + 1]
  BY DEF SetAttributes
<1>5. "balance" \in DOMAIN written[c] /\ written[c]["balance"] = loaded[c]["balance"] + 1
  BY <1>2, <1>3, <1>4 DEF ChangedAttributes, Restrict
<1>6. QED
  BY <1>2, <1>3, <1>5, CommitRows

\* A deposit is never lost unless another call wrote the balance in between.
THEOREM DepositsCount == Spec => DepositsAdd
<1>1. Inv => \A c \in Calls : Commit(c) /\ req[c].op = "fund" =>
                 \/ db'[req[c].row].col["balance"] = db[req[c].row].col["balance"] + 1
                 \/ "balance" \in stale[c]
  BY DepositStep
<1>2. QED
  BY <1>1, Invariance, PTL DEF DepositsAdd

LEMMA EditStep ==
    ASSUME Inv, NEW c \in Calls, Commit(c), req[c].op = "update", NEW k \in Columns(req[c].row)
    PROVE  IF k \in DOMAIN req[c].ask
           THEN \/ db'[req[c].row].col[k] = req[c].ask[k]
                \/ req[c].ask[k] = loaded[c][k] /\ k \in stale[c]
           ELSE db'[req[c].row].col[k] = db[req[c].row].col[k]
<1>1. pc[c] = "flushed"
  BY DEF Commit
<1>2. HasLoaded(c) /\ written[c] = ChangedAttributes(c)
  BY <1>1, WrittenOK
<1>3. SetAttributes(c) = req[c].ask
  BY DEF SetAttributes
<1>4. /\ k \in DOMAIN written[c] <=> k \in DOMAIN req[c].ask /\ req[c].ask[k] # loaded[c][k]
      /\ k \in DOMAIN written[c] => written[c][k] = req[c].ask[k]
  BY <1>2, <1>3 DEF ChangedAttributes, Restrict, HasLoaded
<1>5. db'[req[c].row].col[k] = IF k \in DOMAIN written[c] THEN written[c][k]
                               ELSE db[req[c].row].col[k]
  BY CommitRows
<1>6. k \in stale[c] \/ db[req[c].row].col[k] = loaded[c][k]
  BY <1>2 DEF HasLoaded
<1>7. QED
  BY <1>4, <1>5, <1>6

\* Edits of one row at the same time keep each other's columns.
THEOREM EditsStay == Spec => EditsAreKept
<1>1. Inv => \A c \in Calls : Commit(c) /\ req[c].op = "update" =>
           \A k \in Columns(req[c].row) :
               LET new == db'[req[c].row].col[k]
               IN IF k \in DOMAIN req[c].ask
                  THEN new = req[c].ask[k] \/ (req[c].ask[k] = loaded[c][k] /\ k \in stale[c])
                  ELSE new = db[req[c].row].col[k]
  BY EditStep
<1>2. QED
  BY <1>1, Invariance, PTL DEF EditsAreKept

LEMMA ShownOwn ==
    ASSUME Inv, NEW c \in Calls, Show(c), Own(req[c]), NEW i \in Shown(c)
    PROVE  Belongs(i, req[c].as)
<1>1. /\ pc[c] = "loading" /\ todo[c] = <<>> /\ req[c].op \in {"get", "list"}
      /\ CallOK(c)
  BY DEF Show, Checked, Inv
<1>2. Passed(c) /\ RequestOK(req[c])
  BY <1>1 DEF CallOK
<1>3. \/ req[c].row \in Advertisers /\ req[c].row = req[c].as
      \/ req[c].row \in Campaigns /\ req[c].as \in db[req[c].row].up
  BY <1>1, <1>2 DEF RequestOK, Passed
<1>4. i = req[c].row \/ req[c].row \in db[i].up
  BY DEF Shown, Under
<1>5. QED
  BY <1>3, <1>4 DEF Belongs

LEMMA WrittenOwn ==
    ASSUME Inv, NEW c \in Calls, Commit(c), NEW a \in Advertisers, req[c].as = a,
           NEW i \in Ids, req[c].row = i
    PROVE  Belongs(i, a) \/ Belongs(i, a)' \/ db'[i] = db[i]
<1>1. pc[c] = "flushed" /\ Own(req[c])
  BY AdministrationAssumption DEF Commit, Own
<1>2. /\ RequestOK(req[c]) /\ todo[c] = <<>>
      /\ req[c].op = "create" => CreateOK(c)
      /\ req[c].op # "create" => Passed(c)
  BY <1>1, WrittenOK
<1>3. i \in UNION {Advertisers, Campaigns, Creatives, Rules} /\ (i \in Advertisers => i = a)
  BY <1>1, <1>2 DEF RequestOK, Ids
<1>4. CASE i \in Advertisers
  BY <1>3, <1>4 DEF Belongs
<1>5. CASE i \in Campaigns
  <2>1. CASE req[c].op = "create"
    <3>1. db'[i].up = {a}
      BY <1>1, <1>2, <1>5, <2>1, CommitRows DEF RequestOK
    <3>2. QED
      BY <3>1 DEF Belongs
  <2>2. CASE req[c].op # "create"
    BY <1>1, <1>2, <1>5, <2>2 DEF Passed, Belongs
  <2>3. QED
    BY <2>1, <2>2
<1>6. CASE i \in Creatives \cup Rules
  <2>1. CASE req[c].op = "create"
    <3>1. PICK k \in Campaigns : req[c].up = {k} /\ a \in db[k].up
      BY <1>1, <1>2, <1>6, <2>1 DEF CreateOK, OwnerKnown
    <3>2. db'[i].up = {k} /\ db'[k] = db[k]
      BY <1>6, <2>1, <3>1, CommitRows, AdministrationAssumption DEF Ids
    <3>3. QED
      BY <3>1, <3>2 DEF Belongs
  <2>2. CASE req[c].op # "create"
    <3>1. PICK k \in Campaigns : (Exists(i) => db[i].up = {k}) /\ a \in db[k].up
      BY <1>1, <1>2, <1>6, <2>2 DEF Passed, OwnerKnown
    <3>2. CASE Exists(i)
      BY <3>1, <3>2 DEF Belongs
    <3>3. CASE ~ Exists(i)
      BY <2>2, <3>3, CommitRows DEF Exists
    <3>4. QED
      BY <3>2, <3>3
  <2>3. QED
    BY <2>1, <2>2
<1>7. QED
  BY <1>3, <1>4, <1>5, <1>6

\* What the self-service API shows belongs to the advertiser who asked, and so does every
\* row it creates, changes or deletes, unless another call has deleted it before.
THEOREM OwnRows == Spec => OwnRowsOnly
<1>1. Inv => \A c \in Calls :
           /\ Show(c) /\ req[c].as # Admin => \A i \in Shown(c) : Belongs(i, req[c].as)
           /\ Commit(c) => \A i \in Ids, a \in Advertisers :
                  req[c].row = i /\ req[c].as = a =>
                      Belongs(i, a) \/ Belongs(i, a)' \/ db'[i] = db[i]
  BY ShownOwn, WrittenOwn DEF Own
<1>2. QED
  BY <1>1, Invariance, PTL DEF OwnRowsOnly
=============================================================================
