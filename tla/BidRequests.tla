---------------------------- MODULE BidRequests ----------------------------
(***************************************************************************)
(* What a partner is told of a viewer: how the query of a VAST tag becomes *)
(* an AdRequest, then a bid request, which is enriched, slimmed and sent,  *)
(* or the URL of a demand VAST tag; and how the bid request of an exchange *)
(* becomes the AdRequest of the local pipeline.                            *)
(*                                                                         *)
(* A value is the name of the parameter it came from, so that a value in   *)
(* the wrong place, or a default in the place of a value, shows.           *)
(***************************************************************************)
EXTENDS RequestFields, Integers, FiniteSets, FiniteSetsExt, TLC

CONSTANTS None,         \* not given, or an empty string
          Zero,         \* the number 0
          Junk,         \* a text that is no number, no list, or an unresolved macro
          Empty,        \* an empty list
          Queries,      \* queries of the VAST tag, see QueryType
          Inbounds,     \* bid requests of an exchange, see IsInbound
          Worlds        \* see World

QueryType ==
    {q \in [Params -> Params \cup {None, Zero, Junk}] : \A p \in Params :
        q[p] \in {p, None} \cup (IF p \in Numbers THEN {Zero} ELSE {})
                           \cup (IF p \in Parsed THEN {Junk} ELSE {})}

Blank(object) == [f \in DOMAIN Names[object] |-> None]

\* A bid request has an impression; geo is in the device, content in the app.
IsInbound(b) ==
    /\ DOMAIN b = DOMAIN Names
    /\ \A o \in DOMAIN Names : Absent(b[o]) \/
           /\ DOMAIN b[o] = DOMAIN Names[o]
           /\ \A f \in DOMAIN Names[o] : b[o][f] \in {Names[o][f], None, Zero}
    /\ ~ Absent(b.top) /\ ~ Absent(b.imp) /\ b.imp.bidfloor # None
    /\ Absent(b.device) => Absent(b.geo)
    /\ Absent(b.app) => Absent(b.content)

\* What is found outside the request: what the texts and the device type speak of
\* ("type", "os", "ua": a TV; "v6": the address; "version": the ua tells the OS version;
\* "platform": one whose kind of IFA is known), a User-Agent header, the caller's own
\* address, an entry of the IP in MaxMind, and the floors that are set.
World == [looks : SUBSET {"type", "os", "ua", "v6", "version", "platform"},
          header : BOOLEAN, address : BOOLEAN, maxmind : BOOLEAN,
          publisher : Nat, endpoint : Nat, tag : Nat]

VARIABLES
    stage,    \* how far the request is
    world,
    query,    \* the query of the VAST tag; NoObject for an exchange
    inbound,  \* the bid request of the exchange, as it came; NoObject for a VAST tag
    bid,      \* the bid request, as it stands
    ad,       \* the AdRequest, under the names of the parameters
    context,  \* UserContext, the local pipeline's view
    sent,     \* the payload the partner gets
    url       \* the VAST tag with its macros replaced

vars == <<stage, world, query, inbound, bid, ad, context, sent, url>>

FromTag == Absent(inbound)

Init ==
    /\ world \in Worlds
    /\ \/ stage = "query" /\ query \in Queries /\ inbound = NoObject
       \/ stage = "inbound" /\ query = NoObject /\ inbound \in Inbounds
    /\ bid = inbound
    /\ ad = NoObject /\ context = NoObject /\ sent = NoObject /\ url = NoObject

-----------------------------------------------------------------------------
(* Python's "or", "is not None", and the parsers.                            *)

Falsy == {None, Zero, Empty}
Or(x, y) == IF x \in Falsy THEN y ELSE x
Given(x, y) == IF x = None THEN y ELSE x

\* csv_ints, and int() in a try.
Ints(x) == IF x \in {None, Junk} THEN Empty ELSE x
IntOf(x) == IF x = Junk THEN None ELSE x

\* csv_strs.
Strs(x) == IF x = None THEN Empty ELSE x

\* MaxMind's answer; an address it does not know, and none, is placed in San Jose.
Looked(ip) == IF ip \notin Falsy /\ world.maxmind THEN "maxmind" ELSE "fallback"

\* extract_client_ip: what the headers and the connection tell of the caller.
Client == IF world.address THEN "client" ELSE None

\* detect_environment: any sign of a TV will do.
Environment(type, os, ua) ==
    IF \/ type \notin Falsy /\ (type = "default" \/ "type" \in world.looks)
       \/ os \notin Falsy /\ "os" \in world.looks
       \/ ua \notin Falsy /\ "ua" \in world.looks
    THEN "ctv" ELSE "inapp"

-----------------------------------------------------------------------------
(* The query becomes an AdRequest: vast_tag.                                 *)

Place == {"lat", "lon", "country_code", "region", "metro", "city", "zip"}

Located(q) == \E p \in Place : q[p] # None

Ip(q) == IF Or(q.uip, q.ip) \in {None, Junk} THEN Client ELSE Or(q.uip, q.ip)

\* The publisher's place if it gave any part of one, else MaxMind's.
PlaceOf(q) ==
    LET found == Looked(Ip(q))
    IN [p \in Place \cup {"geo_type", "ipservice"} |->
           IF Located(q) THEN q[p]
           ELSE IF p \in {"city", "zip"} /\ found = "fallback" THEN None ELSE found]

UserAgent(q) == Or(q.ua, IF world.header THEN "header" ELSE None)

\* Mutant: an ifa that is given gives way to the one in the ua.
IfaOfUa(q) == Or(IF q.ua = None THEN None ELSE q.ua_ifa, q.ifa)

Ifa(q) == Or(q.ifa, IF q.ua = None THEN None ELSE q.ua_ifa)

\* The parameters that the router changes; the others go on as they are.
Request(q) ==
    LET ua == UserAgent(q)
        os == Or(q.os, IF ua = None THEN "unknown" ELSE "ua")
    IN Over(PlaceOf(q), Over(
       [w           |-> Given(q.w, "default"),
        h           |-> Given(q.h, "default"),
        min_dur     |-> Given(q.min_dur, "default"),
        max_dur     |-> Given(q.max_dur, "default"),
        ip          |-> Ip(q),
        dnt         |-> Given(q.dnt, Zero),
        coppa       |-> Given(q.coppa, Zero),
        ifa         |-> Ifa(q),
        ua          |-> ua,
        os          |-> os,
        app_name    |-> Or(q.app_name, q.ct_chan),
        ct_genre    |-> Or(q.ct_genre, q.content_type),
        ct_episode  |-> Or(q.ct_episode, IntOf(q.ct_eps)),
        lmt         |-> Given(q.dnt, Zero) = "dnt",
        environment |-> Environment(q.device_type, os, ua),
        bid_floor   |-> None],
       q))

\* A duration of 0 does not validate: the router raises.
ReadQuery ==
    /\ stage = "query"
    /\ IF Zero \in {query.min_dur, query.max_dur}
       THEN stage' = "rejected" /\ UNCHANGED ad
       ELSE stage' = "read" /\ ad' = Request(query)
    /\ UNCHANGED <<world, query, inbound, bid, context, sent, url>>

-----------------------------------------------------------------------------
(* The AdRequest becomes the local pipeline's context: _build_user_context.  *)

\* An exchange's AdRequest has no place: its geo is left in the flat fields.
Context ==
    LET c == [f \in {"ifa", "os", "osv", "device_model", "app_id", "app_name", "app_bundle",
                     "ct_genre", "ct_rat", "ct_id", "ct_net", "startdelay", "min_dur",
                     "max_dur", "environment"} |-> ad[f]]
    IN Over([p \in Place \ {"zip"} |-> IF FromTag THEN ad[p] ELSE None], c)

BuildContext ==
    /\ stage = "read"
    /\ stage' = IF FromTag THEN "context" ELSE "served"
    /\ context' = Context
    /\ UNCHANGED <<world, query, inbound, bid, ad, sent, url>>

-----------------------------------------------------------------------------
(* The AdRequest becomes a bid request: _build_bid_request.                  *)

IsCtv == ad.environment = "ctv"

Floor == Max({world.endpoint, world.tag} \cup
             (IF ad.bidfloor = "bidfloor" THEN {world.publisher} ELSE {}))

Video ==
    [mimes |-> "default", protocols |-> Or(Ints(ad.protocols), "default"),
     minduration |-> Or(ad.min_dur, "tag"), maxduration |-> Or(ad.max_dur, "tag"),
     w |-> Or(ad.w, "tag"), h |-> Or(ad.h, "tag"),
     startdelay |-> Given(ad.startdelay, Zero),
     placement |-> Or(ad.plcmt, "default"), plcmt |-> Or(ad.plcmt, "default"),
     linearity |-> Or(ad.linearity, "default"), sequence |-> Or(ad.sequence, "default"),
     skip |-> Zero, boxingallowed |-> "default",
     playbackmethod |-> Or(Ints(ad.playbackmethod), "default"),
     delivery |-> Or(Ints(ad.delivery), "default"),
     api |-> IF IsCtv THEN Empty ELSE "default",
     poddur |-> Or(ad.poddur, None), maxseq |-> Or(ad.maxseq, None), podid |-> ad.podid,
     podseq |-> ad.podseq, poddedupe |-> Ints(ad.poddedupe)]

PublisherGeo ==
    [country |-> ad.country_code, region |-> ad.region, city |-> ad.city, metro |-> ad.metro,
     lat |-> ad.lat, lon |-> ad.lon, zip |-> ad.zip, type |-> Or(ad.geo_type, "default"),
     accuracy |-> None, ipservice |-> Or(ad.ipservice, "default")]

\* Where there is an address the publisher keeps the country, and all of the rest is
\* MaxMind's answer; where there is none, the publisher's word is taken if it has a country.
Geo ==
    CASE ad.ip \notin Falsy ->
           [f \in DOMAIN PublisherGeo |->
               IF f = "country" THEN Or(ad.country_code, Looked(ad.ip)) ELSE Looked(ad.ip)]
      [] ad.ip \in Falsy /\ ad.country_code # None -> PublisherGeo
      [] OTHER -> NoObject

IsV6 == "v6" \in world.looks

Device ==
    [ua |-> ad.ua, ip |-> IF IsV6 THEN None ELSE ad.ip, ipv6 |-> IF IsV6 THEN ad.ip ELSE None,
     dnt |-> IF ad.lmt THEN "dnt" ELSE Zero, lmt |-> IF ad.lmt THEN "dnt" ELSE Zero,
     carrier |-> ad.isp, language |-> Or(ad.device_language, "default"), os |-> ad.os,
     osv |-> Or(ad.osv, IF ad.ua # None /\ "version" \in world.looks THEN "ua" ELSE None),
     devicetype |-> Given(ad.device_type, IF IsCtv THEN "default" ELSE "mobile"),
     make |-> ad.device_make, model |-> ad.device_model, w |-> ad.w, h |-> ad.h,
     ifa |-> ad.ifa, connectiontype |-> IF IsCtv THEN "ethernet" ELSE "wifi",
     didsha1 |-> ad.didsha1, didmd5 |-> ad.didmd5, sua |-> "derived", ext |-> "derived"]

App ==
    LET bundle == Or(ad.app_bundle, "slot")
    IN [bundle |-> bundle, name |-> Or(ad.app_name, bundle), id |-> Or(ad.app_id, bundle),
        domain |-> ad.app_domain, storeurl |-> ad.app_store_url, cat |-> Strs(ad.app_cat),
        pagecat |-> Strs(ad.app_pagecat), publisher |-> Or(ad.pub_id, "derived"),
        inventorypartnerdomain |-> ad.inv_partner_domain]

\* The rating is no sign of content.
HasContent ==
    \/ \E p \in {"ct_id", "ct_title", "ct_ser", "ct_seas", "ct_genre", "ct_url", "ct_lang",
                 "ct_producer", "ct_prodq", "ct_qa_media_rating", "app_cat", "ct_chan",
                 "ct_net", "ct_genres"} : ad[p] # None
    \/ \E p \in {"ct_live_str", "ct_episode", "ct_context", "ct_gtax", "ct_len"} :
           ad[p] # None

Content ==
    CASE HasContent ->
           [id |-> ad.ct_id, title |-> ad.ct_title, series |-> ad.ct_ser, season |-> ad.ct_seas,
            episode |-> ad.ct_episode, genre |-> ad.ct_genre, gtax |-> ad.ct_gtax,
            genres |-> Strs(ad.ct_genres), url |-> ad.ct_url,
            language |-> Or(ad.ct_lang, "default"), livestream |-> ad.ct_live_str,
            len |-> ad.ct_len, contentrating |-> ad.ct_rat, prodq |-> IntOf(ad.ct_prodq),
            context |-> Or(ad.ct_context, IF IsCtv THEN "default" ELSE None),
            qagmediarating |-> IntOf(ad.ct_qa_media_rating), cat |-> Strs(ad.app_cat),
            network |-> ad.ct_net, channel |-> ad.ct_chan]
      [] ~ HasContent /\ IsCtv -> [context |-> "default", language |-> "default"]
      [] OTHER -> NoObject

\* The regulations are three: what the publisher says of GDPR and GPP stays here.
BuiltBid ==
    [top |-> [id |-> "id", at |-> "default", tmax |-> "default",
              bcat |-> Or(ad.bcat, "default"), badv |-> Strs(ad.badv)],
     imp |-> [id |-> "id", bidfloor |-> Floor, secure |-> "default", tagid |-> None,
              instl |-> IF IsCtv THEN "default" ELSE Zero, exp |-> ad.exp],
     video |-> Video, device |-> Device, geo |-> Geo, app |-> App, content |-> Content,
     user |-> [id |-> IF ad.ifa # None THEN ad.ifa ELSE "derived",
               eids |-> IF ad.ifa # None /\ "platform" \in world.looks THEN ad.ifa ELSE Empty],
     source |-> [fd |-> "default", tid |-> "id"],
     regs |-> [coppa |-> ad.coppa, us_privacy |-> ad.us_privacy, gpp_sid |-> "default"]]

BuildBidRequest ==
    /\ stage = "context"
    /\ stage' = "built"
    /\ bid' = BuiltBid
    /\ UNCHANGED <<world, query, inbound, ad, context, sent, url>>

-----------------------------------------------------------------------------
(* Enrichment: enrich_bid_request, in place.                                 *)

\* Every field that is missing gets its default, if it has one.
FillIn(o, defaults) ==
    [f \in DOMAIN o |->
        IF f \in DOMAIN defaults /\ o[f] \in {None, Empty} THEN defaults[f] ELSE o[f]]

AsDefault(fields) == [f \in fields |-> "default"]

\* devicetype 3 or 7.
SaysTv(t) == t \notin {None, Zero, "mobile"} /\ (t = "default" \/ "type" \in world.looks)

DeviceDefaults(d, tv) ==
    Over([devicetype |-> "default", language |-> "default", lmt |-> Zero, dnt |-> Zero,
          connectiontype |->
              IF SaysTv(Given(d.devicetype, "default")) THEN "ethernet" ELSE "wifi"],
         IF tv THEN [sua |-> "default"] ELSE NoObject)

\* What the request itself says of the address and the browser: the headers of the
\* exchange's call, or the AdRequest.
ClientIp == IF FromTag THEN ad.ip ELSE Client
ClientUa == IF FromTag THEN ad.ua ELSE IF world.header THEN "header" ELSE None

\* A missing device is made without a connection type; whether it is a TV is asked
\* before a missing type becomes that of one.
EnrichedDevice(d, tv) ==
    IF Absent(d)
    THEN FillIn([Blank("device") EXCEPT !.ip = ClientIp, !.ua = ClientUa],
                [devicetype |-> "default", language |-> "default", lmt |-> Zero, dnt |-> Zero])
    ELSE FillIn([d EXCEPT !.ip = Or(@, ClientIp), !.ua = Or(@, ClientUa)],
                DeviceDefaults(d, tv))

VideoDefaults ==
    Over(AsDefault({"protocols", "w", "h", "plcmt", "placement", "linearity", "minduration",
                    "maxduration", "playbackmethod", "delivery"}),
         [startdelay |-> Zero])

OrBlank(o, object) == IF Absent(o) THEN Blank(object) ELSE o

Enriched(b) ==
    LET tv == ~ Absent(b.device) /\ SaysTv(b.device.devicetype)
        device == EnrichedDevice(b.device, tv)
    IN [b EXCEPT
          !.top    = FillIn(@, AsDefault({"tmax"})),
          !.imp    = FillIn(@, Over([secure |-> "default"],
                                    IF tv THEN [instl |-> "default"] ELSE NoObject)),
          !.video  = FillIn(OrBlank(@, "video"), VideoDefaults),
          !.device = device,
          !.geo    = IF device.ip \in Falsy \/ (~ Absent(@) /\ @.country # None) THEN @
                     ELSE [f \in DOMAIN Names.geo |-> Looked(device.ip)],
          !.app    = FillIn(OrBlank(@, "app"), [id |-> "slot", name |-> "default",
                                                bundle |-> "default", publisher |-> "slot"]),
          !.content = IF Absent(@) /\ tv
                      THEN [Blank("content") EXCEPT !.livestream = Zero,
                               !.language = IF Absent(b.app) THEN "default" ELSE device.language]
                      ELSE @,
          !.source = IF Absent(@) THEN [fd |-> "default", tid |-> "id"] ELSE @,
          !.regs   = IF Absent(@) THEN [Blank("regs") EXCEPT !.coppa = Zero] ELSE @]

Enrich ==
    /\ stage \in {"inbound", "built"}
    /\ stage' = IF FromTag THEN "enriched" ELSE "received"
    /\ bid' = Enriched(bid)
    /\ UNCHANGED <<world, query, inbound, ad, context, sent, url>>

-----------------------------------------------------------------------------
(* The bid request is slimmed and sent.                                      *)

\* An empty list says something in these.
KeepEmpty == {"api", "ext", "bcat", "badv"}

Dropped(object) ==
    CASE object = "imp"  -> {"instl", "tagid"}
      [] object = "regs" -> {"gpp_sid", "gpp", "consent", "ext_gdpr"}
      [] OTHER           -> {}

\* gpp_sid gets another name.
Slim(b) ==
    LET Kept(o) == {f \in DOMAIN b[o] \ Dropped(o) :
                       b[o][f] # None /\ (b[o][f] = Empty => f \in KeepEmpty)}
    IN [o \in DOMAIN b |->
           Over([f \in Kept(o) |-> b[o][f]],
                IF o = "regs" THEN [gppSid |-> b.regs.gpp_sid] ELSE NoObject)]

Send ==
    /\ stage = "enriched"
    /\ stage' = "sent"
    /\ sent' = Slim(bid)
    /\ UNCHANGED <<world, query, inbound, bid, ad, context, url>>

-----------------------------------------------------------------------------
(* The macros of a demand VAST tag are replaced: _substitute_macros.         *)

\* The macros that are called as a parameter; there are synonyms. The others of the
\* parameters are unknown here, and resolve to nothing.
Macros == (Params \ {"ua_ifa", "app_cat", "startdelay", "bcat", "badv", "podid", "geo_type",
                     "ipservice", "plcmt", "linearity", "sequence", "poddur", "maxseq",
                     "podseq", "bidfloor", "exp", "playbackmethod", "delivery", "protocols",
                     "poddedupe"})

Macro(m) ==
    CASE m \in {"w", "h", "min_dur", "max_dur"} -> Or(ad[m], "default")
      [] m \in {"ip", "uip"}    -> ad.ip
      [] m = "dnt"              -> IF ad.lmt THEN "dnt" ELSE Zero
      [] m = "device_type"      -> Given(ad.device_type, "default")
      [] m = "content_type"     -> ad.app_cat
      [] m = "ct_eps"           -> ad.ct_episode
      [] OTHER                  -> ad[m]

\* A parameter of the URL that resolves to nothing is dropped.
ResolveTag ==
    /\ stage = "context"
    /\ stage' = "resolved"
    /\ url' = [m \in {n \in Macros : Macro(n) # None} |-> Macro(m)]
    /\ UNCHANGED <<world, query, inbound, bid, ad, context, sent>>

-----------------------------------------------------------------------------
(* An exchange's bid request becomes an AdRequest: _to_internal_request.     *)

\* Mutant: Do Not Track is no limit.
LimitedByLmt(d) == d.lmt = "lmt"

Limited(d) == d.lmt = "lmt" \/ d.dnt = "dnt"

\* There is an object of each kind by now, but for the content, and the geo where there is
\* no address. What the extension says of GDPR is read for the consent alone.
Internal(b) ==
    LET content == OrBlank(b.content, "content")
        geo == OrBlank(b.geo, "geo")
        floor == IF b.imp.bidfloor = Zero THEN None ELSE b.imp.bidfloor
    IN [environment |-> Environment(b.device.devicetype, b.device.os, b.device.ua),
        ip |-> b.device.ip, ua |-> b.device.ua, ifa |-> b.device.ifa, os |-> b.device.os,
        osv |-> b.device.osv, device_model |-> b.device.model,
        device_language |-> b.device.language, lmt |-> Limited(b.device),
        app_id |-> b.app.id, app_name |-> b.app.name, app_bundle |-> b.app.bundle,
        pub_id |-> b.app.publisher, ct_id |-> content.id, ct_genre |-> content.genre,
        ct_rat |-> content.contentrating, ct_net |-> content.network,
        ct_lang |-> content.language, ct_live_str |-> content.livestream,
        min_dur |-> Or(b.video.minduration, "settings"),
        max_dur |-> Or(b.video.maxduration, "settings"), startdelay |-> b.video.startdelay,
        country_code |-> geo.country, region |-> geo.region, metro |-> geo.metro,
        coppa |-> b.regs.coppa, us_privacy |-> b.regs.us_privacy, gdpr |-> b.regs.gdpr,
        gdpr_consent |-> b.regs.consent, gpp |-> b.regs.gpp,
        gpp_sid |-> Or(b.regs.gpp_sid, None),
        bcat |-> b.top.bcat, badv |-> b.top.badv, bid_floor |-> floor, bidfloor |-> floor]

\* skip_enabled takes no None: without a skip the AdRequest does not validate.
ToInternal ==
    /\ stage = "received"
    /\ IF bid.video.skip = None
       THEN stage' = "rejected" /\ UNCHANGED ad
       ELSE stage' = "read" /\ ad' = Internal(bid)
    /\ UNCHANGED <<world, query, inbound, bid, context, sent, url>>

-----------------------------------------------------------------------------

Next ==
    \/ ReadQuery \/ BuildContext
    \/ BuildBidRequest \/ Enrich \/ Send \/ ResolveTag
    \/ ToInternal

Spec == Init /\ [][Next]_vars

-----------------------------------------------------------------------------
(* Properties.                                                               *)

TypeOK ==
    /\ stage \in {"query", "inbound", "received", "read", "context", "built", "enriched",
                  "sent", "resolved", "served", "rejected"}
    /\ world \in World
    /\ IF FromTag THEN query \in QueryType ELSE IsInbound(inbound)

\* Where in the payload a parameter of the tag has to arrive.
Carried ==
    [video   |-> [w |-> "w", h |-> "h", minduration |-> "min_dur", maxduration |-> "max_dur",
                  startdelay |-> "startdelay", plcmt |-> "plcmt", linearity |-> "linearity",
                  sequence |-> "sequence", playbackmethod |-> "playbackmethod",
                  delivery |-> "delivery", protocols |-> "protocols", poddur |-> "poddur",
                  maxseq |-> "maxseq", podid |-> "podid", podseq |-> "podseq",
                  poddedupe |-> "poddedupe"],
     imp     |-> [exp |-> "exp"],
     device  |-> [ua |-> "ua", ifa |-> "ifa", os |-> "os", osv |-> "osv",
                  make |-> "device_make", model |-> "device_model",
                  language |-> "device_language", devicetype |-> "device_type",
                  carrier |-> "isp", didsha1 |-> "didsha1", didmd5 |-> "didmd5"],
     geo     |-> [country |-> "country_code"],
     app     |-> [bundle |-> "app_bundle", name |-> "app_name", id |-> "app_id",
                  domain |-> "app_domain", storeurl |-> "app_store_url", cat |-> "app_cat",
                  pagecat |-> "app_pagecat", publisher |-> "pub_id",
                  inventorypartnerdomain |-> "inv_partner_domain"],
     content |-> [id |-> "ct_id", title |-> "ct_title", series |-> "ct_ser",
                  season |-> "ct_seas", episode |-> "ct_episode", genre |-> "ct_genre",
                  gtax |-> "ct_gtax", genres |-> "ct_genres", url |-> "ct_url",
                  language |-> "ct_lang", livestream |-> "ct_live_str", len |-> "ct_len",
                  prodq |-> "ct_prodq", context |-> "ct_context",
                  qagmediarating |-> "ct_qa_media_rating", cat |-> "app_cat",
                  network |-> "ct_net", channel |-> "ct_chan"],
     regs    |-> [coppa |-> "coppa", us_privacy |-> "us_privacy"],
     top     |-> [bcat |-> "bcat", badv |-> "badv"]]

\* A zero that says something, and is no missing value.
Meant == {"startdelay", "podseq", "exp", "device_type", "ct_gtax",
          "ct_live_str", "ct_len"}

\* A macro that answers with the parameter of its name.
Echoed == Macros \ {"ip", "content_type", "ct_eps"}

\* The rest of the place, which the payload takes from MaxMind.
Replaced ==
    [region |-> "region", metro |-> "metro", city |-> "city", zip |-> "zip", lat |-> "lat",
     lon |-> "lon"]

\* What a tag says in one of the parameters of Carried arrives in its own field of a
\* partner's payload, before every default, header and guess, and what it says in one of
\* Echoed, in the URL of a demand tag. So do the fields of an exchange that local campaigns
\* are targeted by, but for the place. Said openly, where the code does otherwise:
\*   - of the publisher's place only the country gets to a partner; the rest of the payload's
\*     is MaxMind's answer, and the publisher's own only where no address is known;
\*   - the rating goes along with other content and is dropped where it is all there is;
\*   - the place an exchange tells is not among what local campaigns are targeted by.
PublisherFirst ==
    /\ stage = "sent" =>
          /\ \A o \in DOMAIN Carried : \A f \in DOMAIN Carried[o] :
                LET p == Carried[o][f]
                IN /\ query[p] = p => f \in DOMAIN sent[o] /\ sent[o][f] = p
                   /\ query[p] = Zero /\ p \in Meant => f \in DOMAIN sent[o] /\ sent[o][f] = Zero
          /\ \A f \in DOMAIN Replaced :
                /\ ad.ip \notin Falsy => f \in DOMAIN sent.geo /\ sent.geo[f] = Looked(ad.ip)
                /\ ad.ip \in Falsy /\ query.country_code # None /\ query[Replaced[f]] # None =>
                      f \in DOMAIN sent.geo /\ sent.geo[f] = query[Replaced[f]]
          /\ query.ct_rat = "ct_rat" =>
                IF HasContent THEN sent.content.contentrating = "ct_rat"
                              ELSE "contentrating" \notin DOMAIN sent.content
    /\ stage = "resolved" =>
          \A m \in Echoed : query[m] = m => m \in DOMAIN url /\ url[m] = m
    /\ stage = "served" =>
          /\ \A o \in DOMAIN inbound \ {"geo"} : \A f \in DOMAIN inbound[o] :
                LET p == Names[o][f]
                IN inbound[o][f] = p /\ p \in DOMAIN context => context[p] = p
          /\ \A p \in Place \ {"zip"} : context[p] = None

\* Do Not Track, COPPA, us_privacy and the highest floor reach the partner, and everything
\* the regs of an exchange say, its limit on tracking and its floor reach the AdRequest. Said
\* openly, where a word is lost:
\*   - nothing a tag says of GDPR, its consent or GPP reaches a partner, whose GPP section is
\*     always the default;
\*   - a tag's floor is no floor for local campaigns;
\*   - where an exchange tells GDPR in the extension of its regs only, it goes unheard.
SignalsKept ==
    /\ stage = "sent" =>
          /\ sent.imp.bidfloor >= world.endpoint /\ sent.imp.bidfloor >= world.tag
          /\ query.bidfloor = "bidfloor" => sent.imp.bidfloor >= world.publisher
          /\ query.dnt = "dnt" => sent.device.dnt = "dnt" /\ sent.device.lmt = "dnt"
          /\ \A f \in {"coppa", "us_privacy"} : query[f] = f => sent.regs[f] = f
          /\ DOMAIN sent.regs \subseteq {"coppa", "us_privacy", "gppSid"}
          /\ sent.regs.gppSid = "default"
    /\ stage \in {"read", "context"} /\ FromTag => ad.bid_floor = None
    /\ stage \in {"read", "served"} /\ ~ FromTag =>
          /\ \A f \in DOMAIN inbound.regs \ {"ext_gdpr"} :
                LET p == Names.regs[f] IN inbound.regs[f] = p => ad[p] = p
          /\ Absent(inbound.regs) \/ inbound.regs.gdpr = None => ad.gdpr = None
          /\ ~ Absent(inbound.device) =>
                ("lmt" = inbound.device.lmt \/ "dnt" = inbound.device.dnt => ad.lmt)
          /\ inbound.imp.bidfloor = "bidfloor" => ad.bid_floor = "bidfloor"

\* The enricher: "When a publisher sends an incomplete ORTB bid request, this module
\* fills essential missing fields with IAB-compliant defaults so that downstream DSPs
\* always receive a well-formed request." So none is refused for a missing field.
NoneRefused == ~ FromTag => stage # "rejected"

=============================================================================
