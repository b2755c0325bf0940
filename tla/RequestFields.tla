--------------------------- MODULE RequestFields ---------------------------
(* The parameters of a VAST tag and the fields of a bid request, under the    *)
(* names BidRequests gives them.                                              *)

Texts == {"ua", "ua_ifa", "ifa", "os", "osv", "device_make", "device_model", "app_bundle",
          "app_name", "app_store_url", "content_type", "ct_chan", "ct_id", "ct_title",
          "ct_ser", "ct_seas", "ct_lang", "ct_rat", "ct_net", "ct_genre", "ct_producer",
          "ct_url", "country_code", "us_privacy", "gdpr_consent", "gpp", "gpp_sid", "isp",
          "app_cat", "device_language", "didsha1", "didmd5", "region", "metro", "city",
          "zip", "app_id", "app_domain", "pub_id", "app_pagecat", "inv_partner_domain",
          "ct_genres", "podid", "bcat", "badv"}
Numbers == {"w", "h", "min_dur", "max_dur", "startdelay", "dnt", "ct_len", "ct_live_str",
            "lat", "lon", "coppa", "gdpr", "device_type", "geo_type", "ipservice",
            "ct_episode", "ct_context", "ct_gtax", "plcmt", "linearity", "sequence",
            "poddur", "maxseq", "podseq", "bidfloor", "exp"}
Parsed == {"ip", "uip", "ct_eps", "ct_prodq", "ct_qa_media_rating", "playbackmethod",
           "delivery", "protocols", "poddedupe"}

\* The parameters; "ua_ifa" is an ifa= that a missing & has glued to the ua.
Params == Texts \cup Numbers \cup Parsed

\* The fields of an exchange's bid request that matter here, by object, each under the
\* name of the parameter it is the same as. Of several impressions all are enriched
\* alike, and the first is read. "consent" and "ext_gdpr" are what the extension of regs
\* says of GDPR.
Names ==
    [top     |-> [tmax |-> "tmax", bcat |-> "bcat", badv |-> "badv"],
     imp     |-> [bidfloor |-> "bidfloor", secure |-> "secure", instl |-> "instl"],
     video   |-> [skip |-> "skip", minduration |-> "min_dur", maxduration |-> "max_dur",
                  startdelay |-> "startdelay"],
     device  |-> [ua |-> "ua", ip |-> "ip", dnt |-> "dnt", lmt |-> "lmt", ifa |-> "ifa",
                  os |-> "os", osv |-> "osv", model |-> "device_model",
                  language |-> "device_language", devicetype |-> "device_type",
                  connectiontype |-> "connectiontype", sua |-> "sua"],
     geo     |-> [country |-> "country_code", region |-> "region", metro |-> "metro"],
     app     |-> [id |-> "app_id", name |-> "app_name", bundle |-> "app_bundle",
                  publisher |-> "pub_id"],
     content |-> [id |-> "ct_id", genre |-> "ct_genre", contentrating |-> "ct_rat",
                  network |-> "ct_net", language |-> "ct_lang", livestream |-> "ct_live_str"],
     source  |-> [fd |-> "fd", tid |-> "tid"],
     regs    |-> [coppa |-> "coppa", us_privacy |-> "us_privacy", gdpr |-> "gdpr",
                  consent |-> "gdpr_consent", gpp |-> "gpp", gpp_sid |-> "gpp_sid",
                  ext_gdpr |-> "ext_gdpr"]]

\* An object is absent if it has no field.
NoObject == <<>>
Absent(o) == DOMAIN o = {}

\* An object with the fields of f, and those of g that f does not have.
Over(f, g) == [x \in DOMAIN f \cup DOMAIN g |-> IF x \in DOMAIN f THEN f[x] ELSE g[x]]
=============================================================================
