--------------------------- MODULE MCCrawlRunner ---------------------------
(* A small site for CrawlRunner: a host name, a private literal, a denied  *)
(* subdomain and an outside host; one canonical URL with two spellings.    *)
EXTENDS CrawlRunner

CONSTANTS a, b, c, d,                       \* canonical URLs
          rA, rA2, rB, rC, rD, rBad, rOut, rDenied, rPrivate

MCUrl == {a, b, c, d}
MCRaw == {rA, rA2, rB, rC, rD, rBad, rOut, rDenied, rPrivate}
MCHost == {"site", "ads.site", "other", "10.0.0.1"}
MCDomain == {"site", "ads.site", "other", "10.0.0.1"}
MCUrlOf == [r \in MCRaw |-> CASE r \in {rA, rA2} -> a
                              [] r = rB -> b
                              [] r = rC -> c
                              [] OTHER -> d]
MCHostOf == [r \in MCRaw |-> CASE r = rOut -> "other"
                               [] r = rDenied -> "ads.site"
                               [] r = rPrivate -> "10.0.0.1"
                               [] OTHER -> "site"]
MCDomainsOf == [h \in MCHost |-> IF h = "ads.site" THEN {"ads.site", "site"} ELSE {h}]
MCParses == MCRaw \ {rBad}

MCContent == {"hub", "leaf", "file"}
MCLinkLists ==
    [content \in MCContent |->
        CASE content = "hub" -> {<<rB, rA2, rC>>, <<rC, rBad, rOut, rDenied, rPrivate>>}
          [] content = "leaf" -> {<<rD>>}
          [] OTHER -> {<<>>}]
MCSeedPlans == {<<rA>>, <<rB, rA>>}
=============================================================================
