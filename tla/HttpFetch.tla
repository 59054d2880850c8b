------------------------------ MODULE HttpFetch ------------------------------
(***************************************************************************)
(* StdlibHttpSourceAdapter (adapters/network/stdlib_http.py) as            *)
(* execute_http_network_acquisition (fetch/network_acquisition.py) calls   *)
(* it: adapters that share a cookie jar and a conditional cache follow     *)
(* redirects, retry, and leave a result and a report behind.               *)
(*                                                                         *)
(* One step is what an adapter does between two points where another       *)
(* thread, or the server, can act: asking for a permit, sending a request, *)
(* handling its reply.  An adapter is made for one request and one         *)
(* acquisition, as its callers do, and acquisitions follow one another.  A *)
(* page's body is its version at the server; its ETag names that version,  *)
(* its Last-Modified date need not.  An httpx.Client keeps every cookie it *)
(* is sent and adds those that fit when the adapter sets no Cookie header. *)
(***************************************************************************)
EXTENDS Integers, Sequences, FiniteSets, SequencesExt

CONSTANTS
    Adapter, Run, Url,
    Assignments,        \* the ways adapters are made for runs
    Scenarios,          \* adapter -> the scenario of its acquisition: the ways to choose it
    Target,             \* adapter -> the URL of its NetworkRequest
    HasCredentials,     \* adapters configured with credential extra_headers
    OriginOf, PathOf,   \* URL -> its origin, its path
    SiteOf,             \* origin -> the domain whose cookies a client may send to it
    FinalUrl,           \* URL -> str(response.url), as httpx writes it
    HttpsUrl,           \* URLs with scheme https
    PrivateUrl,         \* URLs of a private or loopback host
    Allowlist,          \* egress_allowlist of the acquisition, as origins
    AllowPrivate,       \* allow_private_network of the acquisition
    ConfigAllowlist,    \* adapter -> egress_allowlist of its HttpClientConfig ({} by default)
    ConfigAllowPrivate, \* the adapters whose HttpClientConfig allows private hosts (the default)
    SizeBudget,         \* size_budget_bytes of the request
    Disallowed,         \* URLs robots.txt refuses
    Prohibited,         \* URLs whose Request-rate is 0/N
    MaxRedirects, MaxAttempts,
    MaxCookies, MaxEntries, MaxEntryBytes, MaxTotalBytes,
    SetCookies,         \* lists of Set-Cookie headers servers send
    SizeOfVersion,      \* version -> bytes of its body
    DateOfVersion,      \* version -> its Last-Modified date
    Locations,          \* bound: Location headers servers send
    Changing,           \* bound: the URLs whose page changes
    MaxNow              \* bound: the clock

NoHint == -1            \* Retry-After absent
Versions == DOMAIN SizeOfVersion
NoEtag == 0
NoDate == 0

J == INSTANCE CookieJar WITH Origin <- LAMBDA u : OriginOf[u],
        Path <- LAMBDA u : PathOf[u], Secure <- LAMBDA u : u \in HttpsUrl
C == INSTANCE ConditionalCache

ASSUME HttpAssumption ==
    /\ Assignments \subseteq [Adapter -> Run]
    /\ Target \in [Adapter -> Url] /\ HasCredentials \subseteq Adapter
    /\ ConfigAllowPrivate \subseteq Adapter /\ SizeBudget \in Nat
    /\ MaxRedirects \in Nat /\ MaxAttempts \in Nat \ {0}
    /\ Locations \subseteq Url \cup {"missing", "unparseable"}
    /\ SetCookies \subseteq Seq(J!Header) /\ MaxCookies \in Nat \ {0}
    /\ SizeOfVersion \in Seq(Nat) /\ 1 \in Versions
    /\ DateOfVersion \in [Versions -> Nat \ {0}]
    /\ MaxEntries \in Nat \ {0} /\ MaxEntryBytes \in Nat \ {0}
    /\ MaxTotalBytes \in Nat /\ MaxEntryBytes <= MaxTotalBytes

VARIABLES
    runOf, scenario,    \* adapter -> the run it works for, the scenario of its acquisition
    round,              \* adapter -> which execute of its acquisition this is
    pc,                 \* adapter -> where its thread is
    cur, hop, attempt,  \* adapter -> current_url, hop, attempt
    creds,              \* adapter -> are credentials in _current_extra_headers?
    suppress,           \* adapter -> _suppress_jar_cookies_for_next_request
    hint,               \* adapter -> _last_retry_after_seconds, as the hop it came from
    hops, evid,         \* adapter -> _redirect_hops, _attempt_evidences
    result,             \* adapter -> _last_result
    report,             \* adapter -> the outcome of its last acquisition
    store,              \* adapter -> the cookies its httpx.Client keeps
    jar, cache,         \* the shared InMemoryCookieJar and InMemoryConditionalCache
    server, now,        \* URL -> its current version; the clock
    sent,               \* history: adapter -> its last request on the wire
    wire,               \* history: adapter -> URLs requested by this execute
    told                \* history: adapter -> the hop it reported as throttled, and the hint

fetch == <<cur, hop, attempt, creds, suppress, hint, hops, evid>>
shared == <<jar, cache>>
world == <<server, now, runOf, scenario>>
history == <<sent, wire, told>>
vars == <<fetch, shared, world, store, round, pc, result, report, history>>

NoResult == [kind |-> "none"]
NotSent == [url |-> "none"]
NotTold == <<NoHint, NoHint>>

Init ==
    /\ runOf \in Assignments /\ scenario \in Scenarios
    /\ round = [f \in Adapter |-> 1]
    /\ store = [f \in Adapter |-> {}]
    /\ pc = [f \in Adapter |-> "new"]
    /\ cur = Target
    /\ hop = [f \in Adapter |-> 0]
    /\ attempt = [f \in Adapter |-> 1]
    /\ creds = [f \in Adapter |-> FALSE]
    /\ suppress = [f \in Adapter |-> FALSE]
    /\ hint = [f \in Adapter |-> NoHint]
    /\ hops = [f \in Adapter |-> <<>>]
    /\ evid = [f \in Adapter |-> <<>>]
    /\ result = [f \in Adapter |-> NoResult]
    /\ report = [f \in Adapter |-> "none"]
    /\ jar = [b \in Run \X {OriginOf[u] : u \in Url} |-> <<>>]
    /\ cache = C!Empty
    /\ server = [u \in Url |-> 1]
    /\ now = 0
    /\ sent = [f \in Adapter |-> NotSent]
    /\ wire = [f \in Adapter |-> <<>>]
    /\ told = [f \in Adapter |-> NotTold]

-----------------------------------------------------------------------------
(* execute: how it ends.  A NetworkAdapterError leaves a partial result    *)
(* with the hops and evidence so far; any other ValueError leaves none.    *)
Fail(f, ev, hp) ==
    /\ result' = [result EXCEPT ![f] = [kind |-> "partial", evid |-> ev, hops |-> hp]]
    /\ pc' = [pc EXCEPT ![f] = "report"]
    /\ evid' = [evid EXCEPT ![f] = ev]
    /\ hops' = [hops EXCEPT ![f] = hp]

Succeed(f, ev, body, ref) ==
    /\ result' = [result EXCEPT ![f] =
            [kind |-> "full", evid |-> ev, hops |-> hops[f], url |-> FinalUrl[cur[f]],
             body |-> body, ref |-> ref]]
    /\ pc' = [pc EXCEPT ![f] = "report"]
    /\ evid' = [evid EXCEPT ![f] = ev]
    /\ UNCHANGED hops

ArtifactRef(f, url, body) == <<f, url, body>>

-----------------------------------------------------------------------------
(* execute_http_network_acquisition, up to the first permit: the policy    *)
(* check on the request, then the resets of execute and its robots check.  *)
PolicyFailure(f) ==
    \/ OriginOf[Target[f]] \notin Allowlist
    \/ Target[f] \in PrivateUrl /\ ~AllowPrivate
    \/ scenario[f] \in {"robots-blocked", "rate-budget", "redirect-denied", "timeout"}

Idle == \A f \in Adapter : pc[f] \in {"new", "done"}

(* _check_robots; the mutant does not ask.                                 *)
RobotsRefuse_NotAsked(url) == FALSE
RobotsRefuse(url) == url \in Disallowed

(* The client and its cookies stay when an adapter executes again.         *)
Execute(f) ==
    /\ cur' = [cur EXCEPT ![f] = Target[f]]
    /\ hop' = [hop EXCEPT ![f] = 0]
    /\ creds' = [creds EXCEPT ![f] = f \in HasCredentials]
    /\ suppress' = [suppress EXCEPT ![f] = FALSE]
    /\ sent' = [sent EXCEPT ![f] = NotSent]
    /\ wire' = [wire EXCEPT ![f] = <<>>]
    /\ told' = [told EXCEPT ![f] = NotTold]
    /\ \/ RobotsRefuse(Target[f]) /\ Fail(f, <<>>, <<>>)
       \/ /\ ~RobotsRefuse(Target[f])
          /\ pc' = [pc EXCEPT ![f] = "permit"]
          /\ result' = [result EXCEPT ![f] = NoResult]
          /\ evid' = [evid EXCEPT ![f] = <<>>]
          /\ hops' = [hops EXCEPT ![f] = <<>>]
    /\ UNCHANGED <<attempt, hint, store, shared, world, report>>

Acquire(f) ==
    /\ pc[f] = "new" /\ Idle
    /\ \/ ~PolicyFailure(f) /\ Execute(f)
       \/ /\ PolicyFailure(f)
          /\ report' = [report EXCEPT ![f] = "fail"]
          /\ pc' = [pc EXCEPT ![f] = "done"]
          /\ UNCHANGED <<fetch, store, shared, world, result, history>>
    /\ UNCHANGED round

(* _send_with_rate_limit: a permit for the current hop, or                 *)
(* RateLimitProhibited turned into RobotsBlockedError.  The hint of the    *)
(* hop before is cleared, except by the mutant.                            *)
ClearHint_Kept(f) == UNCHANGED hint
ClearHint(f) == hint' = [hint EXCEPT ![f] = NoHint]

Permit(f) ==
    /\ pc[f] = "permit"
    /\ ClearHint(f)
    /\ attempt' = [attempt EXCEPT ![f] = 1]
    /\ IF cur[f] \in Prohibited THEN Fail(f, evid[f], hops[f])
       ELSE pc' = [pc EXCEPT ![f] = "send"] /\ UNCHANGED <<result, evid, hops>>
    /\ UNCHANGED <<cur, hop, creds, suppress, store, round, shared, world, report, history>>

(* The cookie store of httpx.Client: it keeps the cookies of every answer  *)
(* and sends back those of the site, path and scheme.  A site stands for   *)
(* the host, or for what a Domain attribute widens it to.                  *)
Slot(cookie) == <<cookie.name, cookie.path, SiteOf[cookie.origin]>>

ClientKeeps(f, headers) ==
    LET got == [i \in DOMAIN headers |-> J!CookieRecord(runOf[f], cur[f], headers[i], now)]
        last == {i \in DOMAIN got : \A j \in DOMAIN got : Slot(got[j]) = Slot(got[i]) => j <= i}
    IN  store' = [store EXCEPT ![f] =
            {c \in store[f] : \A i \in DOMAIN got : Slot(c) /= Slot(got[i])}
            \cup {got[i] : i \in {j \in last : ~J!Expired(got[j], now)}}]

ClientCookies(f) ==
    {c \in store[f] :
        /\ SiteOf[c.origin] = SiteOf[OriginOf[cur[f]]]
        /\ c.secure => cur[f] \in HttpsUrl
        /\ J!PathMatches(PathOf[cur[f]], c.path)
        /\ ~J!Expired(c, now)}

(* _build_request_headers and the request itself: the cached ETag, or the  *)
(* cached date where there is none.                                        *)
Send(f) ==
    LET run == runOf[f]
        cookies == IF suppress[f] THEN {} ELSE J!CookiesFor(jar, run, cur[f], now)
        cached == C!Get(cache, run, cur[f])
    IN  /\ pc[f] = "send"
        /\ sent' = [sent EXCEPT ![f] =
                [url |-> cur[f], creds |-> creds[f], cookies |-> cookies,
                 client |-> IF cookies = {} THEN ClientCookies(f) ELSE {},
                 etag |-> cached.etag,
                 date |-> IF cached.etag = NoEtag THEN cached.date ELSE NoDate,
                 at |-> now, version |-> server[cur[f]]]]
        /\ wire' = [wire EXCEPT ![f] = Append(@, cur[f])]
        /\ suppress' = [suppress EXCEPT ![f] = FALSE]
        /\ jar' = IF suppress[f] THEN jar ELSE J!Trimmed(jar, run, cur[f], now)
        /\ cache' = C!Touched(cache, run, cur[f])
        /\ pc' = [pc EXCEPT ![f] = "reply"]
        /\ UNCHANGED <<cur, hop, attempt, creds, hint, hops, evid, told,
                       store, round, world, result, report>>

-----------------------------------------------------------------------------
(* _send_with_retry and the loop of _fetch_with_redirects: one reply.  The *)
(* server decided it when the request reached it: it had version           *)
(* sent[f].version then.                                                   *)
Evidence(f) == Append(evid[f], <<cur[f], Len(hops[f])>>)

TryAgain_Uncounted(f) ==
    /\ attempt[f] < MaxAttempts
    /\ UNCHANGED attempt
    /\ pc' = [pc EXCEPT ![f] = "send"]
    /\ evid' = [evid EXCEPT ![f] = Evidence(f)]
    /\ UNCHANGED <<result, hops>>

TryAgain(f) ==
    /\ attempt[f] < MaxAttempts
    /\ attempt' = [attempt EXCEPT ![f] = @ + 1]
    /\ pc' = [pc EXCEPT ![f] = "send"]
    /\ evid' = [evid EXCEPT ![f] = Evidence(f)]
    /\ UNCHANGED <<result, hops>>

(* _absorb_set_cookies fills the jar; the client has filled its own store. *)
Absorb(f, headers) ==
    LET after[n \in 0 .. Len(headers)] ==
            IF n = 0 THEN jar
            ELSE J!AcceptSetCookie(after[n - 1], runOf[f], cur[f], headers[n], now)
    IN  jar' = after[Len(headers)] /\ ClientKeeps(f, headers)

TransportError_NoEvidence(f, kind) ==
    /\ pc[f] = "reply"
    /\ \/ kind = "timeout" /\ TryAgain(f)
       \/ /\ kind = "fault" \/ attempt[f] = MaxAttempts
          /\ Fail(f, evid[f], hops[f])
          /\ UNCHANGED attempt
    /\ UNCHANGED <<cur, hop, creds, suppress, hint, store, round, shared, world, report, history>>

TransportError(f, kind) ==
    /\ pc[f] = "reply"
    /\ \/ kind = "timeout" /\ TryAgain(f)
       \/ /\ kind = "fault" \/ attempt[f] = MaxAttempts
          /\ Fail(f, Evidence(f), hops[f])
          /\ UNCHANGED attempt
    /\ UNCHANGED <<cur, hop, creds, suppress, hint, store, round, shared, world, report, history>>

RetryableStatus(f, headers, retryAfter) ==
    LET heard == IF retryAfter THEN hop[f] ELSE hint[f]
    IN  /\ pc[f] = "reply"
        /\ Absorb(f, headers)
        /\ hint' = [hint EXCEPT ![f] = heard]
        /\ \/ TryAgain(f) /\ UNCHANGED told
           \/ /\ attempt[f] = MaxAttempts
              /\ told' = [told EXCEPT ![f] = <<hop[f], heard>>]
              /\ Fail(f, Evidence(f), hops[f])
              /\ UNCHANGED attempt
        /\ UNCHANGED <<cur, hop, creds, suppress, cache, round, world, report, sent, wire>>

(* A 304 answers a validator that fits the version, or (a server at fault) *)
(* a request without one; a date fits every version that is not newer.     *)
Validates(request) ==
    \/ request.etag = request.version
    \/ /\ request.etag = NoEtag
       /\ request.date = NoDate \/ DateOfVersion[request.version] <= request.date

(* 304: the cache is read again, and its body and artifact ref are used.   *)
NotModified(f, headers) ==
    LET cached == C!Get(cache, runOf[f], cur[f])
    IN  /\ pc[f] = "reply"
        /\ Validates(sent[f])
        /\ Absorb(f, headers)
        /\ cache' = C!Touched(cache, runOf[f], cur[f])
        /\ IF cached = C!Miss THEN Fail(f, Evidence(f), hops[f])
           ELSE Succeed(f, Evidence(f), cached.body, cached.ref)
        /\ UNCHANGED <<cur, hop, attempt, creds, suppress, hint, round, world, report, history>>

(* Any other status that is no redirect is the response.  A 2xx with an    *)
(* ETag or a Last-Modified date is put into the cache, under a ref made    *)
(* from the URL as it was asked for and not as the response has it.        *)
Respond(f, headers, tagged, dated) ==
    LET body == sent[f].version
    IN  /\ pc[f] = "reply"
        /\ Absorb(f, headers)
        /\ cache' = IF tagged \/ dated
                    THEN C!Put(cache, [run |-> runOf[f], url |-> cur[f],
                                       etag |-> IF tagged THEN body ELSE NoEtag,
                                       date |-> IF dated THEN DateOfVersion[body] ELSE NoDate,
                                       body |-> body, size |-> SizeOfVersion[body],
                                       ref |-> ArtifactRef(f, cur[f], body)])
                    ELSE cache
        /\ Succeed(f, Evidence(f), body, ArtifactRef(f, FinalUrl[cur[f]], body))
        /\ UNCHANGED <<cur, hop, attempt, creds, suppress, hint, round, world, report, history>>

(* _validate_redirect_target: no downgrade, no origin off the allowlist of *)
(* the adapter's config, no private host unless that config allows it.     *)
EgressDenied(f, url) ==
    \/ ConfigAllowlist[f] /= {} /\ OriginOf[url] \notin ConfigAllowlist[f]
    \/ url \in PrivateUrl /\ f \notin ConfigAllowPrivate
RedirectDenied(f, from, to) ==
    (from \in HttpsUrl /\ to \notin HttpsUrl) \/ EgressDenied(f, to)

(* Mutant: only a change of scheme counts.                                 *)
CrossOrigin_SchemeOnly(from, to) == (from \in HttpsUrl) /= (to \in HttpsUrl)

CrossOrigin(from, to) == OriginOf[from] /= OriginOf[to]

(* The next hop.  Credentials are dropped and cookies kept back as soon as *)
(* the origin changes; robots is asked again; the hop limit comes last.    *)
(* "missing" stands for an unsupported scheme too.                         *)
Redirect(f, headers, to) ==
    LET crossing == CrossOrigin(cur[f], to)
        hp == Append(hops[f], <<cur[f], to>>)
    IN  /\ pc[f] = "reply"
        /\ Absorb(f, headers)
        /\ \/ to = "missing" /\ Fail(f, Evidence(f), hops[f])
              /\ UNCHANGED <<cur, hop, creds, suppress>>
           \/ /\ to = "unparseable"
              /\ pc' = [pc EXCEPT ![f] = "report"]
              /\ evid' = [evid EXCEPT ![f] = Evidence(f)]
              /\ UNCHANGED <<cur, hop, creds, suppress, result, hops>>
           \/ to \in Url /\ RedirectDenied(f, cur[f], to) /\ Fail(f, Evidence(f), hops[f])
              /\ UNCHANGED <<cur, hop, creds, suppress>>
           \/ /\ to \in Url /\ ~RedirectDenied(f, cur[f], to)
              /\ creds' = [creds EXCEPT ![f] = @ /\ ~crossing]
              /\ suppress' = [suppress EXCEPT ![f] = @ \/ crossing]
              /\ IF RobotsRefuse(to)
                 THEN Fail(f, Evidence(f), hops[f]) /\ UNCHANGED <<cur, hop>>
                 ELSE IF hop[f] = MaxRedirects
                 THEN Fail(f, Evidence(f), hp) /\ UNCHANGED <<cur, hop>>
                 ELSE /\ cur' = [cur EXCEPT ![f] = to]
                      /\ hop' = [hop EXCEPT ![f] = @ + 1]
                      /\ hops' = [hops EXCEPT ![f] = hp]
                      /\ evid' = [evid EXCEPT ![f] = Evidence(f)]
                      /\ pc' = [pc EXCEPT ![f] = "permit"]
                      /\ UNCHANGED result
        /\ UNCHANGED <<attempt, hint, cache, round, world, report, history>>

(* The scenario "size-budget" executes once to see the size of the body,   *)
(* and again, with the same adapter, if it is within the budget.           *)
Probing(f) == scenario[f] = "size-budget" /\ round[f] = 1
WithinBudget(f) == result[f].kind = "full" /\ SizeOfVersion[result[f].body] <= SizeBudget

ExecuteAgain(f) ==
    /\ pc[f] = "report" /\ Probing(f) /\ WithinBudget(f)
    /\ round' = [round EXCEPT ![f] = 2]
    /\ Execute(f)

(* The rest of execute_http_network_acquisition: a failed probe and a      *)
(* missing result are typed failures, a full one a passing report; the     *)
(* report built from a partial one has no artifact refs, and its contract  *)
(* refuses it.  The adapter is dropped, with all it kept.                  *)
Report(f) ==
    /\ pc[f] = "report" /\ ~(Probing(f) /\ WithinBudget(f))
    /\ report' = [report EXCEPT ![f] =
            CASE Probing(f) \/ result[f].kind = "none" -> "fail"
              [] ~Probing(f) /\ result[f].kind = "full" -> "pass"
              [] ~Probing(f) /\ result[f].kind = "partial" -> "raised"]
    /\ pc' = [pc EXCEPT ![f] = "done"]
    /\ cur' = [cur EXCEPT ![f] = Target[f]]
    /\ hop' = [hop EXCEPT ![f] = 0]
    /\ attempt' = [attempt EXCEPT ![f] = 1]
    /\ creds' = [creds EXCEPT ![f] = FALSE]
    /\ suppress' = [suppress EXCEPT ![f] = FALSE]
    /\ hint' = [hint EXCEPT ![f] = NoHint]
    /\ hops' = [hops EXCEPT ![f] = <<>>]
    /\ evid' = [evid EXCEPT ![f] = <<>>]
    /\ result' = [result EXCEPT ![f] = NoResult]
    /\ sent' = [sent EXCEPT ![f] = NotSent]
    /\ wire' = [wire EXCEPT ![f] = <<>>]
    /\ told' = [told EXCEPT ![f] = NotTold]
    /\ store' = [store EXCEPT ![f] = {}]
    /\ round' = [round EXCEPT ![f] = 1]
    /\ UNCHANGED <<shared, world>>

-----------------------------------------------------------------------------
(* clear_run of the jar and the cache, at the end of a run.                *)
ClearRun(run) ==
    /\ Idle
    /\ jar' = J!ClearRun(jar, run)
    /\ cache' = C!ClearRun(cache, run)
    /\ UNCHANGED <<fetch, world, store, round, pc, result, report, history>>

(* The world outside: a page changes, the clock moves.                     *)
Change(u) ==
    /\ server[u] + 1 \in Versions
    /\ server' = [server EXCEPT ![u] = @ + 1]
    /\ UNCHANGED <<fetch, shared, now, runOf, scenario, store, round, pc, result, report, history>>

Tick ==
    /\ now < MaxNow
    /\ now' = now + 1
    /\ UNCHANGED <<fetch, shared, server, runOf, scenario, store, round, pc, result, report, history>>

Step(f) ==
    \/ Permit(f) \/ Send(f) \/ ExecuteAgain(f) \/ Report(f)
    \/ \E kind \in {"timeout", "fault"} : TransportError(f, kind)
    \/ \E h \in SetCookies :
          \/ NotModified(f, h)
          \/ \E retryAfter \in BOOLEAN : RetryableStatus(f, h, retryAfter)
          \/ \E tagged, dated \in BOOLEAN : Respond(f, h, tagged, dated)
          \/ \E to \in Locations : Redirect(f, h, to)

Next ==
    \/ \E f \in Adapter : Acquire(f) \/ Step(f)
    \/ \E r \in Run : ClearRun(r)
    \/ \E u \in Changing : Change(u)
    \/ Tick

Spec == Init /\ [][Next]_vars

-----------------------------------------------------------------------------
(* The caller's credentials go to the origin of its request only, and only *)
(* until the first hop that leaves it: a redirect that leads back does not *)
(* bring them back (_strip_cross_origin_headers).                          *)
CredentialsStayHome ==
    \A f \in Adapter : sent[f] /= NotSent /\ sent[f].creds =>
        /\ f \in HasCredentials
        /\ \A u \in ToSet(wire[f]) : OriginOf[u] = OriginOf[Target[f]]

(* A Cookie header carries only cookies this run was sent, of this site,   *)
(* for this path, still alive, and a Secure one only over https; what      *)
(* another fetch of the run was sent, only back to that origin             *)
(* (cookies_for; the client's own store knows no origins).                 *)
CookiesStayInScope ==
    \A f \in Adapter : sent[f] /= NotSent =>
        /\ \A c \in sent[f].cookies : c.origin = OriginOf[sent[f].url]
        /\ \A c \in sent[f].cookies \cup sent[f].client :
             /\ c.run = runOf[f] /\ SiteOf[c.origin] = SiteOf[OriginOf[sent[f].url]]
             /\ c.secure => sent[f].url \in HttpsUrl
             /\ J!PathMatches(PathOf[sent[f].url], c.path)
             /\ ~J!Expired(c, sent[f].at)

(* The checks bind every hop: the request obeys the acquisition's policy,  *)
(* what redirects lead to the adapter's config; robots and rate            *)
(* prohibition refuse no URL on the wire; a fetch that was once on https   *)
(* stays there; and it makes a bounded number of requests.                 *)
OnlyPermittedRequests ==
    \A f \in Adapter :
        /\ Len(wire[f]) <= (MaxRedirects + 1) * MaxAttempts
        /\ wire[f] /= <<>> => ~PolicyFailure(f)
        /\ \A i \in DOMAIN wire[f] :
             /\ wire[f][i] \notin Disallowed \cup Prohibited
             /\ wire[f][i] = Target[f] \/ ~EgressDenied(f, wire[f][i])
             /\ \A k \in 1 .. i : wire[f][k] \in HttpsUrl => wire[f][i] \in HttpsUrl

(* A result, partial or full, has one evidence per request on the wire, in *)
(* order, and hops that lead from the request's URL to the last URL asked  *)
(* for (_record_attempt_evidence, _build_partial_failure_result).          *)
Connected(hp, from) ==
    \A i \in DOMAIN hp : hp[i][1] = (IF i = 1 THEN from ELSE hp[i - 1][2])
EvidenceComplete ==
    \A f \in Adapter : pc[f] = "report" /\ result[f] /= NoResult =>
        LET r == result[f] IN
        /\ [i \in DOMAIN r.evid |-> r.evid[i][1]] = wire[f]
        /\ Connected(r.hops, Target[f])
        /\ \A i \in DOMAIN r.hops : r.hops[i][1] \in ToSet(wire[f])
        /\ \A i \in DOMAIN r.evid : r.evid[i][1] =
              (IF r.evid[i][2] = 0 THEN Target[f] ELSE r.hops[r.evid[i][2]][2])
        /\ r.kind = "full" => r.url = FinalUrl[Last(wire[f])]

(* The Retry-After reported to a hop's limiter was heard on that hop, not  *)
(* on an earlier one or by an earlier fetch (_last_retry_after_seconds).   *)
HintIsOwn == \A f \in Adapter : told[f][2] \in {NoHint, told[f][1]}

(* A successful fetch returns the body the server had for the final URL    *)
(* when it answered, also on a 304 from the cache; only where a date was   *)
(* all the cache had, another body of a date no older.  Its artifact ref   *)
(* is of that URL and body, from the same run (_synthesize_from_cached).   *)
BodyIsCurrent ==
    \A f \in Adapter : pc[f] = "report" /\ result[f].kind = "full" =>
        LET r == result[f]
            asked == sent[f]
        IN  /\ r.url = FinalUrl[asked.url]
            /\ \/ r.body = asked.version
               \/ asked.date /= NoDate
                  /\ DateOfVersion[asked.version] <= DateOfVersion[r.body]
            /\ r.ref[2] \in {asked.url, r.url} /\ r.ref[3] = r.body
            /\ runOf[r.ref[1]] = runOf[f]

(* Every acquisition ends, whatever the servers answer: each step of an    *)
(* adapter lowers the number of steps it has left (the bounds of the loops *)
(* in _fetch_with_redirects and _send_with_retry, and of the executes).    *)
StepsPerHop == 2 * MaxAttempts + 1
StepsPerExecute == MaxRedirects * StepsPerHop + 2 * MaxAttempts + 3
StepsOfExecute(f) ==
    CASE pc[f] = "done" -> 0
      [] pc[f] = "report" -> 1
      [] pc[f] = "reply" -> (MaxRedirects - hop[f]) * StepsPerHop + 2 * (MaxAttempts - attempt[f]) + 2
      [] pc[f] = "send" -> (MaxRedirects - hop[f]) * StepsPerHop + 2 * (MaxAttempts - attempt[f]) + 3
      [] pc[f] = "permit" -> (MaxRedirects - hop[f]) * StepsPerHop + 2 * MaxAttempts + 2
      [] pc[f] = "new" -> StepsPerExecute
StepsLeft(f) ==
    StepsOfExecute(f) + (IF pc[f] /= "done" /\ Probing(f) THEN StepsPerExecute ELSE 0)
StepsShrink ==
    [][\A f \in Adapter :
            <<pc[f], hop[f], attempt[f], round[f]>>' /= <<pc[f], hop[f], attempt[f], round[f]>> =>
                StepsLeft(f)' < StepsLeft(f)]_vars

(* A failed acquisition is reported as failed, not raised: the adapter's   *)
(* errors are ValueErrors so that the acquisition layer handles them.      *)
FailureIsReported == \A f \in Adapter : report[f] /= "raised"
=============================================================================
