--------------------------- MODULE HttpFetch_proofs ---------------------------
(***************************************************************************)
(* What holds of every fetch, for any web, any policy and any bounds on    *)
(* redirects and attempts: where credentials go, which URLs are requested  *)
(* and how often, what the evidence of a fetch says, whose Retry-After is  *)
(* reported, and that the loops end.  And, for any server, what the cookie *)
(* jar and the conditional cache of a run may hold, and so which cookies   *)
(* are sent and which bodies are rebuilt from a 304.                       *)
(***************************************************************************)
EXTENDS HttpFetch, Lists, SequenceTheorems, NaturalsInduction, WellFoundedInduction, TLAPS

Pcs == {"new", "permit", "send", "reply", "report", "done"}
Fetching == {"permit", "send", "reply"}

(* The adapter's own state.  The jar, the cache and the server have        *)
(* invariants of their own further down, ScopeInv and BodyInv.             *)
FetchType ==
    /\ pc \in [Adapter -> Pcs]
    /\ cur \in [Adapter -> Url]
    /\ hop \in [Adapter -> 0 .. MaxRedirects]
    /\ attempt \in [Adapter -> 1 .. MaxAttempts]
    /\ creds \in [Adapter -> BOOLEAN]
    /\ hops \in [Adapter -> Seq(Url \X Url)]
    /\ evid \in [Adapter -> Seq(Url \X Nat)]
    /\ wire \in [Adapter -> Seq(Url)]
    /\ round \in [Adapter -> {1, 2}]
    /\ DOMAIN hint = Adapter /\ DOMAIN result = Adapter
    /\ DOMAIN sent = Adapter /\ DOMAIN told = Adapter

-----------------------------------------------------------------------------
(* A step of one adapter leaves the state of the others alone.             *)
Same(g) ==
    /\ pc'[g] = pc[g] /\ cur'[g] = cur[g] /\ hop'[g] = hop[g] /\ attempt'[g] = attempt[g]
    /\ creds'[g] = creds[g] /\ hint'[g] = hint[g] /\ hops'[g] = hops[g]
    /\ evid'[g] = evid[g] /\ result'[g] = result[g] /\ sent'[g] = sent[g]
    /\ wire'[g] = wire[g] /\ told'[g] = told[g] /\ round'[g] = round[g]

(* An execute starts, at first or again: nothing is left of an earlier     *)
(* one but the cookies of the client.                                      *)
Started(f) ==
    /\ pc[f] \in {"new", "report"} /\ (pc[f] = "new" => ~PolicyFailure(f))
    /\ cur'[f] = Target[f] /\ hop'[f] = 0 /\ creds'[f] = (f \in HasCredentials)
    /\ sent'[f] = NotSent /\ wire'[f] = <<>> /\ told'[f] = NotTold
    /\ evid'[f] = <<>> /\ hops'[f] = <<>>
    /\ \/ pc'[f] = "permit" /\ result'[f] = NoResult /\ Target[f] \notin Disallowed
       \/ pc'[f] = "report" /\ result'[f] = [kind |-> "partial", evid |-> <<>>, hops |-> <<>>]
    /\ attempt'[f] = attempt[f] /\ hint'[f] = hint[f]
    /\ UNCHANGED <<store, shared, world>>

(* An acquisition is refused by its policy.                                *)
Refused(f) ==
    /\ pc[f] = "new" /\ pc'[f] = "done"
    /\ UNCHANGED <<fetch, round, store, shared, world, result, history>>

(* Execute is the start of a fetch, whoever calls it.                      *)
LEMMA ExecuteStarts ==
    ASSUME FetchType, NEW f \in Adapter, Execute(f), pc[f] \in {"new", "report"},
           pc[f] = "new" => ~PolicyFailure(f)
    PROVE  Started(f)
  <1>1. /\ cur'[f] = Target[f] /\ hop'[f] = 0
        /\ sent'[f] = NotSent /\ wire'[f] = <<>> /\ told'[f] = NotTold
        /\ attempt'[f] = attempt[f] /\ hint'[f] = hint[f]
        /\ UNCHANGED <<store, shared, world>>
    BY DEF Execute, FetchType, shared, world
  <1>2. creds'[f] = (f \in HasCredentials)
    BY Zenon DEF Execute, FetchType
  <1>3. evid'[f] = <<>> /\ hops'[f] = <<>>
    BY DEF Execute, Fail, FetchType
  <1>4. \/ pc'[f] = "permit" /\ result'[f] = NoResult /\ Target[f] \notin Disallowed
        \/ pc'[f] = "report" /\ result'[f] = [kind |-> "partial", evid |-> <<>>, hops |-> <<>>]
    BY DEF Execute, Fail, RobotsRefuse, FetchType
  <1> QED
    BY <1>1, <1>2, <1>3, <1>4, Zenon DEF Started

(* What begins an acquisition, or its second execute, is one of the two.   *)
LEMMA StartCases ==
    ASSUME FetchType, NEW f \in Adapter, Acquire(f) \/ ExecuteAgain(f)
    PROVE  Started(f) \/ Refused(f)
  <1>1. ASSUME PolicyFailure(f), Acquire(f)
        PROVE  Refused(f)
    BY <1>1 DEF Acquire, Refused, FetchType
  <1>2. CASE Acquire(f) /\ ~PolicyFailure(f)
    BY <1>2, ExecuteStarts DEF Acquire
  <1>3. CASE ExecuteAgain(f)
    BY <1>3, ExecuteStarts DEF ExecuteAgain
  <1> QED
    BY <1>1, <1>2, <1>3

(* A step of an adapter leaves the servers, the clock, the runs and the    *)
(* scenarios alone.                                                        *)
LEMMA WorldUnchanged ==
    ASSUME FetchType, NEW f \in Adapter, Acquire(f) \/ Step(f)
    PROVE  world' = world
  BY StartCases DEF Started, Refused, Step, Permit, Send, Report, TransportError,
                    RetryableStatus, NotModified, Respond, Redirect

(* A step of one adapter leaves the others alone: the parts below are      *)
(* proved for the adapter that moves.                                      *)
LEMMA OthersUnchanged ==
    ASSUME FetchType, NEW f \in Adapter, Acquire(f) \/ Step(f), NEW g \in Adapter, g /= f
    PROVE  Same(g)
  <1>1. CASE Acquire(f)
    BY <1>1 DEF Acquire, Execute, Fail, FetchType, Same, shared, world, fetch, history
  <1>10. CASE ExecuteAgain(f)
    BY <1>10 DEF ExecuteAgain, Execute, Fail, FetchType, Same, shared, world
  <1>2. CASE Permit(f)
    BY <1>2 DEF Permit, ClearHint, Fail, FetchType, Same, shared, world, history
  <1>3. CASE Send(f)
    BY <1>3 DEF Send, FetchType, Same, world
  <1>4. CASE Report(f)
    BY <1>4 DEF Report, FetchType, Same, shared, world
  <1>5. ASSUME NEW kind, TransportError(f, kind)
        PROVE  Same(g)
    BY <1>5 DEF TransportError, TryAgain, Fail, FetchType, Same, shared, world, history
  <1>6. ASSUME NEW h, NEW b, RetryableStatus(f, h, b)
        PROVE  Same(g)
    BY <1>6 DEF RetryableStatus, TryAgain, Fail, FetchType, Same, world
  <1>7. ASSUME NEW h, NotModified(f, h)
        PROVE  Same(g)
    BY <1>7 DEF NotModified, Fail, Succeed, FetchType, Same, world, history
  <1>8. ASSUME NEW h, NEW b, NEW d, Respond(f, h, b, d)
        PROVE  Same(g)
    BY <1>8 DEF Respond, Succeed, FetchType, Same, world, history
  <1>9. ASSUME NEW h, NEW to, Redirect(f, h, to)
        PROVE  Same(g)
    BY <1>9 DEF Redirect, Fail, FetchType, Same, world, history
  <1> QED
    BY <1>1, <1>2, <1>3, <1>4, <1>5, <1>6, <1>7, <1>8, <1>9, <1>10 DEF Step

-----------------------------------------------------------------------------
(* Types.                                                                  *)
LEMMA TypeInit == Init => FetchType
  <1> SUFFICES ASSUME Init
               PROVE  FetchType
    OBVIOUS
  <1>1. creds \in [Adapter -> BOOLEAN]
    BY Zenon DEF Init
  <1>2. /\ hops \in [Adapter -> Seq(Url \X Url)] /\ evid \in [Adapter -> Seq(Url \X Nat)]
        /\ wire \in [Adapter -> Seq(Url)]
    BY DEF Init
  <1> QED
    BY <1>1, <1>2, HttpAssumption DEF Init, FetchType, Pcs

(* The evidence of one more reply.                                         *)
LEMMA EvidenceType ==
    ASSUME FetchType, NEW f \in Adapter
    PROVE  Evidence(f) \in Seq(Url \X Nat)
  BY DEF FetchType, Evidence

(* What a failed fetch leaves has its types.                               *)
LEMMA FailType ==
    ASSUME FetchType, NEW f \in Adapter,
           NEW ev \in Seq(Url \X Nat), NEW hp \in Seq(Url \X Url), Fail(f, ev, hp)
    PROVE  /\ pc' \in [Adapter -> Pcs] /\ DOMAIN result' = Adapter
           /\ hops' \in [Adapter -> Seq(Url \X Url)] /\ evid' \in [Adapter -> Seq(Url \X Nat)]
  BY DEF FetchType, Fail, Pcs

(* What a finished fetch leaves has its types.                             *)
LEMMA SucceedType ==
    ASSUME FetchType, NEW f \in Adapter,
           NEW ev \in Seq(Url \X Nat), NEW body, NEW ref, Succeed(f, ev, body, ref)
    PROVE  /\ pc' \in [Adapter -> Pcs] /\ DOMAIN result' = Adapter
           /\ hops' \in [Adapter -> Seq(Url \X Url)] /\ evid' \in [Adapter -> Seq(Url \X Nat)]
  BY DEF FetchType, Succeed, Pcs

(* Another attempt is within max_attempts, or the fetch fails.             *)
LEMMA TryAgainType ==
    ASSUME FetchType, NEW f \in Adapter, TryAgain(f)
    PROVE  /\ pc' \in [Adapter -> Pcs] /\ DOMAIN result' = Adapter
           /\ hops' \in [Adapter -> Seq(Url \X Url)] /\ evid' \in [Adapter -> Seq(Url \X Nat)]
           /\ attempt' \in [Adapter -> 1 .. MaxAttempts]
  <1>1. attempt[f] + 1 \in 1 .. MaxAttempts
    BY HttpAssumption DEF FetchType, TryAgain
  <1> QED
    BY <1>1, EvidenceType DEF FetchType, TryAgain, Pcs

(* A fetch starts with its types.                                          *)
LEMMA ExecuteType ==
    ASSUME FetchType, NEW f \in Adapter, Execute(f), round' \in [Adapter -> {1, 2}]
    PROVE  FetchType'
  <1>1. creds' \in [Adapter -> BOOLEAN]
    <2>1. (f \in HasCredentials) \in BOOLEAN
      OBVIOUS
    <2> QED
      BY <2>1 DEF Execute, FetchType
  <1>2. <<>> \in Seq(Url \X Nat) /\ <<>> \in Seq(Url \X Url) /\ <<>> \in Seq(Url)
    OBVIOUS
  <1>3. /\ pc' \in [Adapter -> Pcs] /\ DOMAIN result' = Adapter
        /\ hops' \in [Adapter -> Seq(Url \X Url)] /\ evid' \in [Adapter -> Seq(Url \X Nat)]
    <2>1. CASE Fail(f, <<>>, <<>>)
      BY <1>2, <2>1, FailType
    <2>2. CASE /\ pc' = [pc EXCEPT ![f] = "permit"]
               /\ result' = [result EXCEPT ![f] = NoResult]
               /\ evid' = [evid EXCEPT ![f] = <<>>]
               /\ hops' = [hops EXCEPT ![f] = <<>>]
      BY <1>2, <2>2 DEF FetchType, Pcs
    <2> QED
      BY <2>1, <2>2 DEF Execute
  <1>4. cur' \in [Adapter -> Url] /\ hop' \in [Adapter -> 0 .. MaxRedirects]
    <2>1. cur' = [cur EXCEPT ![f] = Target[f]] /\ hop' = [hop EXCEPT ![f] = 0]
      BY DEF Execute
    <2>2. Target[f] \in Url /\ 0 \in 0 .. MaxRedirects
      BY HttpAssumption
    <2> QED
      BY <2>1, <2>2 DEF FetchType
  <1>5. wire' \in [Adapter -> Seq(Url)] /\ DOMAIN sent' = Adapter /\ DOMAIN told' = Adapter
    BY <1>2 DEF Execute, FetchType
  <1>6. attempt' = attempt /\ hint' = hint
    BY DEF Execute
  <1> QED
    BY <1>1, <1>3, <1>4, <1>5, <1>6 DEF FetchType

(* Every step of an adapter keeps the types.                               *)
LEMMA TypeStep ==
    ASSUME FetchType, NEW f \in Adapter, Acquire(f) \/ Step(f)
    PROVE  FetchType'
  <1>1. CASE Acquire(f)
    <2>1. CASE PolicyFailure(f)
      BY <1>1, <2>1 DEF Acquire, FetchType, Pcs, fetch, history
    <2>2. CASE ~PolicyFailure(f)
      BY <1>1, <2>2, ExecuteType DEF Acquire, FetchType
    <2> QED
      BY <2>1, <2>2
  <1>10. CASE ExecuteAgain(f)
    <2>1. round' \in [Adapter -> {1, 2}]
      BY <1>10 DEF ExecuteAgain, FetchType
    <2> QED
      BY <1>10, <2>1, ExecuteType DEF ExecuteAgain, FetchType
  <1>2. CASE Permit(f)
    <2>1. attempt' \in [Adapter -> 1 .. MaxAttempts] /\ DOMAIN hint' = Adapter
      BY <1>2, HttpAssumption DEF Permit, ClearHint, FetchType
    <2>2. /\ pc' \in [Adapter -> Pcs] /\ DOMAIN result' = Adapter
          /\ hops' \in [Adapter -> Seq(Url \X Url)] /\ evid' \in [Adapter -> Seq(Url \X Nat)]
      <3>1. CASE Fail(f, evid[f], hops[f])
        BY <3>1, FailType DEF FetchType
      <3>2. CASE pc' = [pc EXCEPT ![f] = "send"] /\ UNCHANGED <<result, evid, hops>>
        BY <3>2 DEF FetchType, Pcs
      <3> QED
        BY <1>2, <3>1, <3>2 DEF Permit
    <2> QED
      BY <1>2, <2>1, <2>2 DEF Permit, FetchType, history
  <1>3. CASE Send(f)
    <2>1. wire' \in [Adapter -> Seq(Url)]
      BY <1>3 DEF Send, FetchType
    <2>2. pc' \in [Adapter -> Pcs] /\ DOMAIN sent' = Adapter
      BY <1>3 DEF Send, FetchType, Pcs
    <2> QED
      BY <1>3, <2>1, <2>2 DEF Send, FetchType
  <1>4. CASE Report(f)
    <2>1. creds' \in [Adapter -> BOOLEAN]
      BY <1>4, Zenon DEF Report, FetchType
    <2>2. pc' \in [Adapter -> Pcs] /\ cur' \in [Adapter -> Url]
      BY <1>4, HttpAssumption DEF Report, FetchType, Pcs
    <2>3. hop' \in [Adapter -> 0 .. MaxRedirects] /\ attempt' \in [Adapter -> 1 .. MaxAttempts]
      BY <1>4, HttpAssumption DEF Report, FetchType
    <2>4. /\ hops' \in [Adapter -> Seq(Url \X Url)] /\ evid' \in [Adapter -> Seq(Url \X Nat)]
          /\ wire' \in [Adapter -> Seq(Url)]
      BY <1>4 DEF Report, FetchType
    <2>5. DOMAIN hint' = Adapter /\ DOMAIN result' = Adapter /\ DOMAIN sent' = Adapter /\ DOMAIN told' = Adapter
      BY <1>4, Zenon DEF Report, FetchType
    <2>6. round' \in [Adapter -> {1, 2}]
      BY <1>4 DEF Report, FetchType
    <2> QED
      BY <2>1, <2>2, <2>3, <2>4, <2>5, <2>6 DEF FetchType
  <1>5. ASSUME NEW kind, TransportError(f, kind)
        PROVE  FetchType'
    <2>1. CASE TryAgain(f)
      BY <1>5, <2>1, TryAgainType DEF TransportError, FetchType, history
    <2>2. CASE Fail(f, Evidence(f), hops[f]) /\ UNCHANGED attempt
      BY <1>5, <2>2, FailType, EvidenceType DEF TransportError, FetchType, history
    <2> QED
      BY <1>5, <2>1, <2>2 DEF TransportError
  <1>6. ASSUME NEW h, NEW b, RetryableStatus(f, h, b)
        PROVE  FetchType'
    <2>1. DOMAIN hint' = Adapter /\ DOMAIN told' = Adapter
      BY <1>6 DEF RetryableStatus, FetchType
    <2>2. CASE TryAgain(f)
      BY <1>6, <2>1, <2>2, TryAgainType DEF RetryableStatus, FetchType
    <2>3. CASE Fail(f, Evidence(f), hops[f]) /\ UNCHANGED attempt
      BY <1>6, <2>1, <2>3, FailType, EvidenceType DEF RetryableStatus, FetchType
    <2> QED
      BY <1>6, <2>2, <2>3 DEF RetryableStatus
  <1>7. ASSUME NEW h, NotModified(f, h)
        PROVE  FetchType'
    <2>1. CASE Fail(f, Evidence(f), hops[f])
      BY <1>7, <2>1, FailType, EvidenceType DEF NotModified, FetchType, history
    <2>2. ASSUME NEW body, NEW ref, Succeed(f, Evidence(f), body, ref)
          PROVE  FetchType'
      BY <1>7, <2>2, SucceedType, EvidenceType DEF NotModified, FetchType, history
    <2> QED
      BY <1>7, <2>1, <2>2 DEF NotModified
  <1>8. ASSUME NEW h, NEW b, NEW d, Respond(f, h, b, d)
        PROVE  FetchType'
    <2>1. PICK body, ref : Succeed(f, Evidence(f), body, ref)
      BY <1>8 DEF Respond
    <2> QED
      BY <1>8, <2>1, SucceedType, EvidenceType DEF Respond, FetchType, history
  <1>9. ASSUME NEW h, NEW to, Redirect(f, h, to)
        PROVE  FetchType'
    <2>1. creds' \in [Adapter -> BOOLEAN]
      BY <1>9, Zenon DEF Redirect, FetchType
    <2>2. ASSUME to \in Url
          PROVE  Append(hops[f], <<cur[f], to>>) \in Seq(Url \X Url)
      BY <2>2 DEF FetchType
    <2>3. CASE Fail(f, Evidence(f), hops[f]) /\ UNCHANGED <<cur, hop>>
      BY <1>9, <2>1, <2>3, FailType, EvidenceType DEF Redirect, FetchType, history
    <2>4. CASE to \in Url /\ Fail(f, Evidence(f), Append(hops[f], <<cur[f], to>>)) /\ UNCHANGED <<cur, hop>>
      BY <1>9, <2>1, <2>2, <2>4, FailType, EvidenceType DEF Redirect, FetchType, history
    <2>5. CASE /\ pc' = [pc EXCEPT ![f] = "report"]
               /\ evid' = [evid EXCEPT ![f] = Evidence(f)]
               /\ UNCHANGED <<cur, hop, result, hops>>
      BY <1>9, <2>1, <2>5, EvidenceType DEF Redirect, FetchType, history, Pcs
    <2>6. CASE /\ to \in Url /\ hop[f] /= MaxRedirects
               /\ cur' = [cur EXCEPT ![f] = to]
               /\ hop' = [hop EXCEPT ![f] = @ + 1]
               /\ hops' = [hops EXCEPT ![f] = Append(hops[f], <<cur[f], to>>)]
               /\ evid' = [evid EXCEPT ![f] = Evidence(f)]
               /\ pc' = [pc EXCEPT ![f] = "permit"]
               /\ UNCHANGED result
      <3>1. hop' \in [Adapter -> 0 .. MaxRedirects]
        <4>1. hop[f] \in 0 .. MaxRedirects /\ hop[f] /= MaxRedirects
          BY <2>6 DEF FetchType
        <4>2. hop[f] + 1 \in 0 .. MaxRedirects
          BY <4>1, HttpAssumption
        <4> QED
          BY <2>6, <4>2 DEF FetchType
      <3>2. hops' \in [Adapter -> Seq(Url \X Url)] /\ evid' \in [Adapter -> Seq(Url \X Nat)]
        BY <2>6, <2>2, EvidenceType DEF FetchType
      <3>3. pc' \in [Adapter -> Pcs] /\ cur' \in [Adapter -> Url]
        BY <2>6 DEF FetchType, Pcs
      <3> QED
        BY <1>9, <2>1, <2>6, <3>1, <3>2, <3>3 DEF Redirect, FetchType, history
    <2> QED
      BY <1>9, <2>3, <2>4, <2>5, <2>6 DEF Redirect
  <1> QED
    BY <1>1, <1>2, <1>3, <1>4, <1>5, <1>6, <1>7, <1>8, <1>9, <1>10 DEF Step

(* A step of nobody: a run is cleared, a page changes, time passes.        *)
Elsewhere == (\E r \in Run : ClearRun(r)) \/ (\E u \in Changing : Change(u)) \/ Tick

(* A step is one of an adapter or happens outside all of them.             *)
LEMMA NextCases == [Next]_vars => (\E f \in Adapter : Acquire(f) \/ Step(f)) \/ Elsewhere \/ UNCHANGED vars
  BY DEF Next, Elsewhere

(* What happens outside leaves the fetches alone.                          *)
LEMMA ElsewhereUnchanged == Elsewhere \/ UNCHANGED vars =>
    UNCHANGED <<fetch, scenario, store, round, pc, result, history>>
  BY DEF Elsewhere, ClearRun, Change, Tick, world, vars

(* Every step keeps the types.                                             *)
LEMMA TypeNext == FetchType /\ [Next]_vars => FetchType'
  <1> SUFFICES ASSUME FetchType, [Next]_vars
               PROVE  FetchType'
    OBVIOUS
  <1>1. CASE UNCHANGED <<fetch, scenario, store, round, pc, result, history>>
    BY <1>1 DEF FetchType, fetch, history
  <1> QED
    BY <1>1, TypeStep, NextCases, ElsewhereUnchanged

(* The loop of execute stays within its limits: a hop is at most           *)
(* max_redirects, an attempt at most max_attempts.                         *)
THEOREM FetchTypeCorrect == Spec => []FetchType
  BY TypeInit, TypeNext, PTL DEF Spec

-----------------------------------------------------------------------------
(* What the invariants say of one adapter.                                 *)

(* An adapter that has not started, or has been dropped, has nothing left. *)
RestOf(f) ==
    pc[f] \in {"new", "done"} =>
        /\ cur[f] = Target[f] /\ hop[f] = 0
        /\ hops[f] = <<>> /\ evid[f] = <<>> /\ wire[f] = <<>>

(* While credentials are loaded, or were on the last request, all requests *)
(* of the fetch went to the origin of the request.                         *)
AtHome(f) ==
    f \in HasCredentials /\ \A i \in 1 .. Len(wire[f]) : OriginOf[wire[f][i]] = OriginOf[Target[f]]
HomeOf(f) ==
    /\ creds[f] => AtHome(f) /\ OriginOf[cur[f]] = OriginOf[Target[f]]
    /\ sent[f] /= NotSent /\ sent[f].creds => AtHome(f)

(* The hint in hand was heard on the hop in hand.                          *)
HintOf(f) ==
    /\ pc[f] \in {"send", "reply"} => hint[f] \in {NoHint, hop[f]}
    /\ told[f][2] \in {NoHint, told[f][1]}

(* The acquisition was let through by its policy, the URL in hand by the   *)
(* adapter's config and by robots, and from the permit on by the limiter;  *)
(* so were the URLs on the wire, and https was not left.                   *)
Allowed(f, u) == u \notin Disallowed /\ (u = Target[f] \/ ~EgressDenied(f, u))
Secured(f, u, n) == \A k \in 1 .. n : wire[f][k] \in HttpsUrl => u \in HttpsUrl
Permitted(f, i) ==
    Allowed(f, wire[f][i]) /\ wire[f][i] \notin Prohibited /\ Secured(f, wire[f][i], i)
PermittedOf(f) ==
    /\ pc[f] \notin {"new", "done"} => ~PolicyFailure(f)
    /\ pc[f] \in Fetching => Allowed(f, cur[f]) /\ Secured(f, cur[f], Len(wire[f]))
    /\ pc[f] \in {"send", "reply"} => cur[f] \notin Prohibited
    /\ \A i \in 1 .. Len(wire[f]) : Permitted(f, i)

(* An adapter that has not started, or is done, has nothing left of a      *)
(* fetch.                                                                  *)
LEMMA RestStep ==
    ASSUME FetchType, NEW f \in Adapter, Acquire(f) \/ Step(f), RestOf(f)
    PROVE  RestOf(f)'
  <1>1. CASE Started(f)
    BY <1>1 DEF Started, RestOf
  <1>10. CASE Refused(f)
    BY <1>10 DEF Refused, fetch, history, RestOf
  <1>2. CASE Permit(f)
    BY <1>2 DEF Permit, ClearHint, Fail, shared, world, history, FetchType, RestOf
  <1>3. CASE Send(f)
    BY <1>3 DEF Send, world, FetchType, RestOf
  <1>4. CASE Report(f)
    BY <1>4 DEF Report, shared, world, FetchType, RestOf
  <1>5. ASSUME NEW kind, TransportError(f, kind)
        PROVE  RestOf(f)'
    BY <1>5 DEF TransportError, TryAgain, Fail, shared, world, history, FetchType, RestOf
  <1>6. ASSUME NEW h, NEW b, RetryableStatus(f, h, b)
        PROVE  RestOf(f)'
    BY <1>6 DEF RetryableStatus, TryAgain, Fail, world, FetchType, RestOf
  <1>7. ASSUME NEW h, NotModified(f, h)
        PROVE  RestOf(f)'
    BY <1>7 DEF NotModified, Fail, Succeed, world, history, FetchType, RestOf
  <1>8. ASSUME NEW h, NEW b, NEW d, Respond(f, h, b, d)
        PROVE  RestOf(f)'
    BY <1>8 DEF Respond, Succeed, world, history, FetchType, RestOf
  <1>9. ASSUME NEW h, NEW to, Redirect(f, h, to)
        PROVE  RestOf(f)'
    BY <1>9 DEF Redirect, Fail, world, history, FetchType, RestOf
  <1> QED
    BY <1>1, <1>2, <1>3, <1>4, <1>5, <1>6, <1>7, <1>8, <1>9, <1>10, StartCases DEF Step

(* Credentials are dropped on the hop that leaves the origin.              *)
LEMMA HomeStep ==
    ASSUME FetchType, NEW f \in Adapter, Acquire(f) \/ Step(f), RestOf(f), HomeOf(f)
    PROVE  HomeOf(f)'
  <1>1. CASE Started(f)
    <2>1. sent'[f] = NotSent /\ wire'[f] = <<>> /\ cur'[f] = Target[f]
      BY <1>1 DEF Started
    <2>2. creds'[f] => f \in HasCredentials
      BY <1>1, Zenon DEF Started
    <2> QED
      BY <2>1, <2>2 DEF HomeOf, AtHome
  <1>2. CASE UNCHANGED <<creds, cur, sent, wire>>
    BY <1>2 DEF HomeOf, AtHome
  <1>3. CASE Send(f)
    <2>1. /\ wire'[f] = Append(wire[f], cur[f]) /\ UNCHANGED <<creds, cur>>
          /\ sent'[f].creds = creds[f]
      BY <1>3 DEF Send, FetchType
    <2>2. creds[f] => AtHome(f)'
      BY <2>1 DEF FetchType, HomeOf, AtHome
    <2> QED
      BY <2>1, <2>2 DEF HomeOf
  <1>4. CASE Report(f)
    <2>1. ~creds'[f] /\ sent'[f] = NotSent
      BY <1>4 DEF Report, FetchType
    <2> QED
      BY <2>1 DEF HomeOf
  <1>5. ASSUME NEW h, NEW to, Redirect(f, h, to)
        PROVE  HomeOf(f)'
    <2>1. UNCHANGED <<sent, wire>>
      BY <1>5 DEF Redirect, history
    <2>2. CASE UNCHANGED <<creds, cur>>
      BY <1>2, <2>1, <2>2
    <2>3. CASE /\ creds' = [creds EXCEPT ![f] = @ /\ ~CrossOrigin(cur[f], to)]
               /\ UNCHANGED cur \/ cur' = [cur EXCEPT ![f] = to]
      <3>1. creds'[f] => creds[f] /\ OriginOf[cur'[f]] = OriginOf[cur[f]]
        BY <2>3 DEF CrossOrigin, FetchType
      <3> QED
        BY <2>1, <3>1 DEF HomeOf, AtHome
    <2> QED
      BY <1>5, <2>2, <2>3 DEF Redirect
  <1>6. CASE Refused(f) \/ Permit(f) \/ (\E kind : TransportError(f, kind))
    BY <1>2, <1>6 DEF Refused, Permit, TransportError, fetch, history
  <1>7. CASE (\E h, b : RetryableStatus(f, h, b)) \/ (\E h : NotModified(f, h)) \/ (\E h, b, d : Respond(f, h, b, d))
    BY <1>2, <1>7 DEF RetryableStatus, NotModified, Respond, history
  <1> QED
    BY <1>1, <1>3, <1>4, <1>5, <1>6, <1>7, StartCases DEF Step

(* The hint in hand is of the hop it is used for.                          *)
LEMMA HintStep ==
    ASSUME FetchType, NEW f \in Adapter, Acquire(f) \/ Step(f), HintOf(f)
    PROVE  HintOf(f)'
  <1>1. CASE Started(f)
    BY <1>1 DEF Started, HintOf, NotTold
  <1>10. CASE Refused(f)
    BY <1>10 DEF Refused, fetch, history, HintOf
  <1>2. CASE Permit(f)
    BY <1>2 DEF Permit, ClearHint, Fail, shared, world, history, FetchType, HintOf, NotTold, NoHint
  <1>3. CASE Send(f)
    BY <1>3 DEF Send, world, FetchType, HintOf, NotTold, NoHint
  <1>4. CASE Report(f)
    BY <1>4 DEF Report, shared, world, FetchType, HintOf, NotTold, NoHint
  <1>5. ASSUME NEW kind, TransportError(f, kind)
        PROVE  HintOf(f)'
    BY <1>5 DEF TransportError, TryAgain, Fail, shared, world, history, FetchType, HintOf, NotTold, NoHint
  <1>6. ASSUME NEW h, NEW b, RetryableStatus(f, h, b)
        PROVE  HintOf(f)'
    BY <1>6 DEF RetryableStatus, TryAgain, Fail, world, FetchType, HintOf, NotTold, NoHint
  <1>7. ASSUME NEW h, NotModified(f, h)
        PROVE  HintOf(f)'
    BY <1>7 DEF NotModified, Fail, Succeed, world, history, FetchType, HintOf, NotTold, NoHint
  <1>8. ASSUME NEW h, NEW b, NEW d, Respond(f, h, b, d)
        PROVE  HintOf(f)'
    BY <1>8 DEF Respond, Succeed, world, history, FetchType, HintOf, NotTold, NoHint
  <1>9. ASSUME NEW h, NEW to, Redirect(f, h, to)
        PROVE  HintOf(f)'
    BY <1>9 DEF Redirect, Fail, world, history, FetchType, HintOf, NotTold, NoHint
  <1> QED
    BY <1>1, <1>2, <1>3, <1>4, <1>5, <1>6, <1>7, <1>8, <1>9, <1>10, StartCases DEF Step

(* A request goes out only after the checks of its own URL.                *)
LEMMA PermittedStep ==
    ASSUME FetchType, NEW f \in Adapter, Acquire(f) \/ Step(f), RestOf(f), PermittedOf(f)
    PROVE  PermittedOf(f)'
  <1>0. PolicyFailure(f)' = PolicyFailure(f) /\ \A u : Allowed(f, u)' = Allowed(f, u)
    BY WorldUnchanged DEF world, PolicyFailure, Allowed, EgressDenied
  <1>1. CASE Started(f)
    <2>1. wire'[f] = <<>> /\ cur'[f] = Target[f] /\ pc'[f] \in {"permit", "report"} /\ ~PolicyFailure(f)
      BY <1>1 DEF Started, PermittedOf
    <2>2. pc'[f] = "permit" => Allowed(f, Target[f])
      BY <1>1 DEF Started, Allowed
    <2> QED
      BY <1>0, <2>1, <2>2 DEF PermittedOf, Secured, Fetching
  <1>2. CASE Refused(f)
    BY <1>2 DEF Refused, fetch, history, PermittedOf, Permitted, Secured, Allowed, Fetching
  <1>3. ASSUME wire' = wire, cur'[f] = cur[f], pc[f] \in Fetching,
               pc'[f] \in {"permit", "send", "reply", "report"},
               pc'[f] \in {"send", "reply"} => cur[f] \notin Prohibited
        PROVE  PermittedOf(f)'
    <2>1. \A i : Permitted(f, i)' <=> Permitted(f, i)
      BY <1>0, <1>3 DEF Permitted, Secured
    <2> QED
      BY <1>0, <1>3, <2>1 DEF PermittedOf, Fetching, Secured
  <1>4. CASE Permit(f)
    BY <1>3, <1>4 DEF Permit, Fail, history, FetchType, Fetching
  <1>5. CASE Send(f)
    <2>1. /\ pc[f] = "send" /\ pc'[f] = "reply" /\ cur' = cur
          /\ Len(wire[f]) \in Nat /\ Len(wire'[f]) = Len(wire[f]) + 1
          /\ wire'[f][Len(wire[f]) + 1] = cur[f]
          /\ \A i \in 1 .. Len(wire[f]) : wire'[f][i] = wire[f][i]
      BY <1>5 DEF Send, FetchType
    <2>2. Allowed(f, cur[f]) /\ Secured(f, cur[f], Len(wire[f])) /\ cur[f] \notin Prohibited /\ ~PolicyFailure(f)
      BY <2>1 DEF PermittedOf, Fetching
    <2>3. ASSUME NEW i \in 1 .. Len(wire[f]) PROVE Permitted(f, i)'
      <3>1. Permitted(f, i) /\ \A k \in 1 .. i : wire'[f][k] = wire[f][k]
        BY <2>1 DEF PermittedOf
      <3>2. wire'[f][i] = wire[f][i]
        BY <2>1
      <3> QED
        BY <1>0, <3>1, <3>2 DEF Permitted, Secured
    <2>4. \A k \in 1 .. Len(wire[f]) + 1 : wire'[f][k] \in HttpsUrl => cur[f] \in HttpsUrl
      BY <2>1, <2>2 DEF Secured
    <2>5. PICK n : n = Len(wire[f]) + 1
      OBVIOUS
    <2>6. Permitted(f, n)'
      BY <1>0, <2>1, <2>2, <2>4, <2>5 DEF Permitted, Secured
    <2>7. \A i \in 1 .. Len(wire'[f]) : Permitted(f, i)'
      BY <2>1, <2>3, <2>5, <2>6
    <2>8. Secured(f, cur[f], Len(wire[f]))'
      BY <2>1, <2>4 DEF Secured
    <2> QED
      BY <1>0, <2>1, <2>2, <2>7, <2>8 DEF PermittedOf
  <1>6. CASE Report(f)
    <2>1. pc'[f] = "done" /\ wire'[f] = <<>>
      BY <1>6 DEF Report, FetchType
    <2> QED
      BY <2>1 DEF PermittedOf, Fetching
  <1>7. ASSUME pc[f] = "reply", wire' = wire, cur'[f] = cur[f], pc'[f] \in {"send", "report"}
        PROVE  PermittedOf(f)'
    BY <1>3, <1>7 DEF PermittedOf, Fetching
  <1>8. ASSUME NEW kind, TransportError(f, kind)
        PROVE  PermittedOf(f)'
    BY <1>7, <1>8 DEF TransportError, TryAgain, Fail, history, FetchType
  <1>9. ASSUME NEW h, NEW b, RetryableStatus(f, h, b)
        PROVE  PermittedOf(f)'
    BY <1>7, <1>9 DEF RetryableStatus, TryAgain, Fail, FetchType
  <1>10. ASSUME NEW h, NotModified(f, h)
         PROVE  PermittedOf(f)'
    BY <1>7, <1>10 DEF NotModified, Fail, Succeed, history, FetchType
  <1>11. ASSUME NEW h, NEW b, NEW d, Respond(f, h, b, d)
         PROVE  PermittedOf(f)'
    BY <1>7, <1>11 DEF Respond, Succeed, history, FetchType
  <1>12. ASSUME NEW h, NEW to, Redirect(f, h, to)
         PROVE  PermittedOf(f)'
    <2>1. pc[f] = "reply" /\ wire' = wire
      BY <1>12 DEF Redirect, history
    <2>2. CASE pc'[f] = "report" /\ cur'[f] = cur[f]
      BY <1>7, <2>1, <2>2
    <2>3. CASE /\ pc'[f] = "permit" /\ cur'[f] = to
               /\ to \notin Disallowed /\ ~RedirectDenied(f, cur[f], to)
      <3>1. Allowed(f, to)
        BY <2>3 DEF Allowed, RedirectDenied
      <3>2. Secured(f, cur[f], Len(wire[f])) /\ ~PolicyFailure(f)
        BY <2>1 DEF PermittedOf, Fetching
      <3>3. Secured(f, to, Len(wire[f]))
        BY <2>3, <3>2 DEF Secured, RedirectDenied
      <3>4. \A i : Permitted(f, i)' <=> Permitted(f, i)
        BY <1>0, <2>1 DEF Permitted, Secured
      <3> QED
        BY <1>0, <2>1, <2>3, <3>1, <3>2, <3>3, <3>4 DEF PermittedOf, Secured, Fetching
    <2> QED
      BY <1>12, <2>2, <2>3 DEF Redirect, Fail, RobotsRefuse, FetchType
  <1> QED
    BY <1>1, <1>2, <1>4, <1>5, <1>6, <1>8, <1>9, <1>10, <1>11, <1>12, StartCases DEF Step

-----------------------------------------------------------------------------
(* Requests so far: all attempts of the hops behind, and those of this one.*)
BoundOf(f) ==
    /\ pc[f] = "permit" => Len(wire[f]) <= hop[f] * MaxAttempts
    /\ pc[f] = "send" => Len(wire[f]) < hop[f] * MaxAttempts + attempt[f]
    /\ pc[f] = "reply" => Len(wire[f]) <= hop[f] * MaxAttempts + attempt[f]
    /\ Len(wire[f]) <= (MaxRedirects + 1) * MaxAttempts

(* Products, one fact each.                                                *)
LEMMA ProductStep ==
    ASSUME NEW h \in Nat, NEW m \in Nat
    PROVE  (h + 1) * m = h * m + m /\ h * m \in Nat
  OBVIOUS

(* Multiplication keeps the order.                                         *)
LEMMA ProductGrows ==
    ASSUME NEW h \in Nat, NEW k \in Nat, NEW m \in Nat, h <= k
    PROVE  h * m <= k * m
  OBVIOUS

(* Every request is counted by the hop and the attempt it belongs to.      *)
LEMMA BoundStep ==
    ASSUME FetchType, NEW f \in Adapter, Acquire(f) \/ Step(f), RestOf(f), BoundOf(f)
    PROVE  BoundOf(f)'
  <1>1. CASE Started(f)
    <2>1. Len(wire'[f]) = 0 /\ hop'[f] = 0 /\ pc'[f] \in {"permit", "report"}
      BY <1>1 DEF Started
    <2>2. 0 * MaxAttempts = 0 /\ 0 <= (MaxRedirects + 1) * MaxAttempts
      BY HttpAssumption, ProductStep
    <2> QED
      BY <2>1, <2>2 DEF BoundOf
  <1>10. CASE Refused(f)
    BY <1>10 DEF Refused, fetch, history, BoundOf
  <1>2. CASE Permit(f)
    <2>1. pc[f] = "permit" /\ wire' = wire /\ hop' = hop /\ attempt'[f] = 1 /\ pc'[f] \in {"send", "report"}
      BY <1>2 DEF Permit, Fail, FetchType, history
    <2>2. hop[f] \in Nat /\ hop[f] * MaxAttempts \in Nat /\ Len(wire[f]) \in Nat
      BY HttpAssumption, ProductStep DEF FetchType
    <2> QED
      BY <2>1, <2>2 DEF BoundOf
  <1>3. CASE Send(f)
    <2>1. /\ pc[f] = "send" /\ pc'[f] = "reply" /\ hop' = hop /\ attempt' = attempt
          /\ Len(wire'[f]) = Len(wire[f]) + 1
      BY <1>3 DEF Send, FetchType
    <2>2. /\ hop[f] \in Nat /\ hop[f] <= MaxRedirects /\ attempt[f] \in Nat /\ attempt[f] <= MaxAttempts
          /\ MaxRedirects \in Nat /\ MaxAttempts \in Nat
      BY HttpAssumption DEF FetchType
    <2>3. hop[f] * MaxAttempts + attempt[f] <= (MaxRedirects + 1) * MaxAttempts
      <3>1. (hop[f] + 1) * MaxAttempts = hop[f] * MaxAttempts + MaxAttempts /\ hop[f] * MaxAttempts \in Nat
        BY <2>2, ProductStep
      <3>2. hop[f] + 1 \in Nat /\ MaxRedirects + 1 \in Nat /\ hop[f] + 1 <= MaxRedirects + 1
        BY <2>2
      <3>3. (hop[f] + 1) * MaxAttempts <= (MaxRedirects + 1) * MaxAttempts
        BY <2>2, <3>2, ProductGrows
      <3>4. (MaxRedirects + 1) * MaxAttempts \in Nat
        BY <2>2, <3>2
      <3> QED
        BY <2>2, <3>1, <3>3, <3>4
    <2>4. Len(wire[f]) + 1 <= hop[f] * MaxAttempts + attempt[f]
      BY <2>1, <2>2, ProductStep, HttpAssumption DEF BoundOf, FetchType
    <2> QED
      BY <2>1, <2>2, <2>3, <2>4, ProductStep, HttpAssumption DEF BoundOf, FetchType
  <1>4. CASE Report(f)
    <2>1. pc'[f] = "done" /\ wire'[f] = <<>>
      BY <1>4 DEF Report, FetchType
    <2>2. 0 <= (MaxRedirects + 1) * MaxAttempts
      BY HttpAssumption, ProductStep
    <2> QED
      BY <2>1, <2>2 DEF BoundOf
  <1>5. ASSUME NEW kind, TransportError(f, kind)
        PROVE  BoundOf(f)'
    <2>1. pc[f] = "reply" /\ wire' = wire /\ hop' = hop
      BY <1>5 DEF TransportError, history
    <2>2. CASE TryAgain(f)
      <3>1. pc'[f] = "send" /\ attempt'[f] = attempt[f] + 1
        BY <2>2 DEF TryAgain, FetchType
      <3> QED
        BY <2>1, <3>1, ProductStep, HttpAssumption DEF BoundOf, FetchType
    <2>3. CASE Fail(f, Evidence(f), hops[f])
      BY <2>1, <2>3 DEF Fail, BoundOf, FetchType
    <2> QED
      BY <1>5, <2>2, <2>3 DEF TransportError
  <1>6. ASSUME NEW h, NEW b, RetryableStatus(f, h, b)
        PROVE  BoundOf(f)'
    <2>1. pc[f] = "reply" /\ wire' = wire /\ hop' = hop
      BY <1>6 DEF RetryableStatus, history
    <2>2. CASE TryAgain(f)
      <3>1. pc'[f] = "send" /\ attempt'[f] = attempt[f] + 1
        BY <2>2 DEF TryAgain, FetchType
      <3> QED
        BY <2>1, <3>1, ProductStep, HttpAssumption DEF BoundOf, FetchType
    <2>3. CASE Fail(f, Evidence(f), hops[f])
      BY <2>1, <2>3 DEF Fail, BoundOf, FetchType
    <2> QED
      BY <1>6, <2>2, <2>3 DEF RetryableStatus
  <1>7. ASSUME NEW h, NotModified(f, h)
        PROVE  BoundOf(f)'
    BY <1>7 DEF NotModified, Fail, Succeed, world, history, FetchType, BoundOf
  <1>8. ASSUME NEW h, NEW b, NEW d, Respond(f, h, b, d)
        PROVE  BoundOf(f)'
    BY <1>8 DEF Respond, Succeed, world, history, FetchType, BoundOf
  <1>9. ASSUME NEW h, NEW to, Redirect(f, h, to)
        PROVE  BoundOf(f)'
    <2>1. pc[f] = "reply" /\ wire' = wire
      BY <1>9 DEF Redirect, history
    <2>2. CASE pc'[f] = "report"
      BY <2>1, <2>2 DEF BoundOf
    <2>3. CASE pc'[f] = "permit" /\ hop'[f] = hop[f] + 1
      <3>1. hop[f] \in Nat /\ attempt[f] \in Nat /\ attempt[f] <= MaxAttempts /\ Len(wire[f]) \in Nat
        BY HttpAssumption DEF FetchType
      <3>2. (hop[f] + 1) * MaxAttempts = hop[f] * MaxAttempts + MaxAttempts /\ hop[f] * MaxAttempts \in Nat
        BY <3>1, ProductStep, HttpAssumption
      <3>3. Len(wire[f]) <= (hop[f] + 1) * MaxAttempts /\ Len(wire[f]) <= (MaxRedirects + 1) * MaxAttempts
        <4>1. Len(wire[f]) <= hop[f] * MaxAttempts + attempt[f] /\ Len(wire[f]) <= (MaxRedirects + 1) * MaxAttempts
          BY <2>1 DEF BoundOf
        <4>2. MaxAttempts \in Nat
          BY HttpAssumption
        <4> DEFINE q == hop[f] * MaxAttempts
                   r == (hop[f] + 1) * MaxAttempts
                   n == Len(wire[f])
        <4>3. q \in Nat /\ r = q + MaxAttempts /\ n \in Nat /\ n <= q + attempt[f]
          BY <3>1, <3>2, <4>1
        <4>4. attempt[f] \in Nat /\ attempt[f] <= MaxAttempts
          BY <3>1
        <4> HIDE DEF q, r, n
        <4>5. n <= r
          BY <4>2, <4>3, <4>4
        <4> QED
          BY <4>1, <4>5 DEF n, r
      <3>4. Len(wire'[f]) = Len(wire[f]) /\ hop'[f] * MaxAttempts = (hop[f] + 1) * MaxAttempts
        BY <2>1, <2>3
      <3> QED
        BY <2>3, <3>3, <3>4 DEF BoundOf
    <2> QED
      BY <1>9, <2>2, <2>3 DEF Redirect, Fail, FetchType
  <1> QED
    BY <1>1, <1>2, <1>3, <1>4, <1>5, <1>6, <1>7, <1>8, <1>9, <1>10, StartCases DEF Step


-----------------------------------------------------------------------------
(* The evidence keeps step with the wire: only a request without its reply *)
(* has none yet.  An evidence names the hop it was made on.                *)
EvidenceOf(f) ==
    /\ Len(wire[f]) = IF pc[f] = "reply" THEN Len(evid[f]) + 1 ELSE Len(evid[f])
    /\ pc[f] = "reply" => wire[f][Len(wire[f])] = cur[f]
    /\ \A i \in 1 .. Len(evid[f]) :
         /\ evid[f][i][1] = wire[f][i]
         /\ evid[f][i][2] <= Len(hops[f])
         /\ evid[f][i][1] = IF evid[f][i][2] = 0 THEN Target[f] ELSE hops[f][evid[f][i][2]][2]

(* The hops form a path from the request's URL to the URL in hand, and     *)
(* each starts at a URL that was requested.                                *)
HopsOf(f) ==
    /\ \A i \in 1 .. Len(hops[f]) :
         /\ hops[f][i][1] = IF i = 1 THEN Target[f] ELSE hops[f][i - 1][2]
         /\ \E k \in 1 .. Len(wire[f]) : wire[f][k] = hops[f][i][1]
    /\ pc[f] /= "report" =>
         cur[f] = IF Len(hops[f]) = 0 THEN Target[f] ELSE hops[f][Len(hops[f])][2]

(* The result of a fetch carries the evidence and the hops of the fetch.   *)
ResultOf(f) ==
    /\ pc[f] /= "report" => result[f] = NoResult
    /\ result[f] /= NoResult =>
         /\ result[f].evid = evid[f] /\ result[f].hops = hops[f]
         /\ result[f].kind = "full" => Len(wire[f]) > 0 /\ result[f].url = FinalUrl[wire[f][Len(wire[f])]]

(* What every reply does to the trail of a fetch.                          *)
Answered(f) ==
    /\ pc[f] = "reply" /\ pc'[f] /= "reply" /\ wire' = wire
    /\ evid'[f] = Evidence(f)
    /\ \/ hops'[f] = hops[f] /\ cur'[f] = cur[f]
       \/ \E to \in Url : /\ hops'[f] = Append(hops[f], <<cur[f], to>>)
                          /\ pc'[f] = "report" \/ cur'[f] = to

(* An answer adds the evidence of its request.                             *)
LEMMA AnsweredEvidence ==
    ASSUME FetchType, NEW f \in Adapter, Answered(f), EvidenceOf(f), HopsOf(f)
    PROVE  EvidenceOf(f)'
  <1> DEFINE n == Len(evid[f])
  <1>1. /\ n \in Nat /\ Len(hops[f]) \in Nat
        /\ \A i \in 1 .. n : evid[f][i] \in Url \X Nat
    BY DEF FetchType
  <1>2. /\ Len(evid'[f]) = n + 1 /\ evid'[f][n + 1] = <<cur[f], Len(hops[f])>>
        /\ \A i \in 1 .. n : evid'[f][i] = evid[f][i]
    BY DEF FetchType, Answered, Evidence
  <1>3. Len(wire'[f]) = n + 1 /\ wire'[f][n + 1] = cur[f] /\ wire'[f] = wire[f]
    BY DEF Answered, EvidenceOf
  <1>4. /\ Len(hops'[f]) >= Len(hops[f])
        /\ \A j \in 1 .. Len(hops[f]) : hops'[f][j] = hops[f][j]
    BY DEF FetchType, Answered
  <1>5. cur[f] = IF Len(hops[f]) = 0 THEN Target[f] ELSE hops[f][Len(hops[f])][2]
    BY DEF Answered, HopsOf
  <1>6. ASSUME NEW i \in 1 .. Len(evid'[f])
        PROVE  /\ evid'[f][i][1] = wire'[f][i]
               /\ evid'[f][i][2] <= Len(hops'[f])
               /\ evid'[f][i][1] = IF evid'[f][i][2] = 0 THEN Target[f] ELSE hops'[f][evid'[f][i][2]][2]
    <2>1. CASE i = n + 1
      <3>1. evid'[f][i][1] = cur[f] /\ evid'[f][i][2] = Len(hops[f])
        BY <1>2, <2>1
      <3>2. Len(hops[f]) = 0 \/ hops'[f][Len(hops[f])] = hops[f][Len(hops[f])]
        <4>1. Len(hops[f]) = 0 \/ Len(hops[f]) \in 1 .. Len(hops[f])
          BY <1>1
        <4> QED
          BY <1>4, <4>1
      <3> QED
        BY <1>3, <1>4, <1>5, <2>1, <3>1, <3>2
    <2>2. CASE i \in 1 .. n
      <3>1. evid'[f][i] = evid[f][i] /\ evid[f][i][2] \in Nat /\ evid[f][i][2] <= Len(hops[f])
        BY <1>1, <1>2, <2>2 DEF EvidenceOf
      <3>2. evid[f][i][2] = 0 \/ evid[f][i][2] \in 1 .. Len(hops[f])
        BY <1>1, <3>1
      <3>3. evid[f][i][2] = 0 \/ hops'[f][evid[f][i][2]] = hops[f][evid[f][i][2]]
        BY <1>4, <3>2
      <3>4. /\ evid[f][i][1] = wire[f][i]
            /\ evid[f][i][1] = IF evid[f][i][2] = 0 THEN Target[f] ELSE hops[f][evid[f][i][2]][2]
        BY <1>1, <2>2 DEF EvidenceOf
      <3>5. evid[f][i][2] <= Len(hops'[f])
        BY <1>1, <1>4, <3>1
      <3> QED
        BY <1>1, <1>3, <2>2, <3>1, <3>3, <3>4, <3>5 DEF FetchType
    <2> QED
      BY <1>1, <1>2, <2>1, <2>2
  <1> QED
    BY <1>2, <1>3, <1>6 DEF EvidenceOf, Answered

(* A redirect adds a hop that joins on to the last one.                    *)
LEMMA AnsweredHops ==
    ASSUME FetchType, NEW f \in Adapter, Answered(f), EvidenceOf(f), HopsOf(f)
    PROVE  HopsOf(f)'
  <1>1. Len(hops[f]) \in Nat /\ Len(wire[f]) \in Nat /\ Len(evid[f]) \in Nat
    BY DEF FetchType
  <1>2. wire' = wire /\ Len(wire[f]) \in 1 .. Len(wire[f]) /\ wire[f][Len(wire[f])] = cur[f]
    BY <1>1 DEF Answered, EvidenceOf
  <1>3. cur[f] = IF Len(hops[f]) = 0 THEN Target[f] ELSE hops[f][Len(hops[f])][2]
    BY DEF Answered, HopsOf
  <1>4. CASE hops'[f] = hops[f] /\ cur'[f] = cur[f]
    BY <1>2, <1>3, <1>4 DEF HopsOf
  <1>5. ASSUME NEW to \in Url, hops'[f] = Append(hops[f], <<cur[f], to>>),
               pc'[f] = "report" \/ cur'[f] = to
        PROVE  HopsOf(f)'
    <2>1. /\ Len(hops'[f]) = Len(hops[f]) + 1 /\ hops'[f][Len(hops[f]) + 1] = <<cur[f], to>>
          /\ \A j \in 1 .. Len(hops[f]) : hops'[f][j] = hops[f][j]
      BY <1>5 DEF FetchType
    <2>2. ASSUME NEW i \in 1 .. Len(hops'[f])
          PROVE  /\ hops'[f][i][1] = IF i = 1 THEN Target[f] ELSE hops'[f][i - 1][2]
                 /\ \E k \in 1 .. Len(wire'[f]) : wire'[f][k] = hops'[f][i][1]
      <3>1. CASE i = Len(hops[f]) + 1
        <4>1. hops'[f][i][1] = cur[f] /\ (i = 1 <=> Len(hops[f]) = 0)
          BY <1>1, <2>1, <3>1
        <4>2. i /= 1 => hops'[f][i - 1] = hops[f][Len(hops[f])]
          BY <1>1, <2>1, <3>1
        <4> QED
          BY <1>2, <1>3, <4>1, <4>2
      <3>2. CASE i \in 1 .. Len(hops[f])
        <4>1. hops'[f][i] = hops[f][i] /\ (i /= 1 => hops'[f][i - 1] = hops[f][i - 1])
          BY <1>1, <2>1, <3>2
        <4> QED
          BY <1>2, <3>2, <4>1 DEF HopsOf
      <3> QED
        BY <1>1, <2>1, <3>1, <3>2
    <2>3. pc'[f] = "report" \/ cur'[f] = hops'[f][Len(hops'[f])][2]
      BY <1>5, <2>1
    <2>4. Len(hops'[f]) /= 0
      BY <1>1, <2>1
    <2>5. \A i \in 1 .. Len(hops'[f]) :
             /\ hops'[f][i][1] = IF i = 1 THEN Target[f] ELSE hops'[f][i - 1][2]
             /\ \E k \in 1 .. Len(wire'[f]) : wire'[f][k] = hops'[f][i][1]
      BY <2>2
    <2> QED
      BY <2>3, <2>4, <2>5, Zenon DEF HopsOf
  <1> QED
    BY <1>4, <1>5 DEF Answered

(* Every way to handle a reply is one of the answers above.                *)
LEMMA ReplyAnswers ==
    ASSUME FetchType, NEW f \in Adapter, Step(f), pc[f] = "reply"
    PROVE  Answered(f)
  <1>1. ASSUME NEW kind, TransportError(f, kind)
        PROVE  Answered(f)
    BY <1>1 DEF TransportError, TryAgain, Fail, FetchType, Answered, history
  <1>2. ASSUME NEW h, NEW b, RetryableStatus(f, h, b)
        PROVE  Answered(f)
    BY <1>2 DEF RetryableStatus, TryAgain, Fail, FetchType, Answered
  <1>3. ASSUME NEW h, NotModified(f, h)
        PROVE  Answered(f)
    BY <1>3 DEF NotModified, Fail, Succeed, FetchType, Answered, history
  <1>4. ASSUME NEW h, NEW b, NEW d, Respond(f, h, b, d)
        PROVE  Answered(f)
    BY <1>4 DEF Respond, Succeed, FetchType, Answered, history
  <1>5. ASSUME NEW h, NEW to, Redirect(f, h, to)
        PROVE  Answered(f)
    BY <1>5 DEF Redirect, Fail, FetchType, Answered, history
  <1> QED
    BY <1>1, <1>2, <1>3, <1>4, <1>5 DEF Step, Permit, Send, ExecuteAgain, Report

(* A start, a refusal, Permit, Send and Report are the steps that no reply *)
(* makes.                                                                  *)
LEMMA StepCases ==
    ASSUME FetchType, NEW f \in Adapter, Acquire(f) \/ Step(f)
    PROVE  \/ Started(f) \/ Refused(f) \/ Permit(f) \/ Send(f) \/ Report(f)
           \/ (Step(f) /\ pc[f] = "reply")
  BY StartCases DEF Step, TransportError, RetryableStatus, NotModified, Respond, Redirect

(* Evidence and hops follow the requests in every step.                    *)
LEMMA TrailStep ==
    ASSUME FetchType, NEW f \in Adapter, Acquire(f) \/ Step(f), RestOf(f), EvidenceOf(f), HopsOf(f)
    PROVE  EvidenceOf(f)' /\ HopsOf(f)'
  <1>1. CASE Started(f)
    BY <1>1 DEF Started, EvidenceOf, HopsOf
  <1>5. CASE Refused(f)
    BY <1>5 DEF Refused, fetch, history, EvidenceOf, HopsOf
  <1>2. CASE Permit(f)
    <2>1. /\ wire' = wire /\ cur' = cur /\ pc[f] = "permit" /\ pc'[f] \in {"send", "report"}
          /\ evid'[f] = evid[f] /\ hops'[f] = hops[f]
      BY <1>2 DEF Permit, Fail, FetchType, history
    <2> QED
      BY <2>1 DEF EvidenceOf, HopsOf
  <1>3. CASE Send(f)
    <2>1. /\ pc[f] = "send" /\ pc'[f] = "reply" /\ cur' = cur /\ evid' = evid /\ hops' = hops
          /\ Len(wire'[f]) = Len(wire[f]) + 1 /\ wire'[f][Len(wire[f]) + 1] = cur[f]
          /\ \A i \in 1 .. Len(wire[f]) : wire'[f][i] = wire[f][i]
      BY <1>3 DEF Send, FetchType
    <2>2. Len(wire[f]) \in Nat /\ Len(evid[f]) = Len(wire[f])
      BY <2>1 DEF EvidenceOf, FetchType
    <2>3. EvidenceOf(f)'
      BY <2>1, <2>2 DEF EvidenceOf
    <2>4. ASSUME NEW i \in 1 .. Len(hops[f])
          PROVE  \E k \in 1 .. Len(wire'[f]) : wire'[f][k] = hops[f][i][1]
      <3>1. PICK k \in 1 .. Len(wire[f]) : wire[f][k] = hops[f][i][1]
        BY DEF HopsOf
      <3>2. k \in 1 .. Len(wire'[f]) /\ wire'[f][k] = wire[f][k]
        BY <2>1, <2>2
      <3> QED
        BY <3>1, <3>2
    <2>5. HopsOf(f)'
      BY <2>1, <2>4 DEF HopsOf
    <2> QED
      BY <2>3, <2>5
  <1>4. CASE Report(f)
    <2>1. /\ pc'[f] = "done" /\ wire'[f] = <<>> /\ evid'[f] = <<>> /\ hops'[f] = <<>>
          /\ cur'[f] = Target[f]
      BY <1>4 DEF Report, FetchType
    <2> QED
      BY <2>1 DEF EvidenceOf, HopsOf
  <1> QED
    BY <1>1, <1>2, <1>3, <1>4, <1>5, StepCases, ReplyAnswers, AnsweredEvidence, AnsweredHops

(* The result is made of the evidence at hand.                             *)
LEMMA ResultStep ==
    ASSUME FetchType, NEW f \in Adapter, Acquire(f) \/ Step(f), EvidenceOf(f), ResultOf(f)
    PROVE  ResultOf(f)'
  <1>0. pc[f] = "reply" => Len(wire[f]) > 0 /\ wire[f][Len(wire[f])] = cur[f]
    BY DEF EvidenceOf, FetchType
  <1>1. ASSUME NEW ev, NEW hp, Fail(f, ev, hp)
        PROVE  ResultOf(f)'
    BY <1>1 DEF Fail, ResultOf, FetchType
  <1>2. ASSUME NEW ev, NEW body, NEW ref, Succeed(f, ev, body, ref), pc[f] = "reply", wire' = wire
        PROVE  ResultOf(f)'
    BY <1>0, <1>2 DEF Succeed, ResultOf, FetchType
  <1>3. CASE pc[f] /= "report" /\ result'[f] = result[f]
    BY <1>3 DEF ResultOf
  <1>4. CASE Report(f)
    BY <1>4 DEF Report, ResultOf, FetchType
  <1>5. CASE Refused(f) \/ Permit(f) \/ Send(f)
    BY <1>1, <1>3, <1>5 DEF Refused, Permit, Send
  <1>11. CASE Started(f)
    BY <1>11 DEF Started, ResultOf
  <1>6. ASSUME NEW kind, TransportError(f, kind)
        PROVE  ResultOf(f)'
    BY <1>1, <1>3, <1>6 DEF TransportError, TryAgain
  <1>7. ASSUME NEW h, NEW b, RetryableStatus(f, h, b)
        PROVE  ResultOf(f)'
    BY <1>1, <1>3, <1>7 DEF RetryableStatus, TryAgain
  <1>8. ASSUME NEW h, NotModified(f, h)
        PROVE  ResultOf(f)'
    BY <1>1, <1>2, <1>8 DEF NotModified, history
  <1>9. ASSUME NEW h, NEW b, NEW d, Respond(f, h, b, d)
        PROVE  ResultOf(f)'
    BY <1>2, <1>9 DEF Respond, history
  <1>10. ASSUME NEW h, NEW to, Redirect(f, h, to)
         PROVE  ResultOf(f)'
    BY <1>1, <1>3, <1>10 DEF Redirect
  <1> QED
    BY <1>4, <1>5, <1>6, <1>7, <1>8, <1>9, <1>10, <1>11, StartCases DEF Step


-----------------------------------------------------------------------------
(* The invariant of every fetch, and what it gives.                        *)
FetchInv ==
    /\ FetchType
    /\ \A f \in Adapter :
         /\ RestOf(f) /\ HomeOf(f) /\ HintOf(f) /\ PermittedOf(f)
         /\ BoundOf(f) /\ EvidenceOf(f) /\ HopsOf(f) /\ ResultOf(f)

(* Init establishes the invariant.                                         *)
LEMMA InvInit == Init => FetchInv
  <1> SUFFICES ASSUME Init, NEW f \in Adapter
               PROVE  /\ RestOf(f) /\ HomeOf(f) /\ HintOf(f) /\ PermittedOf(f)
                      /\ BoundOf(f) /\ EvidenceOf(f) /\ HopsOf(f) /\ ResultOf(f)
    BY TypeInit DEF FetchInv
  <1>1. /\ pc[f] = "new" /\ cur[f] = Target[f] /\ hop[f] = 0 /\ ~creds[f]
        /\ hops[f] = <<>> /\ evid[f] = <<>> /\ wire[f] = <<>>
        /\ result[f] = NoResult /\ sent[f] = NotSent /\ told[f] = NotTold
    BY DEF Init
  <1>2. RestOf(f) /\ HomeOf(f) /\ PermittedOf(f) /\ EvidenceOf(f) /\ HopsOf(f) /\ ResultOf(f)
    BY <1>1 DEF RestOf, HomeOf, AtHome, PermittedOf, Fetching, EvidenceOf, HopsOf, ResultOf
  <1>3. HintOf(f)
    BY <1>1 DEF HintOf, NotTold
  <1>4. 0 <= (MaxRedirects + 1) * MaxAttempts
    BY HttpAssumption, ProductStep
  <1> QED
    BY <1>1, <1>2, <1>3, <1>4 DEF BoundOf

(* Every step keeps it.                                                    *)
LEMMA InvNext == FetchInv /\ [Next]_vars => FetchInv'
  <1> SUFFICES ASSUME FetchInv, [Next]_vars, NEW g \in Adapter
               PROVE  /\ RestOf(g)' /\ HomeOf(g)' /\ HintOf(g)' /\ PermittedOf(g)'
                      /\ BoundOf(g)' /\ EvidenceOf(g)' /\ HopsOf(g)' /\ ResultOf(g)'
    BY TypeNext DEF FetchInv
  <1>1. /\ FetchType
        /\ RestOf(g) /\ HomeOf(g) /\ HintOf(g) /\ PermittedOf(g)
        /\ BoundOf(g) /\ EvidenceOf(g) /\ HopsOf(g) /\ ResultOf(g)
    BY DEF FetchInv
  <1>2. ASSUME Same(g), scenario' = scenario
        PROVE  /\ RestOf(g)' /\ HomeOf(g)' /\ HintOf(g)' /\ PermittedOf(g)'
               /\ BoundOf(g)' /\ EvidenceOf(g)' /\ HopsOf(g)' /\ ResultOf(g)'
    <2>1. RestOf(g)' /\ HomeOf(g)' /\ HintOf(g)' /\ BoundOf(g)'
      BY <1>1, <1>2 DEF Same, RestOf, HomeOf, AtHome, HintOf, BoundOf
    <2>2. EvidenceOf(g)' /\ HopsOf(g)' /\ ResultOf(g)'
      BY <1>1, <1>2 DEF Same, EvidenceOf, HopsOf, ResultOf
    <2>3. PermittedOf(g)'
      BY <1>1, <1>2 DEF Same, PermittedOf, Permitted, Secured, Allowed, PolicyFailure, EgressDenied
    <2> QED
      BY <2>1, <2>2, <2>3
  <1>3. CASE Acquire(g) \/ Step(g)
    BY <1>1, <1>3, RestStep, HomeStep, HintStep, PermittedStep, BoundStep, TrailStep, ResultStep
  <1>4. CASE UNCHANGED <<fetch, scenario, store, round, pc, result, history>>
    BY <1>2, <1>4 DEF Same, fetch, history
  <1>5. ASSUME NEW f \in Adapter, Acquire(f) \/ Step(f)
        PROVE  scenario' = scenario
    BY <1>1, <1>5, WorldUnchanged DEF world
  <1> QED
    BY <1>1, <1>2, <1>3, <1>4, <1>5, OthersUnchanged, NextCases, ElsewhereUnchanged

(* The inductive invariant of all adapters.                                *)
LEMMA InvCorrect == Spec => []FetchInv
  BY InvInit, InvNext, PTL DEF Spec

(* The elements of a sequence are the values at its indices.               *)
LEMMA ElementAt ==
    ASSUME NEW S, NEW s \in Seq(S)
    PROVE  ToSet(s) = {s[i] : i \in 1 .. Len(s)} /\ DOMAIN s = 1 .. Len(s)
  BY DEF ToSet

(* The caller's credentials reach no origin but the one it asked for, on   *)
(* any web of redirects, and are not sent again once a hop has left it,    *)
(* also where a later hop leads back.                                      *)
THEOREM CredentialsCorrect == Spec => []CredentialsStayHome
  <1>1. FetchInv => CredentialsStayHome
    <2> SUFFICES ASSUME FetchInv, NEW f \in Adapter, sent[f] /= NotSent, sent[f].creds
                 PROVE  /\ f \in HasCredentials
                        /\ \A u \in ToSet(wire[f]) : OriginOf[u] = OriginOf[Target[f]]
      BY DEF CredentialsStayHome
    <2>1. AtHome(f)
      BY DEF FetchInv, HomeOf
    <2>2. ToSet(wire[f]) = {wire[f][i] : i \in 1 .. Len(wire[f])}
      BY ElementAt DEF FetchInv, FetchType
    <2> QED
      BY <2>1, <2>2 DEF AtHome
  <1> QED
    BY <1>1, InvCorrect, PTL

(* The limiter of a hop is never told a Retry-After of another hop, nor of *)
(* an earlier fetch.                                                       *)
THEOREM HintCorrect == Spec => []HintIsOwn
  <1>1. FetchInv => HintIsOwn
    BY DEF FetchInv, HintOf, HintIsOwn
  <1> QED
    BY <1>1, InvCorrect, PTL

(* The acquisition's policy binds the request, the adapter's config every  *)
(* hop, robots and rate prohibition every URL on the wire; https is never  *)
(* left, and redirects and attempts bound how many requests there are.     *)
THEOREM PermittedCorrect == Spec => []OnlyPermittedRequests
  <1>1. FetchInv => OnlyPermittedRequests
    <2> SUFFICES ASSUME FetchInv, NEW f \in Adapter
                 PROVE  /\ Len(wire[f]) <= (MaxRedirects + 1) * MaxAttempts
                        /\ wire[f] /= <<>> => ~PolicyFailure(f)
                        /\ \A i \in DOMAIN wire[f] :
                             /\ wire[f][i] \notin Disallowed \cup Prohibited
                             /\ wire[f][i] = Target[f] \/ ~EgressDenied(f, wire[f][i])
                             /\ \A k \in 1 .. i : wire[f][k] \in HttpsUrl => wire[f][i] \in HttpsUrl
      BY DEF OnlyPermittedRequests
    <2>1. Len(wire[f]) <= (MaxRedirects + 1) * MaxAttempts
      BY DEF FetchInv, BoundOf
    <2>2. wire[f] /= <<>> => ~PolicyFailure(f)
      BY DEF FetchInv, RestOf, PermittedOf
    <2>3. DOMAIN wire[f] = 1 .. Len(wire[f])
      BY ElementAt DEF FetchInv, FetchType
    <2>4. \A i \in 1 .. Len(wire[f]) : Permitted(f, i)
      BY DEF FetchInv, PermittedOf
    <2> QED
      BY <2>1, <2>2, <2>3, <2>4 DEF Permitted, Allowed, Secured
  <1> QED
    BY <1>1, InvCorrect, PTL

(* A result, partial or full, accounts for every request of its fetch, in  *)
(* order, along a connected chain of hops.                                 *)
THEOREM EvidenceCorrect == Spec => []EvidenceComplete
  <1>1. FetchInv => EvidenceComplete
    <2> SUFFICES ASSUME FetchInv, NEW f \in Adapter, pc[f] = "report", result[f] /= NoResult
                 PROVE  LET r == result[f] IN
                        /\ [i \in DOMAIN r.evid |-> r.evid[i][1]] = wire[f]
                        /\ Connected(r.hops, Target[f])
                        /\ \A i \in DOMAIN r.hops : r.hops[i][1] \in ToSet(wire[f])
                        /\ \A i \in DOMAIN r.evid : r.evid[i][1] =
                              (IF r.evid[i][2] = 0 THEN Target[f] ELSE r.hops[r.evid[i][2]][2])
                        /\ r.kind = "full" => r.url = FinalUrl[Last(wire[f])]
      BY DEF EvidenceComplete
    <2>1. result[f].evid = evid[f] /\ result[f].hops = hops[f]
      BY DEF FetchInv, ResultOf
    <2>2. /\ evid[f] \in Seq(Url \X Nat) /\ hops[f] \in Seq(Url \X Url) /\ wire[f] \in Seq(Url)
          /\ DOMAIN evid[f] = 1 .. Len(evid[f]) /\ DOMAIN hops[f] = 1 .. Len(hops[f])
      BY DEF FetchInv, FetchType
    <2>3. [i \in DOMAIN evid[f] |-> evid[f][i][1]] = wire[f]
      <3>1. Len(wire[f]) = Len(evid[f]) /\ \A i \in 1 .. Len(evid[f]) : evid[f][i][1] = wire[f][i]
        BY DEF FetchInv, EvidenceOf
      <3>2. wire[f] = [i \in 1 .. Len(wire[f]) |-> wire[f][i]]
        BY <2>2
      <3> QED
        BY <2>2, <3>1, <3>2
    <2>4. Connected(hops[f], Target[f])
      BY <2>2 DEF FetchInv, HopsOf, Connected
    <2>5. \A i \in DOMAIN hops[f] : hops[f][i][1] \in ToSet(wire[f])
      BY <2>2, ElementAt DEF FetchInv, HopsOf
    <2>6. \A i \in DOMAIN evid[f] : evid[f][i][1] =
             (IF evid[f][i][2] = 0 THEN Target[f] ELSE hops[f][evid[f][i][2]][2])
      BY <2>2 DEF FetchInv, EvidenceOf
    <2>7. result[f].kind = "full" => result[f].url = FinalUrl[Last(wire[f])]
      BY DEF FetchInv, ResultOf, Last
    <2> QED
      BY <2>1, <2>3, <2>4, <2>5, <2>6, <2>7
  <1> QED
    BY <1>1, InvCorrect, PTL

-----------------------------------------------------------------------------
(* The loops end.                                                          *)
Left(p, h, a) ==
    CASE p = "done" -> 0
      [] p = "report" -> 1
      [] p = "reply" -> (MaxRedirects - h) * StepsPerHop + 2 * (MaxAttempts - a) + 2
      [] p = "send" -> (MaxRedirects - h) * StepsPerHop + 2 * (MaxAttempts - a) + 3
      [] p = "permit" -> (MaxRedirects - h) * StepsPerHop + 2 * MaxAttempts + 2
      [] p = "new" -> StepsPerExecute

(* The bound on the steps left, place by place.                            *)
LEMMA LeftAt ==
    ASSUME NEW h, NEW a
    PROVE  /\ Left("done", h, a) = 0
           /\ Left("report", h, a) = 1
           /\ Left("reply", h, a) = (MaxRedirects - h) * StepsPerHop + 2 * (MaxAttempts - a) + 2
           /\ Left("send", h, a) = (MaxRedirects - h) * StepsPerHop + 2 * (MaxAttempts - a) + 3
           /\ Left("permit", h, a) = (MaxRedirects - h) * StepsPerHop + 2 * MaxAttempts + 2
           /\ Left("new", h, a) = StepsPerExecute
  BY Zenon DEF Left

(* One hop less to go is worth the steps of one hop.                       *)
LEMMA HopsShrink ==
    ASSUME NEW h \in 0 .. MaxRedirects
    PROVE  /\ (MaxRedirects - h) * StepsPerHop \in Nat /\ StepsPerHop \in Nat
           /\ h /= MaxRedirects =>
                (MaxRedirects - h) * StepsPerHop = (MaxRedirects - (h + 1)) * StepsPerHop + StepsPerHop
  <1>1. StepsPerHop \in Nat /\ MaxRedirects - h \in Nat
    BY HttpAssumption DEF StepsPerHop
  <1>2. (MaxRedirects - h) * StepsPerHop \in Nat
    BY <1>1
  <1>3. ASSUME h /= MaxRedirects
        PROVE  (MaxRedirects - h) * StepsPerHop = (MaxRedirects - (h + 1)) * StepsPerHop + StepsPerHop
    <2>1. MaxRedirects - (h + 1) \in Nat /\ MaxRedirects - h = (MaxRedirects - (h + 1)) + 1
      BY <1>3, HttpAssumption
    <2> HIDE DEF StepsPerHop
    <2> QED
      BY <1>1, <2>1, ProductStep
  <1> QED
    BY <1>1, <1>2, <1>3

(* An execute has a positive number of steps.                              *)
LEMMA ExecuteSteps ==
    /\ StepsPerExecute \in Nat /\ StepsPerExecute > 2
    /\ StepsPerExecute = (MaxRedirects - 0) * StepsPerHop + 2 * MaxAttempts + 3
  <1>1. 0 \in 0 .. MaxRedirects /\ MaxRedirects - 0 = MaxRedirects /\ MaxAttempts \in Nat
    BY HttpAssumption
  <1>2. (MaxRedirects - 0) * StepsPerHop \in Nat
    BY <1>1, HopsShrink
  <1> QED
    BY <1>1, <1>2 DEF StepsPerExecute

(* Every step within an execute lowers that bound.                         *)
LEMMA ExecuteShrinks ==
    ASSUME FetchType, NEW f \in Adapter, Acquire(f) \/ Step(f), RestOf(f),
           pc[f] /= "report" \/ Report(f)
    PROVE  /\ StepsOfExecute(f)' < StepsOfExecute(f)
           /\ StepsOfExecute(f) \in Nat /\ StepsOfExecute(f)' \in Nat
  <1> DEFINE more == (MaxRedirects - hop[f]) * StepsPerHop
  <1>1. /\ hop[f] \in 0 .. MaxRedirects /\ attempt[f] \in 1 .. MaxAttempts
        /\ MaxAttempts \in Nat /\ MaxAttempts > 0
    BY HttpAssumption DEF FetchType
  <1>2. more \in Nat /\ StepsPerHop = 2 * MaxAttempts + 1
    BY <1>1, HopsShrink DEF StepsPerHop
  <1>3. /\ StepsOfExecute(f) = Left(pc[f], hop[f], attempt[f])
        /\ StepsOfExecute(f)' = Left(pc'[f], hop'[f], attempt'[f])
    BY Zenon DEF StepsOfExecute, Left
  <1>4. CASE Started(f) \/ Refused(f)
    <2>1. pc[f] = "new" /\ pc'[f] \in {"done", "report", "permit"} /\ (pc'[f] = "permit" => hop'[f] = 0)
      BY <1>4 DEF Started, Refused, Report, FetchType
    <2>2. StepsOfExecute(f) = StepsPerExecute
      BY <1>3, <2>1, LeftAt
    <2>3. StepsOfExecute(f)' \in {0, 1, (MaxRedirects - 0) * StepsPerHop + 2 * MaxAttempts + 2}
      BY <1>3, <2>1, LeftAt
    <2>4. (MaxRedirects - 0) * StepsPerHop \in Nat
      <3>1. 0 \in 0 .. MaxRedirects
        BY HttpAssumption
      <3> QED
        BY <3>1, HopsShrink
    <2> QED
      BY <1>1, <2>2, <2>3, <2>4, ExecuteSteps
  <1>5. CASE Permit(f)
    <2>1. /\ pc[f] = "permit" /\ pc'[f] \in {"send", "report"} /\ hop' = hop /\ attempt'[f] = 1
      BY <1>5 DEF Permit, Fail, FetchType
    <2> HIDE DEF more
    <2>2. StepsOfExecute(f) = more + 2 * MaxAttempts + 2
      BY <1>3, <2>1, LeftAt DEF more
    <2>3. StepsOfExecute(f)' \in {1, more + 2 * (MaxAttempts - 1) + 3}
      BY <1>3, <2>1, LeftAt DEF more
    <2> QED
      BY <1>1, <1>2, <2>2, <2>3
  <1>6. CASE Send(f)
    <2>1. pc[f] = "send" /\ pc'[f] = "reply" /\ hop' = hop /\ attempt' = attempt
      BY <1>6 DEF Send, FetchType
    <2> HIDE DEF more
    <2>2. StepsOfExecute(f) = more + 2 * (MaxAttempts - attempt[f]) + 3
      BY <1>3, <2>1, LeftAt DEF more
    <2>3. StepsOfExecute(f)' = more + 2 * (MaxAttempts - attempt[f]) + 2
      BY <1>3, <2>1, LeftAt DEF more
    <2> QED
      BY <1>1, <1>2, <2>2, <2>3
  <1>7. CASE Report(f)
    <2>1. pc[f] = "report" /\ pc'[f] = "done"
      BY <1>7 DEF Report, FetchType
    <2>2. StepsOfExecute(f) = 1 /\ StepsOfExecute(f)' = 0
      BY <1>3, <2>1, LeftAt
    <2> QED
      BY <2>2
  <1>8. CASE Step(f) /\ pc[f] = "reply"
    <2>1. \/ pc'[f] = "report"
          \/ pc'[f] = "send" /\ hop' = hop /\ attempt'[f] = attempt[f] + 1
          \/ pc'[f] = "permit" /\ hop[f] /= MaxRedirects /\ hop'[f] = hop[f] + 1
      <3>1. ASSUME NEW kind, TransportError(f, kind)
            PROVE  <2>1!1 \/ <2>1!2 \/ <2>1!3
        BY <3>1 DEF TransportError, TryAgain, Fail, FetchType
      <3>2. ASSUME NEW h, NEW b, RetryableStatus(f, h, b)
            PROVE  <2>1!1 \/ <2>1!2 \/ <2>1!3
        BY <3>2 DEF RetryableStatus, TryAgain, Fail, FetchType
      <3>3. ASSUME NEW h, NotModified(f, h)
            PROVE  <2>1!1 \/ <2>1!2 \/ <2>1!3
        BY <3>3 DEF NotModified, Fail, Succeed, FetchType
      <3>4. ASSUME NEW h, NEW b, NEW d, Respond(f, h, b, d)
            PROVE  <2>1!1 \/ <2>1!2 \/ <2>1!3
        BY <3>4 DEF Respond, Succeed, FetchType
      <3>5. ASSUME NEW h, NEW to, Redirect(f, h, to)
            PROVE  <2>1!1 \/ <2>1!2 \/ <2>1!3
        BY <3>5 DEF Redirect, Fail, FetchType
      <3> QED
        BY <1>8, <3>1, <3>2, <3>3, <3>4, <3>5 DEF Step, Permit, Send, ExecuteAgain, Report
    <2> HIDE DEF more
    <2>2. StepsOfExecute(f) = more + 2 * (MaxAttempts - attempt[f]) + 2
      BY <1>3, <1>8, LeftAt DEF more
    <2>3. CASE pc'[f] = "report"
      BY <1>1, <1>2, <1>3, <2>2, <2>3, LeftAt
    <2>4. CASE pc'[f] = "send" /\ hop' = hop /\ attempt'[f] = attempt[f] + 1
      <3>1. StepsOfExecute(f)' = more + 2 * (MaxAttempts - (attempt[f] + 1)) + 3
        BY <1>3, <2>4, LeftAt DEF more
      <3> QED
        BY <1>1, <1>2, <2>2, <3>1
    <2>5. CASE pc'[f] = "permit" /\ hop[f] /= MaxRedirects /\ hop'[f] = hop[f] + 1
      <3> DEFINE rest == (MaxRedirects - (hop[f] + 1)) * StepsPerHop
      <3>1. StepsOfExecute(f)' = rest + 2 * MaxAttempts + 2
        BY <1>3, <2>5, LeftAt
      <3>2. more = rest + StepsPerHop
        BY <1>1, <2>5, HopsShrink DEF more
      <3>3. rest \in Nat
        <4>1. hop[f] + 1 \in 0 .. MaxRedirects
          BY <1>1, <2>5, HttpAssumption
        <4> QED
          BY <4>1, HopsShrink
      <3> HIDE DEF rest
      <3> QED
        BY <1>1, <1>2, <2>2, <3>1, <3>2, <3>3
    <2> QED
      BY <2>1, <2>3, <2>4, <2>5
  <1> QED
    BY <1>4, <1>5, <1>6, <1>7, <1>8, StepCases

(* So do a second execute and the whole acquisition: the second is counted *)
(* from the beginning, until it starts.                                    *)
LEMMA ShrinkStep ==
    ASSUME FetchType, NEW f \in Adapter, Acquire(f) \/ Step(f), RestOf(f)
    PROVE  StepsLeft(f)' < StepsLeft(f)
  <1> DEFINE extra == IF pc[f] /= "done" /\ Probing(f) THEN StepsPerExecute ELSE 0
             after == IF pc'[f] /= "done" /\ Probing(f)' THEN StepsPerExecute ELSE 0
  <1>0. StepsLeft(f) = StepsOfExecute(f) + extra /\ StepsLeft(f)' = StepsOfExecute(f)' + after
    BY Zenon DEF StepsLeft
  <1>1. scenario' = scenario
    BY WorldUnchanged DEF world
  <1>2. CASE pc[f] /= "report" \/ Report(f)
    <2>1. /\ StepsOfExecute(f)' < StepsOfExecute(f)
          /\ StepsOfExecute(f) \in Nat /\ StepsOfExecute(f)' \in Nat
      BY <1>2, ExecuteShrinks
    <2>2. pc'[f] = "done" \/ (round' = round /\ pc[f] /= "done")
      BY <1>2 DEF Acquire, Step, Permit, Send, ExecuteAgain, Report, TransportError, RetryableStatus,
                  NotModified, Respond, Redirect, FetchType
    <2>3. after \in {0, extra}
      BY <1>1, <2>2 DEF Probing
    <2>4. extra \in Nat
      BY ExecuteSteps
    <2> HIDE DEF extra, after
    <2> QED
      BY <1>0, <2>1, <2>3, <2>4
  <1>3. CASE ExecuteAgain(f)
    <2>1. pc[f] = "report" /\ Probing(f) /\ round'[f] = 2
      BY <1>3 DEF ExecuteAgain, FetchType
    <2>2. Started(f)
      BY <1>3, <2>1, StartCases DEF Refused
    <2>3. pc'[f] \in {"permit", "report"} /\ hop'[f] = 0
      BY <2>2 DEF Started
    <2>4. extra = StepsPerExecute /\ after = 0
      BY <2>1 DEF Probing
    <2>5. StepsOfExecute(f) = 1
      BY <2>1, Zenon DEF StepsOfExecute
    <2>6. StepsOfExecute(f)' = Left(pc'[f], hop'[f], attempt'[f])
      BY Zenon DEF StepsOfExecute, Left
    <2>7. StepsOfExecute(f)' \in {1, (MaxRedirects - 0) * StepsPerHop + 2 * MaxAttempts + 2}
      BY <2>3, <2>6, LeftAt
    <2>8. (MaxRedirects - 0) * StepsPerHop \in Nat /\ MaxAttempts \in Nat
      <3>1. 0 \in 0 .. MaxRedirects /\ MaxAttempts \in Nat
        BY HttpAssumption
      <3> QED
        BY <3>1, HopsShrink
    <2> HIDE DEF extra, after
    <2> QED
      BY <1>0, <2>4, <2>5, <2>7, <2>8, ExecuteSteps
  <1>4. pc[f] = "report" => Report(f) \/ ExecuteAgain(f)
    BY DEF Acquire, Step, Permit, Send, TransportError, RetryableStatus, NotModified, Respond, Redirect
  <1> QED
    BY <1>2, <1>3, <1>4

(* Every acquisition ends, within two executes of MaxRedirects + 1 hops of *)
(* MaxAttempts attempts, whatever the servers answer: each step of an      *)
(* adapter lowers the number of steps it has left.                         *)
THEOREM StepsShrinkCorrect == Spec => StepsShrink
  <1>1. FetchInv /\ [Next]_vars =>
          [\A f \in Adapter : <<pc[f], hop[f], attempt[f], round[f]>>' /= <<pc[f], hop[f], attempt[f], round[f]>> =>
              StepsLeft(f)' < StepsLeft(f)]_vars
    <2> SUFFICES ASSUME FetchInv, [Next]_vars, NEW f \in Adapter,
                        <<pc'[f], hop'[f], attempt'[f], round'[f]>> /= <<pc[f], hop[f], attempt[f], round[f]>>
                 PROVE  StepsLeft(f)' < StepsLeft(f)
      OBVIOUS
    <2>1. ~Same(f)
      BY DEF Same
    <2>2. ~UNCHANGED <<fetch, scenario, store, round, pc, result, history>>
      BY DEF fetch
    <2> QED
      BY <2>1, <2>2, NextCases, ElsewhereUnchanged, OthersUnchanged, ShrinkStep DEF FetchInv
  <1> QED
    BY <1>1, InvCorrect, PTL DEF Spec, StepsShrink

-----------------------------------------------------------------------------
(* Induction over numbers and lists, from the least number principle: the *)
(* sets P, N and Q stand for the properties.                               *)

(* A set of numbers has a least one.                                       *)
LEMMA LeastNumber ==
    ASSUME NEW N, N \subseteq Nat, N # {}
    PROVE  \E n \in N : \A m \in N : n <= m
  <1> DEFINE R == OpToRel(<, Nat)
  <1>1. PICK n \in N : \A m \in N : <<m, n>> \notin R
    BY NatLessThanWellFounded, WFMin
  <1>2. \A m \in Nat, k \in Nat : m < k => <<m, k>> \in R
    BY DEF OpToRel
  <1>3. \A m \in N : n <= m
    <2>. HIDE DEF R
    <2>. TAKE m \in N
    <2>1. m \in Nat /\ n \in Nat
      OBVIOUS
    <2>2. ~(m < n)
      BY <1>1, <1>2, <2>1
    <2>. QED BY <2>1, <2>2
  <1>. QED BY <1>3

(* Induction over the numbers up to k, for a set of numbers.               *)
LEMMA UpTo ==
    ASSUME NEW k \in Nat, NEW P, 0 \in P, \A n \in 1 .. k : n - 1 \in P => n \in P
    PROVE  \A n \in 0 .. k : n \in P
  <1> DEFINE N == {n \in 0 .. k : n \notin P}
  <1> SUFFICES ASSUME N # {} PROVE FALSE
    OBVIOUS
  <1>1. N \subseteq Nat
    OBVIOUS
  <1>2. PICK n \in N : \A m \in N : n <= m
    <2>. HIDE DEF N
    <2>. QED BY <1>1, LeastNumber
  <1>3. n \in 1 .. k /\ n - 1 \in 0 .. k /\ ~(n <= n - 1)
    OBVIOUS
  <1>4. n - 1 \in P
    BY <1>2, <1>3
  <1>. QED BY <1>3, <1>4

(* What the loop of Kept has kept after each of the first k elements.      *)
KeepLoop(kept, s, T, k) ==
    kept = [n \in 0 .. k |->
              IF n = 0 THEN <<>>
              ELSE IF s[n] \in T THEN Append(kept[n - 1], s[n]) ELSE kept[n - 1]]

(* There is such a function: the loop runs.                                *)
LEMMA KeepLoopRuns ==
    ASSUME NEW s, NEW T, NEW k \in Nat
    PROVE  \E kept : KeepLoop(kept, s, T, k)
  <1> DEFINE Runs(m) == \E kept : KeepLoop(kept, s, T, m)
             P == {m \in Nat : Runs(m)}
  <1>1. Runs(0)
    <2>1. KeepLoop([n \in 0 .. 0 |-> <<>>], s, T, 0)
      BY DEF KeepLoop
    <2>. QED BY <2>1
  <1>2. ASSUME NEW m \in 1 .. k, Runs(m - 1)
        PROVE  Runs(m)
    <2>1. PICK kept : KeepLoop(kept, s, T, m - 1)
      BY <1>2
    <2> DEFINE last == IF s[m] \in T THEN Append(kept[m - 1], s[m]) ELSE kept[m - 1]
               new == [n \in 0 .. m |-> IF n = m THEN last ELSE kept[n]]
    <2>2. \A n \in 0 .. m :
             new[n] = IF n = 0 THEN <<>>
                      ELSE IF s[n] \in T THEN Append(new[n - 1], s[n]) ELSE new[n - 1]
      <3>. TAKE n \in 0 .. m
      <3>1. CASE n = m
        BY <3>1
      <3>2. CASE n # m
        <4>1. n \in 0 .. m - 1 /\ (n # 0 => n - 1 \in 0 .. m - 1)
          BY <3>2
        <4>2. new[n] = kept[n] /\ (n # 0 => new[n - 1] = kept[n - 1])
          BY <4>1, <3>2
        <4>. QED BY <2>1, <4>1, <4>2 DEF KeepLoop
      <3>. QED BY <3>1, <3>2
    <2>3. KeepLoop(new, s, T, m)
      <3>. HIDE DEF last
      <3>1. new = [n \in 0 .. m |-> new[n]]
        OBVIOUS
      <3>. HIDE DEF new
      <3>. QED BY <2>2, <3>1 DEF KeepLoop
    <2>. QED BY <2>3
  <1>3. 0 \in P /\ \A m \in 1 .. k : m - 1 \in P => m \in P
    <2>. HIDE DEF Runs
    <2>. QED BY <1>1, <1>2
  <1>4. \A m \in 0 .. k : m \in P
    <2>. HIDE DEF P
    <2>. QED BY <1>3, UpTo
  <1>. QED BY <1>4

(* Kept is what its loop has kept at the end.                              *)
LEMMA KeptLoop ==
    ASSUME NEW S, NEW s \in Seq(S), NEW T
    PROVE  \E kept : KeepLoop(kept, s, T, Len(s)) /\ Kept(s, T) = kept[Len(s)]
  <1> DEFINE kept == CHOOSE kept : KeepLoop(kept, s, T, Len(s))
  <1>0. Len(s) \in Nat
    OBVIOUS
  <1>1. \E g : KeepLoop(g, s, T, Len(s))
    BY <1>0, KeepLoopRuns
  <1>2. KeepLoop(kept, s, T, Len(s))
    BY <1>1, Zenon
  <1>3. Kept(s, T) = kept[Len(s)]
    BY Zenon DEF Kept, KeepLoop
  <1>. HIDE DEF kept
  <1>. QED BY <1>2, <1>3

(* Of the empty list nothing is kept.                                      *)
LEMMA KeptEmpty ==
    ASSUME NEW T PROVE Kept(<<>>, T) = <<>>
  <1>1. <<>> \in Seq({}) /\ Len(<<>>) = 0
    OBVIOUS
  <1>2. PICK kept : KeepLoop(kept, <<>>, T, 0) /\ Kept(<<>>, T) = kept[0]
    BY <1>1, KeptLoop
  <1>. QED BY <1>2 DEF KeepLoop

(* One more element is kept if it is in T.                                 *)
LEMMA KeptAppend ==
    ASSUME NEW S, NEW s \in Seq(S), NEW e \in S, NEW T
    PROVE  Kept(Append(s, e), T) = IF e \in T THEN Append(Kept(s, T), e) ELSE Kept(s, T)
  <1> DEFINE t == Append(s, e)
             k == Len(s)
  <1>1. t \in Seq(S) /\ Len(t) = k + 1 /\ k \in Nat /\ t[k + 1] = e
        /\ \A n \in 1 .. k : t[n] = s[n]
    OBVIOUS
  <1>2. PICK old : KeepLoop(old, s, T, k) /\ Kept(s, T) = old[k]
    BY KeptLoop
  <1>3. PICK new : KeepLoop(new, t, T, k + 1) /\ Kept(t, T) = new[k + 1]
    <2>. HIDE DEF t, k
    <2>. QED BY <1>1, KeptLoop
  <1>. HIDE DEF t, k
  <1>4. new[k + 1] = IF e \in T THEN Append(new[k], e) ELSE new[k]
    <2>1. k + 1 \in 0 .. k + 1 /\ k + 1 # 0 /\ (k + 1) - 1 = k
      BY <1>1
    <2>. QED BY <1>1, <1>3, <2>1 DEF KeepLoop
  <1> DEFINE P == {n \in 0 .. k : new[n] = old[n]}
  <1>5. 0 \in P
    BY <1>1, <1>2, <1>3 DEF KeepLoop
  <1>6. ASSUME NEW n \in 1 .. k, n - 1 \in P
        PROVE  n \in P
    <2>1. n \in 0 .. k /\ n \in 0 .. k + 1 /\ n # 0 /\ new[n - 1] = old[n - 1] /\ t[n] = s[n]
      BY <1>1, <1>6
    <2>2. old[n] = IF s[n] \in T THEN Append(old[n - 1], s[n]) ELSE old[n - 1]
      BY <1>2, <2>1 DEF KeepLoop
    <2>3. new[n] = IF t[n] \in T THEN Append(new[n - 1], t[n]) ELSE new[n - 1]
      BY <1>3, <2>1 DEF KeepLoop
    <2>. QED BY <2>1, <2>2, <2>3
  <1>7. \A n \in 0 .. k : n \in P
    <2>. HIDE DEF P
    <2>. QED BY <1>1, <1>5, <1>6, UpTo
  <1>8. new[k] = old[k]
    BY <1>1, <1>7
  <1>. QED BY <1>2, <1>3, <1>4, <1>8 DEF t

(* Induction over a list, for a set of lists.                              *)
LEMMA ListInduction ==
    ASSUME NEW S, NEW s \in Seq(S), NEW Q, <<>> \in Q,
           \A t \in Seq(S), e \in S : t \in Q => Append(t, e) \in Q
    PROVE  s \in Q
  <1> DEFINE P == {n \in 0 .. Len(s) : SubSeq(s, 1, n) \in Q}
  <1>0. Len(s) \in Nat
    OBVIOUS
  <1>1. 0 \in P
    <2>1. SubSeq(s, 1, 0) = <<>>
      OBVIOUS
    <2>2. 0 \in 0 .. Len(s)
      BY <1>0
    <2>. QED BY <2>1, <2>2, Zenon
  <1>2. ASSUME NEW n \in 1 .. Len(s), n - 1 \in P
        PROVE  n \in P
    <2>1. SubSeq(s, 1, n - 1) \in Seq(S) /\ s[n] \in S
      BY <1>0
    <2>2. SubSeq(s, 1, n) = Append(SubSeq(s, 1, n - 1), s[n])
      <3>1. 1 \in 1 .. Len(s)
        BY <1>0
      <3>2. SubSeq(s, 1, n) = SubSeq(s, 1, n - 1) \o <<s[n]>>
        BY <3>1, SubSeqRecursiveSecond
      <3>. QED BY <2>1, <3>2
    <2>3. SubSeq(s, 1, n - 1) \in Q /\ n \in 0 .. Len(s)
      BY <1>0, <1>2
    <2>. QED BY <2>1, <2>2, <2>3
  <1>3. \A n \in 0 .. Len(s) : n \in P
    <2>. HIDE DEF P
    <2>. QED BY <1>0, <1>1, <1>2, UpTo
  <1>4. SubSeq(s, 1, Len(s)) = s
    BY SubSeqFull
  <1>5. Len(s) \in P
    <2>. HIDE DEF P
    <2>. QED BY <1>0, <1>3
  <1>. QED BY <1>4, <1>5, Zenon

(* What is kept was in the list and is in T.                               *)
LEMMA KeptType ==
    ASSUME NEW S, NEW s \in Seq(S), NEW T
    PROVE  Kept(s, T) \in Seq(S \cap T)
  <1> DEFINE Q == {t \in Seq(S) : Kept(t, T) \in Seq(S \cap T)}
  <1>1. <<>> \in Q
    <2>1. <<>> \in Seq(S) /\ <<>> \in Seq(S \cap T)
      OBVIOUS
    <2>. QED BY <2>1, KeptEmpty, Zenon
  <1>2. ASSUME NEW t \in Seq(S), NEW e \in S, t \in Q
        PROVE  Append(t, e) \in Q
    <2>1. Kept(t, T) \in Seq(S \cap T)
      BY <1>2
    <2>2. e \in T => Append(Kept(t, T), e) \in Seq(S \cap T)
      BY <2>1
    <2>3. Append(t, e) \in Seq(S)
      OBVIOUS
    <2>4. Kept(Append(t, e), T) \in Seq(S \cap T)
      BY <2>1, <2>2, KeptAppend
    <2>. QED BY <2>3, <2>4, Zenon
  <1>3. s \in Q
    <2>. HIDE DEF Q
    <2>. QED BY <1>1, <1>2, ListInduction
  <1>. QED BY <1>3


-----------------------------------------------------------------------------
(* The cookie jar: a bucket holds cookies of its own run and origin.       *)

(* The loop of the cookie jar is this one.                                 *)
LEMMA JKept == \A s, T : J!Kept(s, T) = Kept(s, T)
  BY Zenon DEF J!Kept, Kept

(* The buckets of a jar, and what it is to hold only cookies of its own.   *)
Buckets == Run \X {OriginOf[u] : u \in Url}
OwnBucket(list, b) == list \in Seq({c \in ToSet(list) : c.run = b[1] /\ c.origin = b[2]})
OwnJar(j) == j = [b \in Buckets |-> j[b]] /\ \A b \in Buckets : OwnBucket(j[b], b)

(* A list of cookies of one run and origin makes an own bucket.            *)
LEMMA OwnList ==
    ASSUME NEW S, NEW list \in Seq(S), NEW b, \A c \in S : c.run = b[1] /\ c.origin = b[2]
    PROVE  OwnBucket(list, b)
  <1>1. \A i \in 1 .. Len(list) : list[i] \in ToSet(list) /\ list[i] \in S
    BY DEF ToSet
  <1>. QED BY <1>1 DEF OwnBucket

(* A jar stays own when one bucket is replaced by an own one.              *)
LEMMA BucketReplaced ==
    ASSUME NEW j, OwnJar(j), NEW b \in Buckets, NEW list, OwnBucket(list, b)
    PROVE  OwnJar([j EXCEPT ![b] = list])
  BY DEF OwnJar

(* A loop that keeps some of a bucket leaves an own one.                   *)
LEMMA KeptOwn ==
    ASSUME NEW list, NEW b, OwnBucket(list, b), NEW T
    PROVE  OwnBucket(J!Kept(list, T), b)
  <1> DEFINE S == {c \in ToSet(list) : c.run = b[1] /\ c.origin = b[2]}
  <1>1. list \in Seq(S)
    BY DEF OwnBucket
  <1>2. J!Kept(list, T) \in Seq(S \cap T)
    BY <1>1, KeptType, JKept
  <1>3. \A c \in S \cap T : c.run = b[1] /\ c.origin = b[2]
    OBVIOUS
  <1>. HIDE DEF S
  <1>. QED BY <1>2, <1>3, OwnList

(* cookies_for drops expired cookies and adds none.                        *)
LEMMA TrimmedOwn ==
    ASSUME NEW j, OwnJar(j), NEW run \in Run, NEW url \in Url, NEW at
    PROVE  OwnJar(J!Trimmed(j, run, url, at))
  <1>1. <<run, OriginOf[url]>> \in Buckets
    BY DEF Buckets
  <1>2. \A T : OwnBucket(J!Kept(j[<<run, OriginOf[url]>>], T), <<run, OriginOf[url]>>)
    BY <1>1, KeptOwn DEF OwnJar
  <1>. QED BY <1>1, <1>2, BucketReplaced DEF J!Trimmed

(* accept_set_cookie files a cookie under the run and origin it came from, *)
(* also when it evicts the oldest.                                         *)
LEMMA AcceptOwn ==
    ASSUME NEW j, OwnJar(j), NEW run \in Run, NEW url \in Url, NEW header, NEW at
    PROVE  OwnJar(J!AcceptSetCookie(j, run, url, header, at))
  <1> DEFINE b == <<run, OriginOf[url]>>
             cookie == J!CookieRecord(run, url, header, at)
             T == {c \in J!ToSet(j[b]) :
                                /\ <<c.name, c.path>> /= <<cookie.name, cookie.path>>
                                /\ ~J!Expired(c, at)}
             kept == J!Kept(j[b], T)
             all == IF J!Expired(cookie, at) THEN kept ELSE Append(kept, cookie)
             overflow == IF Len(all) > MaxCookies THEN Len(all) - MaxCookies ELSE 0
             rest == SubSeq(all, overflow + 1, Len(all))
  <1>1. b \in Buckets
    BY DEF Buckets
  <1>2. OwnBucket(kept, b)
    <2>. HIDE DEF T
    <2>. QED BY <1>1, KeptOwn DEF OwnJar
  <1>. DEFINE S == {c \in ToSet(kept) : c.run = b[1] /\ c.origin = b[2]} \cup {cookie}
  <1>3. \A c \in S : c.run = b[1] /\ c.origin = b[2]
    BY DEF J!CookieRecord
  <1>4. all \in Seq(S)
    <2>1. kept \in Seq(S)
      <3>. HIDE DEF kept, cookie
      <3>. QED BY <1>2 DEF OwnBucket
    <2>2. cookie \in S
      OBVIOUS
    <2>. HIDE DEF S, kept, cookie
    <2>. QED BY <2>1, <2>2
  <1>5. rest \in Seq(S)
    <2>. HIDE DEF S, all
    <2>1. Len(all) \in Nat /\ overflow \in Nat /\ overflow <= Len(all)
      BY <1>4, HttpAssumption
    <2>. HIDE DEF overflow
    <2>. QED BY <1>4, <2>1
  <1>6. OwnBucket(rest, b)
    <2>. HIDE DEF S, rest, b
    <2>. QED BY <1>3, <1>5, OwnList
  <1>7. J!AcceptSetCookie(j, run, url, header, at) \in {j, [j EXCEPT ![b] = rest]}
    BY Zenon DEF J!AcceptSetCookie
  <1>. HIDE DEF rest, b
  <1>. QED BY <1>1, <1>6, <1>7, BucketReplaced

(* The jar after each of the first k Set-Cookie headers of a reply.        *)
AbsorbLoop(after, j, run, url, headers, at, k) ==
    after = [n \in 0 .. k |-> IF n = 0 THEN j
                              ELSE J!AcceptSetCookie(after[n - 1], run, url, headers[n], at)]

(* The loop of _absorb_set_cookies runs.                                   *)
LEMMA AbsorbLoopRuns ==
    ASSUME NEW j, NEW run, NEW url, NEW headers, NEW at, NEW k \in Nat
    PROVE  \E after : AbsorbLoop(after, j, run, url, headers, at, k)
  <1> DEFINE Runs(m) == \E after : AbsorbLoop(after, j, run, url, headers, at, m)
             P == {m \in Nat : Runs(m)}
  <1>1. Runs(0)
    <2>1. AbsorbLoop([n \in 0 .. 0 |-> j], j, run, url, headers, at, 0)
      BY DEF AbsorbLoop
    <2>. QED BY <2>1
  <1>2. ASSUME NEW m \in 1 .. k, Runs(m - 1)
        PROVE  Runs(m)
    <2>1. PICK after : AbsorbLoop(after, j, run, url, headers, at, m - 1)
      BY <1>2
    <2> DEFINE new == [n \in 0 .. m |->
                         IF n = m THEN J!AcceptSetCookie(after[m - 1], run, url, headers[m], at)
                         ELSE after[n]]
    <2>2. \A n \in 0 .. m :
             new[n] = IF n = 0 THEN j
                      ELSE J!AcceptSetCookie(new[n - 1], run, url, headers[n], at)
      <3>. TAKE n \in 0 .. m
      <3>1. CASE n = m
        BY <3>1
      <3>2. CASE n # m
        <4>1. n \in 0 .. m - 1 /\ (n # 0 => n - 1 \in 0 .. m - 1)
          BY <3>2
        <4>2. new[n] = after[n] /\ (n # 0 => new[n - 1] = after[n - 1])
          BY <4>1, <3>2
        <4>. QED BY <2>1, <4>1, <4>2 DEF AbsorbLoop
      <3>. QED BY <3>1, <3>2
    <2>3. AbsorbLoop(new, j, run, url, headers, at, m)
      <3>1. new = [n \in 0 .. m |-> new[n]]
        OBVIOUS
      <3>. HIDE DEF new
      <3>. QED BY <2>2, <3>1 DEF AbsorbLoop
    <2>. QED BY <2>3
  <1>3. 0 \in P /\ \A m \in 1 .. k : m - 1 \in P => m \in P
    <2>. HIDE DEF Runs
    <2>. QED BY <1>1, <1>2
  <1>4. \A m \in 0 .. k : m \in P
    <2>. HIDE DEF P
    <2>. QED BY <1>3, UpTo
  <1>. QED BY <1>4

(* All Set-Cookie headers of a reply leave the jar own.                    *)
LEMMA AbsorbOwn ==
    ASSUME OwnJar(jar), NEW f \in Adapter, runOf[f] \in Run, cur[f] \in Url,
           NEW headers \in SetCookies, Absorb(f, headers)
    PROVE  OwnJar(jar')
  <1> DEFINE after == CHOOSE after : AbsorbLoop(after, jar, runOf[f], cur[f], headers, now, Len(headers))
             P == {n \in 0 .. Len(headers) : OwnJar(after[n])}
  <1>0. Len(headers) \in Nat
    BY HttpAssumption
  <1>1. \E g : AbsorbLoop(g, jar, runOf[f], cur[f], headers, now, Len(headers))
    BY <1>0, AbsorbLoopRuns
  <1>2. AbsorbLoop(after, jar, runOf[f], cur[f], headers, now, Len(headers))
    BY <1>1, Zenon
  <1>3. jar' = after[Len(headers)]
    BY Zenon DEF Absorb, AbsorbLoop
  <1>. HIDE DEF after
  <1>4. 0 \in P
    BY <1>0, <1>2 DEF AbsorbLoop
  <1>5. ASSUME NEW n \in 1 .. Len(headers), n - 1 \in P
        PROVE  n \in P
    <2>1. n \in 0 .. Len(headers) /\ n # 0
      BY <1>0
    <2>2. after[n] = J!AcceptSetCookie(after[n - 1], runOf[f], cur[f], headers[n], now)
      BY <1>2, <2>1 DEF AbsorbLoop
    <2>3. OwnJar(after[n - 1])
      BY <1>5
    <2>. QED BY <2>1, <2>2, <2>3, AcceptOwn
  <1>6. \A n \in 0 .. Len(headers) : n \in P
    <2>. HIDE DEF P
    <2>. QED BY <1>0, <1>4, <1>5, UpTo
  <1>. QED BY <1>0, <1>3, <1>6

(* The store of a client holds what its adapter was sent, in one run.      *)
OwnStore == DOMAIN store = Adapter /\ \A f \in Adapter : \A c \in store[f] : c.run = runOf[f]

(* What a client keeps of a reply, it keeps for its own adapter.           *)
LEMMA KeepsOwn ==
    ASSUME OwnStore, NEW f \in Adapter, NEW headers, ClientKeeps(f, headers), runOf' = runOf
    PROVE  OwnStore'
  <1> DEFINE got == [i \in DOMAIN headers |-> J!CookieRecord(runOf[f], cur[f], headers[i], now)]
             last == {i \in DOMAIN got : \A j \in DOMAIN got : Slot(got[j]) = Slot(got[i]) => j <= i}
             new == {c \in store[f] : \A i \in DOMAIN got : Slot(c) /= Slot(got[i])}
                    \cup {got[i] : i \in {j \in last : ~J!Expired(got[j], now)}}
  <1>1. \A i \in DOMAIN got : got[i].run = runOf[f]
    BY DEF J!CookieRecord
  <1>2. store' = [store EXCEPT ![f] = new] /\ \A c \in new : c \in store[f] \/ \E i \in DOMAIN got : c = got[i]
    <2>1. store' = [store EXCEPT ![f] = new]
      BY Zenon DEF ClientKeeps
    <2>. HIDE DEF got
    <2>2. \A c \in new : c \in store[f] \/ \E i \in DOMAIN got : c = got[i]
      OBVIOUS
    <2>. QED BY <2>1, <2>2
  <1>. HIDE DEF got, new
  <1>3. \A c \in new : c.run = runOf[f]
    BY <1>1, <1>2 DEF OwnStore
  <1>. QED BY <1>2, <1>3 DEF OwnStore

(* The inductive invariant of CookiesStayInScope: what is sent is read     *)
(* from the jar or from the client's store, so both must be own.           *)
ScopeInv ==
    /\ FetchType /\ runOf \in [Adapter -> Run]
    /\ OwnJar(jar) /\ OwnStore
    /\ CookiesStayInScope

(* A cookie is in scope for a URL at a time; CookiesStayInScope, of one    *)
(* adapter.                                                                *)
InScope(c, run, url, at) ==
    /\ c.run = run /\ SiteOf[c.origin] = SiteOf[OriginOf[url]]
    /\ c.secure => url \in HttpsUrl
    /\ J!PathMatches(PathOf[url], c.path)
    /\ ~J!Expired(c, at)
ScopeOf(f) ==
    sent[f] /= NotSent =>
        /\ \A c \in sent[f].cookies : c.origin = OriginOf[sent[f].url]
        /\ \A c \in sent[f].cookies \cup sent[f].client :
             InScope(c, runOf[f], sent[f].url, sent[f].at)

(* Only a request or a reply changes the jar, and only a request puts      *)
(* cookies on the wire; an adapter that is dropped takes its client along. *)
JarCase(f) ==
    /\ runOf' = runOf
    /\ \/ Send(f) /\ store' = store
       \/ sent'[f] = NotSent /\ jar' = jar /\ (store' = store \/ store' = [store EXCEPT ![f] = {}])
       \/ sent' = sent /\ jar' = jar /\ store' = store
       \/ sent' = sent /\ \E h \in SetCookies : Absorb(f, h)

(* Every step of an adapter is one of these.                               *)
LEMMA JarCases ==
    ASSUME FetchType, NEW f \in Adapter, Acquire(f) \/ Step(f)
    PROVE  JarCase(f)
  <1>0. runOf' = runOf
    BY WorldUnchanged DEF world
  <1>1. CASE Started(f)
    BY <1>0, <1>1 DEF Started, shared, JarCase
  <1>2. CASE Refused(f)
    BY <1>0, <1>2 DEF Refused, shared, history, JarCase
  <1>3. CASE Permit(f)
    BY <1>0, <1>3 DEF Permit, shared, history, JarCase
  <1>4. CASE Send(f)
    <2>1. store' = store
      BY <1>4 DEF Send
    <2>. QED BY <1>0, <1>4, <2>1 DEF JarCase
  <1>5. CASE Report(f)
    BY <1>0, <1>5 DEF Report, shared, FetchType, JarCase
  <1>6. ASSUME NEW kind, TransportError(f, kind)
        PROVE  JarCase(f)
    BY <1>0, <1>6 DEF TransportError, shared, history, JarCase
  <1>7. ASSUME NEW h \in SetCookies, Absorb(f, h), sent' = sent
        PROVE  JarCase(f)
    BY <1>0, <1>7 DEF JarCase
  <1>8. ASSUME NEW h \in SetCookies, NEW b, RetryableStatus(f, h, b)
        PROVE  JarCase(f)
    <2>1. Absorb(f, h) /\ sent' = sent
      BY <1>8, Zenon DEF RetryableStatus
    <2>. QED BY <1>7, <2>1
  <1>9. ASSUME NEW h \in SetCookies, NotModified(f, h)
        PROVE  JarCase(f)
    <2>1. Absorb(f, h) /\ sent' = sent
      BY <1>9, Zenon DEF NotModified, history
    <2>. QED BY <1>7, <2>1
  <1>10. ASSUME NEW h \in SetCookies, NEW b, NEW d, Respond(f, h, b, d)
         PROVE  JarCase(f)
    <2>1. Absorb(f, h) /\ sent' = sent
      BY <1>10, Zenon DEF Respond, history
    <2>. QED BY <1>7, <2>1
  <1>11. ASSUME NEW h \in SetCookies, NEW to, Redirect(f, h, to)
         PROVE  JarCase(f)
    <2>1. Absorb(f, h) /\ sent' = sent
      BY <1>11, Zenon DEF Redirect, history
    <2>. QED BY <1>7, <2>1
  <1>. QED BY <1>1, <1>2, <1>3, <1>4, <1>5, <1>6, <1>8, <1>9, <1>10, <1>11, StartCases DEF Step

(* What cookies_for reads from an own jar is in scope.                     *)
LEMMA CookiesForOwn ==
    ASSUME NEW j, OwnJar(j), NEW run \in Run, NEW url \in Url, NEW at,
           NEW c \in J!CookiesFor(j, run, url, at)
    PROVE  /\ c.run = run /\ c.origin = OriginOf[url]
           /\ c.secure => url \in HttpsUrl
           /\ J!PathMatches(PathOf[url], c.path)
           /\ ~J!Expired(c, at)
  <1> DEFINE b == <<run, OriginOf[url]>>
             bucket == j[b]
  <1>1. b \in Buckets /\ b[1] = run /\ b[2] = OriginOf[url]
    BY DEF Buckets
  <1>2. PICK i \in DOMAIN bucket : /\ c = bucket[i] /\ ~J!Expired(bucket[i], at)
                                   /\ bucket[i].secure => url \in HttpsUrl
                                   /\ J!PathMatches(PathOf[url], bucket[i].path)
    BY Zenon DEF J!CookiesFor
  <1>3. OwnBucket(bucket, b)
    BY <1>1 DEF OwnJar
  <1>4. bucket[i].run = b[1] /\ bucket[i].origin = b[2]
    <2>. HIDE DEF bucket, b
    <2>. QED BY <1>2, <1>3 DEF OwnBucket
  <1>. HIDE DEF bucket, b
  <1>. QED BY <1>1, <1>2, <1>4

(* Every step of an adapter keeps the scope.                               *)
LEMMA ScopeStep ==
    ASSUME ScopeInv, NEW f \in Adapter, Acquire(f) \/ Step(f)
    PROVE  ScopeInv'
  <1>1. FetchType'
    BY TypeStep DEF ScopeInv
  <1>2. /\ JarCase(f) /\ runOf' = runOf /\ runOf[f] \in Run /\ cur[f] \in Url
        /\ OwnJar(jar) /\ OwnStore
    BY JarCases DEF JarCase, ScopeInv, FetchType
  <1>3. OwnJar(jar') /\ OwnStore'
    <2>1. CASE Send(f) /\ store' = store
      <3>1. jar' \in {jar, J!Trimmed(jar, runOf[f], cur[f], now)}
        BY <2>1, Zenon DEF Send
      <3>2. OwnJar(jar')
        BY <1>2, <3>1, TrimmedOwn
      <3>. QED BY <1>2, <2>1, <3>2 DEF OwnStore
    <2>2. ASSUME NEW h \in SetCookies, Absorb(f, h) PROVE OwnJar(jar') /\ OwnStore'
      <3>1. OwnJar(jar')
        BY <1>2, <2>2, AbsorbOwn
      <3>2. ClientKeeps(f, h)
        BY <2>2, Zenon DEF Absorb
      <3>. QED BY <1>2, <3>1, <3>2, KeepsOwn
    <2>3. CASE jar' = jar /\ (store' = store \/ store' = [store EXCEPT ![f] = {}])
      BY <1>2, <2>3 DEF OwnStore
    <2>. QED BY <1>2, <2>1, <2>2, <2>3 DEF JarCase
  <1>4. ScopeOf(f)'
    <2>0. ScopeOf(f)
      BY DEF ScopeInv, CookiesStayInScope, ScopeOf, InScope
    <2>1. CASE Send(f)
      <3> DEFINE cookies == IF suppress[f] THEN {} ELSE J!CookiesFor(jar, runOf[f], cur[f], now)
                 client == IF cookies = {} THEN ClientCookies(f) ELSE {}
                 cached == C!Get(cache, runOf[f], cur[f])
      <3>1. sent' = [sent EXCEPT ![f] =
                [url |-> cur[f], creds |-> creds[f], cookies |-> cookies, client |-> client,
                 etag |-> cached.etag,
                 date |-> IF cached.etag = NoEtag THEN cached.date ELSE NoDate,
                 at |-> now, version |-> server[cur[f]]]]
        BY <2>1, Zenon DEF Send
      <3>2. \A c \in cookies : c.origin = OriginOf[cur[f]] /\ InScope(c, runOf[f], cur[f], now)
        BY <1>2, CookiesForOwn DEF InScope
      <3>3. \A c \in client : InScope(c, runOf[f], cur[f], now)
        <4>. HIDE DEF cookies
        <4>. QED BY <1>2 DEF ClientCookies, InScope, OwnStore
      <3>. HIDE DEF cookies, client, cached
      <3>4. /\ sent'[f].url = cur[f] /\ sent'[f].cookies = cookies /\ sent'[f].at = now
            /\ sent'[f].client = client
        BY <3>1 DEF ScopeInv, FetchType
      <3>5. PICK u, at : u = cur[f] /\ at = now
        OBVIOUS
      <3>6. \A c \in cookies \cup client : InScope(c, runOf[f], u, at)
        BY <3>2, <3>3, <3>5
      <3>. QED BY <1>2, <3>2, <3>4, <3>5, <3>6 DEF ScopeOf, InScope
    <2>2. CASE sent'[f] = NotSent
      BY <2>2 DEF ScopeOf
    <2>3. CASE sent' = sent
      BY <1>2, <2>0, <2>3 DEF ScopeOf, InScope
    <2>. QED BY <1>2, <2>1, <2>2, <2>3 DEF JarCase
  <1>5. \A g \in Adapter : ScopeOf(g)'
    <2>. TAKE g \in Adapter
    <2>1. CASE g # f
      <3>1. sent'[g] = sent[g]
        BY <2>1, OthersUnchanged DEF ScopeInv, Same
      <3>2. ScopeOf(g)
        BY DEF ScopeInv, CookiesStayInScope, ScopeOf, InScope
      <3>. QED BY <1>2, <3>1, <3>2 DEF ScopeOf, InScope
    <2>. QED BY <1>4, <2>1
  <1>6. CookiesStayInScope'
    BY <1>5 DEF CookiesStayInScope, ScopeOf, InScope
  <1>7. runOf' \in [Adapter -> Run]
    BY <1>2 DEF ScopeInv
  <1>. QED BY <1>1, <1>3, <1>6, <1>7 DEF ScopeInv

(* clear_run leaves an own jar.                                            *)
LEMMA ClearOwn ==
    ASSUME NEW j, OwnJar(j), NEW run PROVE OwnJar(J!ClearRun(j, run))
  <1>1. DOMAIN j = Buckets
    BY DEF OwnJar
  <1>2. \A b \in Buckets : OwnBucket(<<>>, b)
    BY DEF OwnBucket
  <1>. QED BY <1>1, <1>2 DEF OwnJar, J!ClearRun

(* So does every step.                                                     *)
LEMMA ScopeNext == ScopeInv /\ [Next]_vars => ScopeInv'
  <1> SUFFICES ASSUME ScopeInv, [Next]_vars
               PROVE  ScopeInv'
    OBVIOUS
  <1>1. ASSUME Elsewhere \/ UNCHANGED vars
        PROVE  ScopeInv'
    <2>1. UNCHANGED <<fetch, scenario, store, round, pc, result, history>>
      BY <1>1, ElsewhereUnchanged
    <2>2. FetchType'
      BY <2>1 DEF ScopeInv, FetchType, fetch, history
    <2>3. OwnJar(jar')
      <3>1. ASSUME NEW r \in Run, ClearRun(r) PROVE OwnJar(jar')
        BY <3>1, ClearOwn DEF ClearRun, ScopeInv
      <3>2. jar' = jar \/ \E r \in Run : ClearRun(r)
        BY <1>1 DEF Elsewhere, Change, Tick, shared, vars
      <3>. QED BY <3>1, <3>2 DEF ScopeInv
    <2>4. sent' = sent /\ runOf' = runOf
      BY <1>1 DEF Elsewhere, ClearRun, Change, Tick, world, history, vars
    <2>5. CookiesStayInScope'
      BY <2>4 DEF ScopeInv, CookiesStayInScope
    <2>6. OwnStore'
      BY <2>1, <2>4 DEF ScopeInv, OwnStore
    <2>. QED BY <2>2, <2>3, <2>4, <2>5, <2>6 DEF ScopeInv
  <1>. QED BY <1>1, ScopeStep, NextCases

(* The jar is empty at first.                                              *)
LEMMA ScopeInit == Init => ScopeInv
  <1> SUFFICES ASSUME Init
               PROVE  ScopeInv
    OBVIOUS
  <1>1. OwnJar(jar)
    BY DEF Init, OwnJar, OwnBucket, Buckets
  <1>2. CookiesStayInScope
    BY DEF Init, CookiesStayInScope
  <1>3. OwnStore
    BY DEF Init, OwnStore
  <1>. QED BY <1>1, <1>2, <1>3, TypeInit, HttpAssumption DEF Init, ScopeInv

(* A Cookie header, of the adapter or of its client, carries only cookies  *)
(* of this run and site, for this path and scheme, not yet expired, and    *)
(* from the jar only this origin's, whatever redirects, retries, evictions *)
(* and clear_run calls came before (cookies_for, accept_set_cookie).       *)
THEOREM CookiesCorrect == Spec => []CookiesStayInScope
  <1>1. ScopeInv => CookiesStayInScope
    BY DEF ScopeInv
  <1>. QED BY <1>1, ScopeInit, ScopeNext, PTL DEF Spec

-----------------------------------------------------------------------------
(* The conditional cache: sizes of lists of entries.                       *)

(* The loop of the conditional cache is the same.                          *)
LEMMA CKept == \A s, T : C!Kept(s, T) = Kept(s, T)
  BY Zenon DEF C!Kept, Kept

(* The sizes added up after each of the first k entries.                   *)
SizeLoop(size, s, k) ==
    size = [n \in 0 .. k |-> IF n = 0 THEN 0 ELSE size[n - 1] + s[n].size]

(* The loop runs.                                                          *)
LEMMA SizeLoopRuns ==
    ASSUME NEW s, NEW k \in Nat
    PROVE  \E size : SizeLoop(size, s, k)
  <1> DEFINE Runs(m) == \E size : SizeLoop(size, s, m)
             P == {m \in Nat : Runs(m)}
  <1>1. Runs(0)
    <2>1. SizeLoop([n \in 0 .. 0 |-> 0], s, 0)
      BY DEF SizeLoop
    <2>. QED BY <2>1
  <1>2. ASSUME NEW m \in 1 .. k, Runs(m - 1)
        PROVE  Runs(m)
    <2>1. PICK size : SizeLoop(size, s, m - 1)
      BY <1>2
    <2> DEFINE last == size[m - 1] + s[m].size
               new == [n \in 0 .. m |-> IF n = m THEN last ELSE size[n]]
    <2>2. \A n \in 0 .. m :
             new[n] = IF n = 0 THEN 0 ELSE new[n - 1] + s[n].size
      <3>. TAKE n \in 0 .. m
      <3>1. CASE n = m
        BY <3>1
      <3>2. CASE n # m
        <4>1. n \in 0 .. m - 1 /\ (n # 0 => n - 1 \in 0 .. m - 1)
          BY <3>2
        <4>2. new[n] = size[n] /\ (n # 0 => new[n - 1] = size[n - 1])
          BY <4>1, <3>2
        <4>. QED BY <2>1, <4>1, <4>2 DEF SizeLoop
      <3>. QED BY <3>1, <3>2
    <2>3. SizeLoop(new, s, m)
      <3>. HIDE DEF last
      <3>1. new = [n \in 0 .. m |-> new[n]]
        OBVIOUS
      <3>. HIDE DEF new
      <3>. QED BY <2>2, <3>1 DEF SizeLoop
    <2>. QED BY <2>3
  <1>3. 0 \in P /\ \A m \in 1 .. k : m - 1 \in P => m \in P
    <2>. HIDE DEF Runs
    <2>. QED BY <1>1, <1>2
  <1>4. \A m \in 0 .. k : m \in P
    <2>. HIDE DEF P
    <2>. QED BY <1>3, UpTo
  <1>. QED BY <1>4

(* SizeOf is the sum at the end of its loop.                               *)
LEMMA SizeOfLoop ==
    ASSUME NEW S, NEW s \in Seq(S)
    PROVE  \E size : SizeLoop(size, s, Len(s)) /\ C!SizeOf(s) = size[Len(s)]
  <1> DEFINE size == CHOOSE size : SizeLoop(size, s, Len(s))
  <1>0. Len(s) \in Nat
    OBVIOUS
  <1>1. \E g : SizeLoop(g, s, Len(s))
    BY <1>0, SizeLoopRuns
  <1>2. SizeLoop(size, s, Len(s))
    BY <1>1, Zenon
  <1>3. C!SizeOf(s) = size[Len(s)]
    BY Zenon DEF C!SizeOf, SizeLoop
  <1>. HIDE DEF size
  <1>. QED BY <1>2, <1>3

(* No entries have no size.                                                *)
LEMMA SizeEmpty == C!SizeOf(<<>>) = 0
  <1>1. <<>> \in Seq({}) /\ Len(<<>>) = 0
    OBVIOUS
  <1>2. PICK size : SizeLoop(size, <<>>, 0) /\ C!SizeOf(<<>>) = size[0]
    BY <1>1, SizeOfLoop
  <1>. QED BY <1>2 DEF SizeLoop

(* One more entry adds its size.                                           *)
LEMMA SizeAppend ==
    ASSUME NEW S, NEW s \in Seq(S), NEW e \in S
    PROVE  C!SizeOf(Append(s, e)) = C!SizeOf(s) + e.size
  <1> DEFINE t == Append(s, e)
             k == Len(s)
  <1>1. t \in Seq(S) /\ Len(t) = k + 1 /\ k \in Nat /\ t[k + 1] = e
        /\ \A n \in 1 .. k : t[n] = s[n]
    OBVIOUS
  <1>2. PICK old : SizeLoop(old, s, k) /\ C!SizeOf(s) = old[k]
    BY SizeOfLoop
  <1>3. PICK new : SizeLoop(new, t, k + 1) /\ C!SizeOf(t) = new[k + 1]
    <2>. HIDE DEF t, k
    <2>. QED BY <1>1, SizeOfLoop
  <1>. HIDE DEF t, k
  <1>4. new[k + 1] = new[k] + e.size
    <2>1. k + 1 \in 0 .. k + 1 /\ k + 1 # 0 /\ (k + 1) - 1 = k
      BY <1>1
    <2>. QED BY <1>1, <1>3, <2>1 DEF SizeLoop
  <1> DEFINE P == {n \in 0 .. k : new[n] = old[n]}
  <1>5. 0 \in P
    BY <1>1, <1>2, <1>3 DEF SizeLoop
  <1>6. ASSUME NEW n \in 1 .. k, n - 1 \in P
        PROVE  n \in P
    <2>1. n \in 0 .. k /\ n \in 0 .. k + 1 /\ n # 0 /\ new[n - 1] = old[n - 1] /\ t[n] = s[n]
      BY <1>1, <1>6
    <2>2. old[n] = old[n - 1] + s[n].size
      BY <1>2, <2>1 DEF SizeLoop
    <2>3. new[n] = new[n - 1] + t[n].size
      BY <1>3, <2>1 DEF SizeLoop
    <2>. QED BY <2>1, <2>2, <2>3
  <1>7. \A n \in 0 .. k : n \in P
    <2>. HIDE DEF P
    <2>. QED BY <1>1, <1>5, <1>6, UpTo
  <1>8. new[k] = old[k]
    BY <1>1, <1>7
  <1>. QED BY <1>2, <1>3, <1>4, <1>8 DEF t

(* Entries have sizes.                                                     *)
Sized(S) == \A e \in S : e.size \in Nat

(* So have lists of them.                                                  *)
LEMMA SizeNat ==
    ASSUME NEW S, Sized(S), NEW s \in Seq(S)
    PROVE  C!SizeOf(s) \in Nat
  <1> DEFINE Q == {t \in Seq(S) : C!SizeOf(t) \in Nat}
  <1>1. <<>> \in Q
    <2>1. <<>> \in Seq(S) /\ C!SizeOf(<<>>) \in Nat
      BY SizeEmpty
    <2>. QED BY <2>1, Zenon
  <1>2. ASSUME NEW t \in Seq(S), NEW e \in S, t \in Q
        PROVE  Append(t, e) \in Q
    <2>1. C!SizeOf(t) \in Nat /\ e.size \in Nat
      BY <1>2 DEF Sized
    <2>2. Append(t, e) \in Seq(S)
      OBVIOUS
    <2>3. C!SizeOf(Append(t, e)) \in Nat
      BY <2>1, SizeAppend
    <2>. QED BY <2>2, <2>3, Zenon
  <1>3. s \in Q
    <2>. HIDE DEF Q
    <2>. QED BY <1>1, <1>2, ListInduction
  <1>. QED BY <1>3

(* A list falls into what a loop keeps and what it does not.               *)
LEMMA KeptParts ==
    ASSUME NEW S, Sized(S), NEW T, NEW U, \A e \in S : e \in T <=> e \notin U, NEW s \in Seq(S)
    PROVE  /\ C!SizeOf(Kept(s, T)) + C!SizeOf(Kept(s, U)) = C!SizeOf(s)
           /\ Len(Kept(s, T)) + Len(Kept(s, U)) = Len(s)
  <1> DEFINE Parts(t) == /\ C!SizeOf(Kept(t, T)) + C!SizeOf(Kept(t, U)) = C!SizeOf(t)
                         /\ Len(Kept(t, T)) + Len(Kept(t, U)) = Len(t)
             Q == {t \in Seq(S) : Parts(t)}
  <1>1. <<>> \in Q
    <2>1. <<>> \in Seq(S) /\ Len(<<>>) = 0
      OBVIOUS
    <2>2. Parts(<<>>)
      BY <2>1, SizeEmpty, KeptEmpty
    <2>. HIDE DEF Parts
    <2>. QED BY <2>1, <2>2, Zenon
  <1>2. ASSUME NEW t \in Seq(S), NEW e \in S, t \in Q
        PROVE  Append(t, e) \in Q
    <2>0. Append(t, e) \in Seq(S) /\ e \in S /\ Len(Append(t, e)) = Len(t) + 1 /\ Len(t) \in Nat
      OBVIOUS
    <2> DEFINE a == Kept(t, T)
               b == Kept(t, U)
    <2>1. a \in Seq(S \cap T) /\ b \in Seq(S \cap U)
      BY KeptType
    <2>2. a \in Seq(S) /\ b \in Seq(S) /\ Len(a) \in Nat /\ Len(b) \in Nat
      <3>. HIDE DEF a, b
      <3>. QED BY <2>1
    <2>3. Parts(t)
      BY <1>2
    <2>4. /\ C!SizeOf(a) \in Nat /\ C!SizeOf(b) \in Nat /\ C!SizeOf(t) \in Nat /\ e.size \in Nat
      BY <2>2, SizeNat DEF Sized
    <2>5. C!SizeOf(Append(t, e)) = C!SizeOf(t) + e.size
      BY SizeAppend
    <2>6. CASE e \in T
      <3>1. Kept(Append(t, e), T) = Append(a, e) /\ Kept(Append(t, e), U) = b
        BY <2>6, KeptAppend
      <3>2. C!SizeOf(Append(a, e)) = C!SizeOf(a) + e.size /\ Len(Append(a, e)) = Len(a) + 1
        BY <2>2, SizeAppend
      <3>3. Parts(Append(t, e))
        <4>1. C!SizeOf(a) + C!SizeOf(b) = C!SizeOf(t) /\ Len(a) + Len(b) = Len(t)
          BY <2>3
        <4>. HIDE DEF a, b
        <4>2. C!SizeOf(Append(a, e)) + C!SizeOf(b) = C!SizeOf(Append(t, e))
          BY <2>4, <2>5, <3>2, <4>1
        <4>3. Len(Append(a, e)) + Len(b) = Len(Append(t, e))
          BY <2>0, <2>2, <3>2, <4>1
        <4>. QED BY <3>1, <4>2, <4>3
      <3>. HIDE DEF Parts
      <3>. QED BY <2>0, <3>3, Zenon
    <2>7. CASE e \notin T
      <3>1. Kept(Append(t, e), U) = Append(b, e) /\ Kept(Append(t, e), T) = a
        BY <2>7, KeptAppend
      <3>2. C!SizeOf(Append(b, e)) = C!SizeOf(b) + e.size /\ Len(Append(b, e)) = Len(b) + 1
        BY <2>2, SizeAppend
      <3>3. Parts(Append(t, e))
        <4>1. C!SizeOf(a) + C!SizeOf(b) = C!SizeOf(t) /\ Len(a) + Len(b) = Len(t)
          BY <2>3
        <4>. HIDE DEF a, b
        <4>2. C!SizeOf(a) + C!SizeOf(Append(b, e)) = C!SizeOf(Append(t, e))
          BY <2>4, <2>5, <3>2, <4>1
        <4>3. Len(a) + Len(Append(b, e)) = Len(Append(t, e))
          BY <2>0, <2>2, <3>2, <4>1
        <4>. QED BY <3>1, <4>2, <4>3
      <3>. HIDE DEF Parts
      <3>. QED BY <2>0, <3>3, Zenon
    <2>. QED BY <2>6, <2>7
  <1>3. s \in Q
    <2>. HIDE DEF Q
    <2>. QED BY <1>1, <1>2, ListInduction
  <1>. QED BY <1>3

(* The size of two lists in a row.                                         *)
LEMMA SizeConcat ==
    ASSUME NEW S, Sized(S), NEW a \in Seq(S), NEW b \in Seq(S)
    PROVE  C!SizeOf(a \o b) = C!SizeOf(a) + C!SizeOf(b)
  <1> DEFINE Q == {t \in Seq(S) : C!SizeOf(a \o t) = C!SizeOf(a) + C!SizeOf(t)}
  <1>1. <<>> \in Q
    <2>1. <<>> \in Seq(S) /\ a \o <<>> = a /\ C!SizeOf(a) \in Nat
      BY SizeNat
    <2>2. C!SizeOf(a \o <<>>) = C!SizeOf(a) + C!SizeOf(<<>>)
      BY <2>1, SizeEmpty
    <2>. QED BY <2>1, <2>2, Zenon
  <1>2. ASSUME NEW t \in Seq(S), NEW e \in S, t \in Q
        PROVE  Append(t, e) \in Q
    <2>1. a \o t \in Seq(S) /\ Append(t, e) \in Seq(S) /\ a \o Append(t, e) = Append(a \o t, e)
      OBVIOUS
    <2>2. C!SizeOf(a) \in Nat /\ C!SizeOf(t) \in Nat /\ e.size \in Nat
      BY SizeNat DEF Sized
    <2>3. C!SizeOf(a \o t) = C!SizeOf(a) + C!SizeOf(t)
      BY <1>2
    <2>4. C!SizeOf(Append(a \o t, e)) = C!SizeOf(a \o t) + e.size
      BY <2>1, SizeAppend
    <2>5. C!SizeOf(Append(t, e)) = C!SizeOf(t) + e.size
      BY SizeAppend
    <2>6. C!SizeOf(a \o Append(t, e)) = C!SizeOf(a) + C!SizeOf(Append(t, e))
      <3>1. C!SizeOf(a \o Append(t, e)) = C!SizeOf(Append(a \o t, e))
        BY <2>1
      <3>. QED BY <2>2, <2>3, <2>4, <2>5, <3>1
    <2>. QED BY <2>1, <2>6, Zenon
  <1>3. b \in Q
    <2>. HIDE DEF Q
    <2>. QED BY <1>1, <1>2, ListInduction
  <1>. QED BY <1>3

(* An entry counts on one side of a cut.                                   *)
LEMMA SizeSplit ==
    ASSUME NEW S, Sized(S), NEW s \in Seq(S), NEW n \in 0 .. Len(s)
    PROVE  /\ SubSeq(s, 1, n) \in Seq(S) /\ SubSeq(s, n + 1, Len(s)) \in Seq(S)
           /\ C!SizeOf(SubSeq(s, 1, n)) + C!SizeOf(SubSeq(s, n + 1, Len(s))) = C!SizeOf(s)
  <1>0. Len(s) \in Nat
    OBVIOUS
  <1>1. SubSeq(s, 1, n) \in Seq(S) /\ SubSeq(s, n + 1, Len(s)) \in Seq(S)
    BY <1>0
  <1>2. SubSeq(s, 1, n) \o SubSeq(s, n + 1, Len(s)) = SubSeq(s, 1, Len(s))
    <2>1. 1 \in 1 .. Len(s) + 1 /\ n \in 1 - 1 .. Len(s) /\ Len(s) \in n .. Len(s)
      BY <1>0
    <2>. QED BY <2>1, ConcatAdjacentSubSeq
  <1>3. SubSeq(s, 1, Len(s)) = s
    BY SubSeqFull
  <1>. QED BY <1>1, <1>2, <1>3, SizeConcat, Zenon

(* The key of an entry in the dictionary of the cache; no two entries of a *)
(* list have the same.                                                     *)
SameKey(d, e) == d.run = e.run /\ d.url = e.url
Distinct(s) == \A i, j \in 1 .. Len(s) : SameKey(s[i], s[j]) => i = j

(* An entry can join if its key is new.                                    *)
LEMMA DistinctAppend ==
    ASSUME NEW S, NEW t \in Seq(S), NEW e \in S
    PROVE  Distinct(Append(t, e)) <=> Distinct(t) /\ \A i \in 1 .. Len(t) : ~SameKey(t[i], e)
  <1> DEFINE u == Append(t, e)
  <1>1. Len(t) \in Nat /\ Len(u) = Len(t) + 1 /\ u[Len(t) + 1] = e
        /\ \A i \in 1 .. Len(t) : u[i] = t[i]
    OBVIOUS
  <1>2. \A i : i \in 1 .. Len(u) <=> i \in 1 .. Len(t) \/ i = Len(t) + 1
    BY <1>1
  <1>3. \A i \in 1 .. Len(t) : i # Len(t) + 1
    BY <1>1
  <1>4. \A i : SameKey(e, i) = SameKey(i, e)
    BY DEF SameKey
  <1>. HIDE DEF u
  <1>5. Distinct(u) => Distinct(t)
    BY <1>1, <1>2 DEF Distinct
  <1>6. Distinct(u) => \A i \in 1 .. Len(t) : ~SameKey(t[i], e)
    BY <1>1, <1>2, <1>3 DEF Distinct
  <1>7. Distinct(t) /\ (\A i \in 1 .. Len(t) : ~SameKey(t[i], e)) => Distinct(u)
    BY <1>1, <1>2, <1>3, <1>4 DEF Distinct
  <1>. QED BY <1>5, <1>6, <1>7 DEF u

(* A loop that keeps some leaves keys distinct.                            *)
LEMMA KeptDistinct ==
    ASSUME NEW S, NEW s \in Seq(S), NEW T, Distinct(s)
    PROVE  Distinct(Kept(s, T))
  <1> DEFINE Good(t) == Distinct(t) =>
                  /\ Distinct(Kept(t, T))
                  /\ \A i \in 1 .. Len(Kept(t, T)) : \E j \in 1 .. Len(t) : Kept(t, T)[i] = t[j]
             Q == {t \in Seq(S) : Good(t)}
  <1>1. <<>> \in Q
    <2>1. <<>> \in Seq(S) /\ Len(<<>>) = 0
      OBVIOUS
    <2>2. Good(<<>>)
      BY <2>1, KeptEmpty DEF Distinct
    <2>. HIDE DEF Good
    <2>. QED BY <2>1, <2>2, Zenon
  <1>2. ASSUME NEW t \in Seq(S), NEW e \in S, t \in Q
        PROVE  Append(t, e) \in Q
    <2> DEFINE u == Append(t, e)
               a == Kept(t, T)
    <2>0. u \in Seq(S)
      OBVIOUS
    <2>1. /\ Len(t) \in Nat /\ Len(u) = Len(t) + 1 /\ u[Len(t) + 1] = e
          /\ \A i \in 1 .. Len(t) : u[i] = t[i]
      OBVIOUS
    <2>2. a \in Seq(S)
      <3>1. a \in Seq(S \cap T)
        BY KeptType
      <3>. HIDE DEF a
      <3>. QED BY <3>1
    <2>3. Good(t)
      BY <1>2
    <2>4. Good(u)
      <3>. SUFFICES ASSUME Distinct(u)
                    PROVE  /\ Distinct(Kept(u, T))
                           /\ \A i \in 1 .. Len(Kept(u, T)) : \E j \in 1 .. Len(u) : Kept(u, T)[i] = u[j]
        OBVIOUS
      <3>1. Distinct(t) /\ \A i \in 1 .. Len(t) : ~SameKey(t[i], e)
        BY DistinctAppend
      <3>2. Distinct(a) /\ \A i \in 1 .. Len(a) : \E j \in 1 .. Len(t) : a[i] = t[j]
        BY <2>3, <3>1
      <3>3. \A j \in 1 .. Len(t) : j \in 1 .. Len(u) /\ u[j] = t[j]
        BY <2>1
      <3>4. Len(t) + 1 \in 1 .. Len(u) /\ u[Len(t) + 1] = e
        BY <2>1
      <3>5. CASE e \in T
        <4>1. Kept(u, T) = Append(a, e)
          BY <3>5, KeptAppend
        <4>. HIDE DEF a, u
        <4>2. \A i \in 1 .. Len(a) : ~SameKey(a[i], e)
          BY <3>1, <3>2
        <4>3. Distinct(Append(a, e))
          BY <2>2, <3>2, <4>2, DistinctAppend, KeptType
        <4>4. \A i \in 1 .. Len(Append(a, e)) :
                 (i \in 1 .. Len(a) /\ Append(a, e)[i] = a[i]) \/ Append(a, e)[i] = e
          BY <2>2
        <4>. QED BY <3>2, <3>3, <3>4, <4>1, <4>3, <4>4
      <3>6. CASE e \notin T
        <4>1. Kept(u, T) = a
          BY <3>6, KeptAppend
        <4>. HIDE DEF a, u
        <4>. QED BY <3>2, <3>3, <4>1
      <3>. QED BY <3>5, <3>6
    <2>. HIDE DEF Good, u
    <2>5. u \in Q
      BY <2>0, <2>4, Zenon
    <2>. QED BY <2>5 DEF u
  <1>3. s \in Q
    <2>. HIDE DEF Q
    <2>. QED BY <1>1, <1>2, ListInduction
  <1>. QED BY <1>3

(* With distinct keys, a loop that keeps the entries of one key keeps one  *)
(* or none.                                                                *)
LEMMA SoleHit ==
    ASSUME NEW S, NEW s \in Seq(S), Distinct(s), NEW U,
           \A d \in S, e \in S : d \in U /\ e \in U => SameKey(d, e)
    PROVE  /\ \A i \in 1 .. Len(s) : s[i] \in U => Kept(s, U) = <<s[i]>>
           /\ (\A i \in 1 .. Len(s) : s[i] \notin U) => Kept(s, U) = <<>>
  <1> DEFINE Good(t) == Distinct(t) =>
                /\ \A i \in 1 .. Len(t) : t[i] \in U => Kept(t, U) = <<t[i]>>
                /\ (\A i \in 1 .. Len(t) : t[i] \notin U) => Kept(t, U) = <<>>
             Q == {t \in Seq(S) : Good(t)}
  <1>1. <<>> \in Q
    <2>1. <<>> \in Seq(S) /\ Len(<<>>) = 0
      OBVIOUS
    <2>2. Good(<<>>)
      BY <2>1, KeptEmpty
    <2>. HIDE DEF Good
    <2>. QED BY <2>1, <2>2, Zenon
  <1>2. ASSUME NEW t \in Seq(S), NEW e \in S, t \in Q
        PROVE  Append(t, e) \in Q
    <2> DEFINE u == Append(t, e)
    <2>0. u \in Seq(S)
      OBVIOUS
    <2>1. /\ Len(t) \in Nat /\ Len(u) = Len(t) + 1 /\ u[Len(t) + 1] = e
          /\ \A i \in 1 .. Len(t) : u[i] = t[i] /\ t[i] \in S
      OBVIOUS
    <2>2. \A i : i \in 1 .. Len(u) <=> i \in 1 .. Len(t) \/ i = Len(t) + 1
      BY <2>1
    <2>3. Good(t)
      BY <1>2
    <2>4. Good(u)
      <3>. SUFFICES ASSUME Distinct(u)
                    PROVE  /\ \A i \in 1 .. Len(u) : u[i] \in U => Kept(u, U) = <<u[i]>>
                           /\ (\A i \in 1 .. Len(u) : u[i] \notin U) => Kept(u, U) = <<>>
        OBVIOUS
      <3>1. Distinct(t) /\ \A i \in 1 .. Len(t) : ~SameKey(t[i], e)
        BY DistinctAppend
      <3>2. /\ \A i \in 1 .. Len(t) : t[i] \in U => Kept(t, U) = <<t[i]>>
            /\ (\A i \in 1 .. Len(t) : t[i] \notin U) => Kept(t, U) = <<>>
        BY <2>3, <3>1
      <3>3. CASE e \in U
        <4>1. \A i \in 1 .. Len(t) : t[i] \notin U
          BY <2>1, <3>1, <3>3
        <4>2. Kept(u, U) = Append(<<>>, e)
          BY <3>2, <3>3, <4>1, KeptAppend
        <4>3. Kept(u, U) = <<e>>
          BY <4>2
        <4>. HIDE DEF u
        <4>. QED BY <2>1, <2>2, <3>3, <4>1, <4>3
      <3>4. CASE e \notin U
        <4>1. Kept(u, U) = Kept(t, U)
          BY <3>4, KeptAppend
        <4>. HIDE DEF u
        <4>. QED BY <2>1, <2>2, <3>2, <3>4, <4>1
      <3>. QED BY <3>3, <3>4
    <2>. HIDE DEF Good, u
    <2>5. u \in Q
      BY <2>0, <2>4, Zenon
    <2>. QED BY <2>5 DEF u
  <1>3. s \in Q
    <2>. HIDE DEF Q
    <2>. QED BY <1>1, <1>2, ListInduction
  <1>. QED BY <1>3

-----------------------------------------------------------------------------
(* What get, put and clear_run do to a cache that keeps its accounts.      *)

(* An entry that get looks for.                                            *)
Hit(e, run, url) == e.run = run /\ e.url = url

(* Without removes one entry, with its size, or none.                      *)
LEMMA WithoutFacts ==
    ASSUME NEW S, Sized(S), NEW s \in Seq(S), Distinct(s), NEW run, NEW url
    PROVE  /\ C!Without(s, run, url) \in Seq(S) /\ Distinct(C!Without(s, run, url))
           /\ \A i \in 1 .. Len(C!Without(s, run, url)) : ~Hit(C!Without(s, run, url)[i], run, url)
           /\ (\A i \in 1 .. Len(s) : ~Hit(s[i], run, url)) =>
                 /\ C!SizeOf(C!Without(s, run, url)) = C!SizeOf(s)
                 /\ Len(C!Without(s, run, url)) = Len(s)
           /\ \A i \in 1 .. Len(s) : Hit(s[i], run, url) =>
                 /\ C!SizeOf(C!Without(s, run, url)) + s[i].size = C!SizeOf(s)
                 /\ Len(C!Without(s, run, url)) + 1 = Len(s)
  <1> DEFINE R == {s[i] : i \in 1 .. Len(s)}
             T == {e \in R : ~Hit(e, run, url)}
             U == {e \in R : Hit(e, run, url)}
             w == Kept(s, T)
             h == Kept(s, U)
  <1>0. Len(s) \in Nat /\ DOMAIN s = 1 .. Len(s) /\ \A i \in 1 .. Len(s) : s[i] \in S
    OBVIOUS
  <1>1. C!Without(s, run, url) = w
    <2>1. C!ToSet(s) = R
      BY <1>0 DEF C!ToSet
    <2>. QED BY <2>1, CKept, Zenon DEF C!Without, Hit
  <1>2. s \in Seq(R) /\ R \subseteq S /\ Sized(R)
    <2>1. \A i \in 1 .. Len(s) : s[i] \in R
      OBVIOUS
    <2>2. R \subseteq S
      BY <1>0
    <2>. HIDE DEF R
    <2>. QED BY <1>0, <2>1, <2>2 DEF Sized
  <1>3. \A e \in R : e \in T <=> e \notin U
    OBVIOUS
  <1>4. \A d \in R, e \in R : d \in U /\ e \in U => SameKey(d, e)
    BY DEF SameKey, Hit
  <1>5. \A i \in 1 .. Len(s) : s[i] \in U <=> Hit(s[i], run, url)
    OBVIOUS
  <1>6. \A e \in T : ~Hit(e, run, url)
    OBVIOUS
  <1>. HIDE DEF R, T, U
  <1>7. w \in Seq(R \cap T) /\ h \in Seq(R \cap U) /\ Distinct(w)
    BY <1>2, KeptType, KeptDistinct
  <1>8. C!SizeOf(w) + C!SizeOf(h) = C!SizeOf(s) /\ Len(w) + Len(h) = Len(s)
    BY <1>2, <1>3, KeptParts
  <1>9. /\ \A i \in 1 .. Len(s) : s[i] \in U => h = <<s[i]>>
        /\ (\A i \in 1 .. Len(s) : s[i] \notin U) => h = <<>>
    BY <1>2, <1>4, SoleHit
  <1>. HIDE DEF w, h
  <1>10. w \in Seq(S) /\ Len(w) \in Nat /\ \A i \in 1 .. Len(w) : ~Hit(w[i], run, url)
    BY <1>2, <1>6, <1>7
  <1>11. C!SizeOf(w) \in Nat
    BY <1>10, SizeNat
  <1>12. \A e \in S : C!SizeOf(<<e>>) = e.size /\ Len(<<e>>) = 1 /\ e.size \in Nat
    <2>. TAKE e \in S
    <2>1. <<>> \in Seq(S) /\ Append(<<>>, e) = <<e>>
      OBVIOUS
    <2>2. C!SizeOf(Append(<<>>, e)) = C!SizeOf(<<>>) + e.size /\ e.size \in Nat
      BY <2>1, SizeAppend DEF Sized
    <2>3. C!SizeOf(<<e>>) = 0 + e.size
      BY <2>1, <2>2, SizeEmpty
    <2>. QED BY <2>2, <2>3
  <1>13. ASSUME \A i \in 1 .. Len(s) : ~Hit(s[i], run, url)
         PROVE  C!SizeOf(w) = C!SizeOf(s) /\ Len(w) = Len(s)
    <2>1. h = <<>> /\ Len(<<>>) = 0
      BY <1>5, <1>9, <1>13
    <2>. QED BY <1>8, <1>10, <1>11, <2>1, SizeEmpty
  <1>14. ASSUME NEW i \in 1 .. Len(s), Hit(s[i], run, url)
         PROVE  C!SizeOf(w) + s[i].size = C!SizeOf(s) /\ Len(w) + 1 = Len(s)
    <2>1. h = <<s[i]>> /\ s[i] \in S
      BY <1>0, <1>5, <1>9, <1>14
    <2>. QED BY <1>8, <1>12, <2>1
  <1>. QED BY <1>1, <1>7, <1>10, <1>13, <1>14

(* get finds an entry of its key if there is one.                          *)
LEMMA GetCases ==
    ASSUME NEW S, NEW c, c.entries \in Seq(S), NEW run, NEW url
    PROVE  \/ /\ C!Get(c, run, url) = C!Miss
              /\ \A i \in 1 .. Len(c.entries) : ~Hit(c.entries[i], run, url)
           \/ \E i \in 1 .. Len(c.entries) :
                 Hit(c.entries[i], run, url) /\ C!Get(c, run, url) = c.entries[i]
  <1> DEFINE hits == {e \in C!ToSet(c.entries) : e.run = run /\ e.url = url}
  <1>1. \A e : e \in hits <=> \E i \in 1 .. Len(c.entries) : e = c.entries[i] /\ Hit(e, run, url)
    BY DEF C!ToSet, Hit
  <1>2. C!Get(c, run, url) = IF hits = {} THEN C!Miss ELSE CHOOSE e \in hits : TRUE
    BY Zenon DEF C!Get
  <1>. HIDE DEF hits
  <1>3. hits # {} => C!Get(c, run, url) \in hits
    BY <1>2, Zenon
  <1>. QED BY <1>1, <1>2, <1>3

(* An entry has a body, so it is no Miss.                                  *)
Real(S) == \A e \in S : e.body # 0
(* A cache in order: keys are distinct, the total is the sum of the sizes, *)
(* and both caps hold.                                                     *)
Sound(c, S) ==
    /\ c.entries \in Seq(S) /\ Distinct(c.entries)
    /\ c.total = C!SizeOf(c.entries)
    /\ Len(c.entries) <= MaxEntries /\ c.total <= MaxTotalBytes

(* get moves an entry and finds it again.                                  *)
LEMMA TouchedSound ==
    ASSUME NEW S, Sized(S), Real(S), NEW c, Sound(c, S), NEW run, NEW url
    PROVE  /\ Sound(C!Touched(c, run, url), S)
           /\ C!Get(C!Touched(c, run, url), run, url) = C!Get(c, run, url)
  <1> DEFINE s == c.entries
             w == C!Without(s, run, url)
             g == C!Get(c, run, url)
             t == [entries |-> Append(w, g), total |-> c.total]
  <1>0. s \in Seq(S) /\ Distinct(s) /\ c.total = C!SizeOf(s) /\ Len(s) <= MaxEntries
        /\ c.total <= MaxTotalBytes
    BY DEF Sound
  <1>1. CASE g = C!Miss
    <2>1. C!Touched(c, run, url) = c
      BY <1>1 DEF C!Touched
    <2>. QED BY <2>1
  <1>2. CASE g # C!Miss
    <2>1. C!Touched(c, run, url) = t
      BY <1>2, Zenon DEF C!Touched
    <2>2. PICK i \in 1 .. Len(s) : Hit(s[i], run, url) /\ g = s[i]
      BY <1>0, <1>2, GetCases
    <2>3. /\ w \in Seq(S) /\ Distinct(w)
          /\ \A k \in 1 .. Len(w) : ~Hit(w[k], run, url)
          /\ C!SizeOf(w) + s[i].size = C!SizeOf(s) /\ Len(w) + 1 = Len(s)
      BY <1>0, <2>2, WithoutFacts
    <2>4. t.entries = Append(w, g) /\ t.total = c.total
      OBVIOUS
    <2>. HIDE DEF w, g, t, s
    <2>5. g \in S /\ Hit(g, run, url)
      BY <1>0, <2>2
    <2>6. Distinct(Append(w, g))
      <3>1. \A k \in 1 .. Len(w) : ~SameKey(w[k], g)
        BY <2>3, <2>5 DEF SameKey, Hit
      <3>. QED BY <2>3, <2>5, <3>1, DistinctAppend
    <2>7. C!SizeOf(Append(w, g)) = C!SizeOf(w) + g.size /\ Append(w, g) \in Seq(S)
          /\ Len(Append(w, g)) = Len(w) + 1
      BY <2>3, <2>5, SizeAppend
    <2>8. Sound(t, S)
      BY <1>0, <2>2, <2>3, <2>4, <2>6, <2>7 DEF Sound
    <2>9. C!Get(t, run, url) = g
      <3>1. Len(w) \in Nat
        BY <2>3
      <3>2. \A k \in 1 .. Len(Append(w, g)) : Append(w, g)[k] = g \/ ~Hit(Append(w, g)[k], run, url)
        BY <2>3
      <3>3. Append(w, g)[Len(w) + 1] = g /\ Len(w) + 1 \in 1 .. Len(Append(w, g))
        BY <2>3, <2>7, <3>1
      <3>. QED BY <2>4, <2>5, <2>7, <3>2, <3>3, GetCases
    <2>. QED BY <2>1, <2>8, <2>9 DEF g
  <1>. QED BY <1>1, <1>2

(* The eviction loop finds as few entries to drop as will do: dropping all *)
(* would do.                                                               *)
LEMMA EvictSound ==
    ASSUME NEW S, Sized(S), NEW s \in Seq(S), Distinct(s)
    PROVE  Sound(C!Evict(s, C!SizeOf(s)), S)
  <1> DEFINE total == C!SizeOf(s)
             fits(n) == /\ Len(s) - n <= MaxEntries
                        /\ total - C!SizeOf(SubSeq(s, 1, n)) <= MaxTotalBytes
             least(n) == fits(n) /\ \A m \in 0 .. n - 1 : ~fits(m)
             N == {n \in 0 .. Len(s) : fits(n)}
             k == CHOOSE n \in 0 .. Len(s) : least(n)
  <1>0. Len(s) \in Nat /\ C!SizeOf(s) \in Nat
    BY SizeNat
  <1>1. Len(s) \in N
    <2>1. SubSeq(s, 1, Len(s)) = s
      BY SubSeqFull
    <2>2. Len(s) - Len(s) <= MaxEntries /\ total - C!SizeOf(SubSeq(s, 1, Len(s))) <= MaxTotalBytes
      <3>1. C!SizeOf(SubSeq(s, 1, Len(s))) = total
        BY <2>1, Zenon
      <3>2. \A x, y \in Nat : x - x <= MaxEntries /\ y - y <= MaxTotalBytes
        BY HttpAssumption
      <3>3. Len(s) - Len(s) <= MaxEntries /\ total - total <= MaxTotalBytes
        BY <1>0, <3>2
      <3>. QED BY <3>1, <3>3, Zenon
    <2>3. Len(s) \in 0 .. Len(s)
      BY <1>0
    <2>. QED BY <2>2, <2>3, Zenon
  <1>2. PICK n \in N : \A m \in N : n <= m
    <2>1. N \subseteq Nat
      BY <1>0
    <2>. HIDE DEF N
    <2>. QED BY <1>1, <2>1, LeastNumber
  <1>3. n \in 0 .. Len(s) /\ fits(n)
    BY <1>2
  <1>4. \A m \in 0 .. n - 1 : ~fits(m)
    <2>. TAKE m \in 0 .. n - 1
    <2>. HIDE DEF fits
    <2>1. m \in 0 .. Len(s) /\ ~(n <= m)
      BY <1>0, <1>3
    <2>. QED BY <1>2, <2>1
  <1>5. least(n)
    <2>. HIDE DEF fits
    <2>. QED BY <1>3, <1>4
  <1>6. k \in 0 .. Len(s) /\ least(k)
    <2>. HIDE DEF least
    <2>. QED BY <1>3, <1>5, Zenon
  <1>7. C!Evict(s, total) = [entries |-> SubSeq(s, k + 1, Len(s)),
                             total |-> total - C!SizeOf(SubSeq(s, 1, k))]
    BY Zenon DEF C!Evict
  <1>8. fits(k)
    BY <1>6
  <1>. HIDE DEF k
  <1> DEFINE a == SubSeq(s, 1, k)
             b == SubSeq(s, k + 1, Len(s))
  <1>9. a \in Seq(S) /\ b \in Seq(S) /\ C!SizeOf(a) + C!SizeOf(b) = total
    BY <1>6, SizeSplit
  <1>10. C!SizeOf(a) \in Nat /\ C!SizeOf(b) \in Nat
    <2>. HIDE DEF a, b
    <2>. QED BY <1>9, SizeNat
  <1>11. Len(b) = Len(s) - k /\ \A m \in 1 .. Len(b) : b[m] = s[k + m] /\ k + m \in 1 .. Len(s)
    <2>1. k \in Nat /\ k <= Len(s)
      BY <1>0, <1>6
    <2>. QED BY <1>0, <2>1
  <1>12. Distinct(b)
    <2>. HIDE DEF b
    <2>. SUFFICES ASSUME NEW i \in 1 .. Len(b), NEW j \in 1 .. Len(b), SameKey(b[i], b[j])
                  PROVE  i = j
      BY DEF Distinct
    <2>1. k + i = k + j
      BY <1>11 DEF Distinct
    <2>2. k \in Nat /\ i \in Nat /\ j \in Nat
      BY <1>0, <1>6, <1>11
    <2>. QED BY <2>1, <2>2
  <1>13. Len(b) <= MaxEntries /\ total - C!SizeOf(a) <= MaxTotalBytes
    BY <1>8, <1>11
  <1>14. total - C!SizeOf(a) = C!SizeOf(b)
    <2>. HIDE DEF a, b, total
    <2>. QED BY <1>9, <1>10
  <1>15. C!Evict(s, total) = [entries |-> b, total |-> C!SizeOf(b)]
    BY <1>7, <1>14
  <1>16. Sound([entries |-> b, total |-> C!SizeOf(b)], S)
    <2>. HIDE DEF a, b, total
    <2>. QED BY <1>9, <1>12, <1>13, <1>14 DEF Sound
  <1>. QED BY <1>15, <1>16

(* put keeps the cache in order.                                           *)
LEMMA PutSound ==
    ASSUME NEW S, Sized(S), NEW c, Sound(c, S), NEW e \in S
    PROVE  Sound(C!Put(c, e), S)
  <1> DEFINE s == c.entries
             w == C!Without(s, e.run, e.url)
             g == C!Get(c, e.run, e.url)
             total == c.total - g.size + e.size
  <1>0. s \in Seq(S) /\ Distinct(s) /\ c.total = C!SizeOf(s) /\ e.size \in Nat /\ C!SizeOf(s) \in Nat
    BY SizeNat DEF Sound, Sized
  <1>1. /\ w \in Seq(S) /\ Distinct(w)
        /\ \A k \in 1 .. Len(w) : ~Hit(w[k], e.run, e.url)
    BY <1>0, WithoutFacts
  <1>2. C!SizeOf(w) \in Nat
    <2>. HIDE DEF w
    <2>. QED BY <1>1, SizeNat
  <1>3. C!SizeOf(w) = C!SizeOf(s) - g.size
    <2>1. CASE g = C!Miss /\ \A i \in 1 .. Len(s) : ~Hit(s[i], e.run, e.url)
      <3>0. \A i \in 1 .. Len(s) : ~Hit(s[i], e.run, e.url)
        BY <2>1
      <3>1. C!SizeOf(w) = C!SizeOf(s)
        <4>. HIDE DEF g, s
        <4>. QED BY <1>0, <3>0, WithoutFacts
      <3>2. g.size = 0
        <4>1. C!Miss.size = 0
          BY DEF C!Miss
        <4>. HIDE DEF g
        <4>. QED BY <2>1, <4>1
      <3>. HIDE DEF w, s, g
      <3>. QED BY <1>0, <3>1, <3>2
    <2>2. CASE \E i \in 1 .. Len(s) : Hit(s[i], e.run, e.url) /\ g = s[i]
      <3>1. PICK i \in 1 .. Len(s) : Hit(s[i], e.run, e.url) /\ g = s[i]
        BY <2>2
      <3>2. C!SizeOf(w) + s[i].size = C!SizeOf(s)
        BY <1>0, <3>1, WithoutFacts
      <3>3. s[i].size \in Nat
        BY <1>0 DEF Sized
      <3>. HIDE DEF w, s, g
      <3>. QED BY <1>0, <1>2, <3>1, <3>2, <3>3
    <2>. QED BY <1>0, <2>1, <2>2, GetCases
  <1>4. /\ Append(w, e) \in Seq(S) /\ C!SizeOf(Append(w, e)) = C!SizeOf(w) + e.size
    <2>. HIDE DEF w
    <2>. QED BY <1>1, SizeAppend
  <1>5. total = C!SizeOf(Append(w, e))
    <2>. HIDE DEF w, s, g
    <2>. QED BY <1>0, <1>3, <1>4
  <1>6. Distinct(Append(w, e))
    <2>. HIDE DEF w
    <2>1. \A k \in 1 .. Len(w) : ~SameKey(w[k], e)
      BY <1>1 DEF SameKey, Hit
    <2>. QED BY <1>1, <2>1, DistinctAppend
  <1>7. C!Put(c, e) = IF e.size > MaxEntryBytes THEN c ELSE C!Evict(Append(w, e), total)
    BY Zenon DEF C!Put
  <1>8. Sound(C!Evict(Append(w, e), total), S)
    <2>. HIDE DEF w, total
    <2>. QED BY <1>4, <1>5, <1>6, EvictSound
  <1>. HIDE DEF w, total
  <1>. QED BY <1>7, <1>8

(* clear_run does.                                                         *)
LEMMA ClearSound ==
    ASSUME NEW S, Sized(S), NEW c, Sound(c, S), NEW run
    PROVE  Sound(C!ClearRun(c, run), S)
  <1> DEFINE s == c.entries
             R == {s[i] : i \in 1 .. Len(s)}
             U == {e \in R : e.run = run}
             a == Kept(s, R \ U)
             b == Kept(s, U)
  <1>0. s \in Seq(S) /\ Distinct(s) /\ c.total = C!SizeOf(s) /\ Len(s) \in Nat /\ DOMAIN s = 1 .. Len(s)
        /\ Len(s) <= MaxEntries /\ c.total <= MaxTotalBytes
    BY DEF Sound
  <1>1. C!ClearRun(c, run) = [entries |-> a, total |-> c.total - C!SizeOf(b)]
    <2>1. C!ToSet(s) = R
      BY <1>0 DEF C!ToSet
    <2>. QED BY <2>1, CKept, Zenon DEF C!ClearRun
  <1>2. s \in Seq(R) /\ R \subseteq S /\ Sized(R)
    <2>1. \A i \in 1 .. Len(s) : s[i] \in R
      OBVIOUS
    <2>2. R \subseteq S
      BY <1>0
    <2>. HIDE DEF R, s
    <2>. QED BY <1>0, <2>1, <2>2 DEF Sized
  <1>3. \A e \in R : e \in R \ U <=> e \notin U
    OBVIOUS
  <1>. HIDE DEF R, U, s
  <1>4. a \in Seq(R \cap (R \ U)) /\ b \in Seq(R \cap U) /\ Distinct(a)
    BY <1>0, <1>2, KeptType, KeptDistinct
  <1>5. C!SizeOf(a) + C!SizeOf(b) = C!SizeOf(s) /\ Len(a) + Len(b) = Len(s)
    BY <1>2, <1>3, KeptParts
  <1>. HIDE DEF a, b
  <1>6. a \in Seq(S) /\ b \in Seq(S) /\ Len(a) \in Nat /\ Len(b) \in Nat
    BY <1>2, <1>4
  <1>7. C!SizeOf(a) \in Nat /\ C!SizeOf(b) \in Nat
    BY <1>6, SizeNat
  <1>8. c.total - C!SizeOf(b) = C!SizeOf(a) /\ Len(a) <= MaxEntries /\ C!SizeOf(a) <= MaxTotalBytes
    BY <1>0, <1>5, <1>6, <1>7, HttpAssumption
  <1>9. C!ClearRun(c, run) = [entries |-> a, total |-> C!SizeOf(a)]
    BY <1>1, <1>8
  <1>. QED BY <1>4, <1>6, <1>8, <1>9 DEF Sound

-----------------------------------------------------------------------------
(* The body of a fetch.                                                    *)

(* An entry names an artifact of its own body and URL, of the same run; it *)
(* has an ETag, a date or both, of that body.                              *)
CacheEntry ==
    {e \in [run : Run, url : Url, etag : Nat, date : Nat, body : Versions, size : Nat,
            ref : Adapter \X Url \X Versions] :
        /\ e.ref[2] = e.url /\ e.ref[3] = e.body /\ runOf[e.ref[1]] = e.run
        /\ e.etag \in {NoEtag, e.body} /\ e.date \in {NoDate, DateOfVersion[e.body]}
        /\ e.etag # NoEtag \/ e.date # NoDate}

(* An adapter at work; there is at most one.                               *)
Busy(f) == pc[f] \notin {"new", "done"}

(* While a reply is awaited, the cache holds what the request named; a     *)
(* full result has the body the server had.                                *)
BodyOf(f) ==
    /\ pc[f] # "report" => result[f] = NoResult
    /\ pc[f] = "reply" =>
         LET cached == C!Get(cache, runOf[f], cur[f])
         IN  /\ sent[f].url = cur[f] /\ sent[f].version \in Versions
             /\ sent[f].etag = cached.etag
             /\ sent[f].date = IF cached.etag = NoEtag THEN cached.date ELSE NoDate
    /\ pc[f] = "report" /\ result[f].kind = "full" =>
         /\ result[f].url = FinalUrl[sent[f].url]
         /\ \/ result[f].body = sent[f].version
            \/ sent[f].date /= NoDate
               /\ DateOfVersion[sent[f].version] <= DateOfVersion[result[f].body]
         /\ result[f].ref[2] \in {sent[f].url, result[f].url} /\ result[f].ref[3] = result[f].body
         /\ runOf[result[f].ref[1]] = runOf[f]

(* The inductive invariant of BodyIsCurrent: the entry that a 304 refers   *)
(* to is still there, or the fetch fails.                                  *)
BodyInv ==
    /\ FetchType /\ runOf \in [Adapter -> Run] /\ server \in [Url -> Versions]
    /\ Sound(cache, CacheEntry)
    /\ \A f, g \in Adapter : Busy(f) /\ Busy(g) => f = g
    /\ \A f \in Adapter : BodyOf(f)

(* Cache entries have a size and a body.                                   *)
LEMMA EntryFacts == Sized(CacheEntry) /\ Real(CacheEntry) /\ Versions \subseteq Nat \ {0}
  <1>1. Versions \subseteq Nat \ {0}
    BY HttpAssumption DEF Versions
  <1>2. Sized(CacheEntry)
    BY DEF CacheEntry, Sized
  <1>3. Real(CacheEntry)
    BY <1>1 DEF CacheEntry, Real
  <1>. QED BY <1>1, <1>2, <1>3

(* An adapter starts only when nobody is at work, so the others rest.      *)
LEMMA BusyStep ==
    ASSUME BodyInv, NEW f \in Adapter, Acquire(f) \/ Step(f)
    PROVE  /\ \A g \in Adapter : g # f => ~Busy(g) /\ pc'[g] = pc[g]
           /\ (\A g, h \in Adapter : Busy(g) /\ Busy(h) => g = h)'
  <1>1. \A g \in Adapter : g # f => pc'[g] = pc[g]
    BY OthersUnchanged DEF BodyInv, Same
  <1>2. Busy(f) \/ Idle
    BY DEF Acquire, Step, Permit, Send, ExecuteAgain, Report, TransportError, RetryableStatus,
           NotModified, Respond, Redirect, Busy
  <1>3. \A g \in Adapter : g # f => ~Busy(g)
    BY <1>2 DEF BodyInv, Busy, Idle
  <1>. QED BY <1>1, <1>3 DEF Busy

(* A request names the ETag or the date of the entry it leaves in the      *)
(* cache.                                                                  *)
LEMMA SendBody ==
    ASSUME BodyInv, NEW f \in Adapter, Send(f)
    PROVE  Sound(cache, CacheEntry)' /\ BodyOf(f)'
  <1>1. runOf' = runOf /\ cur' = cur /\ result' = result /\ pc[f] = "send" /\ pc'[f] = "reply"
    BY DEF Send, world, BodyInv, FetchType
  <1>2. cache' = C!Touched(cache, runOf[f], cur[f])
    BY DEF Send
  <1>3. CacheEntry' = CacheEntry
    BY <1>1 DEF CacheEntry
  <1>4. /\ Sound(C!Touched(cache, runOf[f], cur[f]), CacheEntry)
        /\ C!Get(C!Touched(cache, runOf[f], cur[f]), runOf[f], cur[f]) = C!Get(cache, runOf[f], cur[f])
    <2>1. Sound(cache, CacheEntry)
      BY DEF BodyInv
    <2>. QED BY <2>1, EntryFacts, TouchedSound
  <1>5. Sound(cache, CacheEntry)'
    BY <1>2, <1>3, <1>4 DEF Sound
  <1> DEFINE cached == C!Get(cache, runOf[f], cur[f])
  <1>6. PICK cs, cl : sent' = [sent EXCEPT ![f] =
                [url |-> cur[f], creds |-> creds[f], cookies |-> cs, client |-> cl,
                 etag |-> cached.etag,
                 date |-> IF cached.etag = NoEtag THEN cached.date ELSE NoDate,
                 at |-> now, version |-> server[cur[f]]]]
    BY Zenon DEF Send
  <1>. HIDE DEF cached
  <1>7. /\ sent'[f].url = cur[f] /\ sent'[f].version = server[cur[f]]
        /\ sent'[f].etag = cached.etag
        /\ sent'[f].date = IF cached.etag = NoEtag THEN cached.date ELSE NoDate
    BY <1>6 DEF BodyInv, FetchType
  <1>8. server[cur[f]] \in Versions /\ result[f] = NoResult
    BY <1>1 DEF BodyInv, BodyOf, FetchType
  <1>9. C!Get(cache, runOf[f], cur[f])' = cached
    BY <1>1, <1>2, <1>4 DEF cached
  <1>. QED BY <1>1, <1>5, <1>7, <1>8, <1>9 DEF BodyOf

(* A 304 gives the body the request named, by its ETag or by its date, or  *)
(* fails.                                                                  *)
LEMMA NotModifiedBody ==
    ASSUME BodyInv, NEW f \in Adapter, NEW h, NotModified(f, h)
    PROVE  Sound(cache, CacheEntry)' /\ BodyOf(f)'
  <1> DEFINE cached == C!Get(cache, runOf[f], cur[f])
  <1>1. runOf' = runOf /\ cur' = cur /\ sent' = sent /\ pc[f] = "reply" /\ pc'[f] = "report"
    BY DEF NotModified, world, history, BodyInv, FetchType, Fail, Succeed
  <1>2. cache' = C!Touched(cache, runOf[f], cur[f])
    BY DEF NotModified
  <1>3. CacheEntry' = CacheEntry
    BY <1>1 DEF CacheEntry
  <1>4. Sound(cache, CacheEntry) /\ cache.entries \in Seq(CacheEntry)
    BY DEF BodyInv, Sound
  <1>5. Sound(C!Touched(cache, runOf[f], cur[f]), CacheEntry)
    BY <1>4, EntryFacts, TouchedSound
  <1>6. Sound(cache, CacheEntry)'
    BY <1>2, <1>3, <1>5 DEF Sound
  <1>7. CASE cached = C!Miss
    <2>1. Fail(f, Evidence(f), hops[f])
      BY <1>7 DEF NotModified
    <2>2. result'[f].kind = "partial"
      BY <2>1 DEF Fail, BodyInv, FetchType
    <2>. QED BY <1>1, <1>6, <2>2 DEF BodyOf
  <1>8. CASE cached # C!Miss
    <2>1. Succeed(f, Evidence(f), cached.body, cached.ref)
      BY <1>8 DEF NotModified
    <2>2. result'[f] = [kind |-> "full", evid |-> Evidence(f), hops |-> hops[f],
                        url |-> FinalUrl[cur[f]], body |-> cached.body, ref |-> cached.ref]
      BY <2>1 DEF Succeed, BodyInv, FetchType
    <2>3. cached \in CacheEntry /\ Hit(cached, runOf[f], cur[f])
      BY <1>4, <1>8, GetCases
    <2>4. Validates(sent[f])
      BY DEF NotModified
    <2>5. /\ sent[f].etag = cached.etag /\ sent[f].url = cur[f] /\ sent[f].version \in Versions
          /\ sent[f].date = IF cached.etag = NoEtag THEN cached.date ELSE NoDate
      BY <1>1 DEF BodyInv, BodyOf
    <2>. HIDE DEF cached
    <2>6. /\ cached.etag \in {NoEtag, cached.body} /\ cached.date \in {NoDate, DateOfVersion[cached.body]}
          /\ cached.etag # NoEtag \/ cached.date # NoDate
          /\ cached.body \in Versions
      BY <2>3 DEF CacheEntry
    <2>7. \/ cached.body = sent[f].version
          \/ sent[f].date /= NoDate /\ DateOfVersion[sent[f].version] <= DateOfVersion[cached.body]
      <3>1. sent[f].version # NoEtag
        BY <2>5, EntryFacts DEF NoEtag
      <3>. QED BY <2>4, <2>5, <2>6, <3>1 DEF Validates
    <2>8. cached.ref[2] = cur[f] /\ cached.ref[3] = cached.body /\ runOf[cached.ref[1]] = runOf[f]
      BY <2>3 DEF CacheEntry, Hit
    <2>9. /\ result'[f].url = FinalUrl[cur[f]] /\ result'[f].body = cached.body
          /\ result'[f].ref = cached.ref
      BY <2>2
    <2>. QED BY <1>1, <1>6, <2>5, <2>7, <2>8, <2>9 DEF BodyOf
  <1>. QED BY <1>7, <1>8

(* An answer gives the body of the server, and caches that one.            *)
LEMMA RespondBody ==
    ASSUME BodyInv, NEW f \in Adapter, NEW h, NEW b, NEW d, Respond(f, h, b, d)
    PROVE  Sound(cache, CacheEntry)' /\ BodyOf(f)'
  <1> DEFINE body == sent[f].version
             etag == IF b THEN body ELSE NoEtag
             date == IF d THEN DateOfVersion[body] ELSE NoDate
             e == [run |-> runOf[f], url |-> cur[f], etag |-> etag, date |-> date, body |-> body,
                   size |-> SizeOfVersion[body], ref |-> <<f, cur[f], body>>]
  <1>1. runOf' = runOf /\ cur' = cur /\ sent' = sent /\ pc[f] = "reply" /\ pc'[f] = "report"
    BY DEF Respond, world, history, BodyInv, FetchType, Succeed
  <1>2. ((b \/ d) /\ cache' = C!Put(cache, e)) \/ cache' = cache
    BY Zenon DEF Respond, ArtifactRef
  <1>3. CacheEntry' = CacheEntry
    BY <1>1 DEF CacheEntry
  <1>4. body \in Versions /\ sent[f].url = cur[f]
    BY <1>1 DEF BodyInv, BodyOf
  <1>5. /\ SizeOfVersion[body] \in Nat /\ runOf[f] \in Run /\ cur[f] \in Url
        /\ DateOfVersion[body] \in Nat \ {0} /\ body \in Nat \ {0}
    <2>1. runOf[f] \in Run /\ cur[f] \in Url
      BY DEF BodyInv, FetchType
    <2>. HIDE DEF body
    <2>2. DateOfVersion[body] \in Nat \ {0} /\ body \in Nat \ {0}
      BY <1>4, HttpAssumption, EntryFacts
    <2>3. SizeOfVersion[body] \in Nat
      BY <1>4, HttpAssumption DEF Versions
    <2>. QED BY <2>1, <2>2, <2>3
  <1>6. b \/ d => e \in CacheEntry
    <2>. HIDE DEF body
    <2>1. <<f, cur[f], body>> \in Adapter \X Url \X Versions
      BY <1>4, <1>5
    <2>2. etag \in Nat /\ date \in Nat /\ etag \in {NoEtag, body} /\ date \in {NoDate, DateOfVersion[body]}
      BY <1>5 DEF NoEtag, NoDate
    <2>3. b \/ d => etag # NoEtag \/ date # NoDate
      BY <1>5 DEF NoEtag, NoDate
    <2>. HIDE DEF etag, date
    <2>. QED BY <1>4, <1>5, <2>1, <2>2, <2>3 DEF CacheEntry
  <1>7. Sound(cache, CacheEntry)
    BY DEF BodyInv
  <1>8. b \/ d => Sound(C!Put(cache, e), CacheEntry)
    <2>. HIDE DEF e
    <2>. QED BY <1>6, <1>7, EntryFacts, PutSound
  <1>9. Sound(cache, CacheEntry)'
    <2>. HIDE DEF e
    <2>. QED BY <1>2, <1>3, <1>7, <1>8 DEF Sound
  <1>10. result'[f] = [kind |-> "full", evid |-> Evidence(f), hops |-> hops[f],
                       url |-> FinalUrl[cur[f]], body |-> body, ref |-> <<f, FinalUrl[cur[f]], body>>]
    BY DEF Respond, ArtifactRef, Succeed, BodyInv, FetchType
  <1>. HIDE DEF body
  <1>11. /\ result'[f].url = FinalUrl[cur[f]] /\ result'[f].body = body
         /\ result'[f].ref = <<f, FinalUrl[cur[f]], body>>
    BY <1>10
  <1>. QED BY <1>1, <1>4, <1>9, <1>11 DEF BodyOf, body

(* A step that leaves the cache alone and brings no result.                *)
Quiet(f) ==
    /\ UNCHANGED <<runOf, cache>>
    /\ pc'[f] # "reply"
    /\ pc'[f] # "report" => result'[f] = NoResult
    /\ pc'[f] = "report" => result'[f].kind # "full"

(* So do all the others.                                                   *)
LEMMA QuietStep ==
    ASSUME BodyInv, NEW f \in Adapter, Acquire(f) \/ Step(f)
    PROVE  \/ Send(f) \/ (\E h : NotModified(f, h)) \/ (\E h, b, d : Respond(f, h, b, d))
           \/ Quiet(f)
  <1>0. NoResult.kind = "none" /\ (pc[f] # "report" => result[f] = NoResult)
    BY DEF NoResult, BodyInv, BodyOf
  <1>1. ASSUME NEW ev, NEW hp, Fail(f, ev, hp) PROVE pc'[f] = "report" /\ result'[f].kind = "partial"
    BY <1>1 DEF Fail, BodyInv, FetchType
  <1>2. CASE Started(f)
    BY <1>2 DEF Started, shared, world, Quiet
  <1>8. CASE Refused(f)
    BY <1>0, <1>8 DEF Refused, shared, world, Quiet
  <1>3. CASE Permit(f)
    BY <1>0, <1>1, <1>3 DEF Permit, shared, world, Quiet, BodyInv, FetchType
  <1>4. CASE Report(f)
    BY <1>0, <1>4 DEF Report, shared, world, Quiet, BodyInv, FetchType
  <1>5. ASSUME NEW kind, TransportError(f, kind)
        PROVE  Quiet(f)
    BY <1>0, <1>1, <1>5 DEF TransportError, TryAgain, shared, world, Quiet, BodyInv, FetchType
  <1>6. ASSUME NEW h, NEW b, RetryableStatus(f, h, b)
        PROVE  Quiet(f)
    BY <1>0, <1>1, <1>6 DEF RetryableStatus, TryAgain, world, Quiet, BodyInv, FetchType
  <1>7. ASSUME NEW h, NEW to, Redirect(f, h, to)
        PROVE  Quiet(f)
    BY <1>0, <1>1, <1>7 DEF Redirect, world, Quiet, BodyInv, FetchType
  <1>9. FetchType
    BY DEF BodyInv
  <1>. QED BY <1>2, <1>3, <1>4, <1>5, <1>6, <1>7, <1>8, <1>9, StartCases DEF Step

(* Every step of an adapter keeps the bodies current.                      *)
LEMMA BodyStep ==
    ASSUME BodyInv, NEW f \in Adapter, Acquire(f) \/ Step(f)
    PROVE  BodyInv'
  <1>1. FetchType' /\ runOf' = runOf /\ server' = server
    <2>1. FetchType'
      BY TypeStep DEF BodyInv
    <2>2. world' = world
      BY WorldUnchanged DEF BodyInv
    <2>. QED BY <2>1, <2>2 DEF world
  <1>2. Sound(cache, CacheEntry)' /\ BodyOf(f)'
    <2>1. CASE Quiet(f)
      <3>1. CacheEntry' = CacheEntry /\ cache' = cache
        BY <2>1 DEF Quiet, CacheEntry
      <3>2. Sound(cache, CacheEntry)'
        BY <3>1 DEF BodyInv, Sound
      <3>. QED BY <2>1, <3>2 DEF Quiet, BodyOf
    <2>. QED BY <2>1, QuietStep, SendBody, NotModifiedBody, RespondBody
  <1>3. \A g \in Adapter : BodyOf(g)'
    <2>. TAKE g \in Adapter
    <2>1. CASE g # f
      <3>1. pc'[g] = pc[g] /\ pc[g] \in {"new", "done"} /\ result'[g] = result[g]
        BY <2>1, BusyStep, OthersUnchanged DEF Busy, Same, BodyInv
      <3>2. result[g] = NoResult
        BY <3>1 DEF BodyInv, BodyOf
      <3>. QED BY <3>1, <3>2 DEF BodyOf
    <2>. QED BY <1>2, <2>1
  <1>. QED BY <1>1, <1>2, <1>3, BusyStep DEF BodyInv

(* So does every step.                                                     *)
LEMMA BodyNext == BodyInv /\ [Next]_vars => BodyInv'
  <1> SUFFICES ASSUME BodyInv, [Next]_vars
               PROVE  BodyInv'
    OBVIOUS
  <1>1. ASSUME Elsewhere \/ UNCHANGED vars
        PROVE  BodyInv'
    <2>1. UNCHANGED <<fetch, scenario, store, round, pc, result, history>>
      BY <1>1, ElsewhereUnchanged
    <2>2. FetchType'
      BY <2>1 DEF BodyInv, FetchType, fetch, history
    <2>3. runOf' = runOf /\ CacheEntry' = CacheEntry
      BY <1>1 DEF Elsewhere, ClearRun, Change, Tick, world, vars, CacheEntry
    <2>4. server' \in [Url -> Versions]
      <3>1. ASSUME NEW u \in Changing, Change(u) PROVE server' \in [Url -> Versions]
        BY <3>1 DEF Change, BodyInv
      <3>2. server' = server \/ \E u \in Changing : Change(u)
        BY <1>1 DEF Elsewhere, ClearRun, Tick, world, vars
      <3>. QED BY <3>1, <3>2 DEF BodyInv
    <2>5. cache' = cache \/ \E r \in Run : ClearRun(r)
      BY <1>1 DEF Elsewhere, Change, Tick, shared, vars
    <2>6. Sound(cache, CacheEntry)'
      <3>1. Sound(cache, CacheEntry)
        BY DEF BodyInv
      <3>2. ASSUME NEW r \in Run, ClearRun(r) PROVE Sound(cache, CacheEntry)'
        <4>1. Sound(C!ClearRun(cache, r), CacheEntry)
          BY <3>1, EntryFacts, ClearSound
        <4>. QED BY <2>3, <3>2, <4>1 DEF ClearRun, Sound
      <3>3. CASE cache' = cache
        BY <2>3, <3>1, <3>3 DEF Sound
      <3>. QED BY <2>5, <3>2, <3>3
    <2>7. \A f \in Adapter : BodyOf(f)'
      <3>. TAKE f \in Adapter
      <3>0. BodyOf(f)
        BY DEF BodyInv
      <3>1. CASE cache' = cache
        BY <2>1, <2>3, <3>0, <3>1 DEF BodyOf, fetch, history
      <3>2. CASE \E r \in Run : ClearRun(r)
        <4>1. pc[f] \in {"new", "done"}
          BY <3>2 DEF ClearRun, Idle
        <4>. QED BY <2>1, <3>0, <4>1 DEF BodyOf
      <3>. QED BY <2>5, <3>1, <3>2
    <2>8. (\A f, g \in Adapter : Busy(f) /\ Busy(g) => f = g)'
      BY <2>1 DEF BodyInv, Busy
    <2>. QED BY <2>2, <2>3, <2>4, <2>6, <2>7, <2>8 DEF BodyInv
  <1>. QED BY <1>1, BodyStep, NextCases

(* At first there is no body.                                              *)
LEMMA BodyInit == Init => BodyInv
  <1> SUFFICES ASSUME Init
               PROVE  BodyInv
    OBVIOUS
  <1>1. Sound(cache, CacheEntry)
    <2>1. cache.entries = <<>> /\ cache.total = 0
      BY DEF Init, C!Empty
    <2>2. Distinct(<<>>) /\ <<>> \in Seq(CacheEntry) /\ Len(<<>>) = 0
      BY DEF Distinct
    <2>. QED BY <2>1, <2>2, SizeEmpty, HttpAssumption DEF Sound
  <1>2. \A f \in Adapter : BodyOf(f) /\ ~Busy(f)
    BY DEF Init, BodyOf, Busy
  <1>3. runOf \in [Adapter -> Run] /\ server \in [Url -> Versions]
    BY HttpAssumption DEF Init
  <1>. QED BY <1>1, <1>2, <1>3, TypeInit DEF BodyInv

(* The invariant holds throughout.                                         *)
LEMMA BodyInvCorrect == Spec => []BodyInv
  BY BodyInit, BodyNext, PTL DEF Spec

(* A fetch that succeeds returns the body the server had for the final     *)
(* URL, also from the cache on a 304 (by its ETag; by a date, a body of a  *)
(* date no older), with an artifact ref of the body it returns from the    *)
(* same run, whatever was evicted or replaced before                       *)
(* (_synthesize_from_cached).                                              *)
THEOREM BodyCorrect == Spec => []BodyIsCurrent
  <1>1. BodyInv => BodyIsCurrent
    BY DEF BodyInv, BodyOf, BodyIsCurrent
  <1>. QED BY <1>1, BodyInvCorrect, PTL

(* _total_bytes is the sum of the sizes of the entries, so that the repair *)
(* at the end of put and of clear_run ("should never happen") is never     *)
(* needed, and both caps hold after every call.                            *)
CacheAccounts ==
    /\ cache.total = C!SizeOf(cache.entries)
    /\ cache.total <= MaxTotalBytes /\ Len(cache.entries) <= MaxEntries
    /\ Distinct(cache.entries)

(* The cache keeps its accounts through every sequence of get, put and     *)
(* clear_run that fetches make: total and number of entries stay within    *)
(* their caps, and a key has one entry.                                    *)
THEOREM CacheCorrect == Spec => []CacheAccounts
  <1>1. BodyInv => CacheAccounts
    BY DEF BodyInv, Sound, CacheAccounts
  <1>. QED BY <1>1, BodyInvCorrect, PTL
===============================================================================
