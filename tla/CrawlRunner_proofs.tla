------------------------- MODULE CrawlRunner_proofs -------------------------
(***************************************************************************)
(* Theorems about one crawl run, for every site, seed list, depth limit    *)
(* and page budget, and for every answer of the outside.  Inductive        *)
(* invariants are built on one another: types, the fate of each URL, the   *)
(* page budget, the evidence of the pages, the reason to stop, the depths  *)
(* along the queue, and what the log tells; the order of the queue needs   *)
(* only the types.                                                         *)
(***************************************************************************)
EXTENDS CrawlRunner, SequenceTheorems, FiniteSetTheorems, TLAPS

(* Typing needs to know when an item is held: a step that reads item.url   *)
(* is only taken then.                                                     *)
TypeInv == TypeOK /\ ItemHeld

(* enqueue admits or gives one of the reasons it counts.                   *)
LEMMA VerdictType ==
    ASSUME NEW raw, NEW depth, NEW answer
    PROVE  EnqueueVerdict(raw, depth, answer) \in SkipReason \cup {"admit"}
  BY DEF EnqueueVerdict, ClassifyUrl, SkipReason, FilterReason

(* A skip names a canonical URL or none.                                   *)
LEMMA CanonicalType ==
    ASSUME NEW raw \in Raw
    PROVE  CanonicalUrl(raw) \in Url \cup {NoUrl}
  BY UrlAssumption DEF CanonicalUrl

(* A loop over raw URLs makes well-typed enqueue calls.                    *)
LEMMA CallsType ==
    ASSUME NEW raws \in Seq(Raw), NEW depth \in Nat, NEW parent \in Url \cup {NoUrl}
    PROVE  Calls(raws, depth, parent) \in Seq(EnqueueCall)
<1> DEFINE S == EnqueueCall
           calls == Calls(raws, depth, parent)
<1>1. /\ Len(raws) \in Nat
      /\ DOMAIN raws = 1 .. Len(raws)
      /\ \A i \in 1 .. Len(raws) : raws[i] \in Raw
  BY LenProperties, ElementOfSeq
<1>2. \A i \in 1 .. Len(raws) : [raw |-> raws[i], depth |-> depth, parent |-> parent] \in S
  BY <1>1 DEF EnqueueCall
<1>3. calls \in [1 .. Len(raws) -> S]
  BY <1>1, <1>2 DEF Calls
<1> HIDE DEF S, calls
<1>4. calls \in Seq(S)
  BY <1>1, <1>3, SeqDef, Zenon
<1> QED
  BY <1>4 DEF S, calls

(* Counting one more skip keeps the counter's type.                        *)
LEMMA BumpType ==
    ASSUME NEW f \in [SkipReason -> Nat], NEW r \in SkipReason
    PROVE  [f EXCEPT ![r] = @ + 1] \in [SkipReason -> Nat]
  OBVIOUS

(* A run starts well typed.                                                *)
LEMMA TypeInit == Init => TypeInv
<1> SUFFICES ASSUME Init PROVE TypeInv
  OBVIOUS
<1>1. store \in [DOMAIN store -> Url] /\ DOMAIN store \subseteq Content
  BY DEF Init
<1>2. dispatching \in BOOLEAN
  BY Zenon DEF Init
<1>3. skippedByReason \in [SkipReason -> Nat]
  BY DEF Init, FrontierInit
<1>4. ItemHeld
  BY DEF Init, ItemHeld
<1>5. eligible \in BOOLEAN /\ replanDone \in BOOLEAN
  BY Zenon DEF Init
<1>6. /\ store \in [DOMAIN store -> Url]
      /\ queue \in Seq(FrontierItem) /\ events \in Seq(FrontierEvent)
      /\ todo \in Seq(EnqueueCall) /\ failures \in Seq([url : Url, fault : FetchFault])
      /\ documents \in Seq([url : Url, ref : Content]) /\ observed \in Seq(FrontierItem)
  BY <1>1, EmptySeq DEF Init, FrontierInit
<1> QED
  BY <1>1, <1>2, <1>3, <1>4, <1>5, <1>6 DEF Init, FrontierInit, TypeInv, TypeOK

(* Every step of the run keeps the types.                                  *)
LEMMA TypeStep == TypeInv /\ [Next]_vars => TypeInv'
  <2> SUFFICES ASSUME TypeInv, [Next]_vars PROVE TypeInv'
    OBVIOUS
  <2> USE DEF TypeInv, ItemHeld
  <2>1. CASE Start
    <3>1. todo' \in Seq(EnqueueCall)
      BY RunnerAssumption, <2>1, CallsType DEF Start
    <3>2. eligible' \in BOOLEAN
      BY <2>1, Zenon DEF Start
    <3> QED
      BY <2>1, <3>1, <3>2 DEF Start, TypeOK, frontierVars, counters, reports
  <2>2. CASE EnqueueOne
    <3> DEFINE call == Head(todo)
    <3>1. call \in EnqueueCall /\ todo' \in Seq(EnqueueCall)
      BY <2>2 DEF EnqueueOne, TypeOK
    <3>2. PICK answer \in DnsAnswer : /\ Enqueue(call.raw, call.depth, call.parent, answer)
                                      /\ RecordUrlObserved(call, answer)
      BY <2>2 DEF EnqueueOne
    <3>3. ItemOf(call) \in FrontierItem
      BY UrlAssumption, <3>1 DEF ItemOf, FrontierItem, EnqueueCall
    <3>4. observed' \in Seq(FrontierItem)
      BY <3>2, <3>3 DEF RecordUrlObserved, TypeOK
    <3>5. CASE EnqueueAdmit(call.raw, call.depth, call.parent, answer)
      <4>1. UrlOf[call.raw] \in Url /\ call.depth \in Nat
        BY UrlAssumption, <3>1 DEF EnqueueCall
      <4>2. queue' \in Seq(FrontierItem)
        BY <3>3, <3>5 DEF EnqueueAdmit, ItemOf, TypeOK
      <4>3. Event("enqueued", UrlOf[call.raw], call.depth, "none") \in FrontierEvent
        BY <4>1 DEF Event, FrontierEvent
      <4>4. events' \in Seq(FrontierEvent)
        BY <3>5, <4>3 DEF EnqueueAdmit, TypeOK
      <4>5. seen' \subseteq Url
        BY <3>5, <4>1, Zenon DEF EnqueueAdmit, TypeOK
      <4>6. enqueuedCount' \in Nat /\ UNCHANGED <<fetched, fetchedCount, skippedByReason>>
        BY <3>5 DEF EnqueueAdmit, TypeOK
      <4> QED
        BY <2>2, <3>1, <3>4, <4>2, <4>4, <4>5, <4>6 DEF EnqueueOne, TypeOK, reports
    <3>6. CASE EnqueueSkip(call.raw, call.depth, answer)
      <4>1. EnqueueVerdict(call.raw, call.depth, answer) \in SkipReason
        BY <3>6, VerdictType DEF EnqueueSkip
      <4>2. CanonicalUrl(call.raw) \in Url \cup {NoUrl}
        BY <3>1, CanonicalType DEF EnqueueCall
      <4>3. Event("skipped", CanonicalUrl(call.raw), call.depth,
                  EnqueueVerdict(call.raw, call.depth, answer)) \in FrontierEvent
        BY <3>1, <4>1, <4>2 DEF Event, FrontierEvent, EnqueueCall
      <4>4. events' \in Seq(FrontierEvent)
        BY <3>6, <4>3 DEF EnqueueSkip, RecordSkip, TypeOK
      <4>5. skippedByReason' \in [SkipReason -> Nat]
        <5>1. skippedByReason' = [skippedByReason EXCEPT
                  ![EnqueueVerdict(call.raw, call.depth, answer)] = @ + 1]
          BY <3>6 DEF EnqueueSkip, RecordSkip
        <5>2. skippedByReason \in [SkipReason -> Nat]
          BY DEF TypeOK
        <5> QED
          BY <4>1, <5>1, <5>2, BumpType
      <4>6. UNCHANGED <<queue, seen, fetched, enqueuedCount, fetchedCount>>
        BY <3>6 DEF EnqueueSkip, RecordSkip
      <4> QED
        BY <2>2, <3>1, <3>4, <4>4, <4>5, <4>6 DEF EnqueueOne, TypeOK, reports
    <3> QED
      BY <3>2, <3>5, <3>6 DEF Enqueue
  <2>3. CASE EnqueueDone
    BY <2>3 DEF EnqueueDone, TypeOK, frontierVars, counters, reports
  <2>4. CASE RuntimeExceeded
    BY <2>4 DEF RuntimeExceeded, Finish, TypeOK, frontierVars, counters, reports
  <2>5. CASE StopOnBudget
    BY <2>5 DEF StopOnBudget, Finish, TypeOK, frontierVars, counters, reports
  <2>6. CASE Replan
    <3>1. todo' \in Seq(EnqueueCall)
      BY RunnerAssumption, <2>6, CallsType DEF Replan
    <3>2. eligible' \in BOOLEAN
      BY <2>6, Zenon DEF Replan
    <3> QED
      BY <2>6, <3>1, <3>2 DEF Replan, TypeOK, frontierVars, counters, reports
  <2>7. CASE QueueDrained
    BY <2>7 DEF QueueDrained, Finish, TypeOK, frontierVars, counters, reports
  <2>8. CASE PopItem
    <3>1. Head(queue) \in FrontierItem /\ Tail(queue) \in Seq(FrontierItem)
      BY <2>8 DEF PopItem, Pop, CanPop, TypeOK
    <3>2. Event("dequeued", Head(queue).url, Head(queue).depth, "none") \in FrontierEvent
      BY <3>1 DEF Event, FrontierEvent, FrontierItem
    <3>3. events' \in Seq(FrontierEvent)
      BY <2>8, <3>2 DEF PopItem, Pop, TypeOK
    <3> QED
      BY RunnerAssumption, <2>8, <3>1, <3>3 DEF PopItem, Pop, TypeOK, counters, reports
  <2>9. CASE RobotsDenied
    <3>1. item \in FrontierItem
      BY <2>9 DEF RobotsDenied, TypeOK
    <3>2. Event("skipped", item.url, NoDepth, "robots_denied") \in FrontierEvent
      BY <3>1 DEF Event, FrontierEvent, FrontierItem, SkipReason
    <3>3. events' \in Seq(FrontierEvent)
      BY <2>9, <3>2 DEF RobotsDenied, Skip, RecordSkip, TypeOK
    <3>4. skippedByReason' \in [SkipReason -> Nat]
      BY <2>9 DEF RobotsDenied, Skip, RecordSkip, TypeOK, SkipReason
    <3> QED
      BY <2>9, <3>3, <3>4 DEF RobotsDenied, Skip, RecordSkip, TypeOK, reports
  <2>10. CASE DispatchError
    BY <2>10 DEF DispatchError, TypeOK, frontierVars, counters, reports
  <2>11. CASE FetchFailed
    BY <2>11 DEF FetchFailed, CanFetch, TypeOK, frontierVars, counters, FetchFault, FrontierItem
  <2>12. CASE FetchPage
    <3>1. item \in FrontierItem
      BY <2>12 DEF FetchPage, CanFetch, TypeOK
    <3>2. PICK content \in Content :
            /\ PutArtifact(content, item.url)
            /\ documents' = Append(documents, [url |-> item.url, ref |-> content])
            /\ cited' = IF content \in Extractable THEN cited \cup {content} ELSE cited
            /\ \E links \in LinkLists[content] : todo' = LinkCalls(links)
      BY <2>12 DEF FetchPage, RunExtractors, DiscoverLinks
    <3>3. todo' \in Seq(EnqueueCall)
      BY RunnerAssumption, <3>1, <3>2, CallsType DEF LinkCalls, FrontierItem
    <3>4. store' \in [DOMAIN store' -> Url] /\ DOMAIN store' \subseteq Content
      BY <3>1, <3>2 DEF PutArtifact, TypeOK, FrontierItem
    <3>5. documents' \in Seq([url : Url, ref : Content]) /\ cited' \subseteq Content
      BY <3>1, <3>2 DEF TypeOK, FrontierItem
    <3>6. Event("fetched", item.url, NoDepth, "none") \in FrontierEvent
      BY <3>1 DEF Event, FrontierEvent, FrontierItem
    <3>7. /\ events' \in Seq(FrontierEvent) /\ fetchedCount' \in Nat
          /\ UNCHANGED <<queue, seen, enqueuedCount, skippedByReason>>
      <4>1. MarkFetched(item.url)
        BY <2>12 DEF FetchPage
      <4>2. CASE item.url \in fetched
        BY <4>1, <4>2 DEF MarkFetched, TypeOK, frontierVars, counters
      <4>3. CASE item.url \notin fetched
        <5>1. /\ events' = Append(events, Event("fetched", item.url, NoDepth, "none"))
              /\ fetchedCount' = fetchedCount + 1
              /\ UNCHANGED <<queue, seen, enqueuedCount, skippedByReason>>
          BY <4>1, <4>3 DEF MarkFetched
        <5> QED
          BY <5>1, <3>6 DEF TypeOK
      <4> QED
        BY <4>2, <4>3
    <3>8. fetched' = fetched \/ fetched' = fetched \cup {item.url}
      BY <2>12 DEF FetchPage, MarkFetched, frontierVars
    <3>9. fetched' \subseteq Url
      BY <3>1, <3>8 DEF TypeOK, FrontierItem
    <3>10. /\ successes' \in Nat /\ fetchCount' \in Nat /\ item' = NoItem /\ pc' = "enqueueing"
           /\ UNCHANGED <<mode, dispatching, eligible, failures, throttles, observed, replanDone,
                          stopReason>>
      BY <2>12 DEF FetchPage, TypeOK
    <3> QED
      BY <3>3, <3>4, <3>5, <3>7, <3>9, <3>10 DEF TypeOK
  <2>13. CASE UNCHANGED vars
    BY <2>13 DEF vars, runVars, frontierVars, counters, reports, TypeOK
  <2>14. CASE Terminated
    BY <2>13, <2>14 DEF Terminated
  <2> QED
    BY <2>1, <2>2, <2>3, <2>4, <2>5, <2>6, <2>7, <2>8, <2>9, <2>10, <2>11, <2>12, <2>13, <2>14 DEF Next

(* Every value that run() and its frontier hold keeps its type.            *)
THEOREM TypeCorrect == Spec => []TypeOK
<1>1. TypeInv => TypeOK
  BY DEF TypeInv
<1> QED
  BY <1>1, TypeInit, TypeStep, PTL DEF Spec
-----------------------------------------------------------------------------
(* What Append and Tail do to the URLs of a list.                          *)

(* Append adds the URL of the new element.                                 *)
LEMMA UrlsOfAppend ==
    ASSUME NEW S, NEW s \in Seq(S), NEW x \in S
    PROVE  UrlsOf(Append(s, x)) = UrlsOf(s) \cup {x.url}
<1> DEFINE t == Append(s, x)
<1>1. /\ DOMAIN t = 1 .. Len(s) + 1 /\ DOMAIN s = 1 .. Len(s) /\ Len(s) \in Nat
      /\ \A i \in 1 .. Len(s) : t[i] = s[i]
      /\ t[Len(s) + 1] = x
  OBVIOUS
<1> HIDE DEF t
<1>2. ASSUME NEW u \in UrlsOf(t) PROVE u \in UrlsOf(s) \cup {x.url}
  BY <1>1, <1>2 DEF UrlsOf
<1>3. ASSUME NEW u \in UrlsOf(s) PROVE u \in UrlsOf(t)
  BY <1>1, <1>3 DEF UrlsOf
<1>4. x.url \in UrlsOf(t)
  BY <1>1 DEF UrlsOf
<1> QED
  BY <1>2, <1>3, <1>4 DEF t

(* Appending a URL that is not in the list repeats none.                   *)
LEMMA NoRepeatAppend ==
    ASSUME NEW S, NEW s \in Seq(S), NEW x \in S, NoRepeat(s), x.url \notin UrlsOf(s)
    PROVE  NoRepeat(Append(s, x))
<1> DEFINE t == Append(s, x)
<1>1. /\ DOMAIN t = 1 .. Len(s) + 1 /\ DOMAIN s = 1 .. Len(s) /\ Len(s) \in Nat
      /\ \A i \in 1 .. Len(s) : t[i] = s[i]
      /\ t[Len(s) + 1] = x
  OBVIOUS
<1> HIDE DEF t
<1>2. \A i \in 1 .. Len(s) : s[i].url # x.url
  BY <1>1 DEF UrlsOf
<1>3. NoRepeat(t)
  BY <1>1, <1>2 DEF NoRepeat
<1> QED
  BY <1>3 DEF t

(* Tail removes the URL of the head, and only that, from a list without    *)
(* repetitions.                                                            *)
LEMMA UrlsOfTail ==
    ASSUME NEW S, NEW s \in Seq(S), s # <<>>, NoRepeat(s)
    PROVE  /\ UrlsOf(Tail(s)) = UrlsOf(s) \ {Head(s).url}
           /\ Head(s).url \in UrlsOf(s)
           /\ NoRepeat(Tail(s))
<1> DEFINE t == Tail(s)
<1>1. /\ Len(s) \in Nat \ {0} /\ DOMAIN s = 1 .. Len(s) /\ DOMAIN t = 1 .. Len(s) - 1
      /\ \A i \in 1 .. Len(s) - 1 : t[i] = s[i + 1]
      /\ Head(s) = s[1]
  BY HeadTailProperties, EmptySeq, LenProperties
<1> HIDE DEF t
<1>2. ASSUME NEW u \in UrlsOf(t) PROVE u \in UrlsOf(s) /\ u # s[1].url
  BY <1>1, <1>2 DEF UrlsOf, NoRepeat
<1>3. ASSUME NEW u \in UrlsOf(s), u # s[1].url PROVE u \in UrlsOf(t)
  <2>1. PICK i \in 1 .. Len(s) : u = s[i].url
    BY <1>1 DEF UrlsOf
  <2>2. i # 1 /\ i - 1 \in 1 .. Len(s) - 1 /\ t[i - 1] = s[i]
    BY <1>1, <1>3, <2>1
  <2> QED
    BY <1>1, <2>1, <2>2 DEF UrlsOf
<1>4. s[1].url \in UrlsOf(s)
  BY <1>1 DEF UrlsOf
<1>5. NoRepeat(t)
  <2>1. \A i, j \in 1 .. Len(s) : s[i].url = s[j].url => i = j
    BY <1>1 DEF NoRepeat
  <2>2. ASSUME NEW i \in 1 .. Len(s) - 1, NEW j \in 1 .. Len(s) - 1, t[i].url = t[j].url
        PROVE  i = j
    <3>1. i + 1 \in 1 .. Len(s) /\ j + 1 \in 1 .. Len(s) /\ t[i] = s[i + 1] /\ t[j] = s[j + 1]
      BY <1>1
    <3>2. i + 1 = j + 1
      BY <2>1, <2>2, <3>1
    <3> QED
      BY <3>2
  <2> QED
    BY <1>1, <2>2 DEF NoRepeat
<1> QED
  BY <1>1, <1>2, <1>3, <1>4, <1>5 DEF t

(* Only a robots_denied event adds to the denied URLs of the log.          *)
LEMMA DeniedInAppend ==
    ASSUME NEW s \in Seq(FrontierEvent), NEW e \in FrontierEvent
    PROVE  /\ e.reason # "robots_denied" => DeniedIn(Append(s, e)) = DeniedIn(s)
           /\ e.reason = "robots_denied" /\ e.url \in Url
                => DeniedIn(Append(s, e)) = DeniedIn(s) \cup {e.url}
<1> DEFINE t == Append(s, e)
<1>1. /\ DOMAIN t = 1 .. Len(s) + 1 /\ DOMAIN s = 1 .. Len(s) /\ Len(s) \in Nat
      /\ \A i \in 1 .. Len(s) : t[i] = s[i]
      /\ t[Len(s) + 1] = e
  OBVIOUS
<1> HIDE DEF t
<1>2. ASSUME NEW u \in DeniedIn(t) PROVE u \in DeniedIn(s) \/ (e.reason = "robots_denied" /\ e.url = u)
  BY <1>1, <1>2 DEF DeniedIn
<1>3. ASSUME NEW u \in DeniedIn(s) PROVE u \in DeniedIn(t)
  BY <1>1, <1>3 DEF DeniedIn
<1>4. e.reason = "robots_denied" /\ e.url \in Url => e.url \in DeniedIn(t)
  BY <1>1 DEF DeniedIn
<1> QED
  BY <1>2, <1>3, <1>4 DEF t

-----------------------------------------------------------------------------
(* One fate for each URL.                                                  *)

Fates == <<queue, seen, fetched, failures, events, item>>

(* A step that touches none of these variables keeps every fate.           *)
LEMMA FateUnchanged == EachUrlOneFate /\ UNCHANGED Fates => EachUrlOneFate'
  BY DEF Fates, EachUrlOneFate, Pending, InFlight, Failed, Denied

(* Every step moves at most one URL, from one fate to the next.            *)
LEMMA FateStep == TypeInv /\ TypeInv' /\ EachUrlOneFate /\ [Next]_vars => EachUrlOneFate'
<1> SUFFICES ASSUME TypeInv, TypeInv', EachUrlOneFate, [Next]_vars PROVE EachUrlOneFate'
  OBVIOUS
<1>1. CASE EnqueueOne
  <2> DEFINE call == Head(todo)
             u == UrlOf[call.raw]
  <2>1. PICK answer \in DnsAnswer : Enqueue(call.raw, call.depth, call.parent, answer)
    BY <1>1 DEF EnqueueOne
  <2>2. call \in EnqueueCall /\ u \in Url
    <3>1. call \in EnqueueCall
      <4>1. todo \in Seq(EnqueueCall)
        BY DEF TypeInv, TypeOK
      <4>2. todo # <<>>
        BY <1>1 DEF EnqueueOne
      <4> QED
        BY <4>1, <4>2, HeadTailProperties
    <3> QED
      BY <3>1, UrlAssumption DEF EnqueueCall
  <2>3. failures' = failures /\ item' = item
    BY <1>1 DEF EnqueueOne
  <2>4. CASE EnqueueAdmit(call.raw, call.depth, call.parent, answer)
    <3> DEFINE x == [url |-> u, depth |-> call.depth, parent |-> call.parent]
               e == Event("enqueued", u, call.depth, "none")
    <3>1. x \in FrontierItem /\ x.url = u
      BY <2>2 DEF FrontierItem, EnqueueCall
    <3>2. e \in FrontierEvent /\ e.reason # "robots_denied"
      BY <2>2 DEF FrontierEvent, Event, EnqueueCall
    <3>3. u \notin seen
      BY <2>4 DEF EnqueueAdmit, EnqueueVerdict
    <3>4. queue' = Append(queue, x) /\ events' = Append(events, e) /\ seen' = seen \cup {u} /\ fetched' = fetched
      BY <2>4 DEF EnqueueAdmit
    <3>5. queue \in Seq(FrontierItem) /\ events \in Seq(FrontierEvent)
      BY DEF TypeInv, TypeOK
    <3> HIDE DEF x, e
    <3>6. Pending' = Pending \cup {u}
      BY <3>1, <3>4, <3>5, UrlsOfAppend DEF Pending
    <3>7. Denied' = Denied
      BY <3>2, <3>4, <3>5, DeniedInAppend DEF Denied
    <3>8. Failed' = Failed /\ InFlight' = InFlight
      BY <2>3 DEF Failed, InFlight
    <3>9. NoRepeat(queue')
      BY <3>1, <3>3, <3>4, <3>5, NoRepeatAppend DEF EachUrlOneFate, Pending
    <3> QED
      BY <2>3, <3>3, <3>4, <3>6, <3>7, <3>8, <3>9 DEF EachUrlOneFate
  <2>5. CASE EnqueueSkip(call.raw, call.depth, answer)
    <3> DEFINE v == EnqueueVerdict(call.raw, call.depth, answer)
               e == Event("skipped", CanonicalUrl(call.raw), call.depth, v)
    <3>1. v \in SkipReason /\ v # "robots_denied"
      BY <2>5, VerdictType DEF EnqueueSkip, EnqueueVerdict, ClassifyUrl
    <3> HIDE DEF v
    <3>2. e \in FrontierEvent /\ e.reason # "robots_denied"
      BY <2>2, <3>1, CanonicalType DEF FrontierEvent, Event, EnqueueCall
    <3>3. events' = Append(events, e) /\ UNCHANGED <<queue, seen, fetched>>
      BY <2>5 DEF EnqueueSkip, RecordSkip, v
    <3>4. events \in Seq(FrontierEvent)
      BY DEF TypeInv, TypeOK
    <3> HIDE DEF e
    <3>5. Denied' = Denied
      BY <3>2, <3>3, <3>4, DeniedInAppend DEF Denied
    <3>6. Pending' = Pending /\ Failed' = Failed /\ InFlight' = InFlight
      BY <2>3, <3>3 DEF Pending, Failed, InFlight
    <3>7. queue' = queue /\ failures' = failures /\ seen' = seen /\ fetched' = fetched
      BY <2>3, <3>3
    <3> QED
      BY <3>5, <3>6, <3>7 DEF EachUrlOneFate
  <2> QED
    BY <2>1, <2>4, <2>5 DEF Enqueue
<1>2. CASE PopItem
  <2> DEFINE x == Head(queue)
             e == Event("dequeued", x.url, x.depth, "none")
  <2>1. queue \in Seq(FrontierItem) /\ events \in Seq(FrontierEvent) /\ queue # <<>> /\ x \in FrontierItem
    <3>1. queue \in Seq(FrontierItem) /\ events \in Seq(FrontierEvent)
      BY DEF TypeInv, TypeOK
    <3>2. queue # <<>>
      BY <1>2 DEF PopItem, Pop, CanPop
    <3> QED
      BY <3>1, <3>2, HeadTailProperties
  <2>2. e \in FrontierEvent /\ e.reason # "robots_denied"
    BY <2>1 DEF FrontierEvent, FrontierItem, Event
  <2>3. /\ queue' = Tail(queue) /\ events' = Append(events, e) /\ item' = x
        /\ UNCHANGED <<seen, fetched, failures>>
    BY <1>2 DEF PopItem, Pop
  <2>4. item = NoItem /\ x # NoItem
    BY <1>2, <2>1, RunnerAssumption DEF PopItem, TypeInv, ItemHeld
  <2>5. Denied' = Denied
    <3> HIDE DEF e
    <3> QED
      BY <2>1, <2>2, <2>3, DeniedInAppend DEF Denied
  <2>6. Pending' = Pending \ {x.url} /\ x.url \in Pending /\ NoRepeat(queue')
    BY <2>1, <2>3, UrlsOfTail DEF Pending, EachUrlOneFate
  <2>7. InFlight = {} /\ InFlight' = {x.url} /\ Failed' = Failed
    BY <2>3, <2>4 DEF InFlight, Failed
  <2> HIDE DEF x
  <2> QED
    BY <2>3, <2>5, <2>6, <2>7 DEF EachUrlOneFate
<1>3. ASSUME pc = "popped" PROVE item \in FrontierItem /\ item # NoItem /\ item.url \in Url /\ InFlight = {item.url}
  BY <1>3 DEF TypeInv, TypeOK, ItemHeld, FrontierItem, InFlight
<1>4. CASE RobotsDenied
  <2> DEFINE e == Event("skipped", item.url, NoDepth, "robots_denied")
  <2>1. item \in FrontierItem /\ item.url \in Url /\ InFlight = {item.url}
    BY <1>3, <1>4 DEF RobotsDenied
  <2>2. e \in FrontierEvent /\ e.reason = "robots_denied" /\ e.url = item.url
    BY <2>1 DEF FrontierEvent, Event, SkipReason
  <2>3. events' = Append(events, e) /\ item' = NoItem /\ UNCHANGED <<queue, seen, fetched, failures>>
    BY <1>4 DEF RobotsDenied, Skip, RecordSkip
  <2>4. events \in Seq(FrontierEvent)
    BY DEF TypeInv, TypeOK
  <2> HIDE DEF e
  <2>5. Denied' = Denied \cup {item.url}
    BY <2>1, <2>2, <2>3, <2>4, DeniedInAppend DEF Denied
  <2>6. InFlight' = {} /\ Pending' = Pending /\ Failed' = Failed
    BY <2>3 DEF InFlight, Pending, Failed
  <2> QED
    BY <2>1, <2>3, <2>5, <2>6 DEF EachUrlOneFate
<1>5. CASE FetchFailed
  <2>1. item.url \in Url /\ InFlight = {item.url}
    BY <1>3, <1>5 DEF FetchFailed, CanFetch
  <2>2. PICK fault \in FetchFault : failures' = Append(failures, [url |-> item.url, fault |-> fault])
    BY <1>5 DEF FetchFailed
  <2>3. item' = NoItem /\ UNCHANGED <<queue, seen, fetched, events>>
    BY <1>5 DEF FetchFailed, frontierVars
  <2> DEFINE S == [url : Url, fault : FetchFault]
             x == [url |-> item.url, fault |-> fault]
  <2>4. failures \in Seq(S) /\ x \in S /\ x.url = item.url
    BY <2>1 DEF TypeInv, TypeOK
  <2>5. item.url \notin Failed
    BY <2>1 DEF EachUrlOneFate
  <2> HIDE DEF S, x
  <2>6. Failed' = Failed \cup {item.url} /\ NoRepeat(failures')
    BY <2>2, <2>4, <2>5, UrlsOfAppend, NoRepeatAppend DEF Failed, EachUrlOneFate, x
  <2>7. InFlight' = {} /\ Pending' = Pending /\ Denied' = Denied
    BY <2>3 DEF InFlight, Pending, Denied
  <2> QED
    BY <2>1, <2>3, <2>6, <2>7 DEF EachUrlOneFate
<1>6. CASE FetchPage
  <2> DEFINE e == Event("fetched", item.url, NoDepth, "none")
  <2>1. item.url \in Url /\ InFlight = {item.url}
    BY <1>3, <1>6 DEF FetchPage, CanFetch
  <2>2. item.url \notin fetched
    BY <2>1 DEF EachUrlOneFate
  <2>3. /\ fetched' = fetched \cup {item.url} /\ events' = Append(events, e)
        /\ item' = NoItem /\ UNCHANGED <<queue, seen, failures>>
    BY <1>6, <2>2 DEF FetchPage, MarkFetched
  <2>4. e \in FrontierEvent /\ e.reason # "robots_denied" /\ events \in Seq(FrontierEvent)
    BY <2>1 DEF FrontierEvent, Event, TypeInv, TypeOK
  <2> HIDE DEF e
  <2>5. Denied' = Denied
    BY <2>3, <2>4, DeniedInAppend DEF Denied
  <2>6. InFlight' = {} /\ Pending' = Pending /\ Failed' = Failed
    BY <2>3 DEF InFlight, Pending, Failed
  <2> QED
    BY <2>1, <2>3, <2>5, <2>6 DEF EachUrlOneFate
<1>7. CASE UNCHANGED Fates
  BY <1>7, FateUnchanged
<1>8. Start \/ EnqueueDone \/ RuntimeExceeded \/ StopOnBudget \/ Replan \/ QueueDrained
      \/ DispatchError \/ Terminated \/ UNCHANGED vars => UNCHANGED Fates
  BY DEF Start, EnqueueDone, RuntimeExceeded, StopOnBudget, Replan, QueueDrained, Finish,
         DispatchError, Terminated, vars, runVars, frontierVars, Fates
<1> QED
  BY <1>1, <1>2, <1>4, <1>5, <1>6, <1>7, <1>8 DEF Next

(* Before the seeds nothing has been seen.                                 *)
LEMMA FateInit == Init => EachUrlOneFate
  BY DEF Init, FrontierInit, EachUrlOneFate, Pending, InFlight, Failed, Denied, UrlsOf, NoRepeat, DeniedIn

(* No admitted URL is lost and none is processed twice, for every site,    *)
(* seed list, budget and sequence of outside answers.                      *)
THEOREM FateCorrect == Spec => []EachUrlOneFate
<1>1. TypeInv /\ EachUrlOneFate /\ [Next]_vars => (TypeInv /\ EachUrlOneFate)'
  BY TypeStep, FateStep
<1> QED
  BY <1>1, TypeInit, FateInit, PTL DEF Spec

-----------------------------------------------------------------------------
(* The frontier, as the run loop drives it, implements OnceQueue.          *)

(* Every step of the run takes a URL in, hands one out, or stutters.       *)
LEMMA OnceStep ==
    TypeInv /\ EachUrlOneFate /\ [Next]_vars => [Once!Next]_<<Pending, seen \ Pending>>
<1> SUFFICES ASSUME TypeInv, EachUrlOneFate, [Next]_vars
             PROVE  Once!Next \/ UNCHANGED <<Pending, seen \ Pending>>
  OBVIOUS
<1>1. CASE EnqueueOne
  <2> DEFINE call == Head(todo)
             u == UrlOf[call.raw]
             x == [url |-> u, depth |-> call.depth, parent |-> call.parent]
  <2>1. PICK answer \in DnsAnswer : Enqueue(call.raw, call.depth, call.parent, answer)
    BY <1>1 DEF EnqueueOne
  <2>2. call \in EnqueueCall
    BY <1>1 DEF EnqueueOne, TypeInv, TypeOK
  <2>3. u \in Url /\ x \in FrontierItem /\ x.url = u
    BY <2>2, UrlAssumption DEF EnqueueCall, FrontierItem
  <2>4. CASE EnqueueAdmit(call.raw, call.depth, call.parent, answer)
    <3>1. u \notin seen /\ queue' = Append(queue, x) /\ seen' = seen \cup {u}
      BY <2>4 DEF EnqueueAdmit, EnqueueVerdict
    <3>2. queue \in Seq(FrontierItem)
      BY DEF TypeInv, TypeOK
    <3> HIDE DEF x, u
    <3>3. Pending' = Pending \cup {u}
      BY <2>3, <3>1, <3>2, UrlsOfAppend DEF Pending
    <3>4. Pending \subseteq seen
      BY DEF EachUrlOneFate
    <3>5. Once!TakeIn(u)
      BY <3>1, <3>3, <3>4 DEF Once!TakeIn
    <3> QED
      BY <2>3, <3>5 DEF Once!Next
  <2>5. CASE EnqueueSkip(call.raw, call.depth, answer)
    BY <2>5 DEF EnqueueSkip, Pending
  <2> QED
    BY <2>1, <2>4, <2>5 DEF Enqueue
<1>2. CASE PopItem
  <2> DEFINE u == Head(queue).url
  <2>1. queue \in Seq(FrontierItem) /\ queue # <<>> /\ Head(queue) \in FrontierItem
    BY <1>2 DEF TypeInv, TypeOK, PopItem, Pop, CanPop
  <2>2. u \in Url
    BY <2>1 DEF FrontierItem
  <2>3. queue' = Tail(queue) /\ seen' = seen
    BY <1>2 DEF PopItem, Pop
  <2>4. Pending' = Pending \ {u} /\ u \in Pending /\ u \in seen
    BY <2>1, <2>3, UrlsOfTail DEF Pending, EachUrlOneFate
  <2> HIDE DEF u
  <2>5. Once!HandOut(u)
    BY <2>3, <2>4 DEF Once!HandOut
  <2> QED
    BY <2>2, <2>5 DEF Once!Next
<1>3. Start \/ EnqueueDone \/ RuntimeExceeded \/ StopOnBudget \/ Replan \/ QueueDrained
      \/ RobotsDenied \/ DispatchError \/ FetchFailed \/ FetchPage \/ Terminated
      \/ UNCHANGED vars => UNCHANGED <<queue, seen>>
  BY DEF Start, EnqueueDone, RuntimeExceeded, StopOnBudget, Replan, QueueDrained, Finish,
         RobotsDenied, Skip, DispatchError, FetchFailed, FetchPage, MarkFetched, Terminated,
         vars, runVars, frontierVars
<1>4. UNCHANGED <<queue, seen>> => UNCHANGED <<Pending, seen \ Pending>>
  BY DEF Pending
<1> QED
  BY <1>1, <1>2, <1>3, <1>4 DEF Next

(* The detailed run implements the abstract frontier: whatever the site,   *)
(* the planner and the resolver answer, a URL is handed out at most once.  *)
THEOREM RefinesOnce == Spec => EachUrlOnce
<1>1. Init => Once!Init
  BY DEF Init, FrontierInit, Once!Init, Pending, UrlsOf
<1>2. TypeInv /\ EachUrlOneFate /\ [Next]_vars => (TypeInv /\ EachUrlOneFate)'
  BY TypeStep, FateStep
<1> QED
  BY <1>1, <1>2, OnceStep, TypeInit, FateInit, PTL DEF Spec, EachUrlOnce, Once!Spec

-----------------------------------------------------------------------------
(* The page budget.                                                        *)

(* A page is only fetched for an item popped while the budget had room.    *)
BudgetInv ==
    /\ FetchWithinBudget
    /\ pc = "popped" => fetchedCount < MaxPages

(* A budget of at least one page is met at the start.                      *)
LEMMA BudgetInit == Init => BudgetInv
  BY FrontierAssumption DEF Init, FrontierInit, BudgetInv, FetchWithinBudget

(* Only FetchPage spends budget, on an item that is not yet fetched.       *)
LEMMA BudgetStep ==
    TypeInv /\ EachUrlOneFate /\ BudgetInv /\ [Next]_vars => BudgetInv'
<1> SUFFICES ASSUME TypeInv, EachUrlOneFate, BudgetInv, [Next]_vars PROVE BudgetInv'
  OBVIOUS
<1> DEFINE Untouched == UNCHANGED <<fetchedCount, fetchCount, documents>>
<1>1. CASE Untouched /\ pc' # "popped"
  BY <1>1 DEF BudgetInv, FetchWithinBudget
<1>2. CASE PopItem
  BY <1>2, FrontierAssumption
     DEF PopItem, Pop, CanPop, BudgetExhausted, counters, BudgetInv, FetchWithinBudget, TypeInv, TypeOK
<1>3. CASE FetchPage
  <2>1. pc = "popped" /\ item \in FrontierItem /\ item # NoItem
    BY <1>3 DEF FetchPage, CanFetch, TypeInv, TypeOK, ItemHeld
  <2>2. item.url \notin fetched
    BY <2>1 DEF EachUrlOneFate, InFlight
  <2>3. fetchedCount' = fetchedCount + 1 /\ fetchCount' = fetchCount + 1 /\ pc' = "enqueueing"
    BY <1>3, <2>2 DEF FetchPage, MarkFetched
  <2>4. PICK content \in Content : documents' = Append(documents, [url |-> item.url, ref |-> content])
    BY <1>3 DEF FetchPage
  <2>5. Len(documents') = Len(documents) + 1
    BY <2>4 DEF TypeInv, TypeOK
  <2> QED
    BY <2>1, <2>3, <2>5, FrontierAssumption DEF BudgetInv, FetchWithinBudget, TypeInv, TypeOK
<1>4. Start \/ EnqueueOne \/ EnqueueDone \/ RuntimeExceeded \/ StopOnBudget \/ Replan \/ QueueDrained
      \/ RobotsDenied \/ DispatchError \/ FetchFailed => Untouched /\ pc' # "popped"
  BY DEF Start, EnqueueOne, Enqueue, EnqueueAdmit, EnqueueSkip, RecordSkip, EnqueueDone, RuntimeExceeded,
         StopOnBudget, Replan, QueueDrained, Finish, RobotsDenied, Skip, DispatchError, FetchFailed,
         frontierVars, counters
<1>5. CASE UNCHANGED vars
  BY <1>5 DEF vars, runVars, frontierVars, counters, BudgetInv, FetchWithinBudget
<1>6. CASE Terminated
  BY <1>5, <1>6 DEF Terminated
<1> QED
  BY <1>1, <1>2, <1>3, <1>4, <1>5, <1>6 DEF Next

(* max_pages bounds the fetches of every run, and the frontier's counter,  *)
(* the runner's own and the number of documents written always agree.      *)
THEOREM BudgetCorrect == Spec => []FetchWithinBudget
<1> DEFINE Inv == TypeInv /\ EachUrlOneFate /\ BudgetInv
<1>1. Init => Inv
  BY TypeInit, FateInit, BudgetInit
<1>2. Inv /\ [Next]_vars => Inv'
  BY TypeStep, FateStep, BudgetStep
<1>3. Inv => FetchWithinBudget
  BY DEF BudgetInv
<1> QED
  BY <1>1, <1>2, <1>3, PTL DEF Spec

-----------------------------------------------------------------------------
(* Breadth-first order.                                                    *)

(* While links of a page at depth d are being enqueued every pending item  *)
(* is at depth d or d + 1, and while seeds are, every one is at depth 0.   *)
DepthInv ==
    /\ BreadthFirst
    /\ pc = "popped" => \A i \in DOMAIN queue : /\ item.depth <= queue[i].depth
                                                /\ queue[i].depth <= item.depth + 1
    /\ pc = "start" => queue = <<>>
    /\ pc = "enqueueing" =>
         \A k \in DOMAIN todo :
            /\ \A i \in DOMAIN queue : /\ queue[i].depth <= todo[k].depth
                                       /\ todo[k].depth <= queue[i].depth + 1
            /\ \A j \in DOMAIN todo : todo[j].depth = todo[k].depth

(* The empty queue is in order.                                            *)
LEMMA DepthInit == Init => DepthInv
  BY DEF Init, FrontierInit, DepthInv, BreadthFirst

(* All calls of one loop are at one depth.                                 *)
LEMMA CallsDepth ==
    ASSUME NEW raws \in Seq(Raw), NEW depth, NEW parent
    PROVE  \A k \in DOMAIN Calls(raws, depth, parent) : Calls(raws, depth, parent)[k].depth = depth
  BY DEF Calls

(* Every step keeps the queue in order.                                    *)
LEMMA DepthStep == TypeInv /\ TypeInv' /\ DepthInv /\ [Next]_vars => DepthInv'
<1> SUFFICES ASSUME TypeInv, TypeInv', DepthInv, [Next]_vars PROVE DepthInv'
  OBVIOUS
<1>1. CASE Start
  <2>1. PICK seeds \in SeedPlans : todo' = Calls(seeds, 0, NoUrl)
    BY <1>1 DEF Start
  <2>2. seeds \in Seq(Raw)
    BY RunnerAssumption
  <2>3. \A k \in DOMAIN todo' : todo'[k].depth = 0
    BY <2>1, <2>2, CallsDepth
  <2>4. queue' = <<>> /\ pc' = "enqueueing"
    BY <1>1 DEF Start, frontierVars, DepthInv
  <2> QED
    BY <2>3, <2>4 DEF DepthInv, BreadthFirst
<1>2. CASE Replan
  <2>1. PICK seeds \in SeedPlans : todo' = Calls(seeds, 0, NoUrl)
    BY <1>2 DEF Replan
  <2>2. seeds \in Seq(Raw)
    BY RunnerAssumption
  <2>3. \A k \in DOMAIN todo' : todo'[k].depth = 0
    BY <2>1, <2>2, CallsDepth
  <2>4. queue' = <<>> /\ pc' = "enqueueing"
    BY <1>2 DEF Replan, frontierVars
  <2> QED
    BY <2>3, <2>4 DEF DepthInv, BreadthFirst
<1>3. CASE EnqueueOne
  <2> DEFINE call == Head(todo)
  <2>1. /\ todo \in Seq(EnqueueCall) /\ todo # <<>> /\ pc = "enqueueing" /\ pc' = "enqueueing"
        /\ todo' = Tail(todo) /\ queue \in Seq(FrontierItem)
    BY <1>3 DEF EnqueueOne, TypeInv, TypeOK
  <2>2. /\ Len(todo) \in Nat \ {0} /\ DOMAIN todo = 1 .. Len(todo) /\ call = todo[1]
        /\ DOMAIN todo' = 1 .. Len(todo) - 1 /\ \A k \in 1 .. Len(todo) - 1 : todo'[k] = todo[k + 1]
    BY <2>1, HeadTailProperties, LenProperties, EmptySeq
  <2>3. call.depth \in Nat
    <3>1. call \in EnqueueCall
      BY <2>1
    <3> QED
      BY <3>1 DEF EnqueueCall
  <2>4. /\ \A i \in DOMAIN queue : queue[i].depth <= call.depth /\ call.depth <= queue[i].depth + 1
        /\ \A k \in DOMAIN todo' : todo'[k].depth = call.depth
    BY <2>1, <2>2 DEF DepthInv
  <2>5. PICK answer \in DnsAnswer : Enqueue(call.raw, call.depth, call.parent, answer)
    BY <1>3 DEF EnqueueOne
  <2> HIDE DEF call
  <2>6. CASE EnqueueSkip(call.raw, call.depth, answer)
    <3>1. queue' = queue
      BY <2>6 DEF EnqueueSkip
    <3> QED
      BY <2>1, <2>4, <3>1 DEF DepthInv, BreadthFirst
  <2>7. CASE EnqueueAdmit(call.raw, call.depth, call.parent, answer)
    <3> DEFINE x == [url |-> UrlOf[call.raw], depth |-> call.depth, parent |-> call.parent]
    <3>1. queue' = Append(queue, x) /\ x.depth = call.depth
      BY <2>7 DEF EnqueueAdmit
    <3> HIDE DEF x
    <3>2. /\ Len(queue) \in Nat /\ DOMAIN queue = 1 .. Len(queue) /\ DOMAIN queue' = 1 .. Len(queue) + 1
          /\ \A i \in 1 .. Len(queue) : queue'[i] = queue[i] /\ queue[i].depth \in Nat
          /\ queue'[Len(queue) + 1] = x
      <4>1. /\ Len(queue) \in Nat /\ DOMAIN queue = 1 .. Len(queue) /\ DOMAIN queue' = 1 .. Len(queue) + 1
            /\ \A i \in 1 .. Len(queue) : queue'[i] = queue[i] /\ queue[i] \in FrontierItem
            /\ queue'[Len(queue) + 1] = x
        BY <2>1, <3>1
      <4> QED
        BY <4>1 DEF FrontierItem
    <3>3. \A i \in DOMAIN queue' : /\ queue'[i].depth <= call.depth
                                   /\ call.depth <= queue'[i].depth + 1
      BY <2>3, <2>4, <3>1, <3>2
    <3>4. BreadthFirst'
      BY <2>3, <2>4, <3>1, <3>2 DEF DepthInv, BreadthFirst
    <3> QED
      BY <2>1, <2>4, <3>3, <3>4 DEF DepthInv
  <2> QED
    BY <2>5, <2>6, <2>7 DEF Enqueue
<1>4. CASE PopItem
  <2>1. queue \in Seq(FrontierItem) /\ queue # <<>> /\ queue' = Tail(queue) /\ item' = Head(queue) /\ pc' = "popped"
    BY <1>4 DEF PopItem, Pop, CanPop, TypeInv, TypeOK
  <2>2. /\ Len(queue) \in Nat \ {0} /\ DOMAIN queue = 1 .. Len(queue) /\ DOMAIN queue' = 1 .. Len(queue) - 1
        /\ \A i \in 1 .. Len(queue) - 1 : queue'[i] = queue[i + 1] /\ item' = queue[1]
    BY <2>1
  <2>3. \A i \in 1 .. Len(queue) - 1 : item'.depth <= queue'[i].depth /\ queue'[i].depth <= item'.depth + 1
    BY <2>2 DEF DepthInv, BreadthFirst
  <2>4. BreadthFirst'
    BY <2>2 DEF DepthInv, BreadthFirst
  <2> QED
    BY <2>1, <2>2, <2>3, <2>4 DEF DepthInv
<1>5. CASE FetchPage
  <2>1. pc = "popped" /\ pc' = "enqueueing" /\ item \in FrontierItem /\ item # NoItem /\ queue' = queue
    BY <1>5 DEF FetchPage, CanFetch, MarkFetched, frontierVars, TypeInv, TypeOK, ItemHeld
  <2>2. PICK content \in Content : \E links \in LinkLists[content] : todo' = LinkCalls(links)
    BY <1>5 DEF FetchPage, DiscoverLinks
  <2>3. PICK links \in Seq(Raw) : todo' = LinkCalls(links)
    BY <2>2, RunnerAssumption
  <2>4. \A k \in DOMAIN todo' : todo'[k].depth = item.depth + 1
    BY <2>3, CallsDepth DEF LinkCalls
  <2>5. item.depth \in Nat /\ \A i \in DOMAIN queue : queue[i].depth \in Nat
    <3>1. \A i \in DOMAIN queue : queue[i] \in FrontierItem
      BY ElementOfSeq, LenProperties DEF TypeInv, TypeOK
    <3> QED
      BY <2>1, <3>1 DEF FrontierItem
  <2> QED
    BY <2>1, <2>4, <2>5 DEF DepthInv, BreadthFirst
<1>6. EnqueueDone \/ RuntimeExceeded \/ StopOnBudget \/ QueueDrained \/ RobotsDenied \/ DispatchError
      \/ FetchFailed => queue' = queue /\ pc' \in {"loop", "done", "crashed"}
  BY DEF EnqueueDone, RuntimeExceeded, StopOnBudget, QueueDrained, Finish, RobotsDenied, Skip,
         DispatchError, FetchFailed, frontierVars
<1>7. CASE queue' = queue /\ pc' \in {"loop", "done", "crashed"}
  BY <1>7 DEF DepthInv, BreadthFirst
<1>8. CASE UNCHANGED vars
  BY <1>8 DEF vars, runVars, frontierVars, DepthInv, BreadthFirst
<1>9. CASE Terminated
  BY <1>8, <1>9 DEF Terminated
<1> QED
  BY <1>1, <1>2, <1>3, <1>4, <1>5, <1>6, <1>7, <1>8, <1>9 DEF Next

(* The FIFO frontier makes every crawl breadth first, replans included.    *)
THEOREM DepthCorrect == Spec => []BreadthFirst
<1> DEFINE Inv == TypeInv /\ DepthInv
<1>1. Init => Inv
  BY TypeInit, DepthInit
<1>2. Inv /\ [Next]_vars => Inv'
  BY TypeStep, DepthStep
<1>3. Inv => BreadthFirst
  BY DEF DepthInv
<1> QED
  BY <1>1, <1>2, <1>3, PTL DEF Spec

-----------------------------------------------------------------------------
(* The replay report.                                                      *)

(* The store keeps one sidecar per content; a later fetch of the same      *)
(* content takes it over.                                                  *)
LEMMA EvidenceStep ==
    TypeInv /\ EvidenceReplayable /\ [Next]_vars => EvidenceReplayable'
<1> SUFFICES ASSUME TypeInv, EvidenceReplayable, [Next]_vars PROVE EvidenceReplayable'
  OBVIOUS
<1>1. CASE FetchPage
  <2>1. PICK content \in Content :
          /\ PutArtifact(content, item.url)
          /\ documents' = Append(documents, [url |-> item.url, ref |-> content])
          /\ RunExtractors(content)
    BY <1>1 DEF FetchPage
  <2>2. item \in FrontierItem
    BY <1>1 DEF FetchPage, CanFetch, TypeInv, TypeOK, ItemHeld
  <2> DEFINE D == [url : Url, ref : Content]
             x == [url |-> item.url, ref |-> content]
             n == Len(documents)
  <2>3. documents \in Seq(D) /\ x \in D
    BY <2>2 DEF TypeInv, TypeOK, FrontierItem
  <2>4. x.url = item.url /\ x.ref = content
    OBVIOUS
  <2>5. documents' = Append(documents, x)
    BY <2>1
  <2> HIDE DEF D, x
  <2>6. /\ n \in Nat /\ DOMAIN documents = 1 .. n /\ DOMAIN documents' = 1 .. n + 1
        /\ Len(documents') = n + 1
        /\ \A i \in 1 .. n : documents'[i] = documents[i]
        /\ documents'[n + 1] = x
    BY <2>3, <2>5
  <2> HIDE DEF n
  <2>7. /\ DOMAIN store' = DOMAIN store \cup {content}
        /\ store'[content] = item.url
        /\ \A r \in DOMAIN store : r # content => store'[r] = store[r]
    BY <2>1 DEF PutArtifact
  <2>8. cited' \subseteq cited \cup {content}
    BY <2>1 DEF RunExtractors
  <2>9. cited' \subseteq DOMAIN store'
    BY <2>7, <2>8 DEF EvidenceReplayable
  <2>10. DOMAIN store' = {documents'[i].ref : i \in DOMAIN documents'}
    <3>1. DOMAIN store = {documents[i].ref : i \in DOMAIN documents}
      BY DEF EvidenceReplayable
    <3>2. ASSUME NEW r \in DOMAIN store' PROVE \E i \in DOMAIN documents' : documents'[i].ref = r
      BY <2>4, <2>6, <2>7, <3>1, <3>2
    <3>3. ASSUME NEW i \in DOMAIN documents' PROVE documents'[i].ref \in DOMAIN store'
      BY <2>4, <2>6, <2>7, <3>1, <3>3
    <3> QED
      BY <3>2, <3>3
  <2>11. ASSUME NEW i \in DOMAIN documents'
         PROVE  \/ store'[documents'[i].ref] = documents'[i].url
                \/ \E j \in i + 1 .. Len(documents') : documents'[j].ref = documents'[i].ref
    <3>1. CASE i = n + 1
      BY <2>4, <2>6, <2>7, <3>1
    <3>2. CASE i \in 1 .. n /\ documents[i].ref = content
      BY <2>4, <2>6, <3>2
    <3>3. CASE i \in 1 .. n /\ documents[i].ref # content
      <4>1. documents[i].ref \in DOMAIN store
        BY <2>6, <3>3 DEF EvidenceReplayable
      <4>2. store'[documents[i].ref] = store[documents[i].ref]
        BY <2>7, <3>3, <4>1
      <4>3. \/ store[documents[i].ref] = documents[i].url
            \/ \E j \in i + 1 .. n : documents[j].ref = documents[i].ref
        BY <2>6, <3>3 DEF EvidenceReplayable, n
      <4> QED
        BY <2>6, <3>3, <4>2, <4>3
    <3> QED
      BY <2>6, <2>11, <3>1, <3>2, <3>3
  <2> QED
    BY <2>9, <2>10, <2>11 DEF EvidenceReplayable
<1>2. Start \/ EnqueueOne \/ EnqueueDone \/ RuntimeExceeded \/ StopOnBudget \/ Replan \/ QueueDrained
      \/ PopItem \/ RobotsDenied \/ DispatchError \/ FetchFailed \/ Terminated \/ UNCHANGED vars
      => UNCHANGED <<store, documents, cited>>
  BY DEF Start, EnqueueOne, EnqueueDone, RuntimeExceeded, StopOnBudget, Replan, QueueDrained, Finish,
         PopItem, RobotsDenied, DispatchError, FetchFailed, Terminated, vars, runVars
<1>3. CASE UNCHANGED <<store, documents, cited>>
  BY <1>3 DEF EvidenceReplayable
<1> QED
  BY <1>1, <1>2, <1>3 DEF Next

(* Whatever a crawl cites stays in the store, under a sidecar that names   *)
(* the last page fetched with that content (put_bytes, _run_extractors).   *)
THEOREM EvidenceCorrect == Spec => []EvidenceReplayable
<1>1. Init => EvidenceReplayable
  BY DEF Init, EvidenceReplayable
<1>2. TypeInv /\ EvidenceReplayable /\ [Next]_vars => (TypeInv /\ EvidenceReplayable)'
  BY TypeStep, EvidenceStep
<1> QED
  BY <1>1, <1>2, TypeInit, PTL DEF Spec

-----------------------------------------------------------------------------
(* Why a run stopped.                                                      *)

(* What holds at the break of the loop still holds when the run is over:   *)
(* the counts behind the reason, and that no enqueue loop is cut short.    *)
StopInv ==
    /\ IsFiniteSet(fetched) /\ Cardinality(fetched) = fetchedCount
    /\ pc # "enqueueing" => todo = <<>>
    /\ pc = "done" /\ stopReason = "queue_drained" =>
          /\ queue = <<>> /\ fetchedCount < MaxPages
          /\ mode = "s6" /\ fetchCount >= 1 => replanDone
    /\ pc = "done" /\ stopReason = "budget_exhausted" => fetchedCount >= MaxPages

(* Nothing has stopped at the start.                                       *)
LEMMA StopInit == Init => StopInv
  BY FS_EmptySet DEF Init, FrontierInit, StopInv

(* Each break of the loop records what it saw.                             *)
LEMMA StopStep ==
    TypeInv /\ EachUrlOneFate /\ BudgetInv /\ StopInv /\ [Next]_vars => StopInv'
<1> SUFFICES ASSUME TypeInv, EachUrlOneFate, BudgetInv, StopInv, [Next]_vars PROVE StopInv'
  OBVIOUS
<1>1. CASE FetchPage
  <2>1. item \in FrontierItem /\ item # NoItem
    BY <1>1 DEF FetchPage, CanFetch, TypeInv, TypeOK, ItemHeld
  <2>2. item.url \notin fetched
    BY <2>1 DEF EachUrlOneFate, InFlight
  <2>3. /\ fetched' = fetched \cup {item.url} /\ fetchedCount' = fetchedCount + 1
        /\ pc' = "enqueueing"
    BY <1>1, <2>2 DEF FetchPage, MarkFetched
  <2>4. IsFiniteSet(fetched') /\ Cardinality(fetched') = fetchedCount'
    BY <2>2, <2>3, FS_AddElement DEF StopInv
  <2> QED
    BY <2>3, <2>4 DEF StopInv
<1>2. CASE Start \/ Replan \/ EnqueueOne
  <2>1. pc' = "enqueueing" /\ UNCHANGED <<fetched, fetchedCount>>
    BY <1>2 DEF Start, Replan, EnqueueOne, Enqueue, EnqueueAdmit, EnqueueSkip, RecordSkip,
                frontierVars, counters
  <2> QED
    BY <2>1 DEF StopInv
<1>3. CASE EnqueueDone \/ RobotsDenied \/ DispatchError \/ FetchFailed \/ PopItem
  <2>1. pc' \notin {"enqueueing", "done"} /\ todo = <<>> /\ UNCHANGED <<fetched, fetchedCount, todo>>
    BY <1>3 DEF EnqueueDone, RobotsDenied, Skip, RecordSkip, DispatchError, FetchFailed, CanFetch,
                PopItem, Pop, frontierVars, counters, StopInv
  <2> QED
    BY <2>1 DEF StopInv
<1>4. CASE RuntimeExceeded
  <2>1. /\ pc' = "done" /\ stopReason' = "runtime_exceeded" /\ todo = <<>>
        /\ UNCHANGED <<fetched, fetchedCount, todo>>
    BY <1>4 DEF RuntimeExceeded, Finish, frontierVars, counters, StopInv
  <2> QED
    BY <2>1 DEF StopInv
<1>5. CASE StopOnBudget
  <2>1. /\ pc' = "done" /\ stopReason' = "budget_exhausted" /\ todo = <<>>
        /\ fetchedCount >= MaxPages
        /\ UNCHANGED <<fetched, fetchedCount, todo>>
    BY <1>5 DEF StopOnBudget, BudgetExhausted, Finish, frontierVars, counters, StopInv
  <2> QED
    BY <2>1 DEF StopInv
<1>6. CASE QueueDrained
  <2>1. /\ pc' = "done" /\ stopReason' = "queue_drained" /\ todo = <<>> /\ queue = <<>>
        /\ ~(fetchedCount >= MaxPages)
        /\ UNCHANGED <<queue, fetched, fetchedCount, todo, mode, fetchCount, replanDone>>
    BY <1>6 DEF QueueDrained, BudgetExhausted, Finish, frontierVars, counters, StopInv
  <2>2. mode = "s6" /\ fetchCount >= 1 => replanDone
    BY <1>6, Zenon DEF QueueDrained, MayReplan
  <2>3. fetchedCount < MaxPages
    BY <2>1, FrontierAssumption DEF TypeInv, TypeOK
  <2>4. mode' = "s6" /\ fetchCount' >= 1 => replanDone'
    BY <2>1, <2>2
  <2> QED
    BY <2>1, <2>3, <2>4 DEF StopInv
<1>7. CASE Terminated \/ UNCHANGED vars
  <2>1. UNCHANGED <<pc, stopReason, todo, queue, fetched, fetchedCount, mode, fetchCount, replanDone>>
    BY <1>7 DEF Terminated, vars, runVars, frontierVars, counters
  <2> QED
    BY <2>1 DEF StopInv
<1> QED
  BY <1>1, <1>2, <1>3, <1>4, <1>5, <1>6, <1>7 DEF Next

(* The stop reason a crawl reports is the truth: a drained queue means     *)
(* that every admitted URL had its fate and no replan was left, and an     *)
(* exhausted budget that exactly max_pages pages were fetched.             *)
THEOREM StopReasonCorrect == Spec => []StopReasonTruthful
<1> DEFINE Inv == TypeInv /\ EachUrlOneFate /\ BudgetInv /\ StopInv
<1>1. Init => Inv
  BY TypeInit, FateInit, BudgetInit, StopInit
<1>2. Inv /\ [Next]_vars => Inv'
  BY TypeStep, FateStep, BudgetStep, StopStep
<1>3. Inv => StopReasonTruthful
  <2> SUFFICES ASSUME Inv, pc = "done" PROVE StopReasonTruthful
    BY DEF StopReasonTruthful
  <2>1. InFlight = {} /\ todo = <<>>
    BY DEF TypeInv, ItemHeld, InFlight, StopInv
  <2>2. fetchedCount = fetchCount /\ fetchCount <= MaxPages /\ fetchedCount \in Nat
    BY DEF BudgetInv, FetchWithinBudget, TypeInv, TypeOK
  <2>3. ASSUME stopReason = "queue_drained"
        PROVE  /\ seen = fetched \cup Failed \cup Denied
               /\ fetchCount < MaxPages
               /\ mode = "s6" /\ fetched # {} => replanDone
    <3>1. queue = <<>> /\ fetchedCount < MaxPages
      BY <2>3 DEF StopInv
    <3>2. mode = "s6" /\ fetchCount >= 1 => replanDone
      BY <2>3 DEF StopInv
    <3>3. Pending = {}
      BY <3>1 DEF Pending, UrlsOf
    <3>4. seen = fetched \cup Failed \cup Denied
      BY <2>1, <3>3 DEF EachUrlOneFate
    <3>5. fetched # {} => fetchCount >= 1
      <4>1. IsFiniteSet(fetched) /\ Cardinality(fetched) = fetchedCount
        BY DEF StopInv
      <4> QED
        BY <2>2, <4>1, FS_EmptySet
    <3> QED
      BY <2>2, <3>1, <3>2, <3>4, <3>5
  <2>4. stopReason = "budget_exhausted" => Cardinality(fetched) = MaxPages
    BY <2>2, FrontierAssumption DEF StopInv
  <2> QED
    BY <2>1, <2>3, <2>4 DEF StopReasonTruthful
<1> QED
  BY <1>1, <1>2, <1>3, PTL DEF Spec

-----------------------------------------------------------------------------
(* Admission at the shortest depth.                                        *)

(* Until a replan, nothing was admitted deeper than one level below what   *)
(* is pending, nor deeper than the links now being enqueued; and only a    *)
(* URL that was admitted is ever a duplicate.                              *)
ShortestInv ==
    /\ \A i \in DOMAIN events : events[i].kind = "enqueued" => events[i].depth \in Nat
    /\ \A j \in DOMAIN events : events[j].reason = "duplicate" => events[j].url \in seen
    /\ pc = "start" => events = <<>>
    /\ ~replanDone =>
         \A i \in DOMAIN events : events[i].kind = "enqueued" =>
            /\ \A q \in DOMAIN queue : events[i].depth <= queue[q].depth + 1
            /\ pc = "popped" => events[i].depth <= item.depth + 1
            /\ pc = "enqueueing" => \A k \in DOMAIN todo : events[i].depth <= todo[k].depth
    /\ AdmittedAtShortestDepth

(* The empty log.                                                          *)
LEMMA ShortestInit == Init => ShortestInv
  BY DEF Init, FrontierInit, ShortestInv, AdmittedAtShortestDepth

(* An event that is neither an admission nor a duplicate changes nothing.  *)
LEMMA ShortestOther ==
    ASSUME TypeInv, ShortestInv, NEW e \in FrontierEvent,
           e.kind # "enqueued", e.reason # "duplicate",
           events' = Append(events, e), seen' = seen, replanDone' = replanDone,
           \A q \in DOMAIN queue' : \E p \in DOMAIN queue : queue'[q] = queue[p],
           pc' # "start",
           \A i \in DOMAIN events : events[i].kind = "enqueued" /\ ~replanDone =>
             /\ pc' = "popped" => events[i].depth <= item'.depth + 1
             /\ pc' = "enqueueing" => \A k \in DOMAIN todo' : events[i].depth <= todo'[k].depth
    PROVE  ShortestInv'
<1> DEFINE n == Len(events)
<1>1. /\ n \in Nat /\ DOMAIN events = 1 .. n /\ DOMAIN events' = 1 .. n + 1
      /\ \A i \in 1 .. n : events'[i] = events[i]
      /\ events'[n + 1] = e
  BY DEF TypeInv, TypeOK
<1> HIDE DEF n
<1>2. /\ \A j \in DOMAIN events' : events'[j].reason = "duplicate" => events'[j].url \in seen'
      /\ \A i \in DOMAIN events' : events'[i].kind = "enqueued" => events'[i].depth \in Nat
  BY <1>1 DEF ShortestInv
<1>3. ASSUME ~replanDone', NEW i \in DOMAIN events', events'[i].kind = "enqueued"
      PROVE  /\ \A q \in DOMAIN queue' : events'[i].depth <= queue'[q].depth + 1
             /\ pc' = "popped" => events'[i].depth <= item'.depth + 1
             /\ pc' = "enqueueing" => \A k \in DOMAIN todo' : events'[i].depth <= todo'[k].depth
  <2>1. i \in DOMAIN events /\ events'[i] = events[i]
    BY <1>1, <1>3
  <2>2. ASSUME NEW q \in DOMAIN queue' PROVE events'[i].depth <= queue'[q].depth + 1
    <3>1. PICK p \in DOMAIN queue : queue'[q] = queue[p]
      BY <2>2
    <3> QED
      BY <1>3, <2>1, <3>1 DEF ShortestInv
  <2> QED
    BY <1>3, <2>1, <2>2
<1>4. AdmittedAtShortestDepth'
  <2> SUFFICES ASSUME ~replanDone', NEW i \in DOMAIN events', NEW j \in DOMAIN events',
                      events'[i].kind = "enqueued", events'[j].reason = "duplicate",
                      events'[i].url = events'[j].url
               PROVE  events'[i].depth <= events'[j].depth
    BY DEF AdmittedAtShortestDepth
  <2>1. /\ i \in DOMAIN events /\ events'[i] = events[i]
        /\ j \in DOMAIN events /\ events'[j] = events[j]
    BY <1>1
  <2> QED
    BY <2>1 DEF ShortestInv, AdmittedAtShortestDepth
<1> QED
  BY <1>2, <1>3, <1>4 DEF ShortestInv

(* Every step keeps admissions at the shortest depth.                      *)
LEMMA ShortestStep ==
    TypeInv /\ TypeInv' /\ EachUrlOneFate /\ DepthInv /\ DepthInv' /\ ShortestInv /\ [Next]_vars
    => ShortestInv'
<1> SUFFICES ASSUME TypeInv, TypeInv', EachUrlOneFate, DepthInv, DepthInv', ShortestInv, [Next]_vars
             PROVE  ShortestInv'
  OBVIOUS
<1>0. events \in Seq(FrontierEvent) /\ queue \in Seq(FrontierItem)
  BY DEF TypeInv, TypeOK
<1>1. CASE EnqueueOne
  <2> DEFINE call == Head(todo)
             u == UrlOf[call.raw]
  <2>1. PICK answer \in DnsAnswer : Enqueue(call.raw, call.depth, call.parent, answer)
    BY <1>1 DEF EnqueueOne
  <2>2. /\ todo \in Seq(EnqueueCall) /\ todo # <<>> /\ pc = "enqueueing" /\ pc' = "enqueueing"
        /\ todo' = Tail(todo) /\ UNCHANGED <<item, replanDone>>
    BY <1>1 DEF EnqueueOne, TypeInv, TypeOK
  <2>3. /\ Len(todo) \in Nat \ {0} /\ DOMAIN todo = 1 .. Len(todo) /\ call = todo[1]
        /\ DOMAIN todo' = 1 .. Len(todo) - 1 /\ \A k \in 1 .. Len(todo) - 1 : todo'[k] = todo[k + 1]
    BY <2>2, HeadTailProperties, LenProperties, EmptySeq
  <2>4. call \in EnqueueCall
    BY <2>2
  <2>5. call.depth \in Nat /\ call.raw \in Raw /\ u \in Url
    BY <2>4, UrlAssumption DEF EnqueueCall
  <2>6. \A k \in DOMAIN todo' : todo'[k].depth = call.depth
    BY <2>2, <2>3 DEF DepthInv
  <2>7. \A i \in DOMAIN events : events[i].kind = "enqueued" /\ ~replanDone =>
          /\ events[i].depth <= call.depth
          /\ \A k \in DOMAIN todo' : events[i].depth <= todo'[k].depth
    BY <2>2, <2>3 DEF ShortestInv
  <2>8. \A q \in DOMAIN queue : call.depth <= queue[q].depth + 1
    BY <2>2, <2>3 DEF DepthInv
  <2> HIDE DEF call
  <2>9. CASE EnqueueAdmit(call.raw, call.depth, call.parent, answer)
    <3> DEFINE x == [url |-> u, depth |-> call.depth, parent |-> call.parent]
               e == Event("enqueued", u, call.depth, "none")
               n == Len(events)
    <3>1. /\ queue' = Append(queue, x) /\ events' = Append(events, e) /\ seen' = seen \cup {u}
          /\ u \notin seen
      BY <2>9 DEF EnqueueAdmit, EnqueueVerdict
    <3>2. /\ e.kind = "enqueued" /\ e.url = u /\ e.depth = call.depth /\ e.reason = "none"
          /\ x.depth = call.depth
      BY DEF Event
    <3> HIDE DEF x, e
    <3>3. /\ n \in Nat /\ DOMAIN events = 1 .. n /\ DOMAIN events' = 1 .. n + 1
          /\ \A i \in 1 .. n : events'[i] = events[i]
          /\ events'[n + 1] = e
      BY <1>0, <3>1
    <3>4. /\ Len(queue) \in Nat /\ DOMAIN queue = 1 .. Len(queue) /\ DOMAIN queue' = 1 .. Len(queue) + 1
          /\ \A q \in 1 .. Len(queue) : queue'[q] = queue[q]
          /\ queue'[Len(queue) + 1] = x
      BY <1>0, <3>1
    <3> HIDE DEF n
    <3>5. /\ \A j \in DOMAIN events' : events'[j].reason = "duplicate" => events'[j].url \in seen'
          /\ \A i \in DOMAIN events' : events'[i].kind = "enqueued" => events'[i].depth \in Nat
      BY <2>5, <3>1, <3>2, <3>3 DEF ShortestInv
    <3>6. ASSUME ~replanDone', NEW i \in DOMAIN events', events'[i].kind = "enqueued"
          PROVE  /\ \A q \in DOMAIN queue' : events'[i].depth <= queue'[q].depth + 1
                 /\ \A k \in DOMAIN todo' : events'[i].depth <= todo'[k].depth
      <4>1. CASE i = n + 1
        <5>1. events'[i].depth = call.depth
          BY <3>2, <3>3, <4>1
        <5> QED
          BY <2>5, <2>6, <2>8, <3>2, <3>4, <5>1
      <4>2. CASE i \in 1 .. n
        <5>1. events'[i] = events[i] /\ i \in DOMAIN events
          BY <3>3, <4>2
        <5>2. events[i].depth <= call.depth
          BY <2>2, <2>7, <3>6, <5>1
        <5>3. \A q \in DOMAIN queue : events[i].depth <= queue[q].depth + 1
          BY <2>2, <3>6, <5>1 DEF ShortestInv
        <5>4. events[i].depth <= call.depth + 1
          <6>1. events[i].depth \in Nat
            BY <3>6, <5>1 DEF ShortestInv
          <6> QED
            BY <2>5, <5>2, <6>1
        <5> QED
          BY <2>2, <2>7, <3>2, <3>4, <3>6, <5>1, <5>3, <5>4
      <4> QED
        BY <3>3, <3>6, <4>1, <4>2
    <3>7. AdmittedAtShortestDepth'
      <4> SUFFICES ASSUME ~replanDone', NEW i \in DOMAIN events', NEW j \in DOMAIN events',
                          events'[i].kind = "enqueued", events'[j].reason = "duplicate",
                          events'[i].url = events'[j].url
                   PROVE  events'[i].depth <= events'[j].depth
        BY DEF AdmittedAtShortestDepth
      <4>1. j \in DOMAIN events /\ events'[j] = events[j]
        BY <3>2, <3>3
      <4>2. events[j].url \in seen
        BY <4>1 DEF ShortestInv
      <4>3. i \in DOMAIN events /\ events'[i] = events[i]
        BY <3>1, <3>2, <3>3, <4>1, <4>2
      <4> QED
        BY <2>2, <4>1, <4>3 DEF ShortestInv, AdmittedAtShortestDepth
    <3> QED
      BY <2>2, <3>5, <3>6, <3>7 DEF ShortestInv
  <2>10. CASE EnqueueSkip(call.raw, call.depth, answer)
    <3> DEFINE v == EnqueueVerdict(call.raw, call.depth, answer)
               e == Event("skipped", CanonicalUrl(call.raw), call.depth, v)
               n == Len(events)
    <3>1. /\ events' = Append(events, e) /\ UNCHANGED <<queue, seen>>
      BY <2>10 DEF EnqueueSkip, RecordSkip
    <3>2. v \in SkipReason
      BY <2>10, VerdictType DEF EnqueueSkip
    <3>3. v = "duplicate" => CanonicalUrl(call.raw) \in seen
      BY DEF EnqueueVerdict, ClassifyUrl, CanonicalUrl
    <3>4. e \in FrontierEvent
      BY <2>5, <3>2, CanonicalType DEF Event, FrontierEvent
    <3>5. /\ e.kind = "skipped" /\ e.url = CanonicalUrl(call.raw) /\ e.depth = call.depth
          /\ e.reason = v
      BY DEF Event
    <3> HIDE DEF v, e
    <3>6. /\ n \in Nat /\ DOMAIN events = 1 .. n /\ DOMAIN events' = 1 .. n + 1
          /\ \A i \in 1 .. n : events'[i] = events[i]
          /\ events'[n + 1] = e
      BY <1>0, <3>1
    <3> HIDE DEF n
    <3>7. /\ \A j \in DOMAIN events' : events'[j].reason = "duplicate" => events'[j].url \in seen'
          /\ \A i \in DOMAIN events' : events'[i].kind = "enqueued" => events'[i].depth \in Nat
      BY <3>1, <3>3, <3>5, <3>6 DEF ShortestInv
    <3>8. ASSUME ~replanDone', NEW i \in DOMAIN events', events'[i].kind = "enqueued"
          PROVE  /\ i \in DOMAIN events /\ events'[i] = events[i]
                 /\ events'[i].depth <= call.depth
                 /\ \A q \in DOMAIN queue' : events'[i].depth <= queue'[q].depth + 1
                 /\ \A k \in DOMAIN todo' : events'[i].depth <= todo'[k].depth
      <4>1. i \in DOMAIN events /\ events'[i] = events[i]
        BY <3>5, <3>6, <3>8
      <4> QED
        BY <2>2, <2>7, <3>1, <3>8, <4>1 DEF ShortestInv
    <3>9. AdmittedAtShortestDepth'
      <4> SUFFICES ASSUME ~replanDone', NEW i \in DOMAIN events', NEW j \in DOMAIN events',
                          events'[i].kind = "enqueued", events'[j].reason = "duplicate",
                          events'[i].url = events'[j].url
                   PROVE  events'[i].depth <= events'[j].depth
        BY DEF AdmittedAtShortestDepth
      <4>1. i \in DOMAIN events /\ events'[i] = events[i] /\ events'[i].depth <= call.depth
        BY <3>8
      <4>2. CASE j = n + 1
        BY <3>5, <3>6, <4>1, <4>2
      <4>3. CASE j \in 1 .. n
        BY <2>2, <3>6, <4>1, <4>3 DEF ShortestInv, AdmittedAtShortestDepth
      <4> QED
        BY <3>6, <4>2, <4>3
    <3> QED
      BY <2>2, <3>7, <3>8, <3>9 DEF ShortestInv
  <2> QED
    BY <2>1, <2>9, <2>10 DEF Enqueue
<1>2. CASE PopItem
  <2> DEFINE e == Event("dequeued", Head(queue).url, Head(queue).depth, "none")
  <2>1. /\ queue # <<>> /\ queue' = Tail(queue) /\ item' = Head(queue) /\ pc' = "popped"
        /\ events' = Append(events, e) /\ UNCHANGED <<seen, replanDone>>
    BY <1>2 DEF PopItem, Pop, CanPop
  <2>2. Head(queue) \in FrontierItem
    BY <1>0, <2>1
  <2>3. e \in FrontierEvent /\ e.kind # "enqueued" /\ e.reason # "duplicate"
    BY <2>2 DEF Event, FrontierEvent, FrontierItem
  <2> HIDE DEF e
  <2>4. /\ Len(queue) \in Nat \ {0} /\ DOMAIN queue = 1 .. Len(queue) /\ DOMAIN queue' = 1 .. Len(queue) - 1
        /\ item' = queue[1]
        /\ \A i \in 1 .. Len(queue) - 1 : queue'[i] = queue[i + 1]
    BY <1>0, <2>1
  <2>5. \A q \in DOMAIN queue' : \E p \in DOMAIN queue : queue'[q] = queue[p]
    BY <2>4
  <2>6. \A i \in DOMAIN events : events[i].kind = "enqueued" /\ ~replanDone =>
          events[i].depth <= item'.depth + 1
    BY <2>4 DEF ShortestInv
  <2> QED
    BY <2>1, <2>3, <2>5, <2>6, ShortestOther
<1>3. ASSUME pc = "popped" PROVE item \in FrontierItem /\ item # NoItem /\ item.url \in Url
  BY <1>3 DEF TypeInv, TypeOK, ItemHeld, FrontierItem
<1>4. CASE RobotsDenied
  <2> DEFINE e == Event("skipped", item.url, NoDepth, "robots_denied")
  <2>1. /\ pc' = "loop" /\ events' = Append(events, e) /\ UNCHANGED <<queue, seen, replanDone>>
    BY <1>4 DEF RobotsDenied, Skip, RecordSkip
  <2>2. e \in FrontierEvent /\ e.kind # "enqueued" /\ e.reason # "duplicate"
    BY <1>3, <1>4 DEF RobotsDenied, Event, FrontierEvent, SkipReason
  <2> HIDE DEF e
  <2> QED
    BY <2>1, <2>2, ShortestOther
<1>5. CASE FetchPage
  <2> DEFINE e == Event("fetched", item.url, NoDepth, "none")
  <2>1. item \in FrontierItem /\ item.url \in Url /\ item.url \notin fetched /\ pc = "popped"
    BY <1>3, <1>5 DEF FetchPage, CanFetch, EachUrlOneFate, InFlight
  <2>2. /\ pc' = "enqueueing" /\ events' = Append(events, e) /\ UNCHANGED <<queue, seen, replanDone>>
    BY <1>5, <2>1 DEF FetchPage, MarkFetched
  <2>3. e \in FrontierEvent /\ e.kind # "enqueued" /\ e.reason # "duplicate"
    BY <2>1 DEF Event, FrontierEvent
  <2>4. PICK content \in Content : \E links \in LinkLists[content] : todo' = LinkCalls(links)
    BY <1>5 DEF FetchPage, DiscoverLinks
  <2>5. PICK links \in Seq(Raw) : todo' = LinkCalls(links)
    BY <2>4, RunnerAssumption
  <2>6. \A k \in DOMAIN todo' : todo'[k].depth = item.depth + 1
    BY <2>5, CallsDepth DEF LinkCalls
  <2> HIDE DEF e
  <2>7. \A i \in DOMAIN events : events[i].kind = "enqueued" /\ ~replanDone =>
          \A k \in DOMAIN todo' : events[i].depth <= todo'[k].depth
    BY <2>1, <2>6 DEF ShortestInv
  <2> QED
    BY <2>2, <2>3, <2>7, ShortestOther
<1>6. CASE Start
  <2>1. events' = <<>> /\ pc' = "enqueueing"
    BY <1>6 DEF Start, frontierVars, ShortestInv
  <2> QED
    BY <2>1 DEF ShortestInv, AdmittedAtShortestDepth
<1>7. CASE Replan
  <2>1. replanDone' /\ pc' = "enqueueing" /\ UNCHANGED <<events, seen>>
    BY <1>7, Zenon DEF Replan, frontierVars
  <2> QED
    BY <2>1 DEF ShortestInv, AdmittedAtShortestDepth
<1>8. CASE EnqueueDone \/ RuntimeExceeded \/ StopOnBudget \/ QueueDrained \/ DispatchError \/ FetchFailed
  <2>1. /\ pc' \in {"loop", "done", "crashed"}
        /\ UNCHANGED <<events, seen, queue, replanDone>>
    BY <1>8 DEF EnqueueDone, RuntimeExceeded, StopOnBudget, QueueDrained, Finish, DispatchError,
                FetchFailed, frontierVars
  <2> QED
    BY <2>1 DEF ShortestInv, AdmittedAtShortestDepth
<1>9. CASE Terminated \/ UNCHANGED vars
  <2>1. UNCHANGED <<pc, events, seen, queue, replanDone, item, todo>>
    BY <1>9 DEF Terminated, vars, runVars, frontierVars
  <2> QED
    BY <2>1 DEF ShortestInv, AdmittedAtShortestDepth
<1> QED
  BY <1>1, <1>2, <1>4, <1>5, <1>6, <1>7, <1>8, <1>9 DEF Next

(* Until a replan, a URL is admitted at the smallest depth at which the    *)
(* crawl ever meets it, so the depth limit of enqueue cuts off nothing     *)
(* that a shorter path reaches; for every site and every outside answer.   *)
THEOREM ShortestDepthCorrect == Spec => []AdmittedAtShortestDepth
<1> DEFINE Inv == TypeInv /\ EachUrlOneFate /\ DepthInv /\ ShortestInv
<1>1. Init => Inv
  BY TypeInit, FateInit, DepthInit, ShortestInit
<1>2. Inv /\ [Next]_vars => Inv'
  BY TypeStep, FateStep, DepthStep, ShortestStep
<1>3. Inv => AdmittedAtShortestDepth
  BY DEF ShortestInv
<1> QED
  BY <1>1, <1>2, <1>3, PTL DEF Spec

-----------------------------------------------------------------------------
(* The log tells everything about the frontier.                            *)

(* t is s with x appended; a name for the provers to match on.             *)
Grows(s, x, t) == t = Append(s, x)

(* One more event at the end of the log.                                   *)
LEMMA LogElements ==
    ASSUME NEW log \in Seq(FrontierEvent), NEW x \in FrontierEvent, NEW new, Grows(log, x, new)
    PROVE  /\ Len(log) \in Nat
           /\ DOMAIN log = 1 .. Len(log) /\ DOMAIN new = 1 .. Len(log) + 1
           /\ \A i \in 1 .. Len(log) : new[i] = log[i]
           /\ new[Len(log) + 1] = x
  BY DEF Grows

(* The events of a kind are finitely many.                                 *)
LEMMA LogFinite ==
    ASSUME NEW log \in Seq(FrontierEvent), NEW kind
    PROVE  IsFiniteSet(LoggedIn(log, kind)) /\ Cardinality(LoggedIn(log, kind)) \in Nat
<1>1. Len(log) \in Nat /\ LoggedIn(log, kind) \subseteq 1 .. Len(log)
  BY DEF LoggedIn
<1>2. IsFiniteSet(1 .. Len(log))
  BY <1>1, FS_Interval
<1>3. IsFiniteSet(LoggedIn(log, kind))
  BY <1>1, <1>2, FS_Subset
<1> QED
  BY <1>3, FS_CardinalityType

(* An event of another kind is not counted.                                *)
LEMMA LogOther ==
    ASSUME NEW log \in Seq(FrontierEvent), NEW x \in FrontierEvent, NEW new, Grows(log, x, new),
           NEW kind, x.kind # kind
    PROVE  LoggedIn(new, kind) = LoggedIn(log, kind)
<1>1. /\ Len(log) \in Nat
      /\ DOMAIN log = 1 .. Len(log) /\ DOMAIN new = 1 .. Len(log) + 1
      /\ \A i \in 1 .. Len(log) : new[i] = log[i]
      /\ new[Len(log) + 1] = x
  BY LogElements
<1> QED
  BY <1>1 DEF LoggedIn

(* An event is the last of its kind.                                       *)
LEMMA LogLast ==
    ASSUME NEW log \in Seq(FrontierEvent), NEW x \in FrontierEvent, NEW new, Grows(log, x, new),
           NEW kind, x.kind = kind
    PROVE  /\ LoggedIn(new, kind) = LoggedIn(log, kind) \cup {Len(log) + 1}
           /\ Cardinality(LoggedIn(new, kind)) = Cardinality(LoggedIn(log, kind)) + 1
           /\ Place(new, kind, Len(log) + 1) = Cardinality(LoggedIn(log, kind)) + 1
<1> DEFINE n == Len(log)
<1>1. /\ n \in Nat /\ DOMAIN log = 1 .. n /\ DOMAIN new = 1 .. n + 1
      /\ \A i \in 1 .. n : new[i] = log[i]
      /\ new[n + 1] = x
  BY DEF Grows
<1> HIDE DEF n
<1>2. IsFiniteSet(LoggedIn(log, kind))
  BY LogFinite
<1>3. LoggedIn(new, kind) = LoggedIn(log, kind) \cup {n + 1} /\ n + 1 \notin LoggedIn(log, kind)
  BY <1>1 DEF LoggedIn
<1>4. Cardinality(LoggedIn(new, kind)) = Cardinality(LoggedIn(log, kind)) + 1
  BY <1>2, <1>3, FS_AddElement
<1>5. {i \in LoggedIn(new, kind) : i <= n + 1} = LoggedIn(new, kind)
  BY <1>1 DEF LoggedIn
<1> QED
  BY <1>3, <1>4, <1>5 DEF Place, n

(* The places of earlier events do not change.                             *)
LEMMA LogPlaces ==
    ASSUME NEW log \in Seq(FrontierEvent), NEW x \in FrontierEvent, NEW new, Grows(log, x, new),
           NEW kind, NEW e \in LoggedIn(log, kind)
    PROVE  Place(new, kind, e) = Place(log, kind, e) /\ new[e] = log[e]
<1> DEFINE n == Len(log)
<1>1. /\ n \in Nat /\ DOMAIN log = 1 .. n /\ DOMAIN new = 1 .. n + 1
      /\ \A i \in 1 .. n : new[i] = log[i]
  BY DEF Grows
<1> HIDE DEF n
<1>2. e \in 1 .. n
  BY <1>1 DEF LoggedIn
<1>3. {i \in LoggedIn(new, kind) : i <= e} = {i \in LoggedIn(log, kind) : i <= e}
  BY <1>1, <1>2 DEF LoggedIn
<1> QED
  BY <1>1, <1>2, <1>3 DEF Place

(* The URLs of one kind of event.                                          *)
UrlsLogged(log, kind) == {log[e].url : e \in LoggedIn(log, kind)}

(* One more event adds its URL to those of its kind.                       *)
LEMMA LogUrls ==
    ASSUME NEW log \in Seq(FrontierEvent), NEW x \in FrontierEvent, NEW kind,
           NEW new, Grows(log, x, new)
    PROVE  UrlsLogged(new, kind) = UrlsLogged(log, kind) \cup (IF x.kind = kind THEN {x.url} ELSE {})
<1> DEFINE n == Len(log)
<1>1. /\ n \in Nat /\ DOMAIN log = 1 .. n /\ DOMAIN new = 1 .. n + 1
      /\ \A i \in 1 .. n : new[i] = log[i]
      /\ new[n + 1] = x
  BY DEF Grows
<1> HIDE DEF n
<1>2. /\ \A i \in LoggedIn(log, kind) : new[i] = log[i]
      /\ LoggedIn(new, kind) =
            IF x.kind = kind THEN LoggedIn(log, kind) \cup {n + 1} ELSE LoggedIn(log, kind)
  BY <1>1 DEF LoggedIn
<1> QED
  BY <1>1, <1>2 DEF UrlsLogged

(* The skips of one reason.                                                *)
LEMMA LogSkips ==
    ASSUME NEW log \in Seq(FrontierEvent), NEW x \in FrontierEvent, NEW new, Grows(log, x, new),
           NEW reason
    PROVE  /\ Cardinality(SkippedIn(log, reason)) \in Nat
           /\ Cardinality(SkippedIn(new, reason)) =
                Cardinality(SkippedIn(log, reason)) + (IF x.reason = reason THEN 1 ELSE 0)
<1> DEFINE n == Len(log)
<1>1. /\ n \in Nat /\ DOMAIN log = 1 .. n /\ DOMAIN new = 1 .. n + 1
      /\ \A i \in 1 .. n : new[i] = log[i]
      /\ new[n + 1] = x
  BY DEF Grows
<1> HIDE DEF n
<1>2. IsFiniteSet(SkippedIn(log, reason)) /\ Cardinality(SkippedIn(log, reason)) \in Nat
  <2>1. IsFiniteSet(1 .. n)
    BY <1>1, FS_Interval
  <2>2. SkippedIn(log, reason) \subseteq 1 .. n
    BY <1>1 DEF SkippedIn
  <2>3. IsFiniteSet(SkippedIn(log, reason))
    BY <2>1, <2>2, FS_Subset
  <2> QED
    BY <2>3, FS_CardinalityType
<1>3. CASE x.reason = reason
  <2>1. /\ SkippedIn(new, reason) = SkippedIn(log, reason) \cup {n + 1}
        /\ n + 1 \notin SkippedIn(log, reason)
    BY <1>1, <1>3 DEF SkippedIn
  <2>2. Cardinality(SkippedIn(new, reason)) = Cardinality(SkippedIn(log, reason)) + 1
    BY <1>2, <2>1, FS_AddElement
  <2> QED
    BY <1>2, <1>3, <2>2
<1>4. CASE x.reason # reason
  <2>1. SkippedIn(new, reason) = SkippedIn(log, reason)
    BY <1>1, <1>4 DEF SkippedIn
  <2> QED
    BY <1>2, <1>4, <2>1
<1> QED
  BY <1>3, <1>4
(* The order of a queue, as a log tells it.                                *)
OrderIn(log, line) ==
    /\ Cardinality(LoggedIn(log, "enqueued")) = Cardinality(LoggedIn(log, "dequeued")) + Len(line)
    /\ \A d \in LoggedIn(log, "dequeued") : \E e \in LoggedIn(log, "enqueued") :
         /\ Place(log, "enqueued", e) = Place(log, "dequeued", d)
         /\ log[e].url = log[d].url /\ log[e].depth = log[d].depth
    /\ \A q \in DOMAIN line : \E e \in LoggedIn(log, "enqueued") :
         /\ Place(log, "enqueued", e) = Cardinality(LoggedIn(log, "dequeued")) + q
         /\ log[e].url = line[q].url /\ log[e].depth = line[q].depth

(* The sets and counters, as the log tells them.                           *)
LogTotals ==
    /\ seen = {events[e].url : e \in LoggedIn(events, "enqueued")}
    /\ fetched = {events[f].url : f \in LoggedIn(events, "fetched")}
    /\ enqueuedCount = Cardinality(LoggedIn(events, "enqueued"))
    /\ fetchedCount = Cardinality(LoggedIn(events, "fetched"))
    /\ \A r \in SkipReason : skippedByReason[r] = Cardinality(SkippedIn(events, r))

(* The property is the conjunction of these halves.                        *)
LEMMA LogHalves == LogReconstructsFrontier <=> OrderIn(events, queue) /\ LogTotals
  BY Zenon DEF LogReconstructsFrontier, OrderIn, LogTotals

(* An admission goes to the end of the queue and of the enqueued events.   *)
LEMMA OrderAdmit ==
    ASSUME NEW log \in Seq(FrontierEvent), NEW line \in Seq(FrontierItem), OrderIn(log, line),
           NEW x \in FrontierEvent, NEW y \in FrontierItem,
           x.kind = "enqueued", x.url = y.url, x.depth = y.depth,
           NEW new, Grows(log, x, new), NEW longer, Grows(line, y, longer)
    PROVE  OrderIn(new, longer)
<1> DEFINE n == Len(log)
           m == Len(line)
           E == LoggedIn(log, "enqueued")
           D == LoggedIn(log, "dequeued")
           En == LoggedIn(new, "enqueued")
           Dn == LoggedIn(new, "dequeued")
<1>1. /\ En = E \cup {n + 1} /\ Cardinality(En) = Cardinality(E) + 1
      /\ Place(new, "enqueued", n + 1) = Cardinality(E) + 1
  BY LogLast
<1>2. Dn = D
  BY LogOther
<1>3. Cardinality(E) \in Nat /\ Cardinality(D) \in Nat
  BY LogFinite
<1>4. /\ \A e \in E : Place(new, "enqueued", e) = Place(log, "enqueued", e) /\ new[e] = log[e]
      /\ \A d \in D : Place(new, "dequeued", d) = Place(log, "dequeued", d) /\ new[d] = log[d]
  BY LogPlaces
<1>5. /\ m \in Nat /\ Len(longer) = m + 1 /\ DOMAIN line = 1 .. m /\ DOMAIN longer = 1 .. m + 1
      /\ \A q \in 1 .. m : longer[q] = line[q]
      /\ longer[m + 1] = y
  BY DEF Grows
<1>6. new[n + 1] = x
  BY LogElements
<1>7. /\ Cardinality(E) = Cardinality(D) + m
      /\ \A d \in D : \E e \in E :
           /\ Place(log, "enqueued", e) = Place(log, "dequeued", d)
           /\ log[e].url = log[d].url /\ log[e].depth = log[d].depth
      /\ \A q \in DOMAIN line : \E e \in E :
           /\ Place(log, "enqueued", e) = Cardinality(D) + q
           /\ log[e].url = line[q].url /\ log[e].depth = line[q].depth
  BY DEF OrderIn
<1> HIDE DEF n, m, E, D, En, Dn
<1>8. Cardinality(En) = Cardinality(Dn) + Len(longer)
  BY <1>1, <1>2, <1>3, <1>5, <1>7
<1>9. ASSUME NEW d \in Dn
      PROVE  \E e \in En : /\ Place(new, "enqueued", e) = Place(new, "dequeued", d)
                           /\ new[e].url = new[d].url /\ new[e].depth = new[d].depth
  BY <1>1, <1>2, <1>4, <1>7, <1>9
<1>10. ASSUME NEW q \in DOMAIN longer
       PROVE  \E e \in En : /\ Place(new, "enqueued", e) = Cardinality(Dn) + q
                            /\ new[e].url = longer[q].url /\ new[e].depth = longer[q].depth
  <2>1. CASE q = m + 1
    <3>1. n + 1 \in En /\ Place(new, "enqueued", n + 1) = Cardinality(Dn) + q
      BY <1>1, <1>2, <1>3, <1>5, <1>7, <2>1
    <3> QED
      BY <1>5, <1>6, <2>1, <3>1
  <2>2. CASE q \in 1 .. m
    BY <1>1, <1>2, <1>4, <1>5, <1>7, <2>2
  <2>3. q = m + 1 \/ q \in 1 .. m
    BY <1>5, <1>10
  <2> QED
    BY <2>1, <2>2, <2>3
<1> QED
  BY <1>8, <1>9, <1>10 DEF OrderIn, En, Dn

(* A pop takes the oldest enqueued event that has not been dequeued.       *)
LEMMA OrderPop ==
    ASSUME NEW log \in Seq(FrontierEvent), NEW line \in Seq(FrontierItem), OrderIn(log, line),
           line # <<>>, NEW x \in FrontierEvent,
           x.kind = "dequeued", x.url = Head(line).url, x.depth = Head(line).depth,
           NEW new, Grows(log, x, new), NEW rest, rest = Tail(line)
    PROVE  OrderIn(new, rest)
<1> DEFINE n == Len(log)
           m == Len(line)
           E == LoggedIn(log, "enqueued")
           D == LoggedIn(log, "dequeued")
           En == LoggedIn(new, "enqueued")
           Dn == LoggedIn(new, "dequeued")
<1>1. /\ Dn = D \cup {n + 1} /\ Cardinality(Dn) = Cardinality(D) + 1
      /\ Place(new, "dequeued", n + 1) = Cardinality(D) + 1
  BY LogLast
<1>2. En = E
  BY LogOther
<1>3. Cardinality(E) \in Nat /\ Cardinality(D) \in Nat
  BY LogFinite
<1>4. /\ \A e \in E : Place(new, "enqueued", e) = Place(log, "enqueued", e) /\ new[e] = log[e]
      /\ \A d \in D : Place(new, "dequeued", d) = Place(log, "dequeued", d) /\ new[d] = log[d]
  BY LogPlaces
<1>5. /\ m \in Nat \ {0} /\ DOMAIN line = 1 .. m /\ DOMAIN rest = 1 .. m - 1 /\ Len(rest) = m - 1
      /\ \A q \in 1 .. m - 1 : rest[q] = line[q + 1]
      /\ Head(line) = line[1]
  BY DEF Grows
<1>6. new[n + 1] = x
  BY LogElements
<1>7. /\ Cardinality(E) = Cardinality(D) + m
      /\ \A d \in D : \E e \in E :
           /\ Place(log, "enqueued", e) = Place(log, "dequeued", d)
           /\ log[e].url = log[d].url /\ log[e].depth = log[d].depth
      /\ \A q \in DOMAIN line : \E e \in E :
           /\ Place(log, "enqueued", e) = Cardinality(D) + q
           /\ log[e].url = line[q].url /\ log[e].depth = line[q].depth
  BY DEF OrderIn
<1> HIDE DEF n, m, E, D, En, Dn
<1>8. Cardinality(En) = Cardinality(Dn) + Len(rest)
  BY <1>1, <1>2, <1>3, <1>5, <1>7
<1>9. ASSUME NEW d \in Dn
      PROVE  \E e \in En : /\ Place(new, "enqueued", e) = Place(new, "dequeued", d)
                           /\ new[e].url = new[d].url /\ new[e].depth = new[d].depth
  <2>1. CASE d = n + 1
    <3>1. PICK e \in E : /\ Place(log, "enqueued", e) = Cardinality(D) + 1
                         /\ log[e].url = line[1].url /\ log[e].depth = line[1].depth
      BY <1>5, <1>7
    <3> QED
      BY <1>1, <1>2, <1>4, <1>5, <1>6, <2>1, <3>1
  <2>2. CASE d \in D
    BY <1>2, <1>4, <1>7, <2>2
  <2> QED
    BY <1>1, <1>9, <2>1, <2>2
<1>10. ASSUME NEW q \in DOMAIN rest
       PROVE  \E e \in En : /\ Place(new, "enqueued", e) = Cardinality(Dn) + q
                            /\ new[e].url = rest[q].url /\ new[e].depth = rest[q].depth
  <2>1. q + 1 \in DOMAIN line /\ rest[q] = line[q + 1] /\ q \in Nat
    BY <1>5, <1>10
  <2>2. PICK e \in E : /\ Place(log, "enqueued", e) = Cardinality(D) + (q + 1)
                       /\ log[e].url = line[q + 1].url /\ log[e].depth = line[q + 1].depth
    BY <1>7, <2>1
  <2>3. Cardinality(D) + (q + 1) = Cardinality(Dn) + q
    BY <1>1, <1>3, <2>1
  <2> QED
    BY <1>2, <1>4, <2>1, <2>2, <2>3
<1> QED
  BY <1>8, <1>9, <1>10 DEF OrderIn, En, Dn

(* Other events leave the order alone.                                     *)
LEMMA OrderOther ==
    ASSUME NEW log \in Seq(FrontierEvent), NEW line, OrderIn(log, line),
           NEW x \in FrontierEvent, x.kind \notin {"enqueued", "dequeued"},
           NEW new, Grows(log, x, new)
    PROVE  OrderIn(new, line)
<1> DEFINE E == LoggedIn(log, "enqueued")
           D == LoggedIn(log, "dequeued")
<1>1. LoggedIn(new, "enqueued") = E /\ LoggedIn(new, "dequeued") = D
  BY LogOther
<1>2. /\ \A e \in E : Place(new, "enqueued", e) = Place(log, "enqueued", e) /\ new[e] = log[e]
      /\ \A d \in D : Place(new, "dequeued", d) = Place(log, "dequeued", d) /\ new[d] = log[d]
  BY LogPlaces
<1>3. /\ Cardinality(E) = Cardinality(D) + Len(line)
      /\ \A d \in D : \E e \in E :
           /\ Place(log, "enqueued", e) = Place(log, "dequeued", d)
           /\ log[e].url = log[d].url /\ log[e].depth = log[d].depth
      /\ \A q \in DOMAIN line : \E e \in E :
           /\ Place(log, "enqueued", e) = Cardinality(D) + q
           /\ log[e].url = line[q].url /\ log[e].depth = line[q].depth
  BY DEF OrderIn
<1> HIDE DEF E, D
<1>4. \A d \in D : \E e \in E :
        /\ Place(new, "enqueued", e) = Place(new, "dequeued", d)
        /\ new[e].url = new[d].url /\ new[e].depth = new[d].depth
  BY <1>2, <1>3
<1>5. \A q \in DOMAIN line : \E e \in E :
        /\ Place(new, "enqueued", e) = Cardinality(D) + q
        /\ new[e].url = line[q].url /\ new[e].depth = line[q].depth
  BY <1>2, <1>3
<1> QED
  BY <1>1, <1>3, <1>4, <1>5 DEF OrderIn

(* The sets and counters follow an event that says how they change.        *)
LEMMA TotalsStep ==
    ASSUME TypeInv, LogTotals, NEW x \in FrontierEvent,
           Grows(events, x, events'),
           seen' = seen \cup (IF x.kind = "enqueued" THEN {x.url} ELSE {}),
           fetched' = fetched \cup (IF x.kind = "fetched" THEN {x.url} ELSE {}),
           enqueuedCount' = enqueuedCount + (IF x.kind = "enqueued" THEN 1 ELSE 0),
           fetchedCount' = fetchedCount + (IF x.kind = "fetched" THEN 1 ELSE 0),
           \A r \in SkipReason : skippedByReason'[r] = skippedByReason[r] + (IF x.reason = r THEN 1 ELSE 0)
    PROVE  LogTotals'
<1>0. events \in Seq(FrontierEvent)
  BY DEF TypeInv, TypeOK
<1>1. seen' = {events'[e].url : e \in LoggedIn(events', "enqueued")}
  <2>1. UrlsLogged(events', "enqueued") =
          UrlsLogged(events, "enqueued") \cup (IF x.kind = "enqueued" THEN {x.url} ELSE {})
    BY <1>0, LogUrls
  <2> QED
    BY <2>1 DEF LogTotals, UrlsLogged
<1>2. fetched' = {events'[f].url : f \in LoggedIn(events', "fetched")}
  <2>1. UrlsLogged(events', "fetched") =
          UrlsLogged(events, "fetched") \cup (IF x.kind = "fetched" THEN {x.url} ELSE {})
    BY <1>0, LogUrls
  <2> QED
    BY <2>1 DEF LogTotals, UrlsLogged
<1>3. enqueuedCount' = Cardinality(LoggedIn(events', "enqueued"))
  <2>1. /\ x.kind # "enqueued" => LoggedIn(events', "enqueued") = LoggedIn(events, "enqueued")
        /\ x.kind = "enqueued" => Cardinality(LoggedIn(events', "enqueued")) =
                                    Cardinality(LoggedIn(events, "enqueued")) + 1
        /\ Cardinality(LoggedIn(events, "enqueued")) \in Nat
    BY <1>0, LogOther, LogLast, LogFinite
  <2> QED
    BY <2>1 DEF LogTotals
<1>4. fetchedCount' = Cardinality(LoggedIn(events', "fetched"))
  <2>1. /\ x.kind # "fetched" => LoggedIn(events', "fetched") = LoggedIn(events, "fetched")
        /\ x.kind = "fetched" => Cardinality(LoggedIn(events', "fetched")) =
                                   Cardinality(LoggedIn(events, "fetched")) + 1
        /\ Cardinality(LoggedIn(events, "fetched")) \in Nat
    BY <1>0, LogOther, LogLast, LogFinite
  <2> QED
    BY <2>1 DEF LogTotals
<1>5. \A r \in SkipReason : skippedByReason'[r] = Cardinality(SkippedIn(events', r))
  BY <1>0, LogSkips DEF LogTotals
<1> QED
  BY <1>1, <1>2, <1>3, <1>4, <1>5 DEF LogTotals
(* Every step logs what it does to the frontier.                           *)
LEMMA LogStep ==
    TypeInv /\ EachUrlOneFate /\ LogReconstructsFrontier /\ [Next]_vars => LogReconstructsFrontier'
<1> SUFFICES ASSUME TypeInv, EachUrlOneFate, OrderIn(events, queue), LogTotals, [Next]_vars
             PROVE  OrderIn(events', queue') /\ LogTotals'
  <2>1. LogReconstructsFrontier' <=> OrderIn(events', queue') /\ LogTotals'
    BY Zenon DEF LogReconstructsFrontier, OrderIn, LogTotals
  <2> QED
    BY <2>1, LogHalves
<1>0. /\ events \in Seq(FrontierEvent) /\ queue \in Seq(FrontierItem)
      /\ enqueuedCount \in Nat /\ fetchedCount \in Nat
      /\ skippedByReason \in [SkipReason -> Nat]
  BY DEF TypeInv, TypeOK
<1>1. ASSUME pc = "popped" PROVE item \in FrontierItem /\ item.url \in Url /\ item # NoItem
  BY <1>1 DEF TypeInv, TypeOK, ItemHeld, FrontierItem
<1>2. CASE EnqueueOne
  <2> DEFINE call == Head(todo)
             u == UrlOf[call.raw]
  <2>1. PICK answer \in DnsAnswer : Enqueue(call.raw, call.depth, call.parent, answer)
    BY <1>2 DEF EnqueueOne
  <2>2. call \in EnqueueCall
    BY <1>2 DEF EnqueueOne, TypeInv, TypeOK
  <2>3. call.raw \in Raw /\ call.depth \in Nat /\ call.parent \in Url \cup {NoUrl} /\ u \in Url
    BY <2>2, UrlAssumption DEF EnqueueCall
  <2> HIDE DEF call
  <2>4. CASE EnqueueAdmit(call.raw, call.depth, call.parent, answer)
    <3> DEFINE x == Event("enqueued", u, call.depth, "none")
               y == [url |-> u, depth |-> call.depth, parent |-> call.parent]
    <3>1. x \in FrontierEvent /\ y \in FrontierItem
      BY <2>3 DEF Event, FrontierEvent, FrontierItem
    <3>2. /\ x.kind = "enqueued" /\ x.url = u /\ x.depth = call.depth /\ x.reason = "none"
          /\ y.url = u /\ y.depth = call.depth
      BY DEF Event
    <3>3. /\ Grows(events, x, events') /\ Grows(queue, y, queue')
          /\ seen' = seen \cup {u} /\ enqueuedCount' = enqueuedCount + 1
          /\ UNCHANGED <<fetched, fetchedCount, skippedByReason>>
      BY <2>4 DEF EnqueueAdmit, Grows
    <3> HIDE DEF x, y
    <3>4. OrderIn(events', queue')
      BY <1>0, <3>1, <3>2, <3>3, OrderAdmit
    <3>5. \A r \in SkipReason : r # "none"
      BY DEF SkipReason, FilterReason
    <3>6. \A r \in SkipReason :
            skippedByReason'[r] = skippedByReason[r] + (IF x.reason = r THEN 1 ELSE 0)
      BY <1>0, <3>2, <3>3, <3>5
    <3>7. LogTotals'
      BY <1>0, <3>1, <3>2, <3>3, <3>6, TotalsStep
    <3> QED
      BY <3>4, <3>7
  <2>5. CASE EnqueueSkip(call.raw, call.depth, answer)
    <3> DEFINE v == EnqueueVerdict(call.raw, call.depth, answer)
               x == Event("skipped", CanonicalUrl(call.raw), call.depth, v)
    <3>1. v \in SkipReason
      BY <2>5, VerdictType DEF EnqueueSkip
    <3>2. x.kind = "skipped" /\ x.reason = v
      BY DEF Event
    <3>3. /\ Grows(events, x, events')
          /\ skippedByReason' = [skippedByReason EXCEPT ![v] = @ + 1]
          /\ UNCHANGED <<queue, seen, fetched, enqueuedCount, fetchedCount>>
      BY <2>5 DEF EnqueueSkip, RecordSkip, Grows
    <3> HIDE DEF v
    <3>4. x \in FrontierEvent
      BY <2>3, <3>1, CanonicalType DEF Event, FrontierEvent
    <3> HIDE DEF x
    <3>5. OrderIn(events', queue')
      BY <1>0, <3>2, <3>3, <3>4, OrderOther
    <3>6. \A r \in SkipReason :
            skippedByReason'[r] = skippedByReason[r] + (IF x.reason = r THEN 1 ELSE 0)
      BY <1>0, <3>1, <3>2, <3>3
    <3>7. LogTotals'
      BY <1>0, <3>2, <3>3, <3>4, <3>6, TotalsStep
    <3> QED
      BY <3>5, <3>7
  <2> QED
    BY <2>1, <2>4, <2>5 DEF Enqueue
<1>3. CASE PopItem
  <2> DEFINE x == Event("dequeued", Head(queue).url, Head(queue).depth, "none")
  <2>1. /\ queue # <<>> /\ queue' = Tail(queue) /\ Grows(events, x, events')
        /\ UNCHANGED <<seen, fetched, enqueuedCount, fetchedCount, skippedByReason>>
    BY <1>3 DEF PopItem, Pop, CanPop, Grows, counters
  <2>2. Head(queue) \in FrontierItem
    BY <1>0, <2>1
  <2>3. x \in FrontierEvent
    BY <2>2 DEF Event, FrontierEvent, FrontierItem
  <2>4. x.kind = "dequeued" /\ x.url = Head(queue).url /\ x.depth = Head(queue).depth /\ x.reason = "none"
    BY DEF Event
  <2> HIDE DEF x
  <2>5. OrderIn(events', queue')
    BY <1>0, <2>1, <2>3, <2>4, OrderPop
  <2>6. \A r \in SkipReason : r # "none"
    BY DEF SkipReason, FilterReason
  <2>7. \A r \in SkipReason :
          skippedByReason'[r] = skippedByReason[r] + (IF x.reason = r THEN 1 ELSE 0)
    BY <1>0, <2>1, <2>4, <2>6
  <2>8. LogTotals'
    BY <1>0, <2>1, <2>3, <2>4, <2>7, TotalsStep
  <2> QED
    BY <2>5, <2>8
<1>4. CASE RobotsDenied
  <2> DEFINE x == Event("skipped", item.url, NoDepth, "robots_denied")
  <2>1. x \in FrontierEvent
    BY <1>1, <1>4 DEF RobotsDenied, Event, FrontierEvent, SkipReason
  <2>2. x.kind = "skipped" /\ x.reason = "robots_denied"
    BY DEF Event
  <2>3. /\ Grows(events, x, events')
        /\ skippedByReason' = [skippedByReason EXCEPT !["robots_denied"] = @ + 1]
        /\ UNCHANGED <<queue, seen, fetched, enqueuedCount, fetchedCount>>
    BY <1>4 DEF RobotsDenied, Skip, RecordSkip, Grows
  <2> HIDE DEF x
  <2>4. OrderIn(events', queue')
    BY <1>0, <2>1, <2>2, <2>3, OrderOther
  <2>5. \A r \in SkipReason :
          skippedByReason'[r] = skippedByReason[r] + (IF x.reason = r THEN 1 ELSE 0)
    BY <1>0, <2>2, <2>3 DEF SkipReason
  <2>7. /\ seen' = seen \cup (IF x.kind = "enqueued" THEN {x.url} ELSE {})
        /\ fetched' = fetched \cup (IF x.kind = "fetched" THEN {x.url} ELSE {})
        /\ enqueuedCount' = enqueuedCount + (IF x.kind = "enqueued" THEN 1 ELSE 0)
        /\ fetchedCount' = fetchedCount + (IF x.kind = "fetched" THEN 1 ELSE 0)
    BY <2>2, <2>3 DEF TypeInv, TypeOK
  <2>6. LogTotals'
    BY <1>1, <2>1, <2>3, <2>5, <2>7, TotalsStep
  <2> QED
    BY <2>4, <2>6
<1>5. CASE FetchPage
  <2> DEFINE x == Event("fetched", item.url, NoDepth, "none")
  <2>1. item.url \in Url /\ item.url \notin fetched
    BY <1>1, <1>5 DEF FetchPage, CanFetch, EachUrlOneFate, InFlight
  <2>2. x \in FrontierEvent
    BY <2>1 DEF Event, FrontierEvent
  <2>3. x.kind = "fetched" /\ x.url = item.url /\ x.reason = "none"
    BY DEF Event
  <2>4. /\ Grows(events, x, events')
        /\ fetched' = fetched \cup {item.url} /\ fetchedCount' = fetchedCount + 1
        /\ UNCHANGED <<queue, seen, enqueuedCount, skippedByReason>>
    BY <1>5, <2>1 DEF FetchPage, MarkFetched, Grows
  <2> HIDE DEF x
  <2>5. OrderIn(events', queue')
    BY <1>0, <2>2, <2>3, <2>4, OrderOther
  <2>6. \A r \in SkipReason : r # "none"
    BY DEF SkipReason, FilterReason
  <2>7. \A r \in SkipReason :
          skippedByReason'[r] = skippedByReason[r] + (IF x.reason = r THEN 1 ELSE 0)
    BY <1>0, <2>3, <2>4, <2>6
  <2>8. LogTotals'
    BY <1>0, <2>2, <2>3, <2>4, <2>7, TotalsStep
  <2> QED
    BY <2>5, <2>8
<1>6. CASE Start \/ EnqueueDone \/ RuntimeExceeded \/ StopOnBudget \/ Replan \/ QueueDrained
           \/ DispatchError \/ FetchFailed \/ Terminated \/ UNCHANGED vars
  <2>1. UNCHANGED <<queue, events, seen, fetched, enqueuedCount, fetchedCount, skippedByReason>>
    BY <1>6 DEF Start, EnqueueDone, RuntimeExceeded, StopOnBudget, Replan, QueueDrained, Finish,
                DispatchError, FetchFailed, Terminated, vars, runVars, frontierVars, counters
  <2> QED
    BY <2>1 DEF LogTotals
<1> QED
  BY <1>2, <1>3, <1>4, <1>5, <1>6 DEF Next

(* An empty log is the log of an empty frontier.                           *)
LEMMA LogInit == Init => LogReconstructsFrontier
<1> SUFFICES ASSUME Init PROVE OrderIn(events, queue) /\ LogTotals
  BY LogHalves
<1>1. \A k : LoggedIn(events, k) = {} /\ SkippedIn(events, k) = {}
  BY DEF Init, FrontierInit, LoggedIn, SkippedIn
<1>2. Cardinality({}) = 0
  BY FS_EmptySet
<1>3. queue = <<>> /\ Len(queue) = 0 /\ DOMAIN queue = {}
  BY DEF Init, FrontierInit
<1>4. OrderIn(events, queue)
  <2>1. LoggedIn(events, "enqueued") = {} /\ LoggedIn(events, "dequeued") = {}
    BY <1>1
  <2>2. Cardinality({}) = Cardinality({}) + Len(queue)
    BY <1>2, <1>3
  <2> QED
    BY <1>3, <2>1, <2>2, Zenon DEF OrderIn
<1>5. /\ seen = {} /\ fetched = {} /\ enqueuedCount = 0 /\ fetchedCount = 0
      /\ \A r \in SkipReason : skippedByReason[r] = 0
  BY DEF Init, FrontierInit
<1>6. LogTotals
  BY <1>1, <1>2, <1>5 DEF LogTotals
<1> QED
  BY <1>4, <1>6

(* events/frontier.jsonl alone determines the frontier: the queue in its   *)
(* order and depths, the visited and fetched sets and every counter, for   *)
(* every site, seed list and sequence of outside answers.                  *)
THEOREM LogCorrect == Spec => []LogReconstructsFrontier
<1> DEFINE Inv == TypeInv /\ EachUrlOneFate /\ LogReconstructsFrontier
<1>1. Init => Inv
  BY TypeInit, FateInit, LogInit
<1>2. Inv /\ [Next]_vars => Inv'
  BY TypeStep, FateStep, LogStep
<1>3. Inv => LogReconstructsFrontier
  OBVIOUS
<1> QED
  BY <1>1, <1>2, <1>3, PTL DEF Spec
=============================================================================
