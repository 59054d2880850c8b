---------------------------- MODULE CrawlRunner ----------------------------
(***************************************************************************)
(* One run of the external crawl: external_crawl/runner.py,                *)
(* ExternalCrawlRunner.run, composed with the FIFO frontier it drives by   *)
(* default and with the content-addressed artifact store it writes to.     *)
(*                                                                         *)
(* The loop runs on one thread, so its interleavings are with the outside: *)
(* what robots.txt, the server, the planner, the resolver and the clock    *)
(* answer at each step is an unconstrained choice.                         *)
(***************************************************************************)
EXTENDS Frontier, FiniteSets

CONSTANTS
    Content,        \* what a fetch returns: a body and the category and suffix its
                    \* content type selects, which together are its artifact ref
    LinkLists,      \* Content -> the lists of raw URLs _discover_links may find in it
    Extractable,    \* the contents that normalise to "ok" and yield a candidate
    SeedPlans,      \* seed lists of a spec or of a plan, in the order the stable sort leaves
    Modes,          \* the constructor modes under study: "legacy", "s3", "s6"
    ObeyRobots,     \* FALSE for RobotsPolicy.WARN
    NoItem

ASSUME RunnerAssumption ==
    /\ LinkLists \in [Content -> SUBSET Seq(Raw)]
    /\ Extractable \subseteq Content
    /\ SeedPlans \subseteq Seq(Raw)
    /\ Modes \subseteq {"legacy", "s3", "s6"}
    /\ ObeyRobots \in BOOLEAN
    /\ NoItem \notin FrontierItem

VARIABLES
    pc,             \* where run() is
    mode,           \* constructor arguments: legacy | s3 | s6
    dispatching,    \* fetcher_map and replay_seed_ref are set (s3.2; needs a planner)
    eligible,       \* does the plan in force leave _choose_fetcher an adapter?
    todo,           \* the enqueue calls of the current for loop still to be made
    item,           \* the popped item being processed
    failures,       \* the failures list, oldest first
    successes, throttles,   \* reports made to the AIMD limiter
    store,          \* artifact ref -> source_url of its sidecar metadata
    documents,      \* documents.jsonl: one record per fetched document
    cited,          \* _cited_artifact_refs
    observed,       \* url_observed records of the graph observer (s6), in order;
                    \* its redirect and page-structure records carry no admission
    fetchCount,     \* _fetch_count
    replanDone,     \* _replan_done
    stopReason

reports == <<successes, throttles>>
runVars == <<pc, mode, dispatching, eligible, todo, item, failures, reports, store,
             documents, cited, observed, fetchCount, replanDone, stopReason>>
vars == <<frontierVars, runVars>>

EnqueueCall == [raw : Raw, depth : Nat, parent : Url \cup {NoUrl}]
FetchFault == {"transport", "throttled", "http_error"}

Init ==
    /\ FrontierInit
    /\ pc = "start"
    /\ mode \in Modes
    /\ dispatching \in (IF mode = "legacy" THEN {FALSE} ELSE BOOLEAN)
    /\ eligible = TRUE
    /\ todo = <<>>
    /\ item = NoItem
    /\ failures = <<>>
    /\ successes = 0
    /\ throttles = 0
    /\ store = [ref \in {} |-> NoUrl]
    /\ documents = <<>>
    /\ cited = {}
    /\ observed = <<>>
    /\ fetchCount = 0
    /\ replanDone = FALSE
    /\ stopReason = "none"

Calls(raws, depth, parent) ==
    [i \in DOMAIN raws |-> [raw |-> raws[i], depth |-> depth, parent |-> parent]]

(* Seeding.  In legacy mode the seeds are the spec's; otherwise the        *)
(* planner's, and the adapter priors of the plan come with them.           *)
Start ==
    /\ pc = "start"
    /\ \E seeds \in SeedPlans : todo' = Calls(seeds, 0, NoUrl)
    /\ eligible' \in (IF dispatching THEN BOOLEAN ELSE {TRUE})
    /\ pc' = "enqueueing"
    /\ UNCHANGED <<frontierVars, mode, dispatching, item, failures, reports, store,
                   documents, cited, observed, fetchCount, replanDone, stopReason>>

ItemOf(call) == [url |-> UrlOf[call.raw], depth |-> call.depth, parent |-> call.parent]

RecordUrlObserved(call, answer) ==
    observed' = IF mode = "s6" /\ EnqueueVerdict(call.raw, call.depth, answer) = "admit"
                THEN Append(observed, ItemOf(call)) ELSE observed

(* One turn of a seed loop or of the loop of _discover_and_enqueue.        *)
EnqueueOne ==
    /\ pc = "enqueueing" /\ todo # <<>>
    /\ \E answer \in DnsAnswer :
         /\ Enqueue(Head(todo).raw, Head(todo).depth, Head(todo).parent, answer)
         /\ RecordUrlObserved(Head(todo), answer)
    /\ todo' = Tail(todo)
    /\ UNCHANGED <<pc, mode, dispatching, eligible, item, failures, reports, store,
                   documents, cited, fetchCount, replanDone, stopReason>>

EnqueueDone ==
    /\ pc = "enqueueing" /\ todo = <<>>
    /\ pc' = "loop"
    /\ UNCHANGED <<frontierVars, mode, dispatching, eligible, todo, item, failures, reports,
                   store, documents, cited, observed, fetchCount, replanDone, stopReason>>

-----------------------------------------------------------------------------
(* The head of the loop.                                                   *)

(* Mutant: the break is missing.                                           *)
Finish_NoBreak(reason) ==
    /\ stopReason' = reason
    /\ UNCHANGED <<frontierVars, pc, mode, dispatching, eligible, todo, item, failures,
                   reports, store, documents, cited, observed, fetchCount, replanDone>>

Finish(reason) ==
    /\ pc' = "done"
    /\ stopReason' = reason
    /\ UNCHANGED <<frontierVars, mode, dispatching, eligible, todo, item, failures, reports,
                   store, documents, cited, observed, fetchCount, replanDone>>

RuntimeExceeded == pc = "loop" /\ Finish("runtime_exceeded")

StopOnBudget == pc = "loop" /\ BudgetExhausted /\ Finish("budget_exhausted")

(* Mutant: a replan is only considered when the budget is nearly used.     *)
MayReplan_TwoFetches == ~replanDone /\ mode = "s6" /\ fetchCount >= 2

MayReplan == ~replanDone /\ mode = "s6" /\ fetchCount >= 1

(* _maybe_replan, entered when pop returned None for an empty queue.  The  *)
(* flag is set after the seed loop in the code; nothing reads it there.    *)
Replan ==
    /\ pc = "loop" /\ ~BudgetExhausted /\ queue = <<>>
    /\ MayReplan
    /\ \E seeds \in SeedPlans : todo' = Calls(seeds, 0, NoUrl)
    /\ eligible' \in (IF dispatching THEN BOOLEAN ELSE {TRUE})
    /\ replanDone' = TRUE
    /\ pc' = "enqueueing"
    /\ UNCHANGED <<frontierVars, mode, dispatching, item, failures, reports, store,
                   documents, cited, observed, fetchCount, stopReason>>

QueueDrained ==
    /\ pc = "loop" /\ ~BudgetExhausted /\ queue = <<>>
    /\ ~MayReplan
    /\ Finish("queue_drained")

PopItem ==
    /\ pc = "loop"
    /\ Pop
    /\ item' = Head(queue)
    /\ pc' = "popped"
    /\ UNCHANGED <<mode, dispatching, eligible, todo, failures, reports, store, documents,
                   cited, observed, fetchCount, replanDone, stopReason>>

-----------------------------------------------------------------------------
(* One popped item.                                                        *)

(* _robots_allowed may answer no unless the policy is WARN.                *)
RobotsMayDeny == ObeyRobots

RobotsDenied ==
    /\ pc = "popped" /\ RobotsMayDeny
    /\ Skip(item.url, "robots_denied")
    /\ item' = NoItem
    /\ pc' = "loop"
    /\ UNCHANGED <<mode, dispatching, eligible, todo, failures, reports, store, documents,
                   cited, observed, fetchCount, replanDone, stopReason>>

(* _choose_fetcher raises ValueError when no prior of the plan in force    *)
(* survives the job's adapters, the fetcher map and the weights; run()     *)
(* does not catch it.                                                      *)
NoAdapter == dispatching /\ ~eligible

DispatchError ==
    /\ pc = "popped" /\ NoAdapter
    /\ pc' = "crashed"
    /\ UNCHANGED <<frontierVars, mode, dispatching, eligible, todo, item, failures, reports,
                   store, documents, cited, observed, fetchCount, replanDone, stopReason>>

CanFetch == pc = "popped" /\ ~NoAdapter

(* _fetch returning None: a FetchError, a 429/503 (the only failure the    *)
(* limiter is told about), or another status of 400 and above.             *)
FetchFailed ==
    /\ CanFetch
    /\ \E fault \in FetchFault :
         /\ failures' = Append(failures, [url |-> item.url, fault |-> fault])
         /\ throttles' = IF fault = "throttled" THEN throttles + 1 ELSE throttles
    /\ item' = NoItem
    /\ pc' = "loop"
    /\ UNCHANGED <<frontierVars, mode, dispatching, eligible, todo, successes, store, documents,
                   cited, observed, fetchCount, replanDone, stopReason>>

(* Mutants: the sidecar loses its source_url; an existing sidecar is kept. *)
PutArtifact_NoSource(ref, url) ==
    store' = [r \in DOMAIN store \cup {ref} |-> IF r = ref THEN NoUrl ELSE store[r]]
PutArtifact_FirstWins(ref, url) ==
    store' = [r \in DOMAIN store \cup {ref} |-> IF r \in DOMAIN store THEN store[r] ELSE url]

(* put_bytes: the body goes to its content address, and the sidecar of     *)
(* that address is written again with the metadata of this fetch.          *)
PutArtifact(ref, url) ==
    store' = [r \in DOMAIN store \cup {ref} |-> IF r = ref THEN url ELSE store[r]]

(* _run_extractors: a candidate cites the artifact of its page.            *)
RunExtractors(content) ==
    cited' = IF content \in Extractable THEN cited \cup {content} ELSE cited

(* _discover_links.                                                        *)
DiscoverLinks(content) == LinkLists[content]

LinkCalls(links) == Calls(links, item.depth + 1, item.url)

(* A page: everything from mark_fetched to the start of the link loop.     *)
FetchPage ==
    /\ CanFetch
    /\ MarkFetched(item.url)
    /\ \E content \in Content :
         /\ PutArtifact(content, item.url)
         /\ documents' = Append(documents, [url |-> item.url, ref |-> content])
         /\ RunExtractors(content)
         /\ \E links \in DiscoverLinks(content) : todo' = LinkCalls(links)
    /\ successes' = successes + 1
    /\ fetchCount' = fetchCount + 1
    /\ item' = NoItem
    /\ pc' = "enqueueing"
    /\ UNCHANGED <<mode, dispatching, eligible, failures, throttles, observed, replanDone,
                   stopReason>>

-----------------------------------------------------------------------------
Terminated == pc \in {"done", "crashed"} /\ UNCHANGED vars

Next ==
    \/ Start \/ EnqueueOne \/ EnqueueDone
    \/ RuntimeExceeded \/ StopOnBudget \/ Replan \/ QueueDrained \/ PopItem
    \/ RobotsDenied \/ DispatchError \/ FetchFailed \/ FetchPage
    \/ Terminated

Spec == Init /\ [][Next]_vars

(* run() is a plain loop on one thread, and each of its outside calls      *)
(* returns or times out, so an enabled step is eventually taken.           *)
FairSpec == Spec /\ WF_vars(Next)

-----------------------------------------------------------------------------
(* Properties.                                                             *)

TypeOK ==
    /\ queue \in Seq(FrontierItem)
    /\ seen \subseteq Url
    /\ fetched \subseteq Url
    /\ enqueuedCount \in Nat /\ fetchedCount \in Nat
    /\ skippedByReason \in [SkipReason -> Nat]
    /\ events \in Seq(FrontierEvent)
    /\ pc \in {"start", "enqueueing", "loop", "popped", "done", "crashed"}
    /\ mode \in Modes
    /\ dispatching \in BOOLEAN
    /\ eligible \in BOOLEAN
    /\ todo \in Seq(EnqueueCall)
    /\ item \in FrontierItem \cup {NoItem}
    /\ failures \in Seq([url : Url, fault : FetchFault])
    /\ successes \in Nat
    /\ throttles \in Nat
    /\ DOMAIN store \subseteq Content
    /\ store \in [DOMAIN store -> Url]
    /\ documents \in Seq([url : Url, ref : Content])
    /\ cited \subseteq Content
    /\ observed \in Seq(FrontierItem)
    /\ fetchCount \in Nat
    /\ replanDone \in BOOLEAN
    /\ stopReason \in {"none", "runtime_exceeded", "budget_exhausted", "queue_drained"}

(* An item is held exactly between its pop and its fate.                   *)
ItemHeld == item # NoItem <=> pc \in {"popped", "crashed"}

UrlsOf(list) == {list[i].url : i \in DOMAIN list}
NoRepeat(list) == \A i, j \in DOMAIN list : list[i].url = list[j].url => i = j
DeniedIn(log) == {u \in Url : \E i \in DOMAIN log : log[i].reason = "robots_denied" /\ log[i].url = u}

Pending  == UrlsOf(queue)
InFlight == IF item = NoItem THEN {} ELSE {item.url}
Failed   == UrlsOf(failures)
Denied   == DeniedIn(events)

(* No admitted URL is lost and none is processed twice: each is pending,   *)
(* in flight, fetched, failed or denied by robots.txt, and only one of     *)
(* these (seen-set dedup in enqueue, the one pop per URL, and the early    *)
(* "continue"s of the run loop).                                           *)
EachUrlOneFate ==
    /\ seen = Pending \cup InFlight \cup fetched \cup Failed \cup Denied
    /\ Pending \cap (InFlight \cup fetched \cup Failed \cup Denied) = {}
    /\ InFlight \cap (fetched \cup Failed \cup Denied) = {}
    /\ fetched \cap (Failed \cup Denied) = {}
    /\ Failed \cap Denied = {}
    /\ NoRepeat(queue)
    /\ NoRepeat(failures)

Once == INSTANCE OnceQueue WITH waiting <- Pending, given <- seen \ Pending

(* What the frontier promises the run loop, as an abstract specification:  *)
(* a URL is taken in once and handed out at most once, over seeds, links   *)
(* and replans together.                                                   *)
EachUrlOnce == Once!Spec

(* max_pages is a budget on fetches: the three independent counts of a     *)
(* fetch agree, and none of them ever passes it.                           *)
FetchWithinBudget ==
    /\ fetchCount <= MaxPages
    /\ fetchedCount = fetchCount
    /\ Len(documents) = fetchCount

(* The FIFO queue keeps the crawl breadth first, across a replan too: the  *)
(* pending depths are sorted and span at most two levels.                  *)
BreadthFirst ==
    \A i, j \in DOMAIN queue :
        i < j => /\ queue[i].depth <= queue[j].depth
                 /\ queue[j].depth <= queue[i].depth + 1

(* Until a replan adds seeds at depth 0, a URL is admitted at the smallest *)
(* depth at which the crawl ever meets it, so the depth limit cuts nothing *)
(* off that a shorter path reaches.                                        *)
AdmittedAtShortestDepth ==
    ~replanDone =>
        \A i, j \in DOMAIN events :
            /\ events[i].kind = "enqueued"
            /\ events[j].reason = "duplicate"
            /\ events[i].url = events[j].url
            => events[i].depth <= events[j].depth

LoggedIn(log, kind) == {i \in DOMAIN log : log[i].kind = kind}
SkippedIn(log, reason) == {i \in DOMAIN log : log[i].reason = reason}

(* How many events of a kind the log has up to e, e included.              *)
Place(log, kind, e) == Cardinality({i \in LoggedIn(log, kind) : i <= e})

(* "Every state transition is captured as a FrontierEvent": the queue, in  *)
(* order and with its depths, the visited and fetched sets and all         *)
(* counters can be recomputed from the log alone.  What was enqueued n-th  *)
(* was dequeued n-th, or is in the queue behind what was dequeued.         *)
LogReconstructsFrontier ==
    LET enq == LoggedIn(events, "enqueued")
        deq == LoggedIn(events, "dequeued")
    IN  /\ Cardinality(enq) = Cardinality(deq) + Len(queue)
        /\ \A d \in deq : \E e \in enq :
             /\ Place(events, "enqueued", e) = Place(events, "dequeued", d)
             /\ events[e].url = events[d].url /\ events[e].depth = events[d].depth
        /\ \A q \in DOMAIN queue : \E e \in enq :
             /\ Place(events, "enqueued", e) = Cardinality(deq) + q
             /\ events[e].url = queue[q].url /\ events[e].depth = queue[q].depth
        /\ seen = {events[e].url : e \in enq}
        /\ fetched = {events[f].url : f \in LoggedIn(events, "fetched")}
        /\ enqueuedCount = Cardinality(enq)
        /\ fetchedCount = Cardinality(LoggedIn(events, "fetched"))
        /\ \A r \in SkipReason : skippedByReason[r] = Cardinality(SkippedIn(events, r))

(* The stop reason tells why the loop ended: a drained queue leaves no     *)
(* admitted URL unprocessed and, in s6 mode, no replan untried; an         *)
(* exhausted budget means max_pages pages were fetched.                    *)
StopReasonTruthful ==
    pc = "done" =>
        /\ InFlight = {} /\ todo = <<>>
        /\ stopReason = "queue_drained" =>
              /\ seen = fetched \cup Failed \cup Denied
              /\ fetchCount < MaxPages
              /\ mode = "s6" /\ fetched # {} => replanDone
        /\ stopReason = "budget_exhausted" => Cardinality(fetched) = MaxPages

(* The replay report is complete: what an evidence packet cites is in the  *)
(* store, under a sidecar naming the last document with that content.      *)
EvidenceReplayable ==
    /\ cited \subseteq DOMAIN store
    /\ DOMAIN store = {documents[i].ref : i \in DOMAIN documents}
    /\ \A i \in DOMAIN documents :
         \/ store[documents[i].ref] = documents[i].url
         \/ \E j \in i + 1 .. Len(documents) : documents[j].ref = documents[i].ref

(* A run ends, whatever the site answers: every turn of the loop consumes  *)
(* an admitted URL, and a replan happens at most once.                     *)
RunEnds == <>(pc \in {"done", "crashed"})
=============================================================================
