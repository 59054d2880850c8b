------------------------------ MODULE Frontier ------------------------------
(***************************************************************************)
(* The FIFO frontier of the external crawl,                                *)
(* external_crawl/frontier.py, class ExternalCrawlFrontier: which URLs     *)
(* have been seen, which are pending, and why others were skipped.         *)
(* Every method is one action; the caller is free here and is the run loop *)
(* in CrawlRunner.                                                         *)
(***************************************************************************)
EXTENDS CrawlUrl, Sequences

CONSTANTS
    MaxDepth, MaxPages,
    NoDepth         \* the depth of an event that records none (None)

ASSUME FrontierAssumption ==
    /\ MaxDepth \in Nat
    /\ MaxPages \in Nat \ {0}
    /\ NoDepth \notin Nat

VARIABLES
    queue,      \* _queue: the pending items, oldest first
    seen,       \* _seen: every canonical URL ever admitted
    fetched,    \* _fetched
    enqueuedCount, fetchedCount, skippedByReason,   \* _counters
    events      \* _events: the log written to events/frontier.jsonl

counters == <<enqueuedCount, fetchedCount, skippedByReason>>
frontierVars == <<queue, seen, fetched, counters, events>>

SkipReason == FilterReason \cup {"depth_exceeded", "duplicate", "robots_denied"}

FrontierItem == [url : Url, depth : Nat, parent : Url \cup {NoUrl}]

FrontierEvent == [kind : {"enqueued", "dequeued", "fetched", "skipped"},
                  url : Url \cup {NoUrl}, depth : Nat \cup {NoDepth},
                  reason : SkipReason \cup {"none"}]

FrontierInit ==
    /\ queue = <<>>
    /\ seen = {}
    /\ fetched = {}
    /\ enqueuedCount = 0
    /\ fetchedCount = 0
    /\ skippedByReason = [r \in SkipReason |-> 0]
    /\ events = <<>>

Event(kind, url, depth, reason) ==
    [kind |-> kind, url |-> url, depth |-> depth, reason |-> reason]

RecordSkip(url, reason, depth) ==
    /\ skippedByReason' = [skippedByReason EXCEPT ![reason] = @ + 1]
    /\ events' = Append(events, Event("skipped", url, depth, reason))
    /\ UNCHANGED <<enqueuedCount, fetchedCount>>

-----------------------------------------------------------------------------
(* Mutant: deduplication against the fetched set only.                     *)
EnqueueVerdict_FetchedOnly(raw, depth, answer) ==
    IF ClassifyUrl(raw, answer) # "admit" THEN ClassifyUrl(raw, answer)
    ELSE IF depth > MaxDepth THEN "depth_exceeded"
    ELSE IF UrlOf[raw] \in fetched THEN "duplicate"
    ELSE "admit"

(* What enqueue decides, in the order the code decides it: the domain      *)
(* filter, then the depth, then the visited set.                           *)
EnqueueVerdict(raw, depth, answer) ==
    IF ClassifyUrl(raw, answer) # "admit" THEN ClassifyUrl(raw, answer)
    ELSE IF depth > MaxDepth THEN "depth_exceeded"
    ELSE IF UrlOf[raw] \in seen THEN "duplicate"
    ELSE "admit"

(* Mutant: appendleft instead of append, a depth-first crawl.              *)
EnqueueAdmit_Left(raw, depth, parent, answer) ==
    /\ EnqueueVerdict(raw, depth, answer) = "admit"
    /\ seen' = seen \cup {UrlOf[raw]}
    /\ queue' = <<[url |-> UrlOf[raw], depth |-> depth, parent |-> parent]>> \o queue
    /\ enqueuedCount' = enqueuedCount + 1
    /\ events' = Append(events, Event("enqueued", UrlOf[raw], depth, "none"))
    /\ UNCHANGED <<fetched, fetchedCount, skippedByReason>>

EnqueueAdmit(raw, depth, parent, answer) ==
    /\ EnqueueVerdict(raw, depth, answer) = "admit"
    /\ seen' = seen \cup {UrlOf[raw]}
    /\ queue' = Append(queue, [url |-> UrlOf[raw], depth |-> depth, parent |-> parent])
    /\ enqueuedCount' = enqueuedCount + 1
    /\ events' = Append(events, Event("enqueued", UrlOf[raw], depth, "none"))
    /\ UNCHANGED <<fetched, fetchedCount, skippedByReason>>

EnqueueSkip(raw, depth, answer) ==
    /\ EnqueueVerdict(raw, depth, answer) # "admit"
    /\ RecordSkip(CanonicalUrl(raw), EnqueueVerdict(raw, depth, answer), depth)
    /\ UNCHANGED <<queue, seen, fetched>>

Enqueue(raw, depth, parent, answer) ==
    \/ EnqueueAdmit(raw, depth, parent, answer)
    \/ EnqueueSkip(raw, depth, answer)

(* Mutant: off by one.                                                     *)
BudgetExhausted_Late == fetchedCount > MaxPages

BudgetExhausted == fetchedCount >= MaxPages

(* pop, when it returns an item; it returns None exactly when ~CanPop.     *)
CanPop == ~BudgetExhausted /\ queue # <<>>

Pop ==
    /\ CanPop
    /\ queue' = Tail(queue)
    /\ events' = Append(events, Event("dequeued", Head(queue).url,
                                      Head(queue).depth, "none"))
    /\ UNCHANGED <<seen, fetched, counters>>

MarkFetched(url) ==
    \/ /\ url \in fetched
       /\ UNCHANGED frontierVars
    \/ /\ url \notin fetched
       /\ fetched' = fetched \cup {url}
       /\ fetchedCount' = fetchedCount + 1
       /\ events' = Append(events, Event("fetched", url, NoDepth, "none"))
       /\ UNCHANGED <<queue, seen, enqueuedCount, skippedByReason>>

(* Mutant: the denial is counted but not logged.                           *)
Skip_Unlogged(url, reason) ==
    /\ skippedByReason' = [skippedByReason EXCEPT ![reason] = @ + 1]
    /\ UNCHANGED <<queue, seen, fetched, events, enqueuedCount, fetchedCount>>

Skip(url, reason) ==
    /\ RecordSkip(url, reason, NoDepth)
    /\ UNCHANGED <<queue, seen, fetched>>
=============================================================================
