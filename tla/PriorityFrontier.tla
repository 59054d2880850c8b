-------------------------- MODULE PriorityFrontier --------------------------
(***************************************************************************)
(* The heap frontier, external_crawl/priority_frontier.py, class           *)
(* PriorityCrawlFrontier.  It shares the admission rules, the skips, the   *)
(* counters and the log of the FIFO frontier; a heap entry                 *)
(* (-priority, enqueue_seq, item) is here the item at its place in arrival *)
(* order (queue) together with its stored priority (score).                *)
(***************************************************************************)
EXTENDS Frontier, Integers, SequencesExt

CONSTANTS
    Scale,          \* the unit of a score, so that 1/(1+depth) is a whole number
    HintLists,      \* what a planner may pass to add_hints
    MaxHints,       \* bound: hints are added while there are fewer than this
    MaxEvents       \* bound: length of the event log

(* A hint adds delta to the items it matches; a CONTENT_TYPE_PREFIX hint   *)
(* is inert, which is a hint that matches nothing.                         *)
Hint == [matches : SUBSET Url, delta : Int]

ASSUME PriorityAssumption ==
    /\ Scale \in Nat \ {0}
    /\ \A d \in 0 .. MaxDepth : Scale % (1 + d) = 0
    /\ HintLists \subseteq Seq(Hint)
    /\ MaxHints \in Nat
    /\ MaxEvents \in Nat

VARIABLES
    score,      \* the stored priority of each queued URL
    hints       \* _hints

priorityVars == <<frontierVars, score, hints>>

(* The frontier of a run that has not been seeded yet.                     *)
Init ==
    /\ FrontierInit
    /\ score = [u \in {} |-> 0]
    /\ hints = <<>>

ComputeItemPriority(url, depth, hs) ==
    LET sum == FoldSeq(LAMBDA h, acc : IF url \in h.matches THEN acc + h.delta ELSE acc,
                       Scale \div (1 + depth), hs)
    IN  IF sum > 2 * Scale THEN 2 * Scale
        ELSE IF sum < -2 * Scale THEN -2 * Scale
        ELSE sum

HeapPush(raw, depth, parent, answer) ==
    /\ EnqueueAdmit(raw, depth, parent, answer)
    /\ score' = [u \in DOMAIN score \cup {UrlOf[raw]} |->
                    IF u = UrlOf[raw] THEN ComputeItemPriority(u, depth, hints) ELSE score[u]]
    /\ UNCHANGED hints

EnqueueRefused(raw, depth, answer) ==
    /\ EnqueueSkip(raw, depth, answer)
    /\ UNCHANGED <<score, hints>>

(* The order of the heap: (-priority, enqueue_seq).                        *)
HeapLess(i, j) ==
    \/ score[queue[i].url] > score[queue[j].url]
    \/ score[queue[i].url] = score[queue[j].url] /\ i < j

(* Mutant: the entries younger than the popped one are lost with it.       *)
HeapPop_DropsYounger ==
    /\ CanPop
    /\ \E i \in DOMAIN queue :
         /\ \A j \in DOMAIN queue \ {i} : HeapLess(i, j)
         /\ queue' = SubSeq(queue, 1, i - 1)
         /\ score' = [u \in {queue[j].url : j \in 1 .. i - 1} |-> score[u]]
         /\ events' = Append(events, Event("dequeued", queue[i].url, queue[i].depth, "none"))
    /\ UNCHANGED <<seen, fetched, counters, hints>>

HeapPop ==
    /\ CanPop
    /\ \E i \in DOMAIN queue :
         /\ \A j \in DOMAIN queue \ {i} : HeapLess(i, j)
         /\ queue' = RemoveAt(queue, i)
         /\ score' = [u \in DOMAIN score \ {queue[i].url} |-> score[u]]
         /\ events' = Append(events, Event("dequeued", queue[i].url, queue[i].depth, "none"))
    /\ UNCHANGED <<seen, fetched, counters, hints>>

(* Mutant: the queued items are scored under the new hints alone.          *)
Rescore_NewOnly(new) ==
    score' = [u \in DOMAIN score |->
                LET i == CHOOSE k \in DOMAIN queue : queue[k].url = u
                IN  ComputeItemPriority(u, queue[i].depth, new)]

(* Every queued item is scored again, under all hints to date.             *)
Rescore(new) ==
    score' = [u \in DOMAIN score |->
                LET i == CHOOSE k \in DOMAIN queue : queue[k].url = u
                IN  ComputeItemPriority(u, queue[i].depth, hints \o new)]

AddHints(new) ==
    \/ new = <<>> /\ UNCHANGED priorityVars
    \/ /\ new # <<>>
       /\ hints' = hints \o new
       /\ Rescore(new)
       /\ UNCHANGED frontierVars

Fetched(url) == MarkFetched(url) /\ UNCHANGED <<score, hints>>
Denied(url) == Skip(url, "robots_denied") /\ UNCHANGED <<score, hints>>

(* The caller: any URL at any depth a crawl can meet, a fate for any URL   *)
(* that was handed out, hints at any time.                                 *)
HandedOut == {events[i].url : i \in {j \in DOMAIN events : events[j].kind = "dequeued"}}

Next ==
    /\ Len(events) < MaxEvents
    /\ \/ \E raw \in Raw, depth \in 0 .. MaxDepth + 1, answer \in DnsAnswer :
            \/ HeapPush(raw, depth, NoUrl, answer)
            \/ EnqueueRefused(raw, depth, answer)
       \/ HeapPop
       \/ \E url \in HandedOut : Fetched(url) \/ Denied(url)
       \/ Len(hints) < MaxHints /\ \E new \in HintLists : AddHints(new)

Spec == Init /\ [][Next]_priorityVars

-----------------------------------------------------------------------------
(* What a hint list promises an item: the clamped sum of base and deltas,  *)
(* written without the loop of compute_item_priority.                      *)
Promised(url, depth) ==
    LET matching == {k \in DOMAIN hints : url \in hints[k].matches}
        sum == Scale \div (1 + depth) + MapThenSumSet(LAMBDA k : hints[k].delta, matching)
    IN  Max({-2 * Scale, Min({2 * Scale, sum})})

EnqueuedAt(url) ==
    CHOOSE i \in DOMAIN events : events[i].kind = "enqueued" /\ events[i].url = url

(* pop hands out an item of the highest promised priority and, among       *)
(* equals, the one enqueued first, so that the planner's hints steer the   *)
(* crawl and a crawl without hints is breadth first.                       *)
PopsBest ==
    [][\A u \in DOMAIN score \ DOMAIN score', i, j \in DOMAIN queue :
         queue[i].url = u /\ j # i =>
            LET pi == Promised(queue[i].url, queue[i].depth)
                pj == Promised(queue[j].url, queue[j].depth)
            IN  \/ pi > pj
                \/ pi = pj /\ EnqueuedAt(u) < EnqueuedAt(queue[j].url)]_priorityVars

Pending == {queue[i].url : i \in DOMAIN queue}
Once == INSTANCE OnceQueue WITH waiting <- Pending, given <- seen \ Pending

(* "Same admission rules": rescoring neither loses nor repeats an item, so *)
(* each URL is taken in once and handed out at most once.                  *)
EachUrlOnce == Once!Spec
=============================================================================
