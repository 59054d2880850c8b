------------------------------ MODULE WorkerPool ------------------------------
(***************************************************************************)
(* The worker pools (adapters/work_queue): InMemoryWorkerLeaseAdapter hands*)
(* out leases from a FIFO queue; WorkerPool works them off in one thread,  *)
(* MultiprocessWorkerPool in worker processes, reached by an input and an  *)
(* output queue.  Each outcome is logged in an event store that numbers    *)
(* the events of a run (InMemoryEventStore or SqliteEventStore).           *)
(*                                                                         *)
(* A lease is named by its place in `given`, the leases ever acquired; the *)
(* code names it by worker, work item and time, which may coincide.        *)
(***************************************************************************)
EXTENDS Integers, SequencesExt

CONSTANTS
    WorkerCount,
    WorkLists,              \* what a caller may enqueue before a run
    MaxWindow,              \* max_window; initial_window is 1
    MaxRuns, MaxDeaths      \* bounds: calls of run, deaths of workers

Worker == 0 .. WorkerCount - 1
Sentinel == "None"
Status == {"idle", "exited", "dead"}        \* of a worker without a work item
WorkItem == STRING \ (Status \cup {Sentinel})

ASSUME PoolAssumption ==
    /\ WorkerCount \in Nat \ {0} /\ MaxWindow \in Nat \ {0}
    /\ MaxRuns \in Nat /\ MaxDeaths \in Nat
    /\ WorkLists \subseteq Seq(WorkItem)

VARIABLES
    kind, store,    \* which pool, which event store
    queue,          \* the lease port's queue
    window,         \* worker -> AIMD window
    frozen,         \* does the injected clock stand still?
    given,          \* every lease so far: [ref, worker, time, run]
    released,       \* lease -> times it was released
    events,         \* the leases of the logged events, in their order
    runs, phase,    \* calls of run; where the current one is
    next,           \* WorkerPool: the worker whose turn it is
    acquired,       \* WorkerPool: any_acquired
    processed,      \* WorkerPool: _processed_lease_ids
    count,          \* sequence
    input, output,  \* the queues between parent and workers
    doing,          \* worker -> its work item, or "idle", "exited", "dead"
    deaths

port == <<queue, window, frozen, given, released>>
sync == <<next, acquired, processed>>
procs == <<input, output, doing, deaths>>
vars == <<kind, store, port, events, runs, phase, sync, count, procs>>

Init ==
    /\ kind \in {"sync", "process"} /\ store \in {"memory", "sqlite"}
    /\ frozen \in (IF kind = "sync" THEN BOOLEAN ELSE {FALSE})      \* only WorkerPool compares ids
    /\ queue = <<>> /\ given = <<>> /\ released = <<>>
    /\ window = [w \in Worker |-> 1]
    /\ events = <<>>
    /\ runs = 0 /\ phase = "done" /\ count = 0
    /\ next = 0 /\ acquired = FALSE /\ processed = {}
    /\ input = <<>> /\ output = <<>>
    /\ doing = [w \in Worker |-> "exited"] /\ deaths = 0

-----------------------------------------------------------------------------
(* The lease port's acquire and release.  A budget gate that refuses looks *)
(* to the caller like an empty queue.                                      *)
AcquireLease(w) ==
    /\ queue /= <<>>
    /\ queue' = Tail(queue)
    /\ given' = Append(given, [ref |-> Head(queue), worker |-> w, run |-> runs,
                               time |-> IF frozen THEN 0 ELSE Len(given)])
    /\ released' = Append(released, 0)
    /\ UNCHANGED <<window, frozen>>

Success(w) == IF window[w] < MaxWindow THEN window[w] + 1 ELSE MaxWindow
Failure(w) == IF window[w] \div 2 > 1 THEN window[w] \div 2 ELSE 1

ReleaseLease_OnSuccess(n, ok) ==
    /\ released' = [released EXCEPT ![n] = IF ok THEN @ + 1 ELSE @]
    /\ window' = [window EXCEPT ![given[n].worker] = IF ok THEN Success(given[n].worker) ELSE Failure(given[n].worker)]
    /\ UNCHANGED <<queue, frozen, given>>
ReleaseLease(n, ok) ==
    /\ released' = [released EXCEPT ![n] = @ + 1]
    /\ window' = [window EXCEPT ![given[n].worker] = IF ok THEN Success(given[n].worker) ELSE Failure(given[n].worker)]
    /\ UNCHANGED <<queue, frozen, given>>

(* append of the event store: the sequence number must follow on.  It also *)
(* makes the event's id, and SqliteEventStore takes an id it has for the   *)
(* same event.                                                             *)
NextInLog(seq) == seq = Len(events) + 1
KnownId(seq) == store = "sqlite" /\ seq <= Len(events)

(* An outcome: release, then log.  A refused event makes run raise.        *)
Settle(n, ok, then) ==
    /\ ReleaseLease(n, ok)
    /\ count' = count + 1
    /\ events' = IF NextInLog(count + 1) THEN Append(events, n) ELSE events
    /\ phase' = IF NextInLog(count + 1) \/ KnownId(count + 1) THEN then ELSE "failed"

-----------------------------------------------------------------------------
(* A caller enqueues work and calls run.                                   *)
Run ==
    /\ phase = "done" /\ runs < MaxRuns
    /\ \E work \in WorkLists : queue' = queue \o work
    /\ runs' = runs + 1
    /\ phase' = IF kind = "sync" THEN "turn" ELSE "drain"
    /\ count' = 0 /\ next' = 0 /\ acquired' = FALSE
    /\ UNCHANGED <<kind, store, window, frozen, given, released, events, processed, procs>>

(* WorkerPool.run: the workers take turns until a round brings no lease.   *)
TurnOver(any) ==
    /\ next' = (next + 1) % WorkerCount
    /\ acquired' = (any /\ next < WorkerCount - 1)
    /\ phase' = IF next = WorkerCount - 1 /\ ~any THEN "done" ELSE "turn"

IdOf(l) == <<l.ref, l.worker, l.time>>

TurnWithout ==
    /\ phase = "turn"
    /\ TurnOver(acquired)
    /\ UNCHANGED <<kind, store, port, events, runs, processed, count, procs>>

TurnAcquires ==
    /\ phase = "turn"
    /\ AcquireLease(next)
    /\ IF IdOf(given'[Len(given')]) \in processed
       THEN TurnOver(TRUE) /\ UNCHANGED processed
       ELSE /\ processed' = processed \cup {IdOf(given'[Len(given')])}
            /\ phase' = "work"
            /\ UNCHANGED <<next, acquired>>
    /\ UNCHANGED <<kind, store, events, runs, count, procs>>

TurnWorks ==
    /\ phase = "work"
    /\ next' = (next + 1) % WorkerCount
    /\ acquired' = (next < WorkerCount - 1)
    /\ \E ok \in BOOLEAN : Settle(Len(given), ok, "turn")
    /\ UNCHANGED <<kind, store, runs, processed, procs>>

TurnRaises ==
    /\ phase = "work"
    /\ phase' = "failed"
    /\ UNCHANGED <<kind, store, port, events, runs, sync, count, procs>>

-----------------------------------------------------------------------------
(* MultiprocessWorkerPool.run.                                             *)
Pending == {n \in DOMAIN given : given[n].run = runs}
PendingSeq == SubSeq(given, Len(given) - Cardinality(Pending) + 1, Len(given))

Drain ==
    /\ phase = "drain"
    /\ AcquireLease(Cardinality(Pending) % WorkerCount)
    /\ UNCHANGED <<kind, store, events, runs, phase, sync, count, procs>>

Dispatch ==
    /\ phase = "drain"
    /\ phase' = IF Pending = {} THEN "done" ELSE "collect"
    /\ input' = IF Pending = {} THEN <<>>
                ELSE [n \in DOMAIN PendingSeq |-> PendingSeq[n].ref] \o [w \in 1 .. WorkerCount |-> Sentinel]
    /\ output' = <<>>
    /\ doing' = [w \in Worker |-> IF Pending = {} THEN "exited" ELSE "idle"]
    /\ UNCHANGED <<kind, store, port, events, runs, sync, count, deaths>>

(* _worker_loop.  An exception of the work is an outcome without success.  *)
WorkerTakes(w) ==
    /\ doing[w] = "idle" /\ input /= <<>>
    /\ doing' = [doing EXCEPT ![w] = IF Head(input) = Sentinel THEN "exited" ELSE Head(input)]
    /\ input' = Tail(input)
    /\ UNCHANGED <<kind, store, port, events, runs, phase, sync, count, output, deaths>>

WorkerReports_LosesFailures(w) ==
    /\ doing[w] \notin Status
    /\ \E ok \in BOOLEAN : output' = IF ok THEN Append(output, [ref |-> doing[w], ok |-> ok]) ELSE output
    /\ doing' = [doing EXCEPT ![w] = "idle"]
    /\ UNCHANGED <<kind, store, port, events, runs, phase, sync, count, input, deaths>>
WorkerReports(w) ==
    /\ doing[w] \notin Status
    /\ \E ok \in BOOLEAN : output' = Append(output, [ref |-> doing[w], ok |-> ok])
    /\ doing' = [doing EXCEPT ![w] = "idle"]
    /\ UNCHANGED <<kind, store, port, events, runs, phase, sync, count, input, deaths>>

WorkerDies(w) ==
    /\ doing[w] \notin {"exited", "dead"} /\ deaths < MaxDeaths
    /\ doing' = [doing EXCEPT ![w] = "dead"]
    /\ deaths' = deaths + 1
    /\ UNCHANGED <<kind, store, port, events, runs, phase, sync, count, input, output>>

(* leases_by_ref keeps the last of the pending leases of a work item.      *)
LeaseByRef(ref) == Max({n \in Pending : given[n].ref = ref})

Collect ==
    /\ phase = "collect" /\ output /= <<>>
    /\ Settle(LeaseByRef(Head(output).ref), Head(output).ok,
              IF count + 1 = Cardinality(Pending) THEN "join" ELSE "collect")
    /\ output' = Tail(output)
    /\ UNCHANGED <<kind, store, runs, sync, input, doing, deaths>>

(* The work returned something that is no WorkOutcome: model_validate_json *)
(* raises before the release, and the workers are left as they are.        *)
CollectRaises ==
    /\ phase = "collect" /\ output /= <<>>
    /\ phase' = "failed"
    /\ output' = Tail(output)
    /\ UNCHANGED <<kind, store, port, events, runs, sync, count, input, doing, deaths>>

(* Workers that do not end by themselves are terminated.                   *)
Join ==
    /\ phase = "join"
    /\ phase' = "done"
    /\ doing' = [w \in Worker |-> "exited"]
    /\ input' = <<>>
    /\ UNCHANGED <<kind, store, port, events, runs, sync, count, output, deaths>>

Parent ==
    \/ TurnWithout \/ TurnAcquires \/ TurnWorks \/ TurnRaises
    \/ Drain \/ Dispatch \/ Collect \/ CollectRaises \/ Join

Next ==
    \/ Run \/ Parent
    \/ \E w \in Worker : WorkerTakes(w) \/ WorkerReports(w) \/ WorkerDies(w)

(* The thread of run goes on, and so does every living worker: work ends.  *)
Fairness == WF_vars(Parent) /\ \A w \in Worker : WF_vars(WorkerTakes(w) \/ WorkerReports(w))
Spec == Init /\ [][Next]_vars /\ Fairness

-----------------------------------------------------------------------------
(* A work item leased once: the pools index leases by work item, and know  *)
(* a lease again by worker, item and time.                                 *)
LeasedOnce(n) == \A m \in DOMAIN given \ {n} : given[m].ref /= given[n].ref

(* A lease is settled exactly once by the run that acquired it, and in the *)
(* first run one event says so, whatever order the workers finish in       *)
(* (release and append in both run methods).                               *)
SettledOnce ==
    \A n \in DOMAIN given : LeasedOnce(n) =>
        /\ released[n] <= 1
        /\ phase = "done" => released[n] = 1
        /\ phase = "done" /\ given[n].run = 1 =>
                Cardinality({e \in DOMAIN events : events[e] = n}) = 1

(* Nothing that the parent waits for can come any more: a worker died with *)
(* a work item, or no worker is left for the ones in the queue.            *)
OutcomesMissing ==
    /\ phase = "collect" /\ deaths > 0
    /\ LET held == {w \in Worker : doing[w] \notin Status}
           living == {w \in Worker : doing[w] \notin {"exited", "dead"}}
           waiting == IF living = {} THEN {} ELSE {i \in DOMAIN input : input[i] /= Sentinel}
       IN  count + Len(output) + Cardinality(held) + Cardinality(waiting) < Cardinality(Pending)

(* run ends unless the outcome of a work item died with its worker: then   *)
(* output_q.get() waits for ever.                                          *)
RunReturns == (phase \notin {"done", "failed"}) ~> (phase \in {"done", "failed"} \/ OutcomesMissing)
=============================================================================
