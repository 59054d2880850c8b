# A verification of VeraCrawl

TLA+ models of the stateful core of VeraCrawl (`src/veracrawl`), model-checked
with TLC and, for all but the priority frontier, proved with TLAPS. Each definition is a translation of code; `PROJECT.json` (`map`)
gives the lines.

## 1. The system

VeraCrawl is a crawler that keeps evidence for what it extracts. Most of its
97 000 lines are data classes (`contracts`, 31k), command-line entry points
(`cli`, 15k) and benchmark fixtures (13k), which keep no state between calls.
The parts that do, and can therefore be wrong in ways a test hardly reaches:

| Part | State | Operations | Interacts with |
|---|---|---|---|
| URL scope (`external_crawl/url.py`) | none; asks the resolver | `classify_url`, `canonicalize_url` | called by both frontiers |
| FIFO frontier (`external_crawl/frontier.py`) | queue, seen and fetched sets, counters, event log | `enqueue`, `pop`, `mark_fetched`, `skip` | driven by the runner |
| Priority frontier (`external_crawl/priority_frontier.py`) | heap, insertion counter, hints, log | the same and `add_hints` | driven by the runner, hints from a plan |
| Crawl runner (`external_crawl/runner.py`) | place in the loop, failures, artifacts, documents, replan flag | one `run` | frontier, robots, rate limiter, fetchers, artifact store, planner |
| HTTP fetch (`adapters/network/stdlib_http.py`, `fetch/network_acquisition.py`) | hop, attempt, headers, Retry-After, evidence, result | `execute`, `execute_http_network_acquisition` | limiter, robots, cookie jar, conditional cache, servers |
| Cookie jar, conditional cache (`adapters/network/in_memory_*.py`) | cookies per run and origin; entries per run and URL with size limits | `accept_set_cookie`, `cookies_for`; `get`, `put`; `clear_run` | shared by fetches |
| Robots cache (`adapters/network/urllib_robots.py`) | entry per host in memory, a body and a meta file on disk, locks | `evaluate` | threads of one or more processes, servers, files |
| AIMD limiter (`adapters/network/aimd_rate_limiter.py`) | semaphore per origin; rate, successes, last grant and cooldown per bucket; flags per permit | `acquire`, `release`, `report_success`, `report_throttled` | one thread per request |
| Model calls (`adapters/_llm_adapter_base.py`, `model_providers`, `processing/schema_extraction_runtime.py`) | the usage and the output of a call | `complete`, `extract`, `run_llm_adapter_flow` | budget, provider, artifact store |
| Provider budget (`adapters/budget`) | totals, outbox of usage events | `estimate_charge`, `charge` | several callers |
| Worker pools (`adapters/work_queue`) | leases, windows, queues between processes | `acquire`, `release`, `run` | worker processes, event store |
| Event stores (`runtime_events`, `adapters/event_stores`) | events of a run in sequence | `append`, queries | worker pools |
| Redis broker (`adapters/queue_brokers/redis.py`) | items, leases, list of queued ids, dead letters, operation log, all in Redis | `enqueue`, `lease`, `heartbeat`, `ack`, `nack`, `dead_letter` | several worker processes |
| Scheduler (`scheduler/runtime.py`) | frontier items, queue leases, invalid uses in the durable store | `enqueue_frontier_item`, `lease_next_frontier_item`, `heartbeat_lease`, `complete_`, `release_frontier_item`, `expire_lease`, report | workers and a sweeper |
| Durable store (`runtime_support/durable_store.py`) | commands, events, outbox, units of work, items, leases | `handle_command`, `append_event`, `mark_outbox_*`, `begin`/`commit`/`rollback` | scheduler, control |
| Credential vault, persistence, run control | records in memory, SQLite or JSON | use, transact, transition | agents and control |

What is hard about them: answers of the outside in any order (runner, fetch);
redirects, retries and shared caches that carry something of one request into
another (fetch); two files that must agree across a crash (robots); Redis
commands of several workers interleaved, with crashes and lost replies in
between (broker); callers that act on what they learned earlier (scheduler,
budget); threads that sleep on a value that changes meanwhile, and slots that
must come back on every exit (limiter); a parent that waits for a process that
is gone (pools). `PROJECT.json` (`hazards`) lists these at their lines, with
the property that would catch each one going wrong. A part is correct when

- runner and frontiers: every admitted URL is processed exactly once, within
  budget and depth, in the promised order; the log and the evidence tell the
  truth; the run ends;
- fetch, jar, cache: credentials and cookies reach nobody they are not meant
  for, no request breaks robots or egress policy, the result is what the server
  said, and a fetch ends;
- robots cache: no advice without a fetch in date behind it, one fetch at a
  time, no thread that keeps the lock;
- limiter: slots are conserved, never faster than the site allows;
- model calls: the budget is kept as far as its two-call interface can, every
  billed answer is accounted for, and none twice;
- pools, broker and scheduler: an item is worked on by one holder at a time,
  settled once, and never lost. Where the code asks callers to see to that and
  checks nothing, the properties say what it guarantees whatever they do.

## 2. Modules

| Module | Models | State and actions |
|---|---|---|
| `CrawlUrl` | `url.py` | pure: `ClassifyUrl`, `CanonicalUrl`, `IsPrivateNetwork` over abstract URLs; the resolver's answer is an argument |
| `Frontier` | `frontier.py` | `queue`, `seen`, `fetched`, counters, `events`; `Enqueue`, `Pop`, `MarkFetched`, `Skip` |
| `OnceQueue` | abstract specification | a set of waiting and a set of given URLs: each is taken in once and given out at most once |
| `CrawlRunner` | `runner.py`, `dispatch.py`, `put_bytes` | composes `Frontier` with the loop; one action per turn of the loop and per enqueue call of a `for` loop |
| `PriorityFrontier` | `priority_frontier.py` | heap as a set of (priority, counter, item); adds `AddHints` with the re-scoring |
| `HttpFetch` | `stdlib_http.py`, `network_acquisition.py` | composes `CookieJar` and `ConditionalCache`; an action is what an adapter does between two points where the server or another thread can act |
| `CookieJar`, `ConditionalCache` | `in_memory_cookie_jar.py`, `in_memory_conditional_cache.py` | pure: each method as an operator on the jar or the cache |
| `RobotsCache` | `urllib_robots.py` | one cache key; a thread's `evaluate` in steps: waiting for the lock, one per file and per hop; several processes on one cache directory; crash and restart |
| `AimdLimiter` | `aimd_rate_limiter.py`, `ports/rate_limiter.py` | one action per locked section; a `Call` is one `with limiter.acquire` block |
| `ModelCall` | budget, provider adapter and the two flows that use them | a caller's call in steps: estimate, attempts, answer, artifact, outbox, total |
| `WorkerPool` | lease port, both pools, `append` of both event stores | a turn of the cooperative pool, or drain, dispatch, collect and the workers' own steps |
| `RedisBroker` | `redis.py` | each method is a read step followed by the list (`todo`) of its Redis writes, one step each; faults and crashes between any two |
| `Scheduler` | `scheduler/runtime.py` and the `mark_*` helpers | one action per service function, with the arguments callers may pass; workers remember the lease they were given |
| `Lists` | the filtering loops of jar and cache | pure: `Kept`, as a recursive function, about which one can prove |
| `CrawlRunner_proofs`, `HttpFetch_proofs`, `RobotsCache_proofs`, `AimdLimiter_proofs`, `ModelCall_proofs`, `WorkerPool_proofs`, `RedisBroker_proofs`, `Scheduler_proofs` | | theorems, section 4 |
| `MC*` | | instances for TLC |

Correspondence worth knowing:

- `CrawlRunner`. The loop is single-threaded, so the nondeterminism is what the
  outside answers: robots.txt, resolver, server (page, fault, throttling),
  content, planner, deadline. A content value stands for body, category and
  suffix together, which is what names an artifact. `crashed` is the
  `DispatchError` that ends a run with an exception. The three constructor
  modes (`legacy`, `s3`, `s6`) are chosen initially.
- `PriorityFrontier` is checked alone, with any sequence of calls its caller
  can make. Scores are integers in units of 1/`Scale`.
- `HttpFetch`. An adapter is made for one request, and acquisitions follow one
  another, as every caller in the repository has it (none starts threads); pages
  and the clock change at any moment. A page's body is its version at the
  server; its ETag names that version, its Last-Modified date need not. Cookies
  are abstracted to name, path, life and Secure. `httpx.Client` keeps the
  cookies it is sent in a store of its own and adds those that fit when the
  adapter sets no Cookie header (`ClientKeeps`, `ClientCookies`, external: a
  client knows domain, path, Secure and expiry, but no port, so `SiteOf` maps
  origins to the domain they share). The acquisition's allowlist and private
  flag (`Allowlist`, `AllowPrivate`) and the adapter's config (`ConfigAllowlist`,
  `ConfigAllowPrivate`) are separate constants, as in the code nothing connects
  them. The scenario of an acquisition is chosen initially; "size-budget"
  executes the adapter a second time. `FinalUrl` is how `httpx` writes a URL.
  `sent`, `wire` and `told` are history variables.
- `RobotsCache`. Ages count ticks since a fetch and stop at the longer TTL.
  Wall clocks of processes agree and go forward. A thread that waits for the
  host's lock has a place of its own (`wait`); the registry's lock is held for a
  look-up in a dictionary and never while anything blocks, so it is part of the
  same step. Either file may fail to be read or written. `fetched`, `heard` and
  `basis` are history variables: the fetches in date, those a process has had
  since it started, and the statuses an `evaluate` may rely on.
- `AimdLimiter`. Times are relative (ticks since the last grant, ticks left of
  a cooldown or a sleep), so no bound on time is needed; `Longest` caps the
  ticks since a grant at the longest interval any rate or floor asks for, past
  which the code makes no difference. A rate r means r requests in `Period`
  ticks. `demand` is a history variable: how long a server's Retry-After still
  asks for silence. Data that is dead in the code (the floor after the grant)
  is reset. One origin is modelled: origins share nothing.
- `ModelCall`. The four caps of a budget have one shape; the model has one.
  `billed` is a history variable. The raw bytes an adapter keeps of its last
  answer are left out (section 6). Totals live in memory and start at zero in a
  new process; the model is one process.
- `WorkerPool`. A lease is its place among the leases given, since the ids the
  code makes of worker, item and time may coincide (`frozen`: the clock a
  caller injects stands still). Work in a process may return something that is
  no `WorkOutcome`, and reading it then raises in the parent (`CollectRaises`);
  a run that raised is not followed by another. A worker killed while it holds a queue's
  internal lock is not modelled.
- `RedisBroker`. Token and lease id are drawn together and are one value. Time
  is the set of tokens whose expiry has passed. A call that raises leaves its
  caller with the lease, as an exception does.
- `Scheduler`. The functions are atomic: the store is an object in one process.
  A lease is the pair of item and attempt number, from which the code builds
  its id and token. Nothing is assumed of callers that the functions do not
  check: any lease that exists is expired at any time, active or not; any known
  item is completed or released with any active lease; an id is enqueued again
  at any time, which saves a new item and starts the numbers of its leases over.
  `enqueues`, `releases` and `orphaned` (items whose lease was spent on another)
  are history variables. Which misuses of a lease were recorded is kept as
  whether there was any, which is all the report looks at.

Mutants (`X_Reason`) stand before the definitions they alter: each is a
plausible bug that the corresponding property must catch. They are no part of
the specifications.

## 3. Runs

| Run | Instance | Shows |
|---|---|---|
| `crawl_run` | 9 spellings of 4 URLs and of foreign, denied and private hosts; 3 contents; depth 2, 3 pages; all modes | one fate per URL, budget, breadth first, shortest depth, truthful log, stop reason and evidence; implements `OnceQueue`; the run ends |
| `priority_frontier` | 3 URLs, hint lists that saturate, lower and do nothing, 3 hints | best first under the hints of the moment, oldest first among equals; implements `OnceQueue` |
| `http_fetch` | 2 adapters of one run or two, one with the default config and one with an allowlist of its own; 6 URLs on 4 origins, one refused by robots, one with rate zero, one private; 1 redirect, 2 attempts; two bodies of one date; room for 1 cookie and 1 entry | credentials and cookies in scope, only permitted requests, complete evidence, own Retry-After, current bodies, every fetch ends |
| `http_report` | the same | **violated**: a failed fetch is reported as failed |
| `robots` | 2 threads of one process and 1 of another, on one cache directory; TTL 2, failure TTL 1, 1 redirect, 1 crash | advice rests on a fetch in date, one fetch per host, TTL and process, the lock is given back |
| `aimd` | 3 calls, 2 slots, rates 1, 2, 4, floors none, 3 and prohibited, Retry-After 0 and 4 | slots conserved; never faster than the floor; Retry-After respected |
| `model_call` | 3 callers, one of which extracts, 2 attempts, 2 calls each, cap and usage 2 | overshoot at most one answer per caller; total follows the outbox; none charged twice |
| `model_metered` | the same | **violated**: every billed answer is charged |
| `worker_pool` | 2 workers, lists with an item twice or again in a second run, 2 runs, 2 deaths, both pools and stores | a lease is settled once; `run` returns unless an outcome died with its worker |
| `redis_broker` | 2 workers of 2 threads, 2 items with one key, 2 tokens, 1 fault or crash | a queued item is free and queued once; only the holder writes; dead letters have their record; before a fault the log is truthful and nothing is lost |
| `redis_redelivery` | the same | **violated**: the item of an expired lease is delivered again |
| `scheduler` | 2 workers, 2 items, max attempts 2 and 1, each enqueued up to twice and leased up to twice each time | one holder of a lease, an ended lease stays ended, a leased item can be got out again, bounded retries, lasting failure report |

The violated ones state what a document or comment of the repository says; the
quotations are in `PROJECT.json` (`findings`).

Why the bounds suffice for the questions asked: two workers are enough for a
stale holder and its successor, two tokens for a lease and its replacement, one
fault for each crash window (each window of the code is one step wide). In
`scheduler`, two leases of an item with two attempts, two items and a second
enqueue cover a late sweep of an ended lease, a lease spent on the other item
and a lease name used again; longer histories are left to the theorems. In `aimd`, three calls on two slots have one
blocked while two race in a bucket. In `crawl_run` the site has a URL with two
spellings, links to itself, links of every refused kind and a page reachable on
two paths, and the budget is smaller than the site. In `http_fetch` one
redirect can leave the origin, downgrade, hit each refusal or exceed the limit;
two attempts give a retry on either hop; two fetches, in either order, give a
304, an eviction and a run that must not see the other's cache. A hop that
returns to the first origin needs two redirects, which is too much for TLC; the
theorems cover it. In `robots` one crash can fall between the two files, and
another process, or a second life, finds them; two threads of one process miss
the cache together. In `model_call` three callers pass the cap check together.
In `worker_pool` a death can take an item, and two can leave none alive for the
rest.

Symmetry is used where the permuted values are interchangeable: workers and
items (`redis_broker`), workers (`scheduler`), calls (`aimd`), threads of a
process (`robots`), in runs
without temporal formulas other than action properties.

Fairness. `crawl_run`: `WF(Next)`, the thread keeps running. `worker_pool`: the parent's
thread and every living worker go on; nothing makes a worker die or live.
`redis_redelivery`: weak fairness of the commands of a call in progress and of
live workers' calls; it refutes the property even though every live worker
keeps asking for work. `http_fetch` and `robots` need none: `StepsShrink` and
`LockGivenBack` say that every step of an adapter, or of a thread with the lock,
lowers a bound on the steps it has left. That every `evaluate` returns is not
claimed: a `threading.Lock` promises no order among the threads that wait.

Deadlock checking is on in `crawl_run`, `robots`, `redis_broker`,
`redis_redelivery`, `scheduler` and `aimd`. It is off where callers may stop
calling at their bounds: `priority_frontier`, the `http_`, the `model_` runs
and `worker_pool` (where also a dead worker stops everything, as `RunReturns`
says). A finished run stutters by an explicit disjunct of `CrawlRunner`.

## 4. Proofs

Every safety and action property that a passing run checks is also a theorem,
for every value of the constants that satisfies the named assumption of its
module (`UrlAssumption`, `FrontierAssumption`, `RunnerAssumption`,
`HttpAssumption`, `RobotsAssumption`, `AimdAssumption`, `ModelCallAssumption`,
`PoolAssumption`, `BrokerAssumption`, `SchedulerAssumption`); the exceptions are
at the end of the section. An assumption says what kind of thing a constant is
and what the constructors check; no more is asked of a limit or a TTL than that
it is positive, where the code asks for that. One theorem has a hypothesis of
its own (`OwnerOnly`). Each proof has the same shape: an inductive invariant,
its initial case, one lemma per action, and a temporal step.

`CrawlRunner_proofs`

| Theorem | Argument |
|---|---|
| `TypeCorrect`: `Spec => []TypeOK` | `TypeInv` adds that an item is held exactly between its pop and its fate; without it a step on a popped item is not typed |
| `FateCorrect`: `Spec => []EachUrlOneFate` | inductive together with `TypeInv`; the lemmas say what `Append` and `Tail` do to the set of URLs of a list |
| `RefinesOnce`: `Spec => EachUrlOnce` | every step maps to a step of `OnceQueue` or a stutter, under the map pending URLs, seen but not pending URLs; uses `EachUrlOneFate` |
| `BudgetCorrect`: `Spec => []FetchWithinBudget` | `BudgetInv` adds that a popped item leaves room for one fetch |
| `DepthCorrect`: `Spec => []BreadthFirst` | `DepthInv` relates the pending depths, the calls still to be made and the item in hand |
| `ShortestDepthCorrect`: `Spec => []AdmittedAtShortestDepth` | `ShortestInv` adds that, until a replan, nothing was admitted deeper than one level below anything pending, nor deeper than the links being enqueued, and that only an admitted URL is a duplicate; rests on `DepthInv` |
| `EvidenceCorrect`: `Spec => []EvidenceReplayable` | inductive with the types: what is cited was stored before, and a store only replaces a sidecar |
| `StopReasonCorrect`: `Spec => []StopReasonTruthful` | `StopInv` adds what is known at each place in the loop from which a run can stop |
| `LogCorrect`: `Spec => []LogReconstructsFrontier` | inductive with the fates; for each kind of event, what appending it does to what is read back out of the log |

`HttpFetch_proofs`

| Theorem | Argument |
|---|---|
| `FetchTypeCorrect` | hops and attempts stay within their limits |
| `CredentialsCorrect`, `HintCorrect`, `PermittedCorrect`, `EvidenceCorrect` | `FetchInv`, one record of facts for each adapter: credentials only while every hop so far kept the origin; a Retry-After only of this hop; the first request obeys the acquisition's policy and every later one the adapter's config; evidence so far is the wire so far; requests so far fit into the hops and attempts used |
| `StepsShrinkCorrect` | action property, from `FetchInv` |
| `CookiesCorrect` | `ScopeInv`: every cookie of a bucket belongs to the run and origin of the bucket, and every cookie in the store of a client was sent to its adapter, in its run. Needs what the loops of the jar (`Kept`, the recursive function in `Absorb`) keep of a list |
| `BodyCorrect`, `CacheCorrect` | `BodyInv`: the cache keeps its accounts (total is the sum of the sizes, caps hold, one entry for a key), an entry names an artifact of its own body and URL, made in its own run, one adapter is at work at a time, and while it waits for a reply the cache still holds the entry whose ETag or date it sent. The eviction loop of `put` stops within the caps because an entry larger than `MaxEntryBytes` is never put and `MaxEntryBytes <= MaxTotalBytes`, which the constructor checks |

`RobotsCache_proofs`

| Theorem | Argument |
|---|---|
| `FetchOnceCorrect`: `Spec => FetchOnce` | `FetchInv`: one thread of a process is past the lock, and what a process fetched and may still use is what it has in memory, so a thread that looks further knows that there is nothing. Any threads and processes |
| `AdviceInDateCorrect`: `Spec => []AdviceInDate` | `DateInv`: a status in memory, in the meta file or in a thread's hands was fetched and is as old as it says, or past its TTL. Any threads and processes on one directory |
| `LockGivenBackCorrect`: `Spec => LockGivenBack` | action property, from the types and what a thread has left to write when it saves. Any threads, processes and redirects |

`AimdLimiter_proofs`

| Theorem | Argument |
|---|---|
| `TypeCorrect` | types; rates stay between their limits |
| `NeverFasterCorrect`, `RetryAfterCorrect` | action properties; `CoolsEnough` adds that a cooldown is at least what is left of every Retry-After |
| `SlotsCorrect`: `Spec => []SlotsConserved` under `OwnerOnly` | `SlotInv` says for each place of a call whether it has a slot, by counting those that do. Without `OwnerOnly` (`~HelperReleases`) it is false (section 6) |

`RedisBroker_proofs`

| Theorem | Argument |
|---|---|
| `QueueInvCorrect`, `QueuedIsFreeCorrect`, `OnlyHolderWritesCorrect` | `QueueInv`: the list of writes a call still has to do is a suffix of one of a few programs (`Stages`, `Beats`), and the queue and those programs together have at most one claim on an item |
| `FateInvCorrect`, `NothingLostCorrect`, `LogTruthfulCorrect` | `FateInv`: as long as no call has failed, an item whose key was taken is queued, claimed by a program or a holder, or settled, and what the log says was done was done |
| `DeadLettersBackedCorrect` | `BackedInv`: a call about to push a dead letter has set its record, and one about to log it has pushed it. With any number of faults, since a call that fails only drops the rest of its list |

`Scheduler_proofs`, with nothing assumed of callers:

| Theorem | Argument |
|---|---|
| `SchedulerInvariant`: `Spec => [](LeaseInv /\ ItemInv)` | the inductive invariant of all the others. `LeaseInv`: no lease of an item enqueued once exists beyond its attempt count, so a new lease is fresh, and what a worker holds was leased. `ItemInv`: an item that can be leased has an attempt left, its releases counted on top; after something went wrong there is an expired lease or a recorded misuse |
| `OneHolderCorrect`, `LeasedIsRecoverableCorrect`, `RetriesBoundedCorrect` | parts of it |
| `EndedLeaseStaysEndedCorrect`, `FailureStaysVisibleCorrect` | action properties, from it |

`ModelCall_proofs`

| Theorem | Argument |
|---|---|
| `OvershootCorrect`: `Spec => []OvershootBounded` | the bound is not inductive: a caller past its estimate will still add. `RoomForInFlight` counts one answer for each caller in flight: the total and those stay within the cap and one answer per caller. A call can only begin while the total is within the cap |
| `OutboxCorrect`: `Spec => []TotalFollowsOutbox` | inductive with the types. The difference is a sum over the callers between the halves of `charge`, so the lemmas say that such a sum exists, does not depend on the order of its members, and changes by a member that comes or goes |
| `ChargedOnceCorrect`: `Spec => []NoneChargedTwice` | with the same lemmas on sums: an answer moves from the callers that hold it to the usage events, and leaves the sum when its call fails |

`WorkerPool_proofs`

| Theorem | Argument |
|---|---|
| `PoolInvCorrect`, `SettledOnceCorrect`: `Spec => []SettledOnce` | `PoolInv`: while the parent collects, a work item leased once is at one place only (input queue, a worker, output queue) or lost; the outcomes still to come are counted, so that a parent that returns has lost none |

Induction over data. The library's induction theorems take an operator, which
the provers cannot instantiate. Where a proof needs such an induction (the loops
of the jar and the cache, sums over callers) it is done with sets: the numbers
for which the claim fails have a least member (`LeastNumber`, from
`WFMin` of the library), which gives induction up to a bound for a set of
numbers (`UpTo`), over the length of a list or the size of a set. The loops are
therefore written as recursive functions.

Only model-checked:

- liveness (`RunEnds`, `RunReturns`, and `ExpiredRedelivered`,
  which is refuted): needs fairness and ENABLED, which the prover does not reach;
- `PopsBest` and the refinement of `OnceQueue` by `PriorityFrontier`: scores are
  sums folded over hints, and order among equals is by the counter; not
  attempted yet.

## 5. Findings with a run

- `http_report`: a failed fetch makes the acquisition raise rather than report.
- `model_metered`: an answer that is billed and then refused is never charged.
- `redis_redelivery`: the item of an expired lease is delivered to nobody.

## 6. Other disagreements the models contain

A reader can reproduce this one by changing constants, without changing a
module:

- `aimd` with `HelperReleases = TRUE` and four calls violates `SlotsConserved`:
  the event that makes a release happen once is tested and set in two steps
  (`aimd_rate_limiter.py:205`). No caller in the repository releases a permit
  from another thread.

And these can be read off the reachable states:

- Scheduler: `expire_lease` does not look whether the lease is still active, so
  a sweeper that is late takes back a completed item, or puts an item that is
  leased out to its next worker up for a further one: an item has two active
  leases (for this, `MaxAttempts` and `MaxLeases` 3). Enqueueing an id again accepts the duplicate, resets its attempts, and
  the next lease repeats an id and token that are in use. `complete` and
  `release` never compare the item with the lease's, so a lease settles an item
  that another worker holds. `docs/07-data-contracts.md:1102` says that "lease
  token and transition version fence concurrent workers", `:1228` that
  "duplicate canonical frontier refs are rejected" and `:1923` gives a fetched
  item no way back.
- Broker: an `ack` whose reply was lost and that is answered with a `nack`
  queues an acked item again (`redis.py:261`). A heartbeat can turn a released
  lease active; nothing reads the lease's status.
- Pools: two leases of one work item in one run share an entry of
  `leases_by_ref`, so one is released twice and one never. A second `run` for
  the same run id numbers its events from one again: the in-memory store raises
  after the lease was released, SQLite takes them for the old ones and drops
  them. With a clock that stands still `WorkerPool` takes a repeated item for a
  lease it already did. A dead worker leaves the parent waiting. The AIMD
  window of a lease is credited to the worker that acquired it, and nothing
  reads it.
- Fetch: the allowlist given to an acquisition binds its first request only. The
  adapter holds redirects to its own config, which every caller leaves at the
  default (`cli/network.py:115`), so a redirect off the allowlist, or to a
  private host, is followed. Keeping jar cookies back after a cross-origin redirect lasts for one
  request; the retry of it sends them (to the origin they belong to), and on that
  very request the client adds the cookies of its own store that fit, of another
  port or scheme of the host too (`stdlib_http.py:569-577` calls it a
  "credentials-reset for the next hop"). A ref in the cache is a hash of the URL
  as asked for, one made from a response a hash of `str(response.url)`, so the
  same page can have two. Where Last-Modified is all an entry has, a 304 returns
  the old body of a page that changed within the date's resolution. A Location
  that cannot be parsed raises a `ValueError` that no handler of `execute` turns
  into a partial result: the evidence of the fetch is lost. An entry
  too large for the cache leaves the old one in place. A 304
  without an entry in the cache makes the fetch fail. Nothing in the repository calls
  `clear_run`.
- Robots: two processes that share a cache directory can pair the meta file of
  one fetch with the body of the other, without any crash: each file is written
  atomically, the pair is not, and only threads of one process share a lock. The
  comment in `_write_disk_cache` (`urllib_robots.py:339-346`) says that
  concurrent workers never see a mismatch. `AdviceInDate` is what remains: the
  status is right, and with it whether there are rules at all. The docstring
  (`:134-137`) applies the failure TTL to server errors too; the code applies it
  to transport errors only, so a 5xx answer refuses for the full TTL.
- Model calls (not in the model): an adapter keeps the bytes of its last answer
  in fields, so of two threads that share one, a call can keep the other's bytes
  as its artifact (`openai_responses_v2.py:543`).

## 7. Not modelled

Parsing and formatting (HTML, robots.txt, sitemaps, URL and header text),
sockets and browsers, prompts and answers of models, data classes, command
line, benchmarks and reports: data and I/O, whose results are free choices
where a modelled part uses them. They are most of the repository, which is why
the models stand for a small share of its lines (4 in 100): the modules here
cover the parts where order, failure or sharing matter. `reset_namespace` of the broker,
a test helper; `InMemoryCostGate`, a counter of its own for agent recovery.
Components with state that are still to come are in the plan.

## 8. Plan

Done: crawl core (`CrawlUrl`, `Frontier`, `CrawlRunner`, `OnceQueue`),
`PriorityFrontier`, the network layer (`HttpFetch`, `CookieJar`,
`ConditionalCache`, `RobotsCache`, `AimdLimiter`), `ModelCall`, `WorkerPool`,
`RedisBroker`, `Scheduler`; proofs of their safety and action properties.

Next, in this order:

1. Proofs: the refinement of `OnceQueue` by `PriorityFrontier`, then `PopsBest`.
2. `CredentialUse`: vault, session and audit outbox.
3. `DurableStore`: idempotent commands, event sequence, outbox and units of
   work; abstractly, each command takes effect once.
4. Persistence adapters and run control.
5. The runner over the priority frontier, and over the limiter.
