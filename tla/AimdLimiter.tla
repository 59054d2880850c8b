----------------------------- MODULE AimdLimiter -----------------------------
(***************************************************************************)
(* InMemoryAimdLimiter (adapters/network/aimd_rate_limiter.py) and its     *)
(* permits (ports/rate_limiter.py), for one origin: a semaphore bounds the *)
(* requests in flight, and each bucket (route class, adapter) paces its    *)
(* grants by an AIMD rate, a cooldown and the floor the site asks for.     *)
(*                                                                         *)
(* A Call is one "with limiter.acquire(...)" block of some thread.  What   *)
(* the code does under one lock is one step; sleeps, and the gap between   *)
(* the check and the set in _release_once, are not.  Times are relative:   *)
(* ticks since a bucket's last grant, ticks left of a cooldown or a sleep. *)
(***************************************************************************)
EXTENDS Naturals, FiniteSets, FiniteSetsExt

CONSTANTS
    Call, Bucket,
    MaxConcurrency,         \* max_concurrency_per_origin
    MinRate, InitRate, MaxRate, Additive, Factor,
    Threshold,              \* successes_to_additive_increase
    Cooldown, Jitter,       \* cooldown_seconds, cooldown_jitter_seconds
    Period,                 \* a rate r stands for r requests in Period ticks
    Floors,                 \* the floors callers pass
    RetryAfters,            \* the retry_after_seconds of throttled answers
    Longest,                \* bound: an interval no rate or floor exceeds
    HelperReleases          \* may another thread release a permit?

(* RateLimitFloor: a field that is None or not positive counts as 0.       *)
Floor == [delay : Nat, requests : Nat, seconds : Nat, retry : Nat]

ASSUME AimdAssumption ==
    /\ MaxConcurrency \in Nat \ {0}
    /\ MinRate \in Nat \ {0} /\ InitRate \in MinRate .. MaxRate /\ MaxRate \in Nat
    /\ Additive \in Nat \ {0} /\ Factor \in Nat \ {0, 1} /\ Threshold \in Nat \ {0}
    /\ Cooldown \in Nat /\ Jitter \in Nat /\ Period \in Nat \ {0}
    /\ Floors \subseteq Floor /\ RetryAfters \subseteq Nat
    /\ Longest \in Nat /\ Longest * MinRate >= Period
    /\ \A f \in Floors : f.delay <= Longest /\ f.retry <= Longest /\ f.seconds <= Longest
    /\ HelperReleases \in BOOLEAN

VARIABLES
    rate, success,      \* bucket -> rate_per_second, success_count
    since,              \* bucket -> ticks since last_grant, or Longest
    cool,               \* bucket -> ticks until cooldown_until
    sem,                \* the semaphore's value
    pc,                 \* call -> where its thread is
    bucket,             \* call -> its bucket
    floor,              \* call -> the floor interval of its wait
    wake,               \* call -> ticks its sleep still takes
    released,           \* call -> RateLimitPermit._released
    report, retry,      \* call -> its report, marked and then applied
    given,              \* call -> permit_released.is_set()
    once,               \* call -> thread -> its place in _release_once
    demand              \* history: bucket -> ticks a server's Retry-After still asks for

limits == <<rate, success, since, cool, demand>>
permits == <<released, report, retry>>
slots == <<sem, given, once>>
vars == <<limits, permits, slots, pc, bucket, floor, wake>>

Thread == {"owner", "helper"}

Init ==
    /\ rate = [b \in Bucket |-> InitRate]
    /\ success = [b \in Bucket |-> 0]
    /\ since = [b \in Bucket |-> Longest]
    /\ cool = [b \in Bucket |-> 0]
    /\ demand = [b \in Bucket |-> 0]
    /\ sem = MaxConcurrency
    /\ pc = [c \in Call |-> "new"]
    /\ bucket \in [Call -> Bucket]
    /\ floor = [c \in Call |-> 0]
    /\ wake = [c \in Call |-> 0]
    /\ released = [c \in Call |-> FALSE]
    /\ report = [c \in Call |-> "none"]
    /\ retry = [c \in Call |-> 0]
    /\ given = [c \in Call |-> FALSE]
    /\ once = [c \in Call |-> [t \in Thread |-> "out"]]

-----------------------------------------------------------------------------
(* acquire *)

Later(x, y) == IF x > y THEN x ELSE y

(* Request-rate: 0/N.                                                      *)
Prohibits(f) == f.requests = 0 /\ f.seconds > 0

(* strictest_interval_seconds, up to the tick.                             *)
StrictestInterval(f) ==
    Max({f.delay, f.retry} \cup
        IF f.requests > 0 THEN {(f.seconds + f.requests - 1) \div f.requests} ELSE {})

AcquireProhibited(c) ==
    /\ pc[c] = "new"
    /\ \E f \in Floors : Prohibits(f)
    /\ pc' = [pc EXCEPT ![c] = "left"]
    /\ UNCHANGED <<limits, permits, slots, bucket, floor, wake>>

AcquireCall(c) ==
    /\ pc[c] = "new"
    /\ \E f \in Floors :
         /\ ~Prohibits(f)
         /\ floor' = [floor EXCEPT ![c] = StrictestInterval(f)]
    /\ pc' = [pc EXCEPT ![c] = "blocked"]
    /\ UNCHANGED <<limits, permits, slots, bucket, wake>>

SemAcquire(c) ==
    /\ pc[c] = "blocked"
    /\ sem > 0
    /\ sem' = sem - 1
    /\ pc' = [pc EXCEPT ![c] = "waiting"]
    /\ UNCHANGED <<limits, permits, given, once, bucket, floor, wake>>

(* 1 / max(rate, min_rate): the first tick at or after it.                 *)
AimdInterval(b) ==
    LET r == Later(rate[b], MinRate) IN (Period + r - 1) \div r

(* wait = target - now; never negative.                                    *)
WaitFor(c) ==
    LET b == bucket[c]
        interval == Later(floor[c], AimdInterval(b))
    IN  Later(IF interval > since[b] THEN interval - since[b] ELSE 0, cool[b])

GrantNow(c) ==
    /\ since' = [since EXCEPT ![bucket[c]] = 0]
    /\ pc' = [pc EXCEPT ![c] = "body"]
    /\ floor' = [floor EXCEPT ![c] = 0]
    /\ UNCHANGED <<rate, success, cool, demand, permits, slots, bucket, wake>>

Grant(c) ==
    /\ pc[c] = "waiting"
    /\ WaitFor(c) = 0
    /\ GrantNow(c)

SleepOn(c) ==
    /\ pc[c] = "waiting"
    /\ WaitFor(c) > 0
    /\ pc' = [pc EXCEPT ![c] = "sleeping"]
    /\ wake' = [wake EXCEPT ![c] = WaitFor(c)]
    /\ UNCHANGED <<limits, permits, slots, bucket, floor>>

(* Mutant: a thread that slept goes ahead on what it read before.          *)
Wake_NoRecheck(c) ==
    /\ pc[c] = "sleeping"
    /\ wake[c] = 0
    /\ GrantNow(c)

(* The loop: back to the bucket's lock and a new look.                     *)
Wake(c) ==
    /\ pc[c] = "sleeping"
    /\ wake[c] = 0
    /\ pc' = [pc EXCEPT ![c] = "waiting"]
    /\ UNCHANGED <<limits, permits, slots, bucket, floor, wake>>

(* An exception before there is a permit, e.g. an interrupted sleep.       *)
WaitFails(c) ==
    /\ pc[c] \in {"waiting", "sleeping"}
    /\ pc' = [pc EXCEPT ![c] = "left"]
    /\ once' = [once EXCEPT ![c]["owner"] = "check"]
    /\ floor' = [floor EXCEPT ![c] = 0]
    /\ wake' = [wake EXCEPT ![c] = 0]
    /\ UNCHANGED <<limits, permits, sem, given, bucket>>

-----------------------------------------------------------------------------
(* release *)

(* permit.release(): the first call, by any thread, runs the callback.     *)
Release(c, t) ==
    /\ pc[c] = "body"
    /\ t = "helper" => HelperReleases
    /\ ~released[c]
    /\ released' = [released EXCEPT ![c] = TRUE]
    /\ once' = [once EXCEPT ![c][t] = "check"]
    /\ UNCHANGED <<limits, report, retry, sem, given, pc, bucket, floor, wake>>

(* Leaving the block: permit.release() and, when the block raised,         *)
(* _release_once.  After a callback of its own that second call does       *)
(* nothing: the event is set by then.                                      *)
ExitBody(c, raises) ==
    /\ pc[c] = "body"
    /\ once[c]["owner"] = "out"
    /\ pc' = [pc EXCEPT ![c] = "left"]
    /\ released' = [released EXCEPT ![c] = TRUE]
    /\ once' = [once EXCEPT ![c]["owner"] =
                  IF ~released[c] \/ raises THEN "check" ELSE "out"]
    /\ UNCHANGED <<limits, report, retry, sem, given, bucket, floor, wake>>

(* Mutant: no check of the event.                                          *)
ReleaseOnceCheck_Always(c, t) ==
    /\ once[c][t] = "check"
    /\ once' = [once EXCEPT ![c][t] = "give"]
    /\ UNCHANGED <<limits, permits, sem, given, pc, bucket, floor, wake>>

(* _release_once: is_set ...                                               *)
ReleaseOnceCheck(c, t) ==
    /\ once[c][t] = "check"
    /\ once' = [once EXCEPT ![c][t] = IF given[c] THEN "out" ELSE "give"]
    /\ UNCHANGED <<limits, permits, sem, given, pc, bucket, floor, wake>>

(* ... then set and release; the bounded semaphore refuses (ValueError) to *)
(* go above its initial value.                                             *)
ReleaseOnceGive(c, t) ==
    /\ once[c][t] = "give"
    /\ once' = [once EXCEPT ![c][t] = "out"]
    /\ given' = [given EXCEPT ![c] = TRUE]
    /\ sem' = IF sem < MaxConcurrency THEN sem + 1 ELSE sem
    /\ UNCHANGED <<limits, permits, pc, bucket, floor, wake>>

-----------------------------------------------------------------------------
(* report_success, report_throttled: a permit is marked, once, and then    *)
(* its bucket is changed under the bucket's lock.  Reports may come after  *)
(* the block is left, and from several threads.                            *)

HasPermit(c) == pc[c] = "body" \/ (pc[c] = "left" /\ released[c])

MarkReported(c) ==
    /\ HasPermit(c)
    /\ report[c] = "none"
    /\ \/ /\ report' = [report EXCEPT ![c] = "success"]
          /\ retry' = retry
       \/ /\ report' = [report EXCEPT ![c] = "throttled"]
          /\ \E r \in RetryAfters : retry' = [retry EXCEPT ![c] = r]
    /\ UNCHANGED <<limits, slots, released, pc, bucket, floor, wake>>

Reported(c) ==
    /\ report' = [report EXCEPT ![c] = "applied"]
    /\ retry' = [retry EXCEPT ![c] = 0]
    /\ UNCHANGED <<slots, released, pc, bucket, floor, wake>>

ReportSuccess(c) ==
    LET b == bucket[c]
        enough == success[b] + 1 >= Threshold
    IN  /\ report[c] = "success"
        /\ success' = [success EXCEPT ![b] = IF enough THEN 0 ELSE @ + 1]
        /\ rate' = IF enough THEN [rate EXCEPT ![b] = Min({MaxRate, @ + Additive})] ELSE rate
        /\ UNCHANGED <<since, cool, demand>>
        /\ Reported(c)

(* Mutant: the latest throttle decides.                                    *)
CooldownAfter_Latest(b, candidate) == candidate

CooldownAfter(b, candidate) == Later(cool[b], candidate)

SlowerRate(b) == Later(MinRate, rate[b] \div Factor)

ReportThrottled(c) ==
    LET b == bucket[c] IN
    /\ report[c] = "throttled"
    /\ rate' = [rate EXCEPT ![b] = SlowerRate(b)]
    /\ success' = [success EXCEPT ![b] = 0]
    /\ \E j \in 0 .. Jitter :
         cool' = [cool EXCEPT ![b] = CooldownAfter(b, Later(Cooldown + j, retry[c]))]
    /\ demand' = [demand EXCEPT ![b] = Later(@, retry[c])]
    /\ since' = since
    /\ Reported(c)

-----------------------------------------------------------------------------
(* Time. *)

Down(n) == IF n > 0 THEN n - 1 ELSE 0

Tick ==
    /\ since' = [b \in Bucket |-> Min({Longest, since[b] + 1})]
    /\ cool' = [b \in Bucket |-> Down(cool[b])]
    /\ demand' = [b \in Bucket |-> Down(demand[b])]
    /\ wake' = [c \in Call |-> Down(wake[c])]
    /\ UNCHANGED <<rate, success, permits, slots, pc, bucket, floor>>

Step(c) ==
    \/ AcquireProhibited(c) \/ AcquireCall(c) \/ SemAcquire(c)
    \/ Grant(c) \/ SleepOn(c) \/ Wake(c) \/ WaitFails(c)
    \/ \E t \in Thread : Release(c, t) \/ ReleaseOnceCheck(c, t) \/ ReleaseOnceGive(c, t)
    \/ \E raises \in BOOLEAN : ExitBody(c, raises)
    \/ MarkReported(c) \/ ReportSuccess(c) \/ ReportThrottled(c)

Next == Tick \/ \E c \in Call : Step(c)

Spec == Init /\ [][Next]_vars

-----------------------------------------------------------------------------
(* Properties. *)

(* The calls whose slot has been taken and not given back.                 *)
Holding ==
    {c \in Call : /\ pc[c] \in {"waiting", "sleeping", "body"}
                     \/ \E t \in Thread : once[c][t] # "out"
                  /\ ~given[c]}

(* Every slot is given back exactly once, on every way out of a block:     *)
(* normal, raised, released early, failed before the permit; no slot leaks *)
(* and none is given back twice.                                           *)
SlotsConserved == sem + Cardinality(Holding) = MaxConcurrency

Granted(c) == pc[c] # "body" /\ pc'[c] = "body"

(* "never faster": whatever a thread read before it slept, when it goes    *)
(* ahead the floor of its call and its bucket's rate at that moment have   *)
(* both passed since the bucket's last grant.                              *)
NeverFasterThanFloor ==
    [][\A c \in Call : Granted(c) =>
         /\ since[bucket[c]] >= floor[c]
         /\ since[bucket[c]] * rate[bucket[c]] >= Period]_vars

(* A bucket whose server asked to wait gets no request before that time,   *)
(* not from threads already asleep and not after a second, shorter wait.   *)
RetryAfterRespected ==
    [][\A c \in Call : Granted(c) => demand[bucket[c]] = 0]_vars
=============================================================================
