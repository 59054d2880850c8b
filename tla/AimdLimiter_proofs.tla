------------------------- MODULE AimdLimiter_proofs -------------------------
(***************************************************************************)
(* The rate limiter of one origin for any number of calls and buckets, any *)
(* rates, floors and answers: when a grant may come, and that slots are    *)
(* conserved when only the thread of a block releases its permit.          *)
(***************************************************************************)
EXTENDS AimdLimiter, FiniteSetTheorems, TLAPS

Pcs == {"new", "blocked", "waiting", "sleeping", "body", "left"}
Rate == {r \in Nat : MinRate <= r /\ r <= MaxRate}

TypeOK ==
    /\ rate \in [Bucket -> Rate] /\ success \in [Bucket -> Nat]
    /\ since \in [Bucket -> Nat] /\ cool \in [Bucket -> Nat] /\ demand \in [Bucket -> Nat]
    /\ pc \in [Call -> Pcs] /\ bucket \in [Call -> Bucket]
    /\ floor \in [Call -> Nat] /\ wake \in [Call -> Nat]
    /\ retry \in [Call -> Nat] /\ DOMAIN report = Call
    /\ released \in [Call -> BOOLEAN] /\ given \in [Call -> BOOLEAN]
    /\ once \in [Call -> [Thread -> {"out", "check", "give"}]]

-----------------------------------------------------------------------------
(* Facts about the numbers.                                                *)
LEMMA MinOfTwo ==
    ASSUME NEW a \in Nat, NEW b \in Nat
    PROVE  Min({a, b}) = IF a <= b THEN a ELSE b
  <1>1. \E x \in {a, b} : \A y \in {a, b} : x <= y
    OBVIOUS
  <1>2. Min({a, b}) \in {a, b} /\ \A y \in {a, b} : Min({a, b}) <= y
    BY <1>1 DEF Min
  <1> QED
    BY <1>2

(* A quotient rounded up, times the divisor, covers the dividend.          *)
LEMMA Ceiling ==
    ASSUME NEW a \in Nat, NEW r \in Nat \ {0}
    PROVE  (a + r - 1) \div r \in Nat /\ ((a + r - 1) \div r) * r >= a
  <1> DEFINE q == (a + r - 1) \div r
             m == (a + r - 1) % r
  <1>1. q \in Int /\ m \in 0 .. r - 1 /\ a + r - 1 = r * q + m
    OBVIOUS
  <1>2. q >= 0
    OBVIOUS
  <1>3. r * q = q * r
    BY <1>1
  <1> HIDE DEF q, m
  <1>4. q * r >= a
    BY <1>1, <1>3
  <1> QED
    BY <1>1, <1>2, <1>4 DEF q

(* Max of a few numbers is one of them.                                    *)
LEMMA MaxOf ==
    ASSUME NEW a \in Nat, NEW b \in Nat, NEW c \in Nat
    PROVE  Max({a, b} \cup {c}) \in Nat /\ Max({a, b} \cup {}) \in Nat
  <1>1. \E x \in {a, b} \cup {c} : \A y \in {a, b} \cup {c} : x >= y
    OBVIOUS
  <1>2. \E x \in {a, b} \cup {} : \A y \in {a, b} \cup {} : x >= y
    OBVIOUS
  <1>3. Max({a, b} \cup {c}) \in {a, b} \cup {c}
    BY <1>1 DEF Max
  <1>4. Max({a, b} \cup {}) \in {a, b} \cup {}
    BY <1>2 DEF Max
  <1> QED
    BY <1>3, <1>4

(* Multiplication keeps the order.                                         *)
LEMMA ProductGrows ==
    ASSUME NEW a \in Nat, NEW b \in Nat, NEW r \in Nat, a <= b
    PROVE  a * r <= b * r /\ a * r \in Nat /\ b * r \in Nat
  OBVIOUS

(* The strictest of the intervals is a number of ticks, whatever the       *)
(* floor.                                                                  *)
LEMMA IntervalType ==
    ASSUME NEW f \in Floors
    PROVE  StrictestInterval(f) \in Nat
  <1>1. f.delay \in Nat /\ f.retry \in Nat /\ f.requests \in Nat /\ f.seconds \in Nat
    BY AimdAssumption DEF Floor
  <1>2. CASE f.requests > 0
    <2>1. (f.seconds + f.requests - 1) \div f.requests \in Nat
      <3> DEFINE a == f.seconds
                 r == f.requests
      <3>1. a \in Nat /\ r \in Nat \ {0}
        BY <1>1, <1>2
      <3> HIDE DEF a, r
      <3>2. (a + r - 1) \div r \in Nat
        BY <3>1, Ceiling
      <3> QED
        BY <3>2 DEF a, r
    <2> QED
      BY <1>1, <1>2, <2>1, MaxOf DEF StrictestInterval
  <1>3. CASE ~(f.requests > 0)
    BY <1>1, <1>3, MaxOf DEF StrictestInterval
  <1> QED
    BY <1>2, <1>3

-----------------------------------------------------------------------------
(* Types.                                                                  *)
LEMMA TypeInit == Init => TypeOK
  <1> SUFFICES ASSUME Init
               PROVE  TypeOK
    OBVIOUS
  <1>1. released \in [Call -> BOOLEAN] /\ given \in [Call -> BOOLEAN]
    BY Zenon DEF Init
  <1>2. once \in [Call -> [Thread -> {"out", "check", "give"}]]
    BY DEF Init
  <1> QED
    BY <1>1, <1>2, AimdAssumption DEF Init, TypeOK, Rate, Pcs

(* Every step keeps the types.                                             *)
LEMMA TypeNext == TypeOK /\ [Next]_vars => TypeOK'
  <1> SUFFICES ASSUME TypeOK, [Next]_vars
               PROVE  TypeOK'
    OBVIOUS
  <1>1. CASE UNCHANGED vars
    BY <1>1 DEF TypeOK, vars, limits, permits, slots
  <1>2. ASSUME NEW c \in Call, AcquireProhibited(c) \/ SemAcquire(c) \/ Wake(c)
        PROVE  TypeOK'
    BY <1>2 DEF AcquireProhibited, SemAcquire, Wake, TypeOK, Pcs, limits, permits, slots
  <1>3. ASSUME NEW c \in Call, AcquireCall(c)
        PROVE  TypeOK'
    <2>1. floor' \in [Call -> Nat] /\ pc' \in [Call -> Pcs]
      BY <1>3, IntervalType DEF AcquireCall, TypeOK, Pcs
    <2> QED
      BY <1>3, <2>1 DEF AcquireCall, TypeOK, limits, permits, slots
  <1>4. ASSUME NEW c \in Call, Grant(c)
        PROVE  TypeOK'
    <2>1. since' \in [Bucket -> Nat] /\ pc' \in [Call -> Pcs] /\ floor' \in [Call -> Nat]
      BY <1>4 DEF Grant, GrantNow, TypeOK, Pcs
    <2> QED
      BY <1>4, <2>1 DEF Grant, GrantNow, TypeOK, permits, slots
  <1>5. ASSUME NEW c \in Call, SleepOn(c)
        PROVE  TypeOK'
    <2>1. bucket[c] \in Bucket /\ rate[bucket[c]] \in Rate /\ floor[c] \in Nat
          /\ since[bucket[c]] \in Nat /\ cool[bucket[c]] \in Nat
      BY DEF TypeOK
    <2>2. Later(rate[bucket[c]], MinRate) \in Nat \ {0}
      BY <2>1, AimdAssumption DEF Later, Rate
    <2>3. AimdInterval(bucket[c]) \in Nat
      BY <2>2, Ceiling, AimdAssumption DEF AimdInterval
    <2>4. WaitFor(c) \in Nat
      BY <2>1, <2>3 DEF WaitFor, Later
    <2>5. wake' \in [Call -> Nat] /\ pc' \in [Call -> Pcs]
      BY <1>5, <2>4 DEF SleepOn, TypeOK, Pcs
    <2> QED
      BY <1>5, <2>5 DEF SleepOn, TypeOK, limits, permits, slots
  <1>6. ASSUME NEW c \in Call, WaitFails(c)
        PROVE  TypeOK'
    <2>1. floor' \in [Call -> Nat] /\ wake' \in [Call -> Nat] /\ pc' \in [Call -> Pcs]
      BY <1>6 DEF WaitFails, TypeOK, Pcs
    <2>2. once' \in [Call -> [Thread -> {"out", "check", "give"}]]
      BY <1>6 DEF WaitFails, TypeOK
    <2> QED
      BY <1>6, <2>1, <2>2 DEF WaitFails, TypeOK, limits, permits
  <1>7. ASSUME NEW c \in Call, NEW t \in Thread,
               Release(c, t) \/ ReleaseOnceCheck(c, t) \/ ReleaseOnceGive(c, t)
        PROVE  TypeOK'
    <2>1. released' \in [Call -> BOOLEAN] /\ given' \in [Call -> BOOLEAN]
      <3>1. CASE Release(c, t)
        BY <3>1 DEF Release, TypeOK
      <3>2. CASE ReleaseOnceCheck(c, t)
        BY <3>2 DEF ReleaseOnceCheck, TypeOK, permits
      <3>3. CASE ReleaseOnceGive(c, t)
        BY <3>3 DEF ReleaseOnceGive, TypeOK, permits
      <3> QED
        BY <1>7, <3>1, <3>2, <3>3
    <2>2. once' \in [Call -> [Thread -> {"out", "check", "give"}]]
      <3>1. CASE Release(c, t)
        BY <3>1 DEF Release, TypeOK
      <3>2. CASE ReleaseOnceCheck(c, t)
        BY <3>2 DEF ReleaseOnceCheck, TypeOK
      <3>3. CASE ReleaseOnceGive(c, t)
        BY <3>3 DEF ReleaseOnceGive, TypeOK
      <3> QED
        BY <1>7, <3>1, <3>2, <3>3
    <2> QED
      BY <1>7, <2>1, <2>2 DEF Release, ReleaseOnceCheck, ReleaseOnceGive, TypeOK, limits, permits
  <1>8. ASSUME NEW c \in Call, NEW raises \in BOOLEAN, ExitBody(c, raises)
        PROVE  TypeOK'
    <2>1. released' \in [Call -> BOOLEAN] /\ pc' \in [Call -> Pcs]
      BY <1>8 DEF ExitBody, TypeOK, Pcs
    <2>2. once' \in [Call -> [Thread -> {"out", "check", "give"}]]
      BY <1>8 DEF ExitBody, TypeOK
    <2> QED
      BY <1>8, <2>1, <2>2 DEF ExitBody, TypeOK, limits
  <1>9. ASSUME NEW c \in Call, MarkReported(c)
        PROVE  TypeOK'
    <2>1. retry' \in [Call -> Nat] /\ DOMAIN report' = Call
      BY <1>9, AimdAssumption DEF MarkReported, TypeOK
    <2> QED
      BY <1>9, <2>1 DEF MarkReported, TypeOK, limits, slots
  <1>10. ASSUME NEW c \in Call, ReportSuccess(c)
         PROVE  TypeOK'
    <2>1. bucket[c] \in Bucket /\ rate[bucket[c]] \in Rate /\ success[bucket[c]] \in Nat
      BY DEF TypeOK
    <2>2. Min({MaxRate, rate[bucket[c]] + Additive}) \in Rate
      <3>1. MaxRate \in Nat /\ rate[bucket[c]] + Additive \in Nat /\ MinRate <= MaxRate
            /\ MinRate <= rate[bucket[c]] + Additive
        BY <2>1, AimdAssumption DEF Rate
      <3> QED
        BY <3>1, MinOfTwo DEF Rate
    <2>3. rate' \in [Bucket -> Rate] /\ success' \in [Bucket -> Nat]
      BY <1>10, <2>1, <2>2 DEF ReportSuccess, TypeOK
    <2>4. retry' \in [Call -> Nat] /\ DOMAIN report' = Call
      BY <1>10 DEF ReportSuccess, Reported, TypeOK
    <2> QED
      BY <1>10, <2>3, <2>4 DEF ReportSuccess, Reported, TypeOK, slots
  <1>11. ASSUME NEW c \in Call, ReportThrottled(c)
         PROVE  TypeOK'
    <2>1. /\ bucket[c] \in Bucket /\ rate[bucket[c]] \in Rate /\ retry[c] \in Nat
          /\ cool[bucket[c]] \in Nat /\ demand[bucket[c]] \in Nat
      BY DEF TypeOK
    <2>2. SlowerRate(bucket[c]) \in Rate
      <3>1. rate[bucket[c]] \div Factor \in Nat /\ rate[bucket[c]] \div Factor <= rate[bucket[c]]
        BY <2>1, AimdAssumption DEF Rate
      <3> QED
        BY <2>1, <3>1, AimdAssumption DEF SlowerRate, Later, Rate
    <2>3. rate' \in [Bucket -> Rate] /\ success' \in [Bucket -> Nat] /\ demand' \in [Bucket -> Nat]
      BY <1>11, <2>1, <2>2 DEF ReportThrottled, TypeOK, Later
    <2>4. cool' \in [Bucket -> Nat]
      <3>1. PICK j \in 0 .. Jitter :
              cool' = [cool EXCEPT ![bucket[c]] = CooldownAfter(bucket[c], Later(Cooldown + j, retry[c]))]
        BY <1>11 DEF ReportThrottled
      <3>2. CooldownAfter(bucket[c], Later(Cooldown + j, retry[c])) \in Nat
        BY <2>1, AimdAssumption DEF CooldownAfter, Later
      <3> QED
        BY <3>1, <3>2 DEF TypeOK
    <2>5. retry' \in [Call -> Nat] /\ DOMAIN report' = Call
      BY <1>11 DEF ReportThrottled, Reported, TypeOK
    <2> QED
      BY <1>11, <2>3, <2>4, <2>5 DEF ReportThrottled, Reported, TypeOK, slots
  <1>12. CASE Tick
    <2>1. \A n \in Nat : Down(n) \in Nat /\ Min({Longest, n + 1}) \in Nat
      BY MinOfTwo, AimdAssumption DEF Down
    <2>2. since' \in [Bucket -> Nat] /\ cool' \in [Bucket -> Nat] /\ demand' \in [Bucket -> Nat]
          /\ wake' \in [Call -> Nat]
      BY <1>12, <2>1 DEF Tick, TypeOK
    <2> QED
      BY <1>12, <2>2 DEF Tick, TypeOK, permits, slots
  <1> QED
    BY <1>1, <1>2, <1>3, <1>4, <1>5, <1>6, <1>7, <1>8, <1>9, <1>10, <1>11, <1>12 DEF Next, Step

(* Every state of the limiter is well typed.                               *)
THEOREM TypeCorrect == Spec => []TypeOK
  BY TypeInit, TypeNext, PTL DEF Spec

-----------------------------------------------------------------------------
(* When a grant comes.                                                     *)
LEMMA GrantedByGrant ==
    ASSUME TypeOK, [Next]_vars, NEW c \in Call, Granted(c)
    PROVE  Grant(c)
  <1>1. CASE UNCHANGED vars \/ Tick
    BY <1>1 DEF vars, Tick, Granted
  <1>2. ASSUME NEW d \in Call,
               AcquireProhibited(d) \/ AcquireCall(d) \/ SemAcquire(d) \/ SleepOn(d) \/ Wake(d) \/ WaitFails(d)
        PROVE  FALSE
    BY <1>2 DEF AcquireProhibited, AcquireCall, SemAcquire, SleepOn, Wake, WaitFails, Granted, TypeOK
  <1>3. ASSUME NEW d \in Call, NEW t \in Thread,
               Release(d, t) \/ ReleaseOnceCheck(d, t) \/ ReleaseOnceGive(d, t)
        PROVE  FALSE
    BY <1>3 DEF Release, ReleaseOnceCheck, ReleaseOnceGive, Granted
  <1>4. ASSUME NEW d \in Call, NEW raises \in BOOLEAN, ExitBody(d, raises)
        PROVE  FALSE
    BY <1>4 DEF ExitBody, Granted, TypeOK
  <1>5. ASSUME NEW d \in Call, MarkReported(d) \/ ReportSuccess(d) \/ ReportThrottled(d)
        PROVE  FALSE
    BY <1>5 DEF MarkReported, ReportSuccess, ReportThrottled, Reported, Granted
  <1>6. ASSUME NEW d \in Call, Grant(d)
        PROVE  Grant(c)
    BY <1>6 DEF Grant, GrantNow, Granted, TypeOK
  <1> QED
    BY <1>1, <1>2, <1>3, <1>4, <1>5, <1>6 DEF Next, Step

(* What a wait of zero means.                                              *)
LEMMA NoWait ==
    ASSUME TypeOK, NEW c \in Call, WaitFor(c) = 0
    PROVE  /\ since[bucket[c]] >= floor[c]
           /\ since[bucket[c]] * rate[bucket[c]] >= Period
           /\ cool[bucket[c]] = 0
  <1> DEFINE b == bucket[c]
             q == (Period + rate[b] - 1) \div rate[b]
  <1>1. /\ b \in Bucket /\ rate[b] \in Nat \ {0} /\ rate[b] >= MinRate /\ floor[c] \in Nat
        /\ since[b] \in Nat /\ cool[b] \in Nat /\ Period \in Nat /\ MinRate \in Nat
    BY AimdAssumption DEF TypeOK, Rate
  <1>2. Later(rate[b], MinRate) = rate[b]
    BY <1>1 DEF Later
  <1>3. AimdInterval(b) = q
    BY <1>2 DEF AimdInterval
  <1>4. q \in Nat /\ q * rate[b] >= Period
    BY <1>1, Ceiling
  <1> HIDE DEF q
  <1>5. since[b] >= floor[c] /\ since[b] >= q /\ cool[b] = 0
    BY <1>1, <1>3, <1>4 DEF WaitFor, Later
  <1>6. q * rate[b] <= since[b] * rate[b] /\ q * rate[b] \in Nat /\ since[b] * rate[b] \in Nat
    BY <1>1, <1>4, <1>5, ProductGrows
  <1> QED
    BY <1>1, <1>4, <1>5, <1>6

(* "never faster": no grant comes before the floor of the call and the     *)
(* rate of its bucket allow it, for any floors, rates and sleepers.        *)
THEOREM NeverFasterCorrect == Spec => NeverFasterThanFloor
  <1>1. TypeOK /\ [Next]_vars =>
          [\A c \in Call : Granted(c) =>
             /\ since[bucket[c]] >= floor[c]
             /\ since[bucket[c]] * rate[bucket[c]] >= Period]_vars
    BY GrantedByGrant, NoWait DEF Grant
  <1> QED
    BY <1>1, TypeCorrect, PTL DEF Spec, NeverFasterThanFloor

(* A cooldown lasts at least as long as any Retry-After asks for.          *)
CoolsEnough == \A b \in Bucket : demand[b] <= cool[b]

(* A throttled bucket keeps at least the cooldown that was asked for; only *)
(* time shortens both.                                                     *)
LEMMA CoolsNext == TypeOK /\ CoolsEnough /\ [Next]_vars => CoolsEnough'
  <1> SUFFICES ASSUME TypeOK, CoolsEnough, [Next]_vars
               PROVE  CoolsEnough'
    OBVIOUS
  <1>1. CASE UNCHANGED <<cool, demand>>
    BY <1>1 DEF CoolsEnough
  <1>2. CASE Tick
    BY <1>2 DEF Tick, CoolsEnough, Down, TypeOK
  <1>3. ASSUME NEW c \in Call, ReportThrottled(c)
        PROVE  CoolsEnough'
    <2>1. PICK j \in 0 .. Jitter :
              cool' = [cool EXCEPT ![bucket[c]] = CooldownAfter(bucket[c], Later(Cooldown + j, retry[c]))]
      BY <1>3 DEF ReportThrottled
    <2>2. demand' = [demand EXCEPT ![bucket[c]] = Later(demand[bucket[c]], retry[c])]
      BY <1>3 DEF ReportThrottled
    <2>3. bucket[c] \in Bucket /\ retry[c] \in Nat /\ Cooldown + j \in Nat
      BY AimdAssumption DEF TypeOK
    <2>4. Later(demand[bucket[c]], retry[c]) <= CooldownAfter(bucket[c], Later(Cooldown + j, retry[c]))
      BY <2>3 DEF Later, CooldownAfter, CoolsEnough, TypeOK
    <2> QED
      BY <2>1, <2>2, <2>3, <2>4 DEF CoolsEnough, TypeOK
  <1>4. ASSUME NEW c \in Call, Step(c), ~ReportThrottled(c)
        PROVE  UNCHANGED <<cool, demand>>
    BY <1>4 DEF Step, AcquireProhibited, AcquireCall, SemAcquire, Grant, GrantNow, SleepOn, Wake,
                WaitFails, Release, ReleaseOnceCheck, ReleaseOnceGive, ExitBody, MarkReported,
                ReportSuccess, limits
  <1> QED
    BY <1>1, <1>2, <1>3, <1>4 DEF Next, vars, limits

(* No grant while a server's Retry-After still runs, whoever slept when it *)
(* came and whatever shorter wait came later.                              *)
THEOREM RetryAfterCorrect == Spec => RetryAfterRespected
  <1>1. Init => CoolsEnough
    BY DEF Init, CoolsEnough
  <1>2. TypeOK /\ CoolsEnough /\ [Next]_vars =>
          [\A c \in Call : Granted(c) => demand[bucket[c]] = 0]_vars
    <2> SUFFICES ASSUME TypeOK, CoolsEnough, [Next]_vars, NEW c \in Call, Granted(c)
                 PROVE  demand[bucket[c]] = 0
      OBVIOUS
    <2>1. cool[bucket[c]] = 0
      BY GrantedByGrant, NoWait DEF Grant
    <2>2. bucket[c] \in Bucket /\ demand[bucket[c]] \in Nat
      BY DEF TypeOK
    <2> QED
      BY <2>1, <2>2 DEF CoolsEnough
  <1> QED
    BY <1>1, <1>2, CoolsNext, TypeCorrect, PTL DEF Spec, RetryAfterRespected

-----------------------------------------------------------------------------
(* Slots, when only the thread of a block releases its permit.             *)
OwnerOnly == ~HelperReleases

(* Where a call is in giving its slot back.                                *)
SlotOf(c) ==
    /\ once[c]["helper"] = "out"
    /\ once[c]["owner"] = "give" => ~given[c]
    /\ pc[c] \in {"new", "blocked", "waiting", "sleeping"} =>
         once[c]["owner"] = "out" /\ ~given[c] /\ ~released[c]
    /\ pc[c] = "body" =>
         IF once[c]["owner"] = "out" THEN given[c] <=> released[c] ELSE ~given[c] /\ released[c]

Holds(c) ==
    /\ pc[c] \in {"waiting", "sleeping", "body"} \/ \E t \in Thread : once[c][t] # "out"
    /\ ~given[c]

(* What a step does to the slot of its call.                               *)
Kept(c) == sem' = sem /\ (Holds(c)' <=> Holds(c))
Taken(c) == sem > 0 /\ sem' = sem - 1 /\ ~Holds(c) /\ Holds(c)'
GivenBack(c) == sem' = (IF sem < MaxConcurrency THEN sem + 1 ELSE sem) /\ Holds(c) /\ ~Holds(c)'

(* A step of a call keeps, takes or gives back its slot, and the call      *)
(* knows which.                                                            *)
LEMMA SlotStep ==
    ASSUME OwnerOnly, TypeOK, NEW c \in Call, SlotOf(c), Step(c)
    PROVE  SlotOf(c)' /\ (Kept(c) \/ Taken(c) \/ GivenBack(c))
  <1> USE DEF SlotOf, Holds, Kept, Thread
  <1>1. CASE AcquireProhibited(c) \/ AcquireCall(c)
    BY <1>1 DEF AcquireProhibited, AcquireCall, TypeOK, permits, slots
  <1>2. CASE SemAcquire(c)
    BY <1>2 DEF SemAcquire, TypeOK, permits, Taken
  <1>3. CASE Grant(c) \/ SleepOn(c) \/ Wake(c)
    BY <1>3 DEF Grant, GrantNow, SleepOn, Wake, TypeOK, permits, slots
  <1>4. CASE WaitFails(c)
    BY <1>4 DEF WaitFails, TypeOK, permits
  <1>5. ASSUME NEW t \in Thread, Release(c, t)
        PROVE  SlotOf(c)' /\ Kept(c)
    <2>1. t = "owner"
      BY <1>5 DEF Release, OwnerOnly
    <2> QED
      BY <1>5, <2>1 DEF Release, TypeOK
  <1>6. ASSUME NEW t \in Thread, ReleaseOnceCheck(c, t)
        PROVE  SlotOf(c)' /\ Kept(c)
    BY <1>6 DEF ReleaseOnceCheck, TypeOK, permits
  <1>7. ASSUME NEW t \in Thread, ReleaseOnceGive(c, t)
        PROVE  SlotOf(c)' /\ GivenBack(c)
    BY <1>7 DEF ReleaseOnceGive, TypeOK, permits, GivenBack
  <1>8. ASSUME NEW raises \in BOOLEAN, ExitBody(c, raises)
        PROVE  SlotOf(c)' /\ Kept(c)
    BY <1>8 DEF ExitBody, TypeOK
  <1>9. CASE MarkReported(c) \/ ReportSuccess(c) \/ ReportThrottled(c)
    BY <1>9 DEF MarkReported, ReportSuccess, ReportThrottled, Reported, slots
  <1> QED
    BY <1>1, <1>2, <1>3, <1>4, <1>5, <1>6, <1>7, <1>8, <1>9 DEF Step

(* A step of one call leaves the slots of the others alone.                *)
LEMMA OtherSlots ==
    ASSUME TypeOK, NEW c \in Call, Step(c), NEW d \in Call, d /= c
    PROVE  pc'[d] = pc[d] /\ once'[d] = once[d] /\ given'[d] = given[d] /\ released'[d] = released[d]
  <1>1. CASE \/ AcquireProhibited(c) \/ AcquireCall(c) \/ SemAcquire(c)
             \/ Grant(c) \/ SleepOn(c) \/ Wake(c) \/ WaitFails(c)
    BY <1>1 DEF AcquireProhibited, AcquireCall, SemAcquire, Grant, GrantNow, SleepOn, Wake,
                WaitFails, TypeOK, permits, slots
  <1>2. ASSUME NEW t \in Thread, Release(c, t) \/ ReleaseOnceCheck(c, t) \/ ReleaseOnceGive(c, t)
        PROVE  pc'[d] = pc[d] /\ once'[d] = once[d] /\ given'[d] = given[d] /\ released'[d] = released[d]
    BY <1>2 DEF Release, ReleaseOnceCheck, ReleaseOnceGive, TypeOK, permits
  <1>3. ASSUME NEW raises \in BOOLEAN, ExitBody(c, raises)
        PROVE  pc'[d] = pc[d] /\ once'[d] = once[d] /\ given'[d] = given[d] /\ released'[d] = released[d]
    BY <1>3 DEF ExitBody, TypeOK
  <1>4. CASE MarkReported(c) \/ ReportSuccess(c) \/ ReportThrottled(c)
    BY <1>4 DEF MarkReported, ReportSuccess, ReportThrottled, Reported, slots
  <1> QED
    BY <1>1, <1>2, <1>3, <1>4 DEF Step

SlotInv ==
    /\ \A c \in Call : SlotOf(c)
    /\ IsFiniteSet(Holding) /\ sem \in Nat
    /\ SlotsConserved

(* At first every slot is free.                                            *)
LEMMA SlotInit == Init => SlotInv
  <1> SUFFICES ASSUME Init
               PROVE  SlotInv
    OBVIOUS
  <1>1. \A c \in Call : SlotOf(c)
    BY DEF Init, SlotOf, Thread
  <1>2. Holding = {}
    BY DEF Init, Holding
  <1>3. IsFiniteSet(Holding) /\ Cardinality(Holding) = 0
    BY <1>2, FS_EmptySet
  <1>4. sem = MaxConcurrency /\ sem \in Nat
    BY AimdAssumption DEF Init
  <1> QED
    BY <1>1, <1>3, <1>4 DEF SlotInv, SlotsConserved

(* The free slots and the calls that own one add up after every step.      *)
LEMMA SlotNext ==
    ASSUME OwnerOnly
    PROVE  TypeOK /\ SlotInv /\ [Next]_vars => SlotInv'
  <1> SUFFICES ASSUME TypeOK, SlotInv, [Next]_vars
               PROVE  SlotInv'
    OBVIOUS
  <1>1. CASE UNCHANGED <<sem, pc, once, given, released>>
    <2>1. Holding' = Holding
      BY <1>1 DEF Holding
    <2>2. \A c \in Call : SlotOf(c)'
      BY <1>1 DEF SlotInv, SlotOf
    <2> QED
      BY <1>1, <2>1, <2>2 DEF SlotInv, SlotsConserved
  <1>2. ASSUME NEW c \in Call, Step(c)
        PROVE  SlotInv'
    <2>1. SlotOf(c)' /\ (Kept(c) \/ Taken(c) \/ GivenBack(c))
      BY <1>2, SlotStep DEF SlotInv
    <2>2. ASSUME NEW d \in Call, d /= c
          PROVE  SlotOf(d)' /\ (Holds(d)' <=> Holds(d))
      <3>1. pc'[d] = pc[d] /\ once'[d] = once[d] /\ given'[d] = given[d] /\ released'[d] = released[d]
        BY <1>2, <2>2, OtherSlots
      <3>2. SlotOf(d)
        BY DEF SlotInv
      <3> QED
        BY <3>1, <3>2 DEF SlotOf, Holds
    <2>3. \A d \in Call : SlotOf(d)'
      BY <2>1, <2>2
    <2>4. Holding = {d \in Call : Holds(d)} /\ Holding' = {d \in Call : Holds(d)'}
      BY DEF Holding, Holds
    <2>5. /\ IsFiniteSet(Holding) /\ Cardinality(Holding) \in Nat /\ sem \in Nat
          /\ sem + Cardinality(Holding) = MaxConcurrency /\ MaxConcurrency \in Nat
      BY FS_CardinalityType, AimdAssumption DEF SlotInv, SlotsConserved
    <2>6. CASE Kept(c)
      <3>1. Holding' = Holding /\ sem' = sem
        BY <2>2, <2>4, <2>6 DEF Kept
      <3> QED
        BY <2>3, <2>5, <3>1 DEF SlotInv, SlotsConserved
    <2>7. CASE Taken(c)
      <3>1. Holding' = Holding \cup {c} /\ c \notin Holding /\ sem > 0 /\ sem' = sem - 1
        BY <2>2, <2>4, <2>7 DEF Taken
      <3>2. IsFiniteSet(Holding') /\ Cardinality(Holding') = Cardinality(Holding) + 1
        BY <2>5, <3>1, FS_AddElement
      <3> QED
        BY <2>3, <2>5, <3>1, <3>2 DEF SlotInv, SlotsConserved
    <2>8. CASE GivenBack(c)
      <3>1. /\ Holding' = Holding \ {c} /\ c \in Holding
            /\ sem' = IF sem < MaxConcurrency THEN sem + 1 ELSE sem
        BY <2>2, <2>4, <2>8 DEF GivenBack
      <3>2. IsFiniteSet(Holding') /\ Cardinality(Holding') = Cardinality(Holding) - 1
        BY <2>5, <3>1, FS_RemoveElement
      <3>3. Cardinality(Holding') \in Nat
        BY <3>2, FS_CardinalityType
      <3> QED
        BY <2>3, <2>5, <3>1, <3>2, <3>3 DEF SlotInv, SlotsConserved
    <2> QED
      BY <2>1, <2>6, <2>7, <2>8
  <1>3. CASE UNCHANGED vars \/ Tick
    BY <1>1, <1>3 DEF vars, Tick, permits, slots
  <1> QED
    BY <1>2, <1>3 DEF Next

(* Every slot that is taken is given back exactly once, however many calls *)
(* there are and on every way out of a block, as long as no other thread   *)
(* releases the permit.                                                    *)
THEOREM SlotsCorrect ==
    ASSUME OwnerOnly
    PROVE  Spec => []SlotsConserved
  <1>1. TypeOK /\ SlotInv /\ [Next]_vars => SlotInv'
    BY SlotNext
  <1>2. SlotInv => SlotsConserved
    BY DEF SlotInv
  <1> QED
    BY <1>1, <1>2, SlotInit, TypeCorrect, PTL DEF Spec
=============================================================================
