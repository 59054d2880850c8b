-------------------------- MODULE ModelCall_proofs --------------------------
(***************************************************************************)
(* The token budget for any number of callers, any cap and any usage: how  *)
(* far estimate_charge and charge, two calls with a model call in between, *)
(* can let the total exceed the cap; and that the total follows the usage  *)
(* events of the outbox, which takes the sum over the callers between the  *)
(* two halves of charge; and that no answer is charged twice, by the sum   *)
(* over those that have an answer to charge.                               *)
(***************************************************************************)
EXTENDS ModelCall, FiniteSetTheorems, NaturalsInduction, WellFoundedInduction, TLAPS

-----------------------------------------------------------------------------
(* Products, one fact each.                                                *)
LEMMA ProductGrows ==
    ASSUME NEW m \in Nat, NEW a \in Nat, NEW b \in Nat, a <= b
    PROVE  m * a <= m * b /\ m * a \in Nat /\ m * b \in Nat
  OBVIOUS

(* One factor less is one summand less.                                    *)
LEMMA ProductLess ==
    ASSUME NEW m \in Nat, NEW a \in Nat \ {0}
    PROVE  m * (a - 1) = m * a - m
  OBVIOUS

(* Calls in flight are counted among the callers.                          *)
LEMMA InFlightFinite ==
    /\ IsFiniteSet(InFlight)
    /\ Cardinality(InFlight) \in Nat /\ Cardinality(Caller) \in Nat
    /\ Cardinality(InFlight) <= Cardinality(Caller)
  BY ModelCallAssumption, FS_Subset, FS_CardinalityType DEF InFlight

-----------------------------------------------------------------------------
(* Types.                                                                  *)
LEMMA TypeInit == Init => TypeOK
  <1>1. 0 \in Amount
    BY ModelCallAssumption DEF Amount
  <1> QED
    BY <1>1 DEF Init, TypeOK, Pcs

(* Leaving a call keeps the types.                                         *)
LEMMA TypeLeave ==
    ASSUME TypeOK, NEW c \in Caller, Leave(c)
    PROVE  /\ pc' \in [Caller -> Pcs] /\ attempt' \in [Caller -> Nat]
           /\ usage' \in [Caller -> Amount] /\ parsed' \in [Caller -> BOOLEAN]
  <1>1. 0 \in Amount
    BY ModelCallAssumption DEF Amount
  <1> QED
    BY <1>1 DEF TypeOK, Leave, Pcs

(* Every step keeps the types.                                             *)
LEMMA TypeNext == TypeOK /\ [Next]_vars => TypeOK'
  <1> SUFFICES ASSUME TypeOK, [Next]_vars
               PROVE  TypeOK'
    OBVIOUS
  <1>2. CASE UNCHANGED vars
    BY <1>2 DEF TypeOK, vars, callVars
  <1>3. ASSUME NEW c \in Caller, Step(c)
        PROVE  TypeOK'
    <2>1. CASE Estimate(c)
      <3>1. pc' \in [Caller -> Pcs] /\ calls' \in [Caller -> Nat] /\ attempt' \in [Caller -> Nat]
        BY <2>1 DEF TypeOK, Estimate, Pcs
      <3>3. UNCHANGED <<usage, parsed, total, recorded, billed>>
        BY <2>1 DEF Estimate
      <3> QED
        BY <3>1, <3>3 DEF TypeOK
    <2>2. CASE RetryableFailure(c)
      <3>1. CASE attempt[c] < MaxAttempts
        BY <2>2, <3>1 DEF TypeOK, RetryableFailure
      <3>2. CASE ~(attempt[c] < MaxAttempts)
        BY <2>2, <3>2, TypeLeave DEF TypeOK, RetryableFailure
      <3> QED
        BY <3>1, <3>2
    <2>3. CASE FatalFailure(c)
      BY <2>3, TypeLeave DEF TypeOK, FatalFailure
    <2>4. CASE Answer(c)
      <3>2. billed' \in Nat
        BY <2>4, ModelCallAssumption DEF Answer, Amount, TypeOK
      <3>3. /\ pc' \in [Caller -> Pcs] /\ attempt' \in [Caller -> Nat]
            /\ usage' \in [Caller -> Amount] /\ parsed' \in [Caller -> BOOLEAN]
        <4>1. CASE Leave(c)
          BY <4>1, TypeLeave
        <4>2. ASSUME NEW u \in Amount, NEW p \in BOOLEAN,
                     usage' = [usage EXCEPT ![c] = u], parsed' = [parsed EXCEPT ![c] = p],
                     pc' = [pc EXCEPT ![c] = "persist"], UNCHANGED attempt
              PROVE  <3>3
          BY <4>2 DEF TypeOK, Pcs
        <4> QED
          BY <2>4, <4>1, <4>2 DEF Answer
      <3> QED
        BY <2>4, <3>2, <3>3 DEF Answer, TypeOK
    <2>5. CASE Persist(c)
      <3>2. CASE Leave(c)
        BY <2>5, <3>2, TypeLeave DEF TypeOK, Persist
      <3>3. CASE pc' = [pc EXCEPT ![c] = "charge"] /\ UNCHANGED <<attempt, usage, parsed>>
        BY <2>5, <3>3 DEF TypeOK, Persist, Pcs
      <3> QED
        BY <2>5, <3>2, <3>3 DEF Persist
    <2>6. CASE ChargeRecord(c)
      BY <2>6, ModelCallAssumption DEF TypeOK, ChargeRecord, Amount, Pcs
    <2>7. CASE ChargeFails(c)
      BY <2>7, TypeLeave DEF TypeOK, ChargeFails
    <2>8. CASE ChargeTotal(c)
      <3>1. total' \in Nat
        BY <2>8, ModelCallAssumption DEF TypeOK, ChargeTotal, Amount
      <3> QED
        BY <2>8, <3>1, TypeLeave DEF TypeOK, ChargeTotal
    <2> QED
      BY <1>3, <2>1, <2>2, <2>3, <2>4, <2>5, <2>6, <2>7, <2>8 DEF Step, Charge
  <1> QED
    BY <1>2, <1>3 DEF Next

(* Every state of every set of calls is well typed.                        *)
THEOREM TypeCorrect == Spec => []TypeOK
  BY TypeInit, TypeNext, PTL DEF Spec
-----------------------------------------------------------------------------
(* Each call in flight may still add one answer to the total; a caller is  *)
(* let in only below the cap.                                              *)
RoomForInFlight ==
    total + MaxUsage * Cardinality(InFlight) <= Cap + MaxUsage * Cardinality(Caller)

(* At first nothing is charged and nobody is in flight.                    *)
LEMMA RoomInit == Init => RoomForInFlight
  <1> SUFFICES ASSUME Init
               PROVE  RoomForInFlight
    OBVIOUS
  <1>1. InFlight = {}
    BY DEF Init, InFlight
  <1>2. Cardinality(InFlight) = 0
    BY <1>1, FS_EmptySet
  <1>3. MaxUsage * Cardinality(Caller) \in Nat
    BY InFlightFinite, ProductGrows, ModelCallAssumption
  <1>4. MaxUsage * 0 = 0
    BY ModelCallAssumption
  <1> QED
    BY <1>2, <1>3, <1>4, ModelCallAssumption DEF RoomForInFlight, Init

(* A step that adds nothing to the total and lets nobody in.               *)
LEMMA RoomKept ==
    ASSUME TypeOK, RoomForInFlight, total' = total, InFlight' \subseteq InFlight
    PROVE  RoomForInFlight'
  <1>1. Cardinality(InFlight') \in Nat /\ Cardinality(InFlight') <= Cardinality(InFlight)
    BY InFlightFinite, FS_Subset, FS_CardinalityType
  <1>2. /\ MaxUsage * Cardinality(InFlight') <= MaxUsage * Cardinality(InFlight)
        /\ MaxUsage * Cardinality(InFlight') \in Nat /\ MaxUsage * Cardinality(InFlight) \in Nat
    BY <1>1, InFlightFinite, ProductGrows, ModelCallAssumption
  <1>3. MaxUsage * Cardinality(Caller) \in Nat
    BY InFlightFinite, ProductGrows, ModelCallAssumption
  <1>4. total \in Nat /\ Cap \in Nat
    BY ModelCallAssumption DEF TypeOK
  <1> QED
    BY <1>2, <1>3, <1>4 DEF RoomForInFlight

(* estimate_charge lets a caller in while the total is below the cap.      *)
LEMMA RoomEstimate ==
    ASSUME TypeOK, NEW c \in Caller, Estimate(c)
    PROVE  RoomForInFlight'
  <1>1. PICK est \in Estimates : total + est <= Cap
    BY DEF Estimate, WithinCap
  <1>2. total <= Cap /\ total \in Nat /\ Cap \in Nat
    BY <1>1, ModelCallAssumption DEF TypeOK
  <1>3. InFlight' \subseteq Caller
    BY DEF InFlight
  <1>4. Cardinality(InFlight') \in Nat /\ Cardinality(InFlight') <= Cardinality(Caller)
    BY <1>3, ModelCallAssumption, FS_Subset, FS_CardinalityType
  <1>5. /\ MaxUsage * Cardinality(InFlight') <= MaxUsage * Cardinality(Caller)
        /\ MaxUsage * Cardinality(InFlight') \in Nat /\ MaxUsage * Cardinality(Caller) \in Nat
    BY <1>4, InFlightFinite, ProductGrows, ModelCallAssumption
  <1>6. total' = total
    BY DEF Estimate
  <1> QED
    BY <1>2, <1>5, <1>6 DEF RoomForInFlight

(* charge uses up the room its own call kept.                              *)
LEMMA RoomCharge ==
    ASSUME TypeOK, RoomForInFlight, NEW c \in Caller, ChargeTotal(c)
    PROVE  RoomForInFlight'
  <1>1. c \in InFlight /\ InFlight' = InFlight \ {c}
    BY DEF TypeOK, ChargeTotal, Leave, InFlight
  <1>2. Cardinality(InFlight') = Cardinality(InFlight) - 1
    BY <1>1, InFlightFinite, FS_RemoveElement
  <1>3. Cardinality(InFlight) \in Nat \ {0}
    BY <1>1, InFlightFinite, FS_EmptySet
  <1>4. MaxUsage * Cardinality(InFlight') = MaxUsage * Cardinality(InFlight) - MaxUsage
    BY <1>2, <1>3, ProductLess, ModelCallAssumption
  <1>5. MaxUsage * Cardinality(InFlight) \in Nat /\ MaxUsage * Cardinality(Caller) \in Nat
    BY InFlightFinite, ProductGrows, ModelCallAssumption
  <1>6. total' = total + usage[c] /\ usage[c] \in Nat /\ usage[c] <= MaxUsage /\ total \in Nat
    BY ModelCallAssumption DEF ChargeTotal, TypeOK, Amount
  <1>7. MaxUsage \in Nat /\ Cap \in Nat
    BY ModelCallAssumption
  <1> QED
    BY <1>4, <1>5, <1>6, <1>7 DEF RoomForInFlight

(* A call begins only within the cap, and adds at most its one answer.     *)
LEMMA RoomNext == TypeOK /\ RoomForInFlight /\ [Next]_vars => RoomForInFlight'
  <1> SUFFICES ASSUME TypeOK, RoomForInFlight, [Next]_vars
               PROVE  RoomForInFlight'
    OBVIOUS
  <1>1. CASE UNCHANGED vars
    <2>1. total' = total /\ InFlight' \subseteq InFlight
      BY <1>1 DEF vars, callVars, InFlight
    <2> QED
      BY <2>1, RoomKept
  <1>2. ASSUME NEW c \in Caller, Step(c)
        PROVE  RoomForInFlight'
    <2>1. CASE Estimate(c)
      BY <2>1, RoomEstimate
    <2>2. CASE ChargeTotal(c)
      BY <2>2, RoomCharge
    <2>3. CASE \/ RetryableFailure(c) \/ FatalFailure(c) \/ Answer(c)
               \/ Persist(c) \/ ChargeRecord(c) \/ ChargeFails(c)
      <3>1. total' = total
        BY <2>3 DEF RetryableFailure, FatalFailure, Answer, Persist, ChargeRecord, ChargeFails
      <3>2. pc[c] /= "idle"
        BY <2>3 DEF RetryableFailure, FatalFailure, Answer, Persist, ChargeRecord, ChargeFails
      <3>3. \A d \in Caller \ {c} : pc'[d] = pc[d]
        BY <2>3 DEF TypeOK, RetryableFailure, FatalFailure, Answer, Persist, ChargeRecord, ChargeFails, Leave
      <3>4. InFlight' \subseteq InFlight
        BY <3>2, <3>3 DEF InFlight
      <3> QED
        BY <3>1, <3>4, RoomKept
    <2> QED
      BY <1>2, <2>1, <2>2, <2>3 DEF Step, Charge
  <1> QED
    BY <1>1, <1>2 DEF Next

(* No more callers are in flight than there are.                           *)
LEMMA RoomImpliesBound == TypeOK /\ RoomForInFlight => OvershootBounded
  <1>1. MaxUsage * Cardinality(InFlight) \in Nat /\ MaxUsage * Cardinality(Caller) \in Nat
    BY InFlightFinite, ProductGrows, ModelCallAssumption
  <1> QED
    BY <1>1, ModelCallAssumption DEF RoomForInFlight, OvershootBounded, TypeOK

(* However many callers overtake each other between estimate_charge and    *)
(* charge, the total exceeds the cap by at most one answer for each.       *)
THEOREM OvershootCorrect == Spec => []OvershootBounded
  BY TypeInit, TypeNext, RoomInit, RoomNext, RoomImpliesBound, PTL DEF Spec

-----------------------------------------------------------------------------
(* Sums over the callers.                                                  *)

(* A set of numbers that is not empty has a least member.                  *)
LEMMA LeastNumber ==
    ASSUME NEW N, N \subseteq Nat, N # {}
    PROVE  \E n \in N : \A m \in N : n <= m
  <1> DEFINE R == OpToRel(<, Nat)
  <1>1. PICK n \in N : \A m \in N : <<m, n>> \notin R
    BY NatLessThanWellFounded, WFMin
  <1>2. \A m \in Nat, k \in Nat : m < k => <<m, k>> \in R
    BY DEF OpToRel
  <1>3. \A m \in N : n <= m
    <2>. HIDE DEF R
    <2>. TAKE m \in N
    <2>1. m \in Nat /\ n \in Nat
      OBVIOUS
    <2>2. ~(m < n)
      BY <1>1, <1>2, <2>1
    <2>. QED BY <2>1, <2>2
  <1> QED BY <1>3

(* Induction over the numbers up to k, for a set of numbers.               *)
LEMMA UpTo ==
    ASSUME NEW k \in Nat, NEW P, 0 \in P, \A n \in 1 .. k : n - 1 \in P => n \in P
    PROVE  \A n \in 0 .. k : n \in P
  <1> DEFINE N == {n \in 0 .. k : n \notin P}
  <1> SUFFICES ASSUME N # {} PROVE FALSE
    OBVIOUS
  <1>1. N \subseteq Nat
    OBVIOUS
  <1>2. PICK n \in N : \A m \in N : n <= m
    <2>. HIDE DEF N
    <2>. QED BY <1>1, LeastNumber
  <1>3. n \in 1 .. k /\ n - 1 \in 0 .. k /\ ~(n <= n - 1)
    OBVIOUS
  <1>4. n - 1 \in P
    BY <1>2, <1>3
  <1> QED BY <1>3, <1>4

(* The sum over a set, as MapThenSumSet computes it: some member of the    *)
(* set, then what is left. SumLoop says that g is that loop for f on the   *)
(* sets in D.                                                              *)
Pick(s) == CHOOSE x \in s : TRUE
SumLoop(g, f, D) ==
    g = [s \in D |-> IF s = {} THEN 0 ELSE f[Pick(s)] + g[s \ {Pick(s)}]]

(* The member chosen is one.                                               *)
LEMMA PickIn == \A s : s # {} => Pick(s) \in s
  BY Zenon DEF Pick

(* A sum is what its loop computes.                                        *)
LEMMA SumIs == \A f, S : Sum(f, S) = (CHOOSE g : SumLoop(g, f, SUBSET S))[S]
  BY Zenon DEF Sum, MapThenSumSet, MapThenFoldSet, SumLoop, Pick

(* A subset of a finite set has a size, and one less without a member.     *)
LEMMA SmallerSets ==
    ASSUME NEW S, IsFiniteSet(S), NEW s \in SUBSET S
    PROVE  /\ Cardinality(s) \in Nat /\ Cardinality(s) <= Cardinality(S) /\ Cardinality(S) \in Nat
           /\ Cardinality(s) = 0 <=> s = {}
           /\ \A x \in s : s \ {x} \in SUBSET S /\ Cardinality(s \ {x}) = Cardinality(s) - 1
  <1>1. IsFiniteSet(s) /\ Cardinality(s) <= Cardinality(S)
    BY FS_Subset
  <1>2. Cardinality(s) \in Nat /\ Cardinality(S) \in Nat
    BY <1>1, FS_CardinalityType
  <1>3. Cardinality(s) = 0 <=> s = {}
    BY <1>1, FS_EmptySet
  <1>4. \A x \in s : Cardinality(s \ {x}) = Cardinality(s) - 1
    BY <1>1, FS_RemoveElement
  <1> QED BY <1>1, <1>2, <1>3, <1>4

(* The subsets of at most n members.                                       *)
Level(S, n) == {s \in SUBSET S : Cardinality(s) <= n}

(* The loop is defined for every finite set: by induction over the size of *)
(* the sets it is defined on.                                              *)
LEMMA SumLoopRuns ==
    ASSUME NEW S, IsFiniteSet(S), NEW f
    PROVE  \E g : SumLoop(g, f, SUBSET S)
  <1> DEFINE Runs(m) == \E g : SumLoop(g, f, Level(S, m))
             k == Cardinality(S)
             P == {m \in Nat : Runs(m)}
  <1>0. k \in Nat
    BY FS_CardinalityType
  <1>1. Runs(0)
    <2>1. \A s \in Level(S, 0) : s = {}
      BY SmallerSets DEF Level
    <2>2. SumLoop([s \in Level(S, 0) |-> 0], f, Level(S, 0))
      BY <2>1 DEF SumLoop
    <2>. QED BY <2>2
  <1>2. ASSUME NEW m \in 1 .. k, Runs(m - 1)
        PROVE  Runs(m)
    <2>1. PICK g : SumLoop(g, f, Level(S, m - 1))
      BY <1>2
    <2> DEFINE new == [s \in Level(S, m) |-> IF s = {} THEN 0 ELSE f[Pick(s)] + g[s \ {Pick(s)}]]
    <2>2. \A s \in Level(S, m - 1) : s \in Level(S, m) /\ new[s] = g[s]
      <3>. TAKE s \in Level(S, m - 1)
      <3>1. s \in Level(S, m)
        <4>1. s \in SUBSET S /\ Cardinality(s) <= m - 1 /\ Cardinality(s) \in Nat
          BY SmallerSets DEF Level
        <4>. QED BY <1>0, <4>1 DEF Level
      <3>2. g[s] = IF s = {} THEN 0 ELSE f[Pick(s)] + g[s \ {Pick(s)}]
        BY <2>1 DEF SumLoop
      <3>. QED BY <3>1, <3>2
    <2>3. \A s \in Level(S, m) : s # {} => s \ {Pick(s)} \in Level(S, m - 1)
      <3>. TAKE s \in Level(S, m)
      <3>. HAVE s # {}
      <3>1. s \in SUBSET S /\ Cardinality(s) <= m /\ Cardinality(s) \in Nat /\ Pick(s) \in s
        BY SmallerSets, PickIn DEF Level
      <3>2. s \ {Pick(s)} \in SUBSET S /\ Cardinality(s \ {Pick(s)}) = Cardinality(s) - 1
        BY <3>1, SmallerSets
      <3>. QED BY <1>0, <3>1, <3>2 DEF Level
    <2>4. \A s \in Level(S, m) : new[s] = IF s = {} THEN 0 ELSE f[Pick(s)] + new[s \ {Pick(s)}]
      BY <2>2, <2>3
    <2>5. new = [s \in Level(S, m) |-> new[s]]
      OBVIOUS
    <2>6. SumLoop(new, f, Level(S, m))
      <3>. HIDE DEF new
      <3>. QED BY <2>4, <2>5 DEF SumLoop
    <2>. QED BY <2>6
  <1>3. 0 \in P /\ \A m \in 1 .. k : m - 1 \in P => m \in P
    <2>. HIDE DEF Runs
    <2>. QED BY <1>0, <1>1, <1>2
  <1>4. \A m \in 0 .. k : m \in P
    <2>. HIDE DEF P, k
    <2>. QED BY <1>0, <1>3, UpTo
  <1>5. Runs(k)
    BY <1>0, <1>4
  <1>6. Level(S, k) = SUBSET S
    BY SmallerSets DEF Level
  <1> QED BY <1>5, <1>6

(* A sum of numbers is a number, by induction over the size of the set.    *)
LEMMA SumIsNumber ==
    ASSUME NEW S, IsFiniteSet(S), NEW f, \A x \in S : f[x] \in Nat,
           NEW g, SumLoop(g, f, SUBSET S)
    PROVE  \A s \in SUBSET S : g[s] \in Nat
  <1> DEFINE k == Cardinality(S)
             P == {n \in Nat : \A s \in SUBSET S : Cardinality(s) = n => g[s] \in Nat}
  <1>0. k \in Nat
    BY FS_CardinalityType
  <1>1. \A s \in SUBSET S : g[s] = IF s = {} THEN 0 ELSE f[Pick(s)] + g[s \ {Pick(s)}]
    BY DEF SumLoop
  <1>2. 0 \in P
    <2>1. \A s \in SUBSET S : Cardinality(s) = 0 => s = {}
      BY SmallerSets
    <2>2. g[{}] = 0
      <3>1. {} \in SUBSET S
        OBVIOUS
      <3>. QED BY <1>1, <3>1
    <2>3. \A s \in SUBSET S : Cardinality(s) = 0 => g[s] \in Nat
      <3>. SUFFICES ASSUME NEW s \in SUBSET S, Cardinality(s) = 0 PROVE g[s] \in Nat
        OBVIOUS
      <3>1. s = {}
        BY <2>1
      <3>. QED BY <2>2, <3>1
    <2>. QED BY <2>3
  <1>3. ASSUME NEW n \in 1 .. k, n - 1 \in P
        PROVE  n \in P
    <2>1. ASSUME NEW s \in SUBSET S, Cardinality(s) = n
          PROVE  g[s] \in Nat
      <3>1. s # {} /\ \A x \in s : s \ {x} \in SUBSET S /\ Cardinality(s \ {x}) = n - 1
        BY <2>1, <1>0, SmallerSets
      <3>2. Pick(s) \in s /\ f[Pick(s)] \in Nat
        BY <3>1, PickIn
      <3>3. g[s \ {Pick(s)}] \in Nat
        BY <1>3, <3>1, <3>2
      <3>4. g[s] = f[Pick(s)] + g[s \ {Pick(s)}]
        BY <1>1, <3>1, Zenon
      <3>5. \A a \in Nat, b \in Nat : a + b \in Nat
        OBVIOUS
      <3>. QED BY <3>2, <3>3, <3>4, <3>5, Zenon
    <2>2. n \in Nat
      BY <1>0
    <2>. QED BY <2>1, <2>2
  <1>4. \A n \in 0 .. k : n \in P
    <2>. HIDE DEF P, k
    <2>. QED BY <1>0, <1>2, <1>3, UpTo
  <1>5. \A s \in SUBSET S : Cardinality(s) \in 0 .. k
    BY <1>0, SmallerSets
  <1> QED BY <1>4, <1>5

(* A sum does not depend on the member it takes first: two members can be  *)
(* taken in either order, by induction over the size.                      *)
LEMMA SumAnyOrder ==
    ASSUME NEW S, IsFiniteSet(S), NEW f, \A x \in S : f[x] \in Nat,
           NEW g, SumLoop(g, f, SUBSET S)
    PROVE  \A x \in S : g[S] = f[x] + g[S \ {x}]
  <1> DEFINE Good(s) == \A x \in s : g[s] = f[x] + g[s \ {x}]
             k == Cardinality(S)
             P == {n \in Nat : \A s \in SUBSET S : Cardinality(s) = n => Good(s)}
  <1>0. k \in Nat
    BY FS_CardinalityType
  <1>1. \A s \in SUBSET S : g[s] = IF s = {} THEN 0 ELSE f[Pick(s)] + g[s \ {Pick(s)}]
    BY DEF SumLoop
  <1>2. 0 \in P
    <2>1. \A s \in SUBSET S : Cardinality(s) = 0 => s = {}
      BY SmallerSets
    <2>2. Good({})
      OBVIOUS
    <2>. HIDE DEF Good
    <2>. QED BY <2>1, <2>2
  <1>3. ASSUME NEW n \in 1 .. k, n - 1 \in P
        PROVE  n \in P
    <2>1. ASSUME NEW s \in SUBSET S, Cardinality(s) = n
          PROVE  Good(s)
      <3>1. s # {} /\ \A x \in s : s \ {x} \in SUBSET S /\ Cardinality(s \ {x}) = n - 1
        BY <2>1, <1>0, SmallerSets
      <3>2. \A x \in s : Good(s \ {x})
        <4>. HIDE DEF Good
        <4>. QED BY <1>3, <3>1
      <3>3. PICK y \in s : g[s] = f[y] + g[s \ {y}]
        BY <1>1, <3>1, PickIn
      <3>4. ASSUME NEW x \in s, x # y PROVE g[s] = f[x] + g[s \ {x}]
        <4>1. g[s \ {y}] = f[x] + g[(s \ {y}) \ {x}]
          BY <3>2, <3>4
        <4>2. g[s \ {x}] = f[y] + g[(s \ {x}) \ {y}]
          BY <3>2, <3>4
        <4>3. (s \ {y}) \ {x} = (s \ {x}) \ {y}
          OBVIOUS
        <4>4. f[x] \in Nat /\ f[y] \in Nat /\ (s \ {x}) \ {y} \in SUBSET S
          OBVIOUS
        <4>5. g[(s \ {x}) \ {y}] \in Nat
          BY <4>4, SumIsNumber
        <4>6. \A a \in Nat, b \in Nat, r \in Nat : a + (b + r) = b + (a + r)
          OBVIOUS
        <4>7. g[s] = f[y] + (f[x] + g[(s \ {x}) \ {y}])
          BY <3>3, <4>1, <4>3, Zenon
        <4>8. f[y] + (f[x] + g[(s \ {x}) \ {y}]) = f[x] + (f[y] + g[(s \ {x}) \ {y}])
          BY <4>4, <4>5, <4>6, Zenon
        <4>. QED BY <4>2, <4>7, <4>8, Zenon
      <3>. QED BY <3>3, <3>4
    <2>2. n \in Nat
      BY <1>0
    <2>. HIDE DEF Good
    <2>. QED BY <2>1, <2>2
  <1>4. \A n \in 0 .. k : n \in P
    <2>. HIDE DEF P, k
    <2>. QED BY <1>0, <1>2, <1>3, UpTo
  <1>5. k \in P
    BY <1>0, <1>4
  <1>6. Good(S)
    <2>. HIDE DEF Good
    <2>. QED BY <1>5
  <1> QED BY <1>6

(* Loops that add the same numbers agree, whatever else they are defined   *)
(* on.                                                                     *)
LEMMA SumsAgree ==
    ASSUME NEW S, IsFiniteSet(S), NEW D, NEW E, SUBSET S \subseteq D, SUBSET S \subseteq E,
           NEW f, NEW h, \A x \in S : f[x] = h[x],
           NEW a, SumLoop(a, f, D), NEW b, SumLoop(b, h, E)
    PROVE  a[S] = b[S]
  <1> DEFINE k == Cardinality(S)
             P == {n \in Nat : \A s \in SUBSET S : Cardinality(s) = n => a[s] = b[s]}
  <1>0. k \in Nat
    BY FS_CardinalityType
  <1>1. \A s \in SUBSET S : /\ a[s] = IF s = {} THEN 0 ELSE f[Pick(s)] + a[s \ {Pick(s)}]
                            /\ b[s] = IF s = {} THEN 0 ELSE h[Pick(s)] + b[s \ {Pick(s)}]
    BY DEF SumLoop
  <1>2. 0 \in P
    <2>1. \A s \in SUBSET S : Cardinality(s) = 0 => s = {}
      BY SmallerSets
    <2>. QED BY <1>1, <2>1
  <1>3. ASSUME NEW n \in 1 .. k, n - 1 \in P
        PROVE  n \in P
    <2>1. ASSUME NEW s \in SUBSET S, Cardinality(s) = n
          PROVE  a[s] = b[s]
      <3>1. s # {} /\ \A x \in s : s \ {x} \in SUBSET S /\ Cardinality(s \ {x}) = n - 1
        BY <2>1, <1>0, SmallerSets
      <3>2. Pick(s) \in s /\ f[Pick(s)] = h[Pick(s)]
        BY <3>1, PickIn
      <3>3. a[s \ {Pick(s)}] = b[s \ {Pick(s)}]
        BY <1>3, <3>1, <3>2
      <3>. QED BY <1>1, <3>1, <3>2, <3>3
    <2>2. n \in Nat
      BY <1>0
    <2>. QED BY <2>1, <2>2
  <1>4. \A n \in 0 .. k : n \in P
    <2>. HIDE DEF P, k
    <2>. QED BY <1>0, <1>2, <1>3, UpTo
  <1>5. k \in P
    <2>. HIDE DEF P, k
    <2>. QED BY <1>0, <1>4
  <1> QED BY <1>5

(* The loop behind a sum.                                                  *)
LEMMA SumWith ==
    ASSUME NEW S, IsFiniteSet(S), NEW f
    PROVE  \E g : SumLoop(g, f, SUBSET S) /\ Sum(f, S) = g[S]
  <1> DEFINE g == CHOOSE g : SumLoop(g, f, SUBSET S)
  <1>1. \E h : SumLoop(h, f, SUBSET S)
    BY SumLoopRuns
  <1>2. SumLoop(g, f, SUBSET S)
    BY <1>1, Zenon
  <1>3. Sum(f, S) = g[S]
    BY SumIs, Zenon
  <1>. HIDE DEF g
  <1> QED BY <1>2, <1>3

(* Equal numbers have equal sums.                                          *)
LEMMA SumSame ==
    ASSUME NEW S, IsFiniteSet(S), NEW f, NEW h, \A x \in S : f[x] = h[x]
    PROVE  Sum(f, S) = Sum(h, S)
  <1>1. PICK a : SumLoop(a, f, SUBSET S) /\ Sum(f, S) = a[S]
    BY SumWith
  <1>2. PICK b : SumLoop(b, h, SUBSET S) /\ Sum(h, S) = b[S]
    BY SumWith
  <1>3. a[S] = b[S]
    BY <1>1, <1>2, SumsAgree
  <1> QED BY <1>1, <1>2, <1>3

(* A sum is a number, and any member can be taken out of it.               *)
LEMMA SumRemove ==
    ASSUME NEW S, IsFiniteSet(S), NEW f, \A x \in S : f[x] \in Nat
    PROVE  Sum(f, S) \in Nat /\ \A x \in S : Sum(f, S) = f[x] + Sum(f, S \ {x})
  <1>1. PICK a : SumLoop(a, f, SUBSET S) /\ Sum(f, S) = a[S]
    BY SumWith
  <1>2. S \in SUBSET S
    OBVIOUS
  <1>3. a[S] \in Nat
    <2>1. \A s \in SUBSET S : a[s] \in Nat
      BY <1>1, SumIsNumber
    <2>. QED BY <1>2, <2>1
  <1>4. \A x \in S : a[S] = f[x] + a[S \ {x}]
    BY <1>1, SumAnyOrder
  <1>5. ASSUME NEW x \in S PROVE a[S \ {x}] = Sum(f, S \ {x})
    <2> DEFINE T == S \ {x}
               D == SUBSET S
               E == SUBSET T
    <2>1. IsFiniteSet(T)
      BY FS_Subset
    <2>2. PICK b : SumLoop(b, f, E) /\ Sum(f, T) = b[T]
      BY <2>1, SumWith
    <2>3. SUBSET T \subseteq D /\ SUBSET T \subseteq E
      OBVIOUS
    <2>4. \A y \in T : f[y] = f[y]
      OBVIOUS
    <2>5. SumLoop(a, f, D)
      BY <1>1
    <2>6. a[T] = b[T]
      <3>. HIDE DEF T, D, E
      <3>. QED BY <2>1, <2>2, <2>3, <2>4, <2>5, SumsAgree
    <2>. QED BY <2>2, <2>6
  <1> QED BY <1>1, <1>3, <1>4, <1>5

-----------------------------------------------------------------------------
(* Callers whose charge is in the outbox and not yet in the total.         *)
Charging == {c \in Caller : pc[c] \in {"total"}}

(* There are finitely many of them.                                        *)
LEMMA ChargingFinite ==
    IsFiniteSet(Charging) /\ IsFiniteSet(Charging')
  <1>1. Charging \subseteq Caller /\ Charging' \subseteq Caller
    BY DEF Charging
  <1> QED BY <1>1, ModelCallAssumption, FS_Subset

(* What TotalFollowsOutbox says is missing from the total.                 *)
LEMMA HeldIs ==
    /\ Held({"total"}) = Sum(usage, Charging)
    /\ Held({"total"})' = Sum(usage', Charging')
  BY Zenon DEF Held, Charging

(* A usage is a number.                                                    *)
LEMMA UsageIsNumber ==
    ASSUME TypeOK
    PROVE  \A c \in Caller : usage[c] \in Nat
  <1>1. Amount \subseteq Nat
    BY ModelCallAssumption DEF Amount
  <1> QED BY <1>1 DEF TypeOK

(* At first nothing is recorded and nothing missing.                       *)
LEMMA TotalInit == Init => TotalFollowsOutbox
  <1> SUFFICES ASSUME Init PROVE TotalFollowsOutbox
    OBVIOUS
  <1>1. Charging = {}
    BY DEF Init, Charging
  <1>2. PICK g : SumLoop(g, usage, SUBSET Charging) /\ Sum(usage, Charging) = g[Charging]
    BY ChargingFinite, SumWith
  <1>3. {} \in SUBSET {}
    OBVIOUS
  <1>4. g[{}] = 0
    BY <1>1, <1>2, <1>3 DEF SumLoop
  <1>5. Held({"total"}) = 0
    BY <1>1, <1>2, <1>4, HeldIs, Zenon
  <1> QED BY <1>5 DEF Init, TotalFollowsOutbox

(* A step that touches neither amount nor any pending charge.              *)
LEMMA ElsewhereSame ==
    ASSUME TypeOK, TotalFollowsOutbox, UNCHANGED <<total, recorded>>, Charging' = Charging,
           \A c \in Charging : usage'[c] = usage[c]
    PROVE  TotalFollowsOutbox'
  <1>1. Sum(usage', Charging) = Sum(usage, Charging)
    BY ChargingFinite, SumSame
  <1>2. Held({"total"})' = Held({"total"})
    BY <1>1, HeldIs, Zenon
  <1> QED BY <1>2 DEF TotalFollowsOutbox

(* append_outbox: the caller becomes one whose charge is missing.          *)
LEMMA TotalRecord ==
    ASSUME TypeOK, TotalFollowsOutbox, NEW c \in Caller, ChargeRecord(c)
    PROVE  TotalFollowsOutbox'
  <1>1. Charging' = Charging \cup {c} /\ c \notin Charging
    BY DEF ChargeRecord, Charging, TypeOK
  <1>2. c \in Charging' /\ Charging' \ {c} = Charging /\ Charging' \subseteq Caller
    BY <1>1 DEF Charging
  <1>3. \A d \in Charging' : usage[d] \in Nat
    BY <1>2, UsageIsNumber
  <1>4. Sum(usage, Charging') = usage[c] + Sum(usage, Charging)
    <2>1. Sum(usage, Charging') = usage[c] + Sum(usage, Charging' \ {c})
      BY <1>2, <1>3, ChargingFinite, SumRemove
    <2>. QED BY <1>2, <2>1
  <1>5. Sum(usage, Charging) \in Nat
    <2>1. \A d \in Charging : usage[d] \in Nat
      BY <1>1, <1>3
    <2>. QED BY <2>1, ChargingFinite, SumRemove
  <1>6. usage' = usage /\ recorded' = recorded + usage[c] /\ total' = total
    BY DEF ChargeRecord
  <1>7. Held({"total"})' = usage[c] + Held({"total"})
    BY <1>4, <1>6, HeldIs, Zenon
  <1>8. Held({"total"}) \in Nat /\ usage[c] \in Nat /\ total \in Nat
    BY <1>5, HeldIs, UsageIsNumber DEF TypeOK
  <1> QED BY <1>6, <1>7, <1>8 DEF TotalFollowsOutbox

(* Under the lock: its charge is no longer missing.                        *)
LEMMA TotalTotal ==
    ASSUME TypeOK, TotalFollowsOutbox, NEW c \in Caller, ChargeTotal(c)
    PROVE  TotalFollowsOutbox'
  <1>1. Charging' = Charging \ {c} /\ c \in Charging
    BY DEF ChargeTotal, Leave, Charging, TypeOK
  <1>2. \A d \in Charging : usage[d] \in Nat
    BY UsageIsNumber DEF Charging
  <1>3. Sum(usage, Charging) = usage[c] + Sum(usage, Charging')
    BY <1>1, <1>2, ChargingFinite, SumRemove
  <1>4. Sum(usage, Charging') \in Nat
    <2>1. \A d \in Charging' : usage[d] \in Nat
      BY <1>1, <1>2
    <2>. QED BY <2>1, ChargingFinite, SumRemove
  <1>5. \A d \in Charging' : usage'[d] = usage[d]
    BY <1>1 DEF ChargeTotal, Leave, TypeOK, Charging
  <1>6. Sum(usage', Charging') = Sum(usage, Charging')
    BY <1>5, ChargingFinite, SumSame
  <1>7. Held({"total"}) = usage[c] + Held({"total"})'
    BY <1>3, <1>6, HeldIs, Zenon
  <1>8. Held({"total"})' \in Nat
    BY <1>4, <1>6, HeldIs, Zenon
  <1>9. recorded' = recorded /\ total' = total + usage[c] /\ total \in Nat /\ usage[c] \in Nat
    BY UsageIsNumber DEF ChargeTotal, TypeOK
  <1> QED BY <1>7, <1>8, <1>9 DEF TotalFollowsOutbox

(* Every step keeps the total and the outbox in line.                      *)
LEMMA TotalNext == TypeOK /\ TotalFollowsOutbox /\ [Next]_vars => TotalFollowsOutbox'
  <1> SUFFICES ASSUME TypeOK, TotalFollowsOutbox, [Next]_vars
               PROVE  TotalFollowsOutbox'
    OBVIOUS
  <1>1. CASE UNCHANGED vars
    <2>1. UNCHANGED <<total, recorded>> /\ Charging' = Charging /\ usage' = usage
      BY <1>1 DEF vars, callVars, Charging
    <2>. QED BY <2>1, ElsewhereSame
  <1>2. ASSUME NEW c \in Caller, Step(c)
        PROVE  TotalFollowsOutbox'
    <2>1. CASE ChargeRecord(c)
      BY <2>1, TotalRecord
    <2>2. CASE ChargeTotal(c)
      BY <2>2, TotalTotal
    <2>3. CASE ~ChargeRecord(c) /\ ~ChargeTotal(c)
      <3>1. UNCHANGED <<total, recorded>>
        BY <1>2, <2>3 DEF Step, Charge, Estimate, RetryableFailure, FatalFailure, Answer, Persist, ChargeFails
      <3>2. c \notin Charging /\ c \notin Charging'
        BY <1>2, <2>3 DEF Step, Charge, Charging, TypeOK, Leave, Estimate, RetryableFailure, FatalFailure,
           Answer, Persist, ChargeFails
      <3>3. \A d \in Caller \ {c} : pc'[d] = pc[d] /\ usage'[d] = usage[d]
        BY <1>2, <2>3 DEF Step, Charge, TypeOK, Leave, Estimate, RetryableFailure, FatalFailure,
           Answer, Persist, ChargeFails
      <3>4. Charging' = Charging /\ \A d \in Charging : usage'[d] = usage[d]
        BY <3>2, <3>3 DEF Charging
      <3>. QED BY <3>1, <3>4, ElsewhereSame
    <2>. QED BY <2>1, <2>2, <2>3
  <1> QED BY <1>1, <1>2 DEF Next

(* Whatever fails between the answer and the lock, and however callers     *)
(* overtake each other, the total of the budget is what the outbox holds,  *)
(* less the charges between append_outbox and the lock.                    *)
THEOREM OutboxCorrect == Spec => []TotalFollowsOutbox
  BY TypeInit, TypeNext, TotalInit, TotalNext, PTL DEF Spec

-----------------------------------------------------------------------------
(* Callers with an answer to charge.                                       *)
Uncharged == {c \in Caller : pc[c] \in {"persist", "charge"}}

(* What NoneChargedTwice says is on its way to a usage event.              *)
LEMMA OnTheWayIs ==
    /\ Held({"persist", "charge"}) = Sum(usage, Uncharged)
    /\ Held({"persist", "charge"})' = Sum(usage', Uncharged')
  BY Zenon DEF Held, Uncharged

(* A sum is what one caller adds to the rest.                              *)
LEMMA SumApart ==
    ASSUME NEW S, S \subseteq Caller, NEW f, \A d \in Caller : f[d] \in Nat, NEW c
    PROVE  /\ Sum(f, S \ {c}) \in Nat
           /\ c \in S => Sum(f, S) = f[c] + Sum(f, S \ {c})
           /\ c \notin S => Sum(f, S) = Sum(f, S \ {c})
  <1>1. IsFiniteSet(S) /\ IsFiniteSet(S \ {c})
    BY ModelCallAssumption, FS_Subset
  <1>2. (\A d \in S : f[d] \in Nat) /\ (\A d \in S \ {c} : f[d] \in Nat)
    OBVIOUS
  <1>3. Sum(f, S \ {c}) \in Nat
    BY <1>1, <1>2, SumRemove
  <1>4. c \in S => Sum(f, S) = f[c] + Sum(f, S \ {c})
    BY <1>1, <1>2, SumRemove
  <1>5. c \notin S => S \ {c} = S
    OBVIOUS
  <1> QED BY <1>3, <1>4, <1>5

(* A step of one caller leaves what the others add.                        *)
LEMMA RestSame ==
    ASSUME TypeOK, TypeOK', NEW c \in Caller,
           \A d \in Caller \ {c} : pc'[d] = pc[d] /\ usage'[d] = usage[d]
    PROVE  \E rest \in Nat :
             /\ Held({"persist", "charge"}) = IF c \in Uncharged THEN usage[c] + rest ELSE rest
             /\ Held({"persist", "charge"})' = IF c \in Uncharged' THEN usage'[c] + rest ELSE rest
  <1>1. Uncharged \subseteq Caller /\ Uncharged' \subseteq Caller
    BY DEF Uncharged
  <1>2. Amount \subseteq Nat
    BY ModelCallAssumption DEF Amount
  <1>3. (\A d \in Caller : usage[d] \in Nat) /\ (\A d \in Caller : usage'[d] \in Nat)
    BY <1>2 DEF TypeOK
  <1>4. Uncharged' \ {c} = Uncharged \ {c}
    BY DEF Uncharged
  <1>5. IsFiniteSet(Uncharged \ {c})
    BY <1>1, ModelCallAssumption, FS_Subset
  <1>6. \A d \in Uncharged \ {c} : usage[d] = usage'[d]
    BY <1>1
  <1>7. Sum(usage, Uncharged \ {c}) = Sum(usage', Uncharged \ {c})
    BY <1>5, <1>6, SumSame
  <1>8. /\ Sum(usage, Uncharged \ {c}) \in Nat
        /\ c \in Uncharged => Sum(usage, Uncharged) = usage[c] + Sum(usage, Uncharged \ {c})
        /\ c \notin Uncharged => Sum(usage, Uncharged) = Sum(usage, Uncharged \ {c})
    BY <1>1, <1>3, SumApart
  <1>9. /\ c \in Uncharged' => Sum(usage', Uncharged') = usage'[c] + Sum(usage', Uncharged' \ {c})
        /\ c \notin Uncharged' => Sum(usage', Uncharged') = Sum(usage', Uncharged' \ {c})
    BY <1>1, <1>3, SumApart
  <1>10. PICK rest \in Nat : rest = Sum(usage, Uncharged \ {c})
    BY <1>8
  <1>11. Held({"persist", "charge"}) = IF c \in Uncharged THEN usage[c] + rest ELSE rest
    BY <1>8, <1>10, OnTheWayIs, Zenon
  <1>12. Held({"persist", "charge"})' = IF c \in Uncharged' THEN usage'[c] + rest ELSE rest
    BY <1>4, <1>7, <1>9, <1>10, OnTheWayIs, Zenon
  <1> QED BY <1>11, <1>12

(* At first nothing is charged and nothing on its way.                     *)
LEMMA ChargedInit == Init => NoneChargedTwice
  <1> SUFFICES ASSUME Init PROVE NoneChargedTwice
    OBVIOUS
  <1>1. Uncharged = {} /\ IsFiniteSet(Uncharged)
    BY FS_EmptySet DEF Init, Uncharged
  <1>2. PICK g : SumLoop(g, usage, SUBSET Uncharged) /\ Sum(usage, Uncharged) = g[Uncharged]
    BY <1>1, SumWith
  <1>3. {} \in SUBSET {}
    OBVIOUS
  <1>4. g[{}] = 0
    BY <1>1, <1>2, <1>3 DEF SumLoop
  <1>5. Held({"persist", "charge"}) = 0
    BY <1>1, <1>2, <1>4, OnTheWayIs, Zenon
  <1> QED BY <1>5 DEF Init, NoneChargedTwice

(* What one step adds to the usage events was on its way before.           *)
LEMMA ChargedNext ==
    TypeOK /\ TypeOK' /\ NoneChargedTwice /\ [Next]_vars => NoneChargedTwice'
  <1> SUFFICES ASSUME TypeOK, TypeOK', NoneChargedTwice, [Next]_vars
               PROVE  NoneChargedTwice'
    OBVIOUS
  <1>1. CASE UNCHANGED vars
    <2>1. usage' = usage /\ pc' = pc /\ recorded' = recorded /\ billed' = billed
      BY <1>1 DEF vars, callVars
    <2>2. Uncharged' = Uncharged
      BY <2>1 DEF Uncharged
    <2>3. Held({"persist", "charge"})' = Held({"persist", "charge"})
      BY <2>1, <2>2, OnTheWayIs, Zenon
    <2>. QED BY <2>1, <2>3 DEF NoneChargedTwice
  <1>2. ASSUME NEW c \in Caller, Step(c)
        PROVE  NoneChargedTwice'
    <2>1. \A d \in Caller \ {c} : pc'[d] = pc[d] /\ usage'[d] = usage[d]
      BY <1>2 DEF Step, Charge, TypeOK, Leave, Estimate, RetryableFailure, FatalFailure, Answer,
         Persist, ChargeRecord, ChargeFails, ChargeTotal
    <2>2. PICK rest \in Nat :
             /\ Held({"persist", "charge"}) = IF c \in Uncharged THEN usage[c] + rest ELSE rest
             /\ Held({"persist", "charge"})' = IF c \in Uncharged' THEN usage'[c] + rest ELSE rest
      BY <2>1, RestSame
    <2>3. /\ usage[c] \in Nat /\ usage'[c] \in Nat
          /\ recorded \in Nat /\ billed \in Nat /\ recorded' \in Nat /\ billed' \in Nat
      BY ModelCallAssumption DEF TypeOK, Amount
    <2>4. /\ recorded + (IF c \in Uncharged THEN usage[c] + rest ELSE rest) <= billed
          /\ NoneChargedTwice' <=>
               recorded' + (IF c \in Uncharged' THEN usage'[c] + rest ELSE rest) <= billed'
      BY <2>2, Zenon DEF NoneChargedTwice
    <2>5. CASE Estimate(c) \/ RetryableFailure(c) \/ FatalFailure(c) \/ ChargeTotal(c)
      <3>1. c \notin Uncharged /\ c \notin Uncharged' /\ UNCHANGED <<recorded, billed>>
        BY <2>5 DEF Uncharged, TypeOK, Leave, Estimate, RetryableFailure, FatalFailure, ChargeTotal
      <3>. QED BY <2>3, <2>4, <3>1
    <2>6. CASE Answer(c)
      <3>1. c \notin Uncharged /\ recorded' = recorded
        BY <2>6 DEF Uncharged, Answer
      <3>2. \/ c \notin Uncharged' /\ billed' >= billed
            \/ c \in Uncharged' /\ billed' = billed + usage'[c]
        <4>1. CASE Leave(c) /\ UNCHANGED billed
          BY <2>3, <4>1 DEF Leave, TypeOK, Uncharged
        <4>2. ASSUME NEW u \in Amount, billed' = billed + u, Leave(c)
              PROVE  c \notin Uncharged' /\ billed' >= billed
          BY <2>3, <4>2, ModelCallAssumption DEF Leave, TypeOK, Uncharged, Amount
        <4>3. ASSUME NEW u \in Amount, billed' = billed + u, usage' = [usage EXCEPT ![c] = u],
                     pc' = [pc EXCEPT ![c] = "persist"]
              PROVE  c \in Uncharged' /\ billed' = billed + usage'[c]
          BY <4>3 DEF TypeOK, Uncharged
        <4>. QED BY <2>6, <4>1, <4>2, <4>3 DEF Answer
      <3>. QED BY <2>3, <2>4, <3>1, <3>2
    <2>7. CASE Persist(c) \/ ChargeFails(c)
      <3>1. /\ c \in Uncharged /\ UNCHANGED <<recorded, billed>>
            /\ c \in Uncharged' => usage'[c] = usage[c]
        BY <2>7 DEF Uncharged, TypeOK, Leave, Persist, ChargeFails
      <3>. QED BY <2>3, <2>4, <3>1
    <2>8. CASE ChargeRecord(c)
      <3>1. /\ c \in Uncharged /\ c \notin Uncharged'
            /\ recorded' = recorded + usage[c] /\ billed' = billed
        BY <2>8 DEF Uncharged, TypeOK, ChargeRecord
      <3>. QED BY <2>3, <2>4, <3>1
    <2>. QED BY <1>2, <2>5, <2>6, <2>7, <2>8 DEF Step, Charge
  <1> QED BY <1>1, <1>2 DEF Next

(* Whatever is sent again and whatever fails, the usage events never come  *)
(* to more than the answers, for any number of callers.                    *)
THEOREM ChargedOnceCorrect == Spec => []NoneChargedTwice
  BY TypeInit, TypeNext, ChargedInit, ChargedNext, PTL DEF Spec
=============================================================================
