------------------------- MODULE WorkerPool_proofs --------------------------
(***************************************************************************)
(* Both worker pools settle every lease of a work item that is leased once *)
(* exactly once, and the log of the first run says so, for any number of   *)
(* workers, any work and any deaths of workers.                            *)
(***************************************************************************)
EXTENDS WorkerPool, SequenceTheorems, FiniteSetTheorems, WellFoundedInduction, TLAPS

Lease == [ref : WorkItem, worker : Worker, run : Nat, time : Nat]
Outcome == [ref : WorkItem, ok : BOOLEAN]

TypeInv ==
    /\ kind \in {"sync", "process"}
    /\ queue \in Seq(WorkItem)
    /\ given \in Seq(Lease)
    /\ released \in Seq(Nat) /\ Len(released) = Len(given)
    /\ events \in Seq(Nat) /\ \A e \in 1 .. Len(events) : events[e] \in 1 .. Len(given)
    /\ runs \in Nat /\ count \in Nat /\ next \in Worker
    /\ input \in Seq(WorkItem \cup {Sentinel}) /\ output \in Seq(Outcome)
    /\ doing \in [Worker -> WorkItem \cup Status]

(* The leases of a run are the last ones given, and a run that has not     *)
(* begun has logged nothing.                                               *)
RunInv ==
    /\ \A n \in 1 .. Len(given) : given[n].run \in 1 .. runs
    /\ \E b \in 0 .. Len(given) : Pending = b + 1 .. Len(given)
    /\ runs = 0 => phase = "done" /\ events = <<>>

(* In the first run the log grows with the count, so no event is refused:  *)
(* a lease of it has as many events as releases.                           *)
EventsOf(log, n) == {e \in 1 .. Len(log) : log[e] = n}
LogInv ==
    /\ runs = 1 => Len(events) = count
    /\ \A n \in 1 .. Len(given) : given[n].run = 1 => Cardinality(EventsOf(events, n)) = released[n]

(* WorkerPool: only the lease in hand, or the one a run failed with, is    *)
(* not released; a lease it takes for one it knows is of a repeated item.  *)
SyncInv ==
    /\ phase \in {"done", "turn", "work", "failed"}
    /\ doing = [w \in Worker |-> "exited"]
    /\ \A id \in processed : \E m \in 1 .. Len(given) : id[1] = given[m].ref
    /\ phase = "work" => given # <<>> /\ given[Len(given)].run = runs /\ released[Len(given)] = 0
    /\ \A n \in 1 .. Len(given) : LeasedOnce(n) =>
            /\ released[n] \in {0, 1}
            /\ released[n] = 0 => phase = "failed" \/ (phase = "work" /\ n = Len(given))

(* MultiprocessWorkerPool: where the work items of a run are while the     *)
(* parent collects.                                                        *)
InInput(r) == \E i \in 1 .. Len(input) : input[i] = r
InHand(r) == \E w \in Worker : doing[w] = r
InOutput(r) == \E i \in 1 .. Len(output) : output[i].ref = r
InTransit(r) == InInput(r) \/ InHand(r) \/ InOutput(r)

Travels(r) == \E n \in Pending : given[n].ref = r
OnlyPending ==
    /\ \A i \in 1 .. Len(input) : input[i] # Sentinel => Travels(input[i])
    /\ \A w \in Worker : doing[w] \notin Status => Travels(doing[w])
    /\ \A i \in 1 .. Len(output) : Travels(output[i].ref)

(* A work item that is leased once is in one place at most, and nowhere    *)
(* once its outcome is collected.                                          *)
AtOnePlace(r) ==
    /\ \A i, j \in 1 .. Len(input) : input[i] = r /\ input[j] = r => i = j
    /\ \A v, w \in Worker : doing[v] = r /\ doing[w] = r => v = w
    /\ \A i, j \in 1 .. Len(output) : output[i].ref = r /\ output[j].ref = r => i = j
    /\ ~(InInput(r) /\ InHand(r)) /\ ~(InInput(r) /\ InOutput(r)) /\ ~(InHand(r) /\ InOutput(r))
OncePlaced ==
    \A n \in Pending : LeasedOnce(n) =>
        AtOnePlace(given[n].ref) /\ (released[n] = 1 => ~InTransit(given[n].ref))

(* The outcomes collected, and those that can still come, are no more than *)
(* the leases, and fewer once a work item is lost with its worker.         *)
Others(s, x) == {i \in 1 .. Len(s) : s[i] # x}
Held == {w \in Worker : doing[w] \notin Status}
Coming == count + Len(output) + Cardinality(Held) + Cardinality(Others(input, Sentinel))
Lost(n) == LeasedOnce(n) /\ released[n] = 0 /\ ~InTransit(given[n].ref)
Conserved ==
    /\ Coming <= Cardinality(Pending)
    /\ (\E n \in Pending : Lost(n)) => Coming < Cardinality(Pending)

Transit == OnlyPending /\ OncePlaced /\ Conserved

ProcInv ==
    /\ phase \in {"done", "drain", "collect", "join", "failed"}
    /\ phase = "drain" => count = 0 /\ \A n \in Pending : released[n] = 0
    /\ phase = "collect" => Transit
    /\ \A n \in 1 .. Len(given) : LeasedOnce(n) =>
            /\ released[n] \in {0, 1}
            /\ released[n] = 0 => n \in Pending /\ phase \in {"drain", "collect", "failed"}

PoolInv ==
    /\ TypeInv /\ RunInv /\ LogInv
    /\ kind = "sync" => SyncInv
    /\ kind = "process" => ProcInv
-----------------------------------------------------------------------------
(* A work item is none of the words the model uses for the lack of one.    *)
LEMMA ItemIsNoWord ==
    ASSUME NEW r \in WorkItem PROVE r \notin Status /\ r # Sentinel
  BY DEF WorkItem

(* The workers are finitely many.                                          *)
LEMMA WorkerFinite == IsFiniteSet(Worker)
  BY PoolAssumption, FS_Interval DEF Worker

(* Max finds an element of a set of numbers with a bound, by the least     *)
(* number principle on the distances to the bound.                         *)
LEMMA MaxIsIn ==
    ASSUME NEW b \in Nat, NEW S, S \subseteq 1 .. b, S # {} PROVE Max(S) \in S
  <1> DEFINE T == {b - n : n \in S}
             R == OpToRel(<, Nat)
  <1>0. \A n \in S : n \in Nat /\ b - n \in Nat
    OBVIOUS
  <1>1. T \subseteq Nat /\ T # {}
    <2>1. T \subseteq Nat
      BY <1>0
    <2>2. PICK n \in S : TRUE
      OBVIOUS
    <2>3. b - n \in T
      OBVIOUS
    <2>. QED BY <2>1, <2>3
  <1>2. PICK t \in T : \A u \in T : <<u, t>> \notin R
    <2>. HIDE DEF T
    <2>. QED BY <1>1, NatLessThanWellFounded, WFMin
  <1>3. \A u, v \in Nat : u < v => <<u, v>> \in R
    BY DEF OpToRel
  <1>4. \A u \in T : u >= t
    <2>. TAKE u \in T
    <2>. HIDE DEF T, R
    <2>1. u \in Nat /\ t \in Nat
      BY <1>1
    <2>2. ~(u < t)
      BY <1>2, <1>3, <2>1
    <2>. QED BY <2>1, <2>2
  <1>5. PICK n \in S : t = b - n
    OBVIOUS
  <1>6. \A m \in S : n >= m
    <2>. TAKE m \in S
    <2>1. b - m \in T
      OBVIOUS
    <2>. QED BY <1>4, <1>5, <2>1
  <1>. QED BY <1>6 DEF Max

(* Tail takes one of the elements that are not x, if the head is one.      *)
LEMMA OthersFinite ==
    ASSUME NEW S, NEW s \in Seq(S), NEW x PROVE IsFiniteSet(Others(s, x))
  <1>1. Others(s, x) \in SUBSET (1 .. Len(s)) /\ IsFiniteSet(1 .. Len(s))
    BY FS_Interval DEF Others
  <1>. QED BY <1>1, FS_Subset

(* Tail takes one of the elements that are not x, if the head is one.      *)
LEMMA OthersOfTail ==
    ASSUME NEW S, NEW s \in Seq(S), s # <<>>, NEW x
    PROVE  Cardinality(Others(s, x)) = Cardinality(Others(Tail(s), x)) + (IF s[1] # x THEN 1 ELSE 0)
  <1> DEFINE f == [i \in Others(Tail(s), x) |-> i + 1]
             rest == Others(s, x) \ {1}
  <1>1. /\ Tail(s) \in Seq(S) /\ Len(Tail(s)) = Len(s) - 1 /\ Len(s) \in Nat /\ Len(s) > 0
        /\ \A i \in 1 .. Len(s) - 1 : Tail(s)[i] = s[i + 1]
    OBVIOUS
  <1>2. f \in [Others(Tail(s), x) -> rest]
    BY <1>1 DEF Others
  <1>3. \A i, j \in Others(Tail(s), x) : f[i] = f[j] => i = j
    BY <1>1 DEF Others
  <1>4. \A k \in rest : \E i \in Others(Tail(s), x) : f[i] = k
    <2>. TAKE k \in rest
    <2>1. k - 1 \in Others(Tail(s), x) /\ f[k - 1] = k
      BY <1>1 DEF Others
    <2>. QED BY <2>1
  <1>5. ExistsBijection(Others(Tail(s), x), rest)
    <2>. HIDE DEF f, rest
    <2>. QED BY <1>2, <1>3, <1>4 DEF ExistsBijection, Bijection, Injection, Surjection, IsInjective
  <1>6. Cardinality(rest) = Cardinality(Others(Tail(s), x))
    BY <1>1, <1>5, OthersFinite, FS_Bijection
  <1>7. /\ Cardinality(rest) = IF 1 \in Others(s, x) THEN Cardinality(Others(s, x)) - 1 ELSE Cardinality(Others(s, x))
        /\ Cardinality(Others(s, x)) \in Nat
    BY OthersFinite, FS_RemoveElement, FS_CardinalityType
  <1>8. 1 \in Others(s, x) <=> s[1] # x
    BY <1>1 DEF Others
  <1>. QED BY <1>6, <1>7, <1>8

(* An event more is one more of its lease, and no more of the others.      *)
LEMMA EventMore ==
    ASSUME NEW log \in Seq(Nat), NEW m \in Nat, NEW n \in Nat
    PROVE  /\ Cardinality(EventsOf(log, n)) \in Nat
           /\ Cardinality(EventsOf(Append(log, m), n)) =
                IF m = n THEN Cardinality(EventsOf(log, n)) + 1 ELSE Cardinality(EventsOf(log, n))
  <1>1. EventsOf(log, n) \in SUBSET (1 .. Len(log)) /\ IsFiniteSet(1 .. Len(log))
    BY FS_Interval DEF EventsOf
  <1>2. IsFiniteSet(EventsOf(log, n)) /\ Len(log) + 1 \notin EventsOf(log, n)
    BY <1>1, FS_Subset DEF EventsOf
  <1>3. EventsOf(Append(log, m), n) = IF m = n THEN EventsOf(log, n) \cup {Len(log) + 1} ELSE EventsOf(log, n)
    BY DEF EventsOf
  <1>. QED BY <1>2, <1>3, FS_AddElement, FS_CardinalityType

-----------------------------------------------------------------------------
(* The leases stay as they are: so do the ones that are pending, and those *)
(* whose work item is leased once.                                         *)
LEMMA SameLeases ==
    ASSUME given' = given, runs' = runs
    PROVE  /\ Pending' = Pending
           /\ \A n : LeasedOnce(n)' = LeasedOnce(n)
  BY DEF Pending, LeasedOnce

(* The pending leases are the last ones given.                             *)
LEMMA PendingFacts ==
    ASSUME TypeInv, RunInv
    PROVE  /\ Pending = {n \in 1 .. Len(given) : given[n].run = runs}
           /\ IsFiniteSet(Pending) /\ Cardinality(Pending) \in Nat
           /\ Cardinality(Pending) \in 0 .. Len(given)
           /\ Pending = Len(given) - Cardinality(Pending) + 1 .. Len(given)
  <1>1. Pending = {n \in 1 .. Len(given) : given[n].run = runs}
    BY DEF Pending, TypeInv
  <1>2. PICK b \in 0 .. Len(given) : Pending = b + 1 .. Len(given)
    BY DEF RunInv
  <1>3. Len(given) \in Nat
    BY DEF TypeInv
  <1>4. /\ IsFiniteSet(b + 1 .. Len(given))
        /\ Cardinality(b + 1 .. Len(given)) = IF b + 1 > Len(given) THEN 0 ELSE Len(given) - (b + 1) + 1
    <2>1. b + 1 \in Int /\ Len(given) \in Int
      BY <1>3
    <2>. QED BY <2>1, FS_Interval
  <1>5. Cardinality(Pending) = Len(given) - b
    BY <1>2, <1>3, <1>4
  <1>6. Cardinality(Pending) \in 0 .. Len(given) /\ Len(given) - Cardinality(Pending) = b
    BY <1>3, <1>5
  <1>7. IsFiniteSet(Pending) /\ Pending = Len(given) - Cardinality(Pending) + 1 .. Len(given)
    BY <1>2, <1>4, <1>6
  <1>. QED BY <1>1, <1>3, <1>6, <1>7

(* acquire adds a lease at the end, of the current run and not released.   *)
LeaseAdded ==
    /\ queue' \in Seq(WorkItem)
    /\ given' \in Seq(Lease) /\ Len(given') = Len(given) + 1
    /\ \A n \in 1 .. Len(given) : given'[n] = given[n]
    /\ given'[Len(given) + 1].run = runs
    /\ given'[Len(given) + 1].ref = Head(queue)
    /\ IdOf(given'[Len(given')])[1] = Head(queue)
    /\ released' \in Seq(Nat) /\ Len(released') = Len(given) + 1
    /\ \A n \in 1 .. Len(given) : released'[n] = released[n]
    /\ released'[Len(given) + 1] = 0

(* acquire does that.                                                      *)
LEMMA AcquireFacts ==
    ASSUME TypeInv, NEW w \in Worker, AcquireLease(w) PROVE LeaseAdded
  <1> DEFINE l == [ref |-> Head(queue), worker |-> w, run |-> runs,
                   time |-> IF frozen THEN 0 ELSE Len(given)]
  <1>1. queue # <<>> /\ queue' = Tail(queue) /\ given' = Append(given, l) /\ released' = Append(released, 0)
    BY DEF AcquireLease
  <1>2. Head(queue) \in WorkItem /\ queue' \in Seq(WorkItem)
    BY <1>1 DEF TypeInv
  <1>3. l \in Lease /\ l.run = runs /\ l.ref = Head(queue)
    BY <1>2 DEF TypeInv, Lease
  <1>4. IdOf(l)[1] = l.ref
    BY DEF IdOf
  <1>5. /\ given' \in Seq(Lease) /\ Len(given') = Len(given) + 1
        /\ \A n \in 1 .. Len(given) : given'[n] = given[n]
        /\ given'[Len(given) + 1] = l
    <2>. HIDE DEF l
    <2>. QED BY <1>1, <1>3 DEF TypeInv
  <1>6. /\ released' \in Seq(Nat) /\ Len(released') = Len(given) + 1
        /\ \A n \in 1 .. Len(given) : released'[n] = released[n]
        /\ released'[Len(given) + 1] = 0
    BY <1>1 DEF TypeInv
  <1>. HIDE DEF l
  <1>. QED BY <1>2, <1>3, <1>4, <1>5, <1>6 DEF LeaseAdded

(* A new lease joins the pending ones; it can only end that an item is     *)
(* leased once.                                                            *)
LEMMA AcquireKeeps ==
    ASSUME TypeInv, RunInv, LogInv, runs # 0, LeaseAdded,
           events' = events, runs' = runs, count' = count
    PROVE  /\ RunInv' /\ LogInv'
           /\ Pending' = Pending \cup {Len(given) + 1}
           /\ \A n \in 1 .. Len(given) : LeasedOnce(n)' => LeasedOnce(n)
           /\ \A n \in 1 .. Len(given) : \A k : given[n].ref = Head(queue) /\ k = Len(given) + 1 => ~LeasedOnce(k)'
  <1>1. /\ Len(given) \in Nat /\ runs \in Nat /\ Len(given') = Len(given) + 1
        /\ DOMAIN given = 1 .. Len(given) /\ DOMAIN given' = 1 .. Len(given) + 1
    BY DEF TypeInv, LeaseAdded
  <1>2. \A n \in 1 .. Len(given') : n \in 1 .. Len(given) \/ n = Len(given) + 1
    BY <1>1
  <1>3. Pending' = Pending \cup {Len(given) + 1}
    BY <1>1 DEF Pending, LeaseAdded
  <1>4. RunInv'
    <2>1. PICK b \in 0 .. Len(given) : Pending = b + 1 .. Len(given)
      BY DEF RunInv
    <2>2. Pending' = b + 1 .. Len(given')
      BY <1>1, <1>3, <2>1
    <2>3. b \in 0 .. Len(given')
      BY <1>1
    <2>4. \A n \in 1 .. Len(given') : given'[n].run \in 1 .. runs'
      <3>1. \A n \in 1 .. Len(given) : given[n].run \in 1 .. runs
        BY DEF RunInv
      <3>. QED BY <1>1, <1>2, <3>1 DEF LeaseAdded
    <2>. QED BY <2>2, <2>3, <2>4 DEF RunInv
  <1>5. LogInv'
    <2>1. EventsOf(events, Len(given) + 1) = {}
      BY <1>1 DEF EventsOf, TypeInv
    <2>2. Cardinality(EventsOf(events', Len(given) + 1)) = released'[Len(given) + 1]
      BY <2>1, FS_EmptySet DEF LeaseAdded
    <2>3. \A n \in 1 .. Len(given) : given'[n].run = 1 => Cardinality(EventsOf(events', n)) = released'[n]
      BY DEF LogInv, LeaseAdded
    <2>4. \A n \in 1 .. Len(given') : given'[n].run = 1 => Cardinality(EventsOf(events', n)) = released'[n]
      BY <1>2, <2>2, <2>3
    <2>. QED BY <2>4 DEF LogInv
  <1>6. \A n \in 1 .. Len(given) : LeasedOnce(n)' => LeasedOnce(n)
    BY <1>1 DEF LeasedOnce, LeaseAdded
  <1>7. ASSUME NEW n \in 1 .. Len(given), NEW k, given[n].ref = Head(queue), k = Len(given) + 1
        PROVE  ~LeasedOnce(k)'
    <2>1. n \in DOMAIN given' \ {k} /\ given'[n] = given[n]
      BY <1>1, <1>7 DEF LeaseAdded
    <2>2. given'[n].ref = given'[k].ref
      BY <1>7, <2>1 DEF LeaseAdded
    <2>. QED BY <2>1, <2>2 DEF LeasedOnce
  <1>. QED BY <1>3, <1>4, <1>5, <1>6, <1>7

(* An outcome releases its lease once more and, in the first run, is       *)
(* logged; the leases themselves stay as they are.                         *)
LEMMA SettleFacts ==
    ASSUME TypeInv, RunInv, LogInv, runs' = runs,
           NEW n \in 1 .. Len(given), given[n].run = runs,
           NEW ok, NEW then, Settle(n, ok, then)
    PROVE  /\ queue' = queue /\ given' = given /\ count' = count + 1
           /\ released' \in Seq(Nat) /\ Len(released') = Len(given)
           /\ \A m \in 1 .. Len(given) : released'[m] = IF m = n THEN released[m] + 1 ELSE released[m]
           /\ events' \in Seq(Nat) /\ \A e \in 1 .. Len(events') : events'[e] \in 1 .. Len(given)
           /\ phase' \in {then, "failed"}
           /\ RunInv' /\ LogInv'
  <1>1. /\ released' = [released EXCEPT ![n] = @ + 1] /\ queue' = queue /\ given' = given
        /\ count' = count + 1 /\ phase' \in {then, "failed"}
        /\ events' = IF count + 1 = Len(events) + 1 THEN Append(events, n) ELSE events
    BY DEF Settle, ReleaseLease, NextInLog
  <1>2. Len(given) \in Nat /\ n \in Nat /\ runs # 0 /\ runs \in Nat /\ count \in Nat /\ Len(events) \in Nat
    <2>1. given[n].run \in 1 .. runs
      BY DEF RunInv
    <2>. QED BY <2>1 DEF TypeInv
  <1>3. /\ released' \in Seq(Nat) /\ Len(released') = Len(given)
        /\ \A m \in 1 .. Len(given) : released'[m] = IF m = n THEN released[m] + 1 ELSE released[m]
    <2>1. released \in [1 .. Len(given) -> Nat]
      BY DEF TypeInv
    <2>2. released' \in Seq(Nat) /\ Len(released') = Len(given)
      BY <1>1, ExceptSeq DEF TypeInv
    <2>. QED BY <1>1, <2>1, <2>2
  <1>4. events' \in Seq(Nat) /\ \A e \in 1 .. Len(events') : events'[e] \in 1 .. Len(given)
    <2>1. /\ Append(events, n) \in Seq(Nat) /\ Len(Append(events, n)) = Len(events) + 1
          /\ \A e \in 1 .. Len(events) : Append(events, n)[e] = events[e]
          /\ Append(events, n)[Len(events) + 1] = n
      BY <1>2 DEF TypeInv
    <2>2. \A e \in 1 .. Len(events) + 1 : e \in 1 .. Len(events) \/ e = Len(events) + 1
      BY <1>2
    <2>3. \A e \in 1 .. Len(events) : events[e] \in 1 .. Len(given)
      BY DEF TypeInv
    <2>4. CASE events' = Append(events, n)
      BY <2>1, <2>2, <2>3, <2>4
    <2>5. CASE events' = events
      BY <2>5 DEF TypeInv
    <2>. QED BY <1>1, <2>4, <2>5
  <1>5. RunInv'
    <2>1. Pending' = Pending
      BY <1>1, SameLeases
    <2>. QED BY <1>1, <1>2, <2>1 DEF RunInv
  <1>6. LogInv'
    <2>1. runs = 1 => Len(events) = count /\ events' = Append(events, n)
      BY <1>1, <1>2 DEF LogInv
    <2>2. runs = 1 => Len(events') = count'
      BY <1>1, <1>2, <2>1 DEF TypeInv
    <2>3. ASSUME NEW m \in 1 .. Len(given), given[m].run = 1
          PROVE  Cardinality(EventsOf(events', m)) = released'[m]
      <3>1. Cardinality(EventsOf(events, m)) = released[m] /\ m \in Nat /\ events \in Seq(Nat)
        BY <1>2, <2>3 DEF LogInv, TypeInv
      <3>2. events' = Append(events, n) => Cardinality(EventsOf(events', m)) = IF n = m THEN released[m] + 1 ELSE released[m]
        <4>1. Cardinality(EventsOf(Append(events, n), m)) =
                IF n = m THEN Cardinality(EventsOf(events, m)) + 1 ELSE Cardinality(EventsOf(events, m))
          <5>1. n \in Nat
            BY <1>2
          <5>. QED BY <3>1, <5>1, EventMore, Zenon
        <4>. QED BY <3>1, <4>1
      <3>3. m = n => events' = Append(events, n)
        BY <2>1, <2>3
      <3>. QED BY <1>1, <1>3, <3>1, <3>2, <3>3
    <2>. QED BY <1>1, <2>2, <2>3 DEF LogInv
  <1>. QED BY <1>1, <1>3, <1>4, <1>5, <1>6

-----------------------------------------------------------------------------
(* Init establishes the invariant.                                         *)
LEMMA InitPool == Init => PoolInv
  <1>. SUFFICES ASSUME Init PROVE PoolInv
    OBVIOUS
  <1>1. TypeInv
    <2>1. 0 \in Worker
      BY PoolAssumption DEF Worker
    <2>2. doing \in [Worker -> WorkItem \cup Status]
      BY DEF Init, Status
    <2>. QED BY <2>1, <2>2 DEF Init, TypeInv
  <1>2. RunInv
    <2>1. given = <<>> /\ Len(given) = 0 /\ runs = 0 /\ phase = "done" /\ events = <<>>
      BY DEF Init
    <2>2. Pending = 0 + 1 .. Len(given) /\ 0 \in 0 .. Len(given)
      BY <2>1 DEF Pending
    <2>. QED BY <2>1, <2>2 DEF RunInv
  <1>3. LogInv
    BY DEF Init, LogInv
  <1>4. SyncInv
    BY DEF Init, SyncInv
  <1>5. ProcInv
    BY DEF Init, ProcInv
  <1>. QED BY <1>1, <1>2, <1>3, <1>4, <1>5 DEF PoolInv

(* A new run starts when every lease of the earlier ones is settled.       *)
LEMMA RunStep == ASSUME PoolInv, Run PROVE PoolInv'
  <1>0. TypeInv /\ RunInv /\ LogInv /\ runs \in Nat /\ Len(given) \in Nat
    BY DEF PoolInv, TypeInv
  <1>1. /\ phase = "done" /\ runs' = runs + 1 /\ count' = 0 /\ next' = 0 /\ kind' = kind
        /\ given' = given /\ released' = released /\ events' = events /\ processed' = processed
        /\ input' = input /\ output' = output /\ doing' = doing
        /\ phase' = IF kind = "sync" THEN "turn" ELSE "drain"
    BY DEF Run, procs
  <1>2. queue' \in Seq(WorkItem)
    <2>1. PICK work \in WorkLists : queue' = queue \o work
      BY DEF Run
    <2>2. work \in Seq(WorkItem) /\ queue \in Seq(WorkItem)
      BY <1>0, PoolAssumption DEF TypeInv
    <2>. QED BY <2>1, <2>2
  <1>3. TypeInv'
    <2>1. 0 \in Worker
      BY PoolAssumption DEF Worker
    <2>. QED BY <1>0, <1>1, <1>2, <2>1 DEF TypeInv
  <1>4. Pending' = {}
    BY <1>0, <1>1 DEF Pending, RunInv, TypeInv
  <1>5. RunInv'
    <2>1. Pending' = Len(given') + 1 .. Len(given') /\ Len(given') \in 0 .. Len(given')
      BY <1>0, <1>1, <1>4
    <2>2. \A n \in 1 .. Len(given') : given'[n].run \in 1 .. runs'
      BY <1>0, <1>1 DEF RunInv
    <2>. QED BY <1>0, <1>1, <2>1, <2>2 DEF RunInv
  <1>6. LogInv'
    BY <1>0, <1>1 DEF RunInv, LogInv
  <1>7. \A n \in 1 .. Len(given) : LeasedOnce(n)' => LeasedOnce(n)
    BY <1>1 DEF LeasedOnce
  <1>8. kind' = "sync" => SyncInv'
    BY <1>1, <1>7 DEF SyncInv, PoolInv
  <1>9. kind' = "process" => ProcInv'
    BY <1>1, <1>4, <1>7 DEF ProcInv, PoolInv
  <1>. QED BY <1>3, <1>5, <1>6, <1>8, <1>9 DEF PoolInv

(* WorkerPool is the pool whose run is at a turn or at work.               *)
LEMMA SyncPhase ==
    ASSUME PoolInv, phase \in {"turn", "work"} PROVE kind = "sync" /\ SyncInv /\ runs # 0
  BY DEF PoolInv, TypeInv, ProcInv, RunInv

(* The turn goes round the workers.                                        *)
LEMMA NextWorker == ASSUME NEW n \in Worker PROVE (n + 1) % WorkerCount \in Worker
  BY PoolAssumption DEF Worker

(* A turn without a lease changes no lease.                                *)
LEMMA TurnWithoutStep == ASSUME PoolInv, TurnWithout PROVE PoolInv'
  <1>1. /\ phase = "turn" /\ phase' \in {"turn", "done"} /\ next' = (next + 1) % WorkerCount
        /\ kind' = kind /\ queue' = queue /\ given' = given /\ released' = released
        /\ events' = events /\ runs' = runs /\ processed' = processed /\ count' = count
        /\ input' = input /\ output' = output /\ doing' = doing
    BY DEF TurnWithout, TurnOver, port, procs
  <1>2. kind = "sync" /\ SyncInv /\ runs # 0
    BY <1>1, SyncPhase
  <1>3. TypeInv'
    BY <1>1, NextWorker DEF PoolInv, TypeInv
  <1>4. Pending' = Pending /\ \A n : LeasedOnce(n)' = LeasedOnce(n)
    BY <1>1, SameLeases
  <1>5. RunInv' /\ LogInv'
    BY <1>1, <1>2, <1>4 DEF PoolInv, RunInv, LogInv
  <1>6. SyncInv'
    BY <1>1, <1>2, <1>4 DEF SyncInv
  <1>. QED BY <1>1, <1>2, <1>3, <1>5, <1>6 DEF PoolInv

(* A lease known by its id is of an item that was leased before.           *)
LEMMA TurnAcquiresStep == ASSUME PoolInv, TurnAcquires PROVE PoolInv'
  <1>0. TypeInv /\ RunInv /\ LogInv /\ next \in Worker /\ Len(given) \in Nat
    BY DEF PoolInv, TypeInv
  <1>1. /\ phase = "turn" /\ AcquireLease(next)
        /\ kind' = kind /\ events' = events /\ runs' = runs /\ count' = count
        /\ input' = input /\ output' = output /\ doing' = doing
    BY DEF TurnAcquires, procs
  <1>2. kind = "sync" /\ SyncInv /\ runs # 0
    BY <1>1, SyncPhase
  <1>3. LeaseAdded
    BY <1>0, <1>1, AcquireFacts
  <1>4. /\ RunInv' /\ LogInv'
        /\ \A n \in 1 .. Len(given) : LeasedOnce(n)' => LeasedOnce(n)
        /\ \A n \in 1 .. Len(given) : \A k : given[n].ref = Head(queue) /\ k = Len(given) + 1 => ~LeasedOnce(k)'
    BY <1>0, <1>1, <1>2, <1>3, AcquireKeeps
  <1> DEFINE id == IdOf(given'[Len(given')])
  <1>5. \/ id \in processed /\ processed' = processed /\ phase' \in {"turn", "done"} /\ next' = (next + 1) % WorkerCount
        \/ id \notin processed /\ processed' = processed \cup {id} /\ phase' = "work" /\ next' = next
    BY DEF TurnAcquires, TurnOver
  <1>6. TypeInv'
    <2>1. next' \in Worker
      BY <1>0, <1>5, NextWorker
    <2>2. \A e \in 1 .. Len(events) : events[e] \in 1 .. Len(given) + 1
      BY <1>0 DEF TypeInv
    <2>. QED BY <1>0, <1>1, <1>3, <2>1, <2>2 DEF TypeInv, LeaseAdded
  <1>7. /\ Len(given') = Len(given) + 1 /\ id[1] = Head(queue)
        /\ \A n \in 1 .. Len(given') : n \in 1 .. Len(given) \/ n = Len(given) + 1
        /\ \A n \in 1 .. Len(given) : n \in 1 .. Len(given')
        /\ Len(given) + 1 \in 1 .. Len(given')
    BY <1>0, <1>3 DEF LeaseAdded
  <1>. HIDE DEF id
  <1>8. \A m \in processed' : \E k \in 1 .. Len(given') : m[1] = given'[k].ref
    <2>. TAKE m \in processed'
    <2>1. CASE m \in processed
      <3>1. PICK k \in 1 .. Len(given) : m[1] = given[k].ref
        BY <1>2, <2>1 DEF SyncInv
      <3>. QED BY <1>3, <1>7, <3>1 DEF LeaseAdded
    <2>2. CASE m = id
      BY <1>3, <1>7, <2>2 DEF LeaseAdded
    <2>. QED BY <1>5, <2>1, <2>2
  <1>9. ASSUME NEW n \in 1 .. Len(given'), LeasedOnce(n)'
        PROVE  released'[n] \in {0, 1} /\ (released'[n] = 0 => phase' = "work" /\ n = Len(given'))
    <2>1. CASE n \in 1 .. Len(given)
      BY <1>1, <1>2, <1>3, <1>4, <1>9, <2>1 DEF SyncInv, LeaseAdded
    <2>2. CASE n = Len(given) + 1
      <3>1. id \notin processed
        <4>. SUFFICES ASSUME id \in processed PROVE FALSE
          OBVIOUS
        <4>1. PICK k \in 1 .. Len(given) : id[1] = given[k].ref
          BY <1>2 DEF SyncInv
        <4>. QED BY <1>4, <1>7, <1>9, <2>2, <4>1
      <3>. QED BY <1>3, <1>5, <1>7, <2>2, <3>1 DEF LeaseAdded
    <2>. QED BY <1>7, <2>1, <2>2
  <1>10. SyncInv'
    <2>1. phase' \in {"done", "turn", "work", "failed"} /\ doing' = [w \in Worker |-> "exited"]
      BY <1>1, <1>2, <1>5 DEF SyncInv
    <2>2. given' # <<>> /\ given'[Len(given')].run = runs' /\ released'[Len(given')] = 0
      BY <1>0, <1>1, <1>3, <1>7 DEF LeaseAdded
    <2>. QED BY <1>8, <1>9, <2>1, <2>2 DEF SyncInv
  <1>. QED BY <1>1, <1>2, <1>4, <1>6, <1>10 DEF PoolInv

(* The lease in hand is released once.                                     *)
LEMMA TurnWorksStep == ASSUME PoolInv, TurnWorks PROVE PoolInv'
  <1>0. TypeInv /\ RunInv /\ LogInv /\ next \in Worker /\ Len(given) \in Nat
    BY DEF PoolInv, TypeInv
  <1>1. /\ phase = "work" /\ next' = (next + 1) % WorkerCount
        /\ kind' = kind /\ runs' = runs /\ processed' = processed
        /\ input' = input /\ output' = output /\ doing' = doing
    BY DEF TurnWorks, procs
  <1>2. kind = "sync" /\ SyncInv /\ runs # 0
    BY <1>1, SyncPhase
  <1>3. PICK ok \in BOOLEAN : Settle(Len(given), ok, "turn")
    BY DEF TurnWorks
  <1>4. Len(given) \in 1 .. Len(given) /\ given[Len(given)].run = runs /\ released[Len(given)] = 0
    BY <1>0, <1>1, <1>2 DEF SyncInv, TypeInv
  <1>5. /\ queue' = queue /\ given' = given /\ count' = count + 1
        /\ released' \in Seq(Nat) /\ Len(released') = Len(given)
        /\ \A m \in 1 .. Len(given) : released'[m] = IF m = Len(given) THEN released[m] + 1 ELSE released[m]
        /\ events' \in Seq(Nat) /\ \A e \in 1 .. Len(events') : events'[e] \in 1 .. Len(given)
        /\ phase' \in {"turn", "failed"}
        /\ RunInv' /\ LogInv'
    BY <1>0, <1>1, <1>3, <1>4, SettleFacts
  <1>6. TypeInv'
    BY <1>0, <1>1, <1>5, NextWorker DEF TypeInv
  <1>7. \A n : LeasedOnce(n)' = LeasedOnce(n)
    BY <1>1, <1>5, SameLeases
  <1>8. SyncInv'
    <2>1. ASSUME NEW n \in 1 .. Len(given), LeasedOnce(n) PROVE released'[n] = 1
      <3>1. n = Len(given) => released'[n] = 1
        BY <1>4, <1>5
      <3>2. n # Len(given) => released'[n] = released[n] /\ released[n] \in {0, 1} /\ released[n] # 0
        BY <1>1, <1>2, <1>5, <2>1 DEF SyncInv
      <3>. QED BY <3>1, <3>2
    <2>2. \A n \in 1 .. Len(given') : LeasedOnce(n)' =>
            released'[n] \in {0, 1} /\ (released'[n] = 0 => phase' = "failed" \/ (phase' = "work" /\ n = Len(given')))
      BY <1>5, <1>7, <2>1
    <2>3. \A id \in processed' : \E m \in 1 .. Len(given') : id[1] = given'[m].ref
      BY <1>1, <1>2, <1>5 DEF SyncInv
    <2>4. doing' = [w \in Worker |-> "exited"]
      BY <1>1, <1>2 DEF SyncInv
    <2>. QED BY <1>5, <2>2, <2>3, <2>4 DEF SyncInv
  <1>. QED BY <1>1, <1>2, <1>5, <1>6, <1>8 DEF PoolInv

(* An exception leaves the lease in hand behind, and ends the run.         *)
LEMMA TurnRaisesStep == ASSUME PoolInv, TurnRaises PROVE PoolInv'
  <1>1. /\ phase = "work" /\ phase' = "failed" /\ next' = next
        /\ kind' = kind /\ queue' = queue /\ given' = given /\ released' = released
        /\ events' = events /\ runs' = runs /\ processed' = processed /\ count' = count
        /\ input' = input /\ output' = output /\ doing' = doing
    BY DEF TurnRaises, port, sync, procs
  <1>2. kind = "sync" /\ SyncInv /\ runs # 0
    BY <1>1, SyncPhase
  <1>3. TypeInv'
    BY <1>1 DEF PoolInv, TypeInv
  <1>4. Pending' = Pending /\ \A n : LeasedOnce(n)' = LeasedOnce(n)
    BY <1>1, SameLeases
  <1>5. RunInv' /\ LogInv'
    BY <1>1, <1>2, <1>4 DEF PoolInv, RunInv, LogInv
  <1>6. SyncInv'
    BY <1>1, <1>2, <1>4 DEF SyncInv
  <1>. QED BY <1>1, <1>2, <1>3, <1>5, <1>6 DEF PoolInv

-----------------------------------------------------------------------------
(* MultiprocessWorkerPool is the pool whose run drains, collects or joins. *)
LEMMA ProcPhase ==
    ASSUME PoolInv, phase \in {"drain", "collect", "join"} PROVE kind = "process" /\ ProcInv /\ runs # 0
  BY DEF PoolInv, TypeInv, SyncInv, RunInv

(* A lease drained before dispatch is pending and not released.            *)
LEMMA DrainStep == ASSUME PoolInv, Drain PROVE PoolInv'
  <1>0. TypeInv /\ RunInv /\ LogInv /\ Len(given) \in Nat
    BY DEF PoolInv, TypeInv
  <1>1. /\ phase = "drain" /\ phase' = phase /\ next' = next
        /\ kind' = kind /\ events' = events /\ runs' = runs /\ count' = count
        /\ input' = input /\ output' = output /\ doing' = doing
        /\ AcquireLease(Cardinality(Pending) % WorkerCount)
    BY DEF Drain, sync, procs
  <1>2. kind = "process" /\ ProcInv /\ runs # 0
    BY <1>1, ProcPhase
  <1>3. Cardinality(Pending) % WorkerCount \in Worker
    BY <1>0, PendingFacts, PoolAssumption DEF Worker
  <1>4. LeaseAdded
    BY <1>0, <1>1, <1>3, AcquireFacts
  <1>5. /\ RunInv' /\ LogInv'
        /\ Pending' = Pending \cup {Len(given) + 1}
        /\ \A n \in 1 .. Len(given) : LeasedOnce(n)' => LeasedOnce(n)
    BY <1>0, <1>1, <1>2, <1>4, AcquireKeeps
  <1>6. TypeInv'
    <2>1. \A e \in 1 .. Len(events) : events[e] \in 1 .. Len(given) + 1
      BY <1>0 DEF TypeInv
    <2>. QED BY <1>0, <1>1, <1>4, <2>1 DEF TypeInv, LeaseAdded
  <1>7. \A n \in Pending : n \in 1 .. Len(given)
    BY <1>0, PendingFacts
  <1>8. \A n \in 1 .. Len(given') : n \in 1 .. Len(given) \/ n = Len(given) + 1
    BY <1>0, <1>4 DEF LeaseAdded
  <1>9. ProcInv'
    <2>1. count' = 0 /\ \A n \in Pending' : released'[n] = 0
      BY <1>1, <1>2, <1>4, <1>5, <1>7 DEF ProcInv, LeaseAdded
    <2>2. ASSUME NEW n \in 1 .. Len(given'), LeasedOnce(n)'
          PROVE  released'[n] \in {0, 1} /\ (released'[n] = 0 => n \in Pending')
      <3>1. CASE n \in 1 .. Len(given)
        BY <1>2, <1>4, <1>5, <2>2, <3>1 DEF ProcInv, LeaseAdded
      <3>2. CASE n = Len(given) + 1
        BY <1>4, <1>5, <3>2 DEF LeaseAdded
      <3>. QED BY <1>8, <3>1, <3>2
    <2>. QED BY <1>1, <2>1, <2>2 DEF ProcInv
  <1>. QED BY <1>1, <1>2, <1>5, <1>6, <1>9 DEF PoolInv

(* The parent joins when every outcome is collected.                       *)
LEMMA JoinStep == ASSUME PoolInv, Join PROVE PoolInv'
  <1>1. /\ phase = "join" /\ phase' = "done" /\ next' = next
        /\ kind' = kind /\ queue' = queue /\ given' = given /\ released' = released
        /\ events' = events /\ runs' = runs /\ count' = count
        /\ input' = <<>> /\ output' = output /\ doing' = [w \in Worker |-> "exited"]
    BY DEF Join, port, sync
  <1>2. kind = "process" /\ ProcInv /\ runs # 0
    BY <1>1, ProcPhase
  <1>3. TypeInv'
    <2>1. doing' \in [Worker -> WorkItem \cup Status] /\ input' \in Seq(WorkItem \cup {Sentinel})
      BY <1>1 DEF Status
    <2>. QED BY <1>1, <2>1 DEF PoolInv, TypeInv
  <1>4. Pending' = Pending /\ \A n : LeasedOnce(n)' = LeasedOnce(n)
    BY <1>1, SameLeases
  <1>5. RunInv' /\ LogInv'
    BY <1>1, <1>2, <1>4 DEF PoolInv, RunInv, LogInv
  <1>6. ProcInv'
    BY <1>1, <1>2, <1>4 DEF ProcInv
  <1>. QED BY <1>1, <1>2, <1>3, <1>5, <1>6 DEF PoolInv

(* An outcome that cannot be read ends the run with its lease unreleased.  *)
LEMMA CollectRaisesStep == ASSUME PoolInv, CollectRaises PROVE PoolInv'
  <1>1. /\ phase = "collect" /\ phase' = "failed" /\ next' = next
        /\ kind' = kind /\ queue' = queue /\ given' = given /\ released' = released
        /\ events' = events /\ runs' = runs /\ count' = count
        /\ input' = input /\ output # <<>> /\ output' = Tail(output) /\ doing' = doing
    BY DEF CollectRaises, port, sync
  <1>2. kind = "process" /\ ProcInv /\ runs # 0
    BY <1>1, ProcPhase
  <1>3. TypeInv'
    <2>1. output' \in Seq(Outcome)
      BY <1>1 DEF PoolInv, TypeInv
    <2>. QED BY <1>1, <2>1 DEF PoolInv, TypeInv
  <1>4. Pending' = Pending /\ \A n : LeasedOnce(n)' = LeasedOnce(n)
    BY <1>1, SameLeases
  <1>5. RunInv' /\ LogInv'
    BY <1>1, <1>2, <1>4 DEF PoolInv, RunInv, LogInv
  <1>6. ProcInv'
    BY <1>1, <1>2, <1>4 DEF ProcInv
  <1>. QED BY <1>1, <1>2, <1>3, <1>5, <1>6 DEF PoolInv

(* The last k elements of a sequence, and two sequences in a row.          *)
LEMMA LastPart ==
    ASSUME NEW S, NEW s \in Seq(S), NEW b \in Nat, NEW k \in Nat, Len(s) = b + k
    PROVE  /\ SubSeq(s, b + 1, Len(s)) \in Seq(S) /\ Len(SubSeq(s, b + 1, Len(s))) = k
           /\ \A i \in 1 .. k : SubSeq(s, b + 1, Len(s))[i] = s[b + i]
  <1>1. \A i \in b + 1 .. Len(s) : s[i] \in S
    OBVIOUS
  <1>2. Len(SubSeq(s, b + 1, Len(s))) = k
    OBVIOUS
  <1>3. \A i \in 1 .. k : SubSeq(s, b + 1, Len(s))[i] = s[b + i]
    OBVIOUS
  <1>4. SubSeq(s, b + 1, Len(s)) \in Seq(S)
    BY <1>1, SubSeqProperties
  <1>. QED BY <1>2, <1>3, <1>4

(* Two sequences in a row.                                                 *)
LEMMA InARow ==
    ASSUME NEW S, NEW s \in Seq(S), NEW t \in Seq(S)
    PROVE  /\ s \o t \in Seq(S) /\ Len(s \o t) = Len(s) + Len(t)
           /\ \A i \in 1 .. Len(s) : (s \o t)[i] = s[i]
           /\ \A i \in Len(s) + 1 .. Len(s) + Len(t) : (s \o t)[i] = t[i - Len(s)]
  OBVIOUS

(* The input queue begins with one entry for each pending lease, in order, *)
(* and ends with a sentinel for each worker.                               *)
LEMMA DispatchedInput ==
    ASSUME TypeInv, RunInv, Dispatch, Pending # {}
    PROVE  /\ input' \in Seq(WorkItem \cup {Sentinel})
           /\ Len(input') = Cardinality(Pending) + WorkerCount
           /\ \A i \in 1 .. Cardinality(Pending) :
                 /\ Len(given) - Cardinality(Pending) + i \in Pending
                 /\ input'[i] = given[Len(given) - Cardinality(Pending) + i].ref
           /\ \A i \in Cardinality(Pending) + 1 .. Cardinality(Pending) + WorkerCount : input'[i] = Sentinel
  <1> DEFINE k == Cardinality(Pending)
             b == Len(given) - k
             refs == [i \in 1 .. k |-> PendingSeq[i].ref]
             ends == [w \in 1 .. WorkerCount |-> Sentinel]
  <1>1. k \in Nat /\ Len(given) \in Nat /\ b \in Nat /\ Pending = b + 1 .. Len(given) /\ WorkerCount \in Nat
    <2>1. given \in Seq(Lease) /\ WorkerCount \in Nat
      BY PoolAssumption DEF TypeInv
    <2>2. /\ Cardinality(Pending) \in Nat /\ Cardinality(Pending) \in 0 .. Len(given)
          /\ Pending = Len(given) - Cardinality(Pending) + 1 .. Len(given)
      BY PendingFacts
    <2>3. Len(given) \in Nat
      BY <2>1
    <2>. QED BY <2>1, <2>2, <2>3
  <1>2. /\ PendingSeq \in Seq(Lease) /\ Len(PendingSeq) = k /\ DOMAIN PendingSeq = 1 .. k
        /\ \A i \in 1 .. k : PendingSeq[i] = given[b + i] /\ PendingSeq[i] \in Lease
    <2>1. PendingSeq = SubSeq(given, b + 1, Len(given))
      BY DEF PendingSeq
    <2>. HIDE DEF k, b
    <2>2. Len(given) = b + k
      BY <1>1 DEF k, b
    <2>4. /\ PendingSeq \in Seq(Lease) /\ Len(PendingSeq) = k
          /\ \A i \in 1 .. k : PendingSeq[i] = given[b + i]
      <3>1. given \in Seq(Lease)
        BY DEF TypeInv
      <3>. QED BY <1>1, <2>1, <2>2, <3>1, LastPart
    <2>. QED BY <2>4
  <1>3. input' = refs \o ends
    BY <1>2 DEF Dispatch
  <1>4. refs \in Seq(WorkItem \cup {Sentinel}) /\ Len(refs) = k
    <2>. HIDE DEF k, b
    <2>1. \A i \in 1 .. k : PendingSeq[i].ref \in WorkItem \cup {Sentinel}
      BY <1>2 DEF Lease
    <2>. QED BY <1>1, <2>1
  <1>5. ends \in Seq(WorkItem \cup {Sentinel}) /\ Len(ends) = WorkerCount
    BY <1>1
  <1>6. \A i \in 1 .. k : b + i \in Pending
    <2>. HIDE DEF b, k
    <2>1. Len(given) = b + k
      BY <1>1 DEF k, b
    <2>. QED BY <1>1, <2>1
  <1>7. /\ input' \in Seq(WorkItem \cup {Sentinel}) /\ Len(input') = k + WorkerCount
        /\ \A i \in 1 .. k : input'[i] = refs[i]
        /\ \A i \in k + 1 .. k + WorkerCount : input'[i] = ends[i - k]
    <2>. HIDE DEF refs, ends, k, b
    <2>1. /\ refs \o ends \in Seq(WorkItem \cup {Sentinel}) /\ Len(refs \o ends) = Len(refs) + Len(ends)
          /\ \A i \in 1 .. Len(refs) : (refs \o ends)[i] = refs[i]
          /\ \A i \in Len(refs) + 1 .. Len(refs) + Len(ends) : (refs \o ends)[i] = ends[i - Len(refs)]
      BY <1>4, <1>5, InARow, Zenon
    <2>2. Len(refs) = k /\ Len(ends) = WorkerCount
      BY <1>4, <1>5
    <2>. QED BY <1>3, <2>1, <2>2, Zenon
  <1>8. \A i \in k + 1 .. k + WorkerCount : i - k \in 1 .. WorkerCount /\ ends[i - k] = Sentinel
    <2>. HIDE DEF k, b
    <2>. QED BY <1>1
  <1>9. \A i \in 1 .. k : refs[i] = given[b + i].ref
    BY <1>2
  <1>. QED BY <1>6, <1>7, <1>8, <1>9

(* A lease has a work item.                                                *)
LEMMA RefIsItem ==
    ASSUME TypeInv, NEW n \in 1 .. Len(given) PROVE given[n].ref \in WorkItem
  <1>1. given[n] \in Lease
    BY DEF TypeInv
  <1>. QED BY <1>1 DEF Lease

(* At dispatch every work item waits in the input queue.                   *)
LEMMA DispatchTransit ==
    ASSUME TypeInv, RunInv, Dispatch, Pending # {}, count = 0, \A n \in Pending : released[n] = 0
    PROVE  Transit'
  <1> DEFINE k == Cardinality(Pending)
             b == Len(given) - k
  <1>1. /\ output' = <<>> /\ doing' = [w \in Worker |-> "idle"] /\ count' = 0
        /\ given' = given /\ runs' = runs /\ released' = released
    BY DEF Dispatch, port
  <1>2. /\ Len(input') = k + WorkerCount
        /\ \A i \in 1 .. k : b + i \in Pending /\ input'[i] = given[b + i].ref
        /\ \A i \in k + 1 .. k + WorkerCount : input'[i] = Sentinel
    BY DispatchedInput
  <1>3. /\ k \in Nat /\ b \in Nat /\ Len(given) \in Nat /\ Pending = b + 1 .. Len(given) /\ Len(given) = b + k
        /\ WorkerCount \in Nat
    <2>1. /\ k \in Nat /\ k \in 0 .. Len(given) /\ Len(given) \in Nat /\ WorkerCount \in Nat
          /\ Pending = Len(given) - k + 1 .. Len(given)
      BY PendingFacts, PoolAssumption DEF TypeInv
    <2>. HIDE DEF k
    <2>. QED BY <2>1
  <1>4. Pending' = Pending /\ \A n : LeasedOnce(n)' = LeasedOnce(n)
    BY <1>1, SameLeases
  <1>. HIDE DEF k, b
  <1>5. \A n \in Pending : n \in 1 .. Len(given) /\ given[n].ref \in WorkItem
    BY <1>3, RefIsItem
  <1>6. \A i \in 1 .. Len(input') : i \in 1 .. k \/ i \in k + 1 .. k + WorkerCount
    BY <1>2, <1>3
  <1>7. \A i \in 1 .. k : i \in 1 .. Len(input') /\ input'[i] \in WorkItem
    BY <1>2, <1>3, <1>5
  <1>8. Len(output') = 0 /\ \A w \in Worker : doing'[w] = "idle" /\ doing'[w] \in Status
    BY <1>1 DEF Status
  <1>9. OnlyPending'
    <2>1. ASSUME NEW i \in 1 .. Len(input'), input'[i] # Sentinel PROVE \E n \in Pending : given[n].ref = input'[i]
      BY <1>2, <1>6, <2>1
    <2>. QED BY <1>1, <1>4, <1>8, <2>1 DEF OnlyPending, Travels
  <1>10. OncePlaced'
    <2>. SUFFICES ASSUME NEW n \in Pending, LeasedOnce(n)
                  PROVE  AtOnePlace(given[n].ref)' /\ released[n] # 1
      BY <1>1, <1>4 DEF OncePlaced
    <2>1. ASSUME NEW i \in 1 .. Len(input'), input'[i] = given[n].ref PROVE i = n - b
      <3>1. i \in 1 .. k
        BY <1>2, <1>5, <1>6, <2>1, ItemIsNoWord
      <3>2. given[b + i].ref = given[n].ref /\ b + i \in Pending /\ b + i \in DOMAIN given
        BY <1>2, <1>5, <2>1, <3>1 DEF TypeInv
      <3>3. b + i = n
        BY <3>2 DEF LeasedOnce
      <3>. QED BY <1>3, <3>1, <3>3
    <2>2. \A i, j \in 1 .. Len(input') : input'[i] = given[n].ref /\ input'[j] = given[n].ref => i = j
      BY <2>1
    <2>3. \A w \in Worker : doing'[w] # given[n].ref
      BY <1>5, <1>8, ItemIsNoWord
    <2>4. ~InHand(given[n].ref)' /\ ~InOutput(given[n].ref)'
      BY <1>1, <1>8, <2>3 DEF InHand, InOutput
    <2>. QED BY <1>1, <1>8, <2>2, <2>3, <2>4 DEF AtOnePlace
  <1>11. Conserved'
    <2>1. Others(input', Sentinel) = 1 .. k
      <3>1. \A i \in 1 .. k : input'[i] # Sentinel
        BY <1>7, ItemIsNoWord
      <3>. QED BY <1>2, <1>6, <1>7, <3>1 DEF Others
    <2>2. Cardinality(1 .. k) = k
      <3>1. 1 \in Int /\ k \in Int /\ (1 > k => k = 0)
        BY <1>3
      <3>. QED BY <3>1, FS_Interval
    <2>3. Held' = {}
      BY <1>8 DEF Held
    <2>4. Coming' = k
      BY <1>1, <1>3, <1>8, <2>1, <2>2, <2>3, FS_EmptySet DEF Coming
    <2>5. \A n \in Pending : ~Lost(n)'
      <3>. TAKE n \in Pending
      <3>1. n - b \in 1 .. k /\ b + (n - b) = n
        BY <1>3
      <3>2. InInput(given[n].ref)'
        BY <1>1, <1>2, <1>7, <3>1 DEF InInput
      <3>. QED BY <3>2 DEF Lost, InTransit
    <2>6. Cardinality(Pending)' = k
      BY <1>4 DEF k
    <2>. QED BY <1>3, <1>4, <2>4, <2>5, <2>6 DEF Conserved
  <1>. QED BY <1>9, <1>10, <1>11 DEF Transit

(* A run with nothing pending is over; otherwise the work items set out.   *)
LEMMA DispatchStep == ASSUME PoolInv, Dispatch PROVE PoolInv'
  <1>0. TypeInv /\ RunInv /\ LogInv
    BY DEF PoolInv
  <1>1. /\ phase = "drain" /\ phase' = (IF Pending = {} THEN "done" ELSE "collect") /\ next' = next
        /\ kind' = kind /\ queue' = queue /\ given' = given /\ released' = released
        /\ events' = events /\ runs' = runs /\ count' = count /\ output' = <<>>
        /\ doing' = [w \in Worker |-> IF Pending = {} THEN "exited" ELSE "idle"]
        /\ Pending = {} => input' = <<>>
    BY DEF Dispatch, port, sync
  <1>2. kind = "process" /\ ProcInv /\ runs # 0
    BY <1>1, ProcPhase
  <1>3. TypeInv'
    <2>1. doing' \in [Worker -> WorkItem \cup Status]
      BY <1>1 DEF Status
    <2>2. input' \in Seq(WorkItem \cup {Sentinel})
      <3>1. CASE Pending = {}
        BY <1>1, <3>1
      <3>2. CASE Pending # {}
        BY <1>0, <3>2, DispatchedInput
      <3>. QED BY <3>1, <3>2
    <2>. QED BY <1>0, <1>1, <2>1, <2>2 DEF TypeInv
  <1>4. Pending' = Pending /\ \A n : LeasedOnce(n)' = LeasedOnce(n)
    BY <1>1, SameLeases
  <1>5. RunInv' /\ LogInv'
    BY <1>0, <1>1, <1>2, <1>4 DEF RunInv, LogInv
  <1>6. Pending # {} => Transit'
    BY <1>0, <1>1, <1>2, DispatchTransit DEF ProcInv
  <1>7. ProcInv'
    BY <1>1, <1>2, <1>4, <1>6 DEF ProcInv
  <1>. QED BY <1>1, <1>2, <1>3, <1>5, <1>7 DEF PoolInv

-----------------------------------------------------------------------------
(* The workers with a work item are finitely many.                         *)
LEMMA HeldFinite == IsFiniteSet(Held) /\ Cardinality(Held) \in Nat
  <1>1. Held \in SUBSET Worker
    BY DEF Held
  <1>. QED BY <1>1, WorkerFinite, FS_Subset, FS_CardinalityType

(* The summands of Coming are numbers.                                     *)
LEMMA ComingType ==
    ASSUME TypeInv
    PROVE  /\ count \in Nat /\ Len(output) \in Nat /\ Cardinality(Held) \in Nat
           /\ Cardinality(Others(input, Sentinel)) \in Nat
  <1>1. IsFiniteSet(Others(input, Sentinel))
    BY OthersFinite DEF TypeInv
  <1>. QED BY <1>1, HeldFinite, FS_CardinalityType DEF TypeInv

(* A work item that a worker moves on stays in transit, at one place.      *)
LEMMA MovedOn ==
    ASSUME TypeInv, RunInv, Transit, given' = given, runs' = runs, released' = released, OnlyPending',
           \A r : r \notin Status /\ r # Sentinel /\ AtOnePlace(r) =>
                AtOnePlace(r)' /\ (InTransit(r)' <=> InTransit(r)),
           Coming' = Coming
    PROVE  Transit'
  <1>1. Pending' = Pending /\ \A n : LeasedOnce(n)' = LeasedOnce(n)
    BY SameLeases
  <1>2. ASSUME NEW n \in Pending, LeasedOnce(n)
        PROVE  AtOnePlace(given[n].ref)' /\ (InTransit(given[n].ref)' <=> InTransit(given[n].ref))
    <2>1. PICK r : r = given[n].ref
      OBVIOUS
    <2>2. n \in 1 .. Len(given)
      BY PendingFacts
    <2>3. r \notin Status /\ r # Sentinel /\ AtOnePlace(r)
      BY <1>2, <2>1, <2>2, RefIsItem, ItemIsNoWord DEF Transit, OncePlaced
    <2>4. AtOnePlace(r)' /\ (InTransit(r)' <=> InTransit(r)) /\ given'[n].ref = r
      BY <2>1, <2>3
    <2>. QED BY <2>1, <2>4
  <1>3. OncePlaced'
    BY <1>1, <1>2 DEF OncePlaced, Transit
  <1>4. \A n \in Pending : Lost(n)' => Lost(n)
    BY <1>1, <1>2 DEF Lost
  <1>5. Conserved'
    BY <1>1, <1>4 DEF Conserved, Transit
  <1>. QED BY <1>3, <1>5 DEF Transit

(* A work item goes from the input queue to the worker that takes it.      *)
LEMMA TakesTransit ==
    ASSUME TypeInv, RunInv, Transit, NEW w \in Worker, WorkerTakes(w) PROVE Transit'
  <1> DEFINE h == input[1]
  <1>1. /\ doing[w] = "idle" /\ input # <<>> /\ input' = Tail(input) /\ output' = output /\ count' = count
        /\ doing' = [doing EXCEPT ![w] = IF h = Sentinel THEN "exited" ELSE h]
        /\ given' = given /\ runs' = runs /\ released' = released
    BY DEF WorkerTakes, port, TypeInv
  <1>2. /\ Len(input) \in Nat /\ Len(input) > 0 /\ Len(input') = Len(input) - 1
        /\ \A i \in 1 .. Len(input) - 1 : input'[i] = input[i + 1]
        /\ h \in WorkItem \cup {Sentinel}
    BY <1>1 DEF TypeInv
  <1>3. \A v \in Worker : doing'[v] = IF v = w THEN (IF h = Sentinel THEN "exited" ELSE h) ELSE doing[v]
    BY <1>1 DEF TypeInv
  <1>4. Pending' = Pending
    BY <1>1, SameLeases
  <1>5. \A i \in 1 .. Len(input') : i + 1 \in 1 .. Len(input) /\ i + 1 # 1 /\ input'[i] = input[i + 1]
    BY <1>2
  <1>6. \A i \in 1 .. Len(input) : i = 1 \/ (i - 1 \in 1 .. Len(input') /\ input'[i - 1] = input[i])
    BY <1>2
  <1>7. 1 \in 1 .. Len(input)
    BY <1>2
  <1>8. "exited" \in Status /\ "idle" \in Status
    BY DEF Status
  <1>. HIDE DEF h
  <1>9. OnlyPending'
    <2>1. \A i \in 1 .. Len(input') : input'[i] # Sentinel => Travels(input'[i])
      BY <1>5 DEF Transit, OnlyPending
    <2>2. \A v \in Worker : doing'[v] \notin Status => Travels(doing'[v])
      BY <1>3, <1>7, <1>8 DEF Transit, OnlyPending, h
    <2>3. \A i \in 1 .. Len(output) : Travels(output[i].ref)
      BY DEF Transit, OnlyPending
    <2>. QED BY <1>1, <1>4, <2>1, <2>2, <2>3 DEF OnlyPending, Travels
  <1>10. ASSUME NEW r, r \notin Status, r # Sentinel, AtOnePlace(r)
         PROVE  AtOnePlace(r)' /\ (InTransit(r)' <=> InTransit(r))
    <2>4. InOutput(r)' <=> InOutput(r)
      BY <1>1 DEF InOutput
    <2>5. CASE h = r
      <3>1. InInput(r) /\ ~InHand(r) /\ ~InOutput(r)
        BY <1>7, <1>10, <2>5 DEF InInput, AtOnePlace, h
      <3>2. \A i \in 1 .. Len(input') : input'[i] # r
        BY <1>5, <1>7, <1>10, <2>5 DEF AtOnePlace, h
      <3>3. \A v \in Worker : doing'[v] = r <=> v = w
        BY <1>3, <1>10, <2>5, <3>1 DEF InHand
      <3>4. ~InInput(r)' /\ InHand(r)'
        BY <3>2, <3>3 DEF InInput, InHand
      <3>5. \A i, j \in 1 .. Len(output') : output'[i].ref = r /\ output'[j].ref = r => i = j
        BY <1>1, <1>10 DEF AtOnePlace
      <3>6. AtOnePlace(r)'
        BY <2>4, <3>1, <3>2, <3>3, <3>4, <3>5 DEF AtOnePlace
      <3>7. InTransit(r)' /\ InTransit(r)
        BY <3>1, <3>4 DEF InTransit
      <3>. QED BY <1>1, <3>6, <3>7
    <2>6. CASE h # r
      <3>1. \A v \in Worker : doing'[v] = r <=> doing[v] = r
        BY <1>1, <1>3, <1>8, <1>10, <2>6
      <3>2. InHand(r)' <=> InHand(r)
        BY <3>1 DEF InHand
      <3>3. InInput(r)' <=> InInput(r)
        <4>1. ASSUME NEW i \in 1 .. Len(input'), input'[i] = r PROVE InInput(r)
          BY <1>5, <4>1 DEF InInput
        <4>2. ASSUME NEW i \in 1 .. Len(input), input[i] = r PROVE InInput(r)'
          <5>1. i # 1
            BY <2>6, <4>2 DEF h
          <5>. QED BY <1>6, <4>2, <5>1 DEF InInput
        <4>. QED BY <4>1, <4>2 DEF InInput
      <3>4. \A i, j \in 1 .. Len(input') : input'[i] = r /\ input'[j] = r => i = j
        <4>. TAKE i, j \in 1 .. Len(input')
        <4>1. input'[i] = r /\ input'[j] = r => i + 1 = j + 1
          BY <1>5, <1>10 DEF AtOnePlace
        <4>. QED BY <1>2, <4>1
      <3>5. \A i, j \in 1 .. Len(output') : output'[i].ref = r /\ output'[j].ref = r => i = j
        BY <1>1, <1>10 DEF AtOnePlace
      <3>6. AtOnePlace(r)'
        BY <1>10, <2>4, <3>1, <3>2, <3>3, <3>4, <3>5 DEF AtOnePlace
      <3>7. InTransit(r)' <=> InTransit(r)
        BY <2>4, <3>2, <3>3 DEF InTransit
      <3>. QED BY <1>1, <3>6, <3>7
    <2>. QED BY <2>5, <2>6
  <1>11. Coming' = Coming
    <2>1. Cardinality(Others(input, Sentinel)) = Cardinality(Others(input', Sentinel)) + (IF h # Sentinel THEN 1 ELSE 0)
      BY <1>1, OthersOfTail DEF TypeInv, h
    <2>2. w \notin Held
      BY <1>1, <1>8 DEF Held
    <2>3. h # Sentinel => h \notin Status
      BY <1>2, ItemIsNoWord
    <2>4. Held' = IF h # Sentinel THEN Held \cup {w} ELSE Held
      BY <1>1, <1>3, <1>8, <2>3 DEF Held
    <2>5. Cardinality(Held') = Cardinality(Held) + (IF h # Sentinel THEN 1 ELSE 0)
      BY <2>2, <2>4, HeldFinite, FS_AddElement
    <2>6. Cardinality(Others(input', Sentinel)) \in Nat
      <3>1. input' \in Seq(WorkItem \cup {Sentinel})
        BY <1>1 DEF TypeInv
      <3>. QED BY <3>1, OthersFinite, FS_CardinalityType
    <2>. QED BY <1>1, <2>1, <2>5, <2>6, ComingType DEF Coming
  <1>. QED BY <1>1, <1>9, <1>10, <1>11, MovedOn

(* A work item goes from its worker to the output queue.                   *)
LEMMA ReportsTransit ==
    ASSUME TypeInv, RunInv, Transit, NEW w \in Worker, WorkerReports(w) PROVE Transit'
  <1>1. PICK ok \in BOOLEAN : output' = Append(output, [ref |-> doing[w], ok |-> ok])
    BY DEF WorkerReports
  <1>2. /\ doing[w] \notin Status /\ doing' = [doing EXCEPT ![w] = "idle"] /\ input' = input /\ count' = count
        /\ given' = given /\ runs' = runs /\ released' = released
    BY DEF WorkerReports, port
  <1>3. /\ Len(output) \in Nat /\ Len(output') = Len(output) + 1
        /\ \A i \in 1 .. Len(output) : output'[i] = output[i]
        /\ output'[Len(output) + 1] = [ref |-> doing[w], ok |-> ok]
    <2>1. PICK o : o = [ref |-> doing[w], ok |-> ok]
      OBVIOUS
    <2>2. output' = Append(output, o) /\ output \in Seq(Outcome)
      BY <1>1, <2>1 DEF TypeInv
    <2>. QED BY <2>1, <2>2
  <1>4. output'[Len(output) + 1].ref = doing[w]
    BY <1>3
  <1>5. /\ \A i \in 1 .. Len(output') : i \in 1 .. Len(output) \/ i = Len(output) + 1
        /\ \A i \in 1 .. Len(output) : i \in 1 .. Len(output')
        /\ Len(output) + 1 \in 1 .. Len(output') /\ Len(output) + 1 \notin 1 .. Len(output)
    BY <1>3
  <1>6. \A v \in Worker : doing'[v] = IF v = w THEN "idle" ELSE doing[v]
    BY <1>2 DEF TypeInv
  <1>7. Pending' = Pending
    BY <1>2, SameLeases
  <1>8. "idle" \in Status
    BY DEF Status
  <1>9. OnlyPending'
    <2>1. \A v \in Worker : doing'[v] \notin Status => Travels(doing'[v])
      BY <1>6, <1>8 DEF Transit, OnlyPending
    <2>2. \A i \in 1 .. Len(output') : Travels(output'[i].ref)
      <3>1. Travels(doing[w])
        BY <1>2 DEF Transit, OnlyPending
      <3>2. \A i \in 1 .. Len(output) : Travels(output[i].ref)
        BY DEF Transit, OnlyPending
      <3>. QED BY <1>3, <1>4, <1>5, <3>1, <3>2
    <2>3. \A i \in 1 .. Len(input) : input[i] # Sentinel => Travels(input[i])
      BY DEF Transit, OnlyPending
    <2>. QED BY <1>2, <1>7, <2>1, <2>2, <2>3 DEF OnlyPending, Travels
  <1>10. ASSUME NEW r, r \notin Status, r # Sentinel, AtOnePlace(r)
         PROVE  AtOnePlace(r)' /\ (InTransit(r)' <=> InTransit(r))
    <2>1. InInput(r)' <=> InInput(r)
      BY <1>2 DEF InInput
    <2>2. \A i, j \in 1 .. Len(input') : input'[i] = r /\ input'[j] = r => i = j
      BY <1>2, <1>10 DEF AtOnePlace
    <2>3. \A u, v \in Worker : doing'[u] = r /\ doing'[v] = r => u = v
      BY <1>6, <1>8, <1>10 DEF AtOnePlace
    <2>4. CASE doing[w] = r
      <3>1. InHand(r) /\ ~InInput(r) /\ ~InOutput(r)
        BY <1>10, <2>4 DEF InHand, AtOnePlace
      <3>2. \A v \in Worker : doing'[v] # r
        BY <1>6, <1>8, <1>10, <2>4 DEF AtOnePlace
      <3>3. \A i \in 1 .. Len(output') : output'[i].ref = r <=> i = Len(output) + 1
        BY <1>3, <1>4, <1>5, <2>4, <3>1 DEF InOutput
      <3>4. ~InHand(r)' /\ InOutput(r)'
        BY <1>5, <3>2, <3>3 DEF InHand, InOutput
      <3>5. \A i, j \in 1 .. Len(output') : output'[i].ref = r /\ output'[j].ref = r => i = j
        BY <3>3
      <3>6. AtOnePlace(r)'
        BY <2>1, <2>2, <2>3, <3>1, <3>4, <3>5 DEF AtOnePlace
      <3>7. InTransit(r)' /\ InTransit(r)
        BY <3>1, <3>4 DEF InTransit
      <3>. QED BY <3>6, <3>7
    <2>5. CASE doing[w] # r
      <3>1. \A v \in Worker : doing'[v] = r <=> doing[v] = r
        BY <1>6, <1>8, <1>10, <2>5
      <3>2. InHand(r)' <=> InHand(r)
        BY <3>1 DEF InHand
      <3>3. \A i \in 1 .. Len(output') : output'[i].ref = r <=> i \in 1 .. Len(output) /\ output[i].ref = r
        BY <1>3, <1>4, <1>5, <2>5
      <3>4. InOutput(r)' <=> InOutput(r)
        BY <1>5, <3>3 DEF InOutput
      <3>5. \A i, j \in 1 .. Len(output') : output'[i].ref = r /\ output'[j].ref = r => i = j
        BY <1>10, <3>3 DEF AtOnePlace
      <3>6. AtOnePlace(r)'
        BY <1>10, <2>1, <2>2, <2>3, <3>2, <3>4, <3>5 DEF AtOnePlace
      <3>7. InTransit(r)' <=> InTransit(r)
        BY <2>1, <3>2, <3>4 DEF InTransit
      <3>. QED BY <3>6, <3>7
    <2>. QED BY <2>4, <2>5
  <1>11. Coming' = Coming
    <2>1. w \in Held /\ Held' = Held \ {w}
      BY <1>2, <1>6, <1>8 DEF Held
    <2>2. Cardinality(Held') = Cardinality(Held) - 1
      BY <2>1, HeldFinite, FS_RemoveElement
    <2>. QED BY <1>2, <1>3, <2>2, ComingType DEF Coming
  <1>. QED BY <1>2, <1>9, <1>10, <1>11, MovedOn

(* What dies with its worker is lost, and is one outcome less to come.     *)
LEMMA DiesTransit ==
    ASSUME TypeInv, RunInv, Transit, NEW w \in Worker, WorkerDies(w) PROVE Transit'
  <1>1. /\ doing' = [doing EXCEPT ![w] = "dead"] /\ input' = input /\ output' = output /\ count' = count
        /\ given' = given /\ runs' = runs /\ released' = released
    BY DEF WorkerDies, port
  <1>2. \A v \in Worker : doing'[v] = IF v = w THEN "dead" ELSE doing[v]
    BY <1>1 DEF TypeInv
  <1>3. Pending' = Pending /\ \A n : LeasedOnce(n)' = LeasedOnce(n)
    BY <1>1, SameLeases
  <1>4. "dead" \in Status
    BY DEF Status
  <1>5. OnlyPending'
    <2>1. \A v \in Worker : doing'[v] \notin Status => Travels(doing'[v])
      BY <1>2, <1>4 DEF Transit, OnlyPending
    <2>2. /\ \A i \in 1 .. Len(output) : Travels(output[i].ref)
          /\ \A i \in 1 .. Len(input) : input[i] # Sentinel => Travels(input[i])
      BY DEF Transit, OnlyPending
    <2>. QED BY <1>1, <1>3, <2>1, <2>2 DEF OnlyPending, Travels
  <1>6. ASSUME NEW r, r \notin Status
        PROVE  /\ AtOnePlace(r) => AtOnePlace(r)'
               /\ InTransit(r)' => InTransit(r)
               /\ doing[w] \in Status => (InTransit(r)' <=> InTransit(r))
    <2>1. /\ \A v \in Worker : doing'[v] = r => doing[v] = r
          /\ doing[w] \in Status => \A v \in Worker : doing[v] = r => doing'[v] = r
      BY <1>2, <1>4, <1>6
    <2>2. (InInput(r)' <=> InInput(r)) /\ (InOutput(r)' <=> InOutput(r))
      BY <1>1 DEF InInput, InOutput
    <2>3. (InHand(r)' => InHand(r)) /\ (doing[w] \in Status => (InHand(r)' <=> InHand(r)))
      BY <2>1 DEF InHand
    <2>4. AtOnePlace(r) => AtOnePlace(r)'
      BY <1>1, <2>1, <2>2, <2>3 DEF AtOnePlace
    <2>. QED BY <2>2, <2>3, <2>4 DEF InTransit
  <1>7. ASSUME NEW n \in Pending, LeasedOnce(n)
        PROVE  /\ AtOnePlace(given[n].ref) => AtOnePlace(given[n].ref)'
               /\ InTransit(given[n].ref)' => InTransit(given[n].ref)
               /\ doing[w] \in Status => (InTransit(given[n].ref)' <=> InTransit(given[n].ref))
    <2>1. PICK r : r = given[n].ref
      OBVIOUS
    <2>2. n \in 1 .. Len(given)
      BY PendingFacts
    <2>3. r \notin Status /\ given'[n].ref = r
      BY <1>1, <2>1, <2>2, RefIsItem, ItemIsNoWord
    <2>4. /\ AtOnePlace(r) => AtOnePlace(r)'
          /\ InTransit(r)' => InTransit(r)
          /\ doing[w] \in Status => (InTransit(r)' <=> InTransit(r))
      BY <1>6, <2>3
    <2>. QED BY <2>1, <2>3, <2>4
  <1>8. OncePlaced'
    BY <1>1, <1>3, <1>7 DEF OncePlaced, Transit
  <1>9. Cardinality(Pending) \in Nat
    BY PendingFacts
  <1>10. Conserved'
    <2>1. CASE doing[w] \in Status
      <3>1. Held' = Held
        BY <1>2, <1>4, <2>1 DEF Held
      <3>2. Coming' = Coming
        BY <1>1, <3>1 DEF Coming
      <3>3. \A n \in Pending : Lost(n)' => Lost(n)
        BY <1>1, <1>3, <1>7, <2>1 DEF Lost
      <3>. QED BY <1>3, <3>2, <3>3 DEF Conserved, Transit
    <2>2. CASE doing[w] \notin Status
      <3>1. w \in Held /\ Held' = Held \ {w}
        BY <1>2, <1>4, <2>2 DEF Held
      <3>2. Cardinality(Held') = Cardinality(Held) - 1
        BY <3>1, HeldFinite, FS_RemoveElement
      <3>3. Coming' = Coming - 1 /\ Coming \in Int
        BY <1>1, <3>2, ComingType DEF Coming
      <3>4. Coming' < Cardinality(Pending)
        BY <1>9, <3>3 DEF Conserved, Transit
      <3>. QED BY <1>3, <1>9, <3>3, <3>4 DEF Conserved
    <2>. QED BY <2>1, <2>2
  <1>. QED BY <1>5, <1>8, <1>10 DEF Transit

(* A worker touches neither the leases nor the log.                        *)
LEMMA WorkerStep ==
    ASSUME PoolInv, NEW w \in Worker, WorkerTakes(w) \/ WorkerReports(w) \/ WorkerDies(w) PROVE PoolInv'
  <1>0. TypeInv /\ RunInv /\ LogInv
    BY DEF PoolInv
  <1>1. /\ kind' = kind /\ queue' = queue /\ given' = given /\ released' = released /\ events' = events
        /\ runs' = runs /\ phase' = phase /\ next' = next /\ count' = count
        /\ doing[w] # "exited"
    BY DEF WorkerTakes, WorkerReports, WorkerDies, port, sync, Status
  <1>2. kind = "process" /\ ProcInv
    <2>1. kind # "sync"
      BY <1>1 DEF PoolInv, SyncInv
    <2>. QED BY <2>1 DEF PoolInv, TypeInv
  <1>3. TypeInv'
    <2>1. CASE WorkerTakes(w)
      <3>1. /\ input # <<>> /\ input' = Tail(input) /\ output' = output
            /\ doing' = [doing EXCEPT ![w] = IF Head(input) = Sentinel THEN "exited" ELSE Head(input)]
        BY <2>1 DEF WorkerTakes
      <3>2. Head(input) \in WorkItem \cup {Sentinel} /\ input' \in Seq(WorkItem \cup {Sentinel})
        BY <1>0, <3>1 DEF TypeInv
      <3>3. doing' \in [Worker -> WorkItem \cup Status]
        BY <1>0, <3>1, <3>2 DEF TypeInv, Status
      <3>. QED BY <1>0, <1>1, <3>1, <3>2, <3>3 DEF TypeInv
    <2>2. CASE WorkerReports(w)
      <3>1. PICK ok \in BOOLEAN : output' = Append(output, [ref |-> doing[w], ok |-> ok])
        BY <2>2 DEF WorkerReports
      <3>2. doing[w] \notin Status /\ doing' = [doing EXCEPT ![w] = "idle"] /\ input' = input
        BY <2>2 DEF WorkerReports
      <3>3. PICK o : o = [ref |-> doing[w], ok |-> ok]
        OBVIOUS
      <3>4. doing[w] \in WorkItem
        BY <1>0, <3>2 DEF TypeInv
      <3>5. o \in Outcome
        BY <3>3, <3>4 DEF Outcome
      <3>6. output' \in Seq(Outcome)
        BY <1>0, <3>1, <3>3, <3>5 DEF TypeInv
      <3>7. doing' \in [Worker -> WorkItem \cup Status]
        BY <1>0, <3>2 DEF TypeInv, Status
      <3>. QED BY <1>0, <1>1, <3>2, <3>6, <3>7 DEF TypeInv
    <2>3. CASE WorkerDies(w)
      <3>1. doing' = [doing EXCEPT ![w] = "dead"] /\ input' = input /\ output' = output
        BY <2>3 DEF WorkerDies
      <3>2. doing' \in [Worker -> WorkItem \cup Status]
        BY <1>0, <3>1 DEF TypeInv, Status
      <3>. QED BY <1>0, <1>1, <3>1, <3>2 DEF TypeInv
    <2>. QED BY <2>1, <2>2, <2>3
  <1>4. Pending' = Pending /\ \A n : LeasedOnce(n)' = LeasedOnce(n)
    BY <1>1, SameLeases
  <1>5. RunInv' /\ LogInv'
    BY <1>0, <1>1, <1>4 DEF RunInv, LogInv
  <1>6. phase = "collect" => Transit'
    BY <1>0, <1>2, TakesTransit, ReportsTransit, DiesTransit DEF ProcInv
  <1>7. ProcInv'
    BY <1>1, <1>2, <1>4, <1>6 DEF ProcInv
  <1>. QED BY <1>1, <1>2, <1>3, <1>5, <1>7 DEF PoolInv

-----------------------------------------------------------------------------
(* leases_by_ref has a pending lease for every outcome that can come.      *)
LEMMA LeaseFound ==
    ASSUME TypeInv, RunInv, NEW r, Travels(r)
    PROVE  /\ LeaseByRef(r) \in Pending /\ given[LeaseByRef(r)].ref = r
           /\ LeaseByRef(r) \in 1 .. Len(given) /\ given[LeaseByRef(r)].run = runs
  <1> DEFINE S == {n \in Pending : given[n].ref = r}
  <1>1. S # {} /\ S \subseteq 1 .. Len(given) /\ Len(given) \in Nat
    BY PendingFacts DEF Travels, TypeInv
  <1>2. Max(S) \in S
    <2>. HIDE DEF S
    <2>. QED BY <1>1, MaxIsIn
  <1>3. LeaseByRef(r) \in S
    BY <1>2 DEF LeaseByRef
  <1>. QED BY <1>3, PendingFacts

(* An outcome is collected: its lease is released, and if its work item is *)
(* leased once nothing more of it can come.                                *)
LEMMA CollectTransit ==
    ASSUME TypeInv, RunInv, Transit,
           NEW n0 \in Pending, output # <<>>, given[n0].ref = output[1].ref,
           LeasedOnce(n0) => released[n0] \in {0, 1},
           given' = given, runs' = runs, count' = count + 1,
           input' = input, doing' = doing, output' = Tail(output),
           \A m \in 1 .. Len(given) : released'[m] = IF m = n0 THEN released[m] + 1 ELSE released[m]
    PROVE  /\ Transit' /\ Coming' = Coming
           /\ LeasedOnce(n0) => released'[n0] = 1
  <1>1. /\ Len(output) \in Nat /\ Len(output) > 0 /\ Len(output') = Len(output) - 1
        /\ \A i \in 1 .. Len(output) - 1 : output'[i] = output[i + 1]
    BY DEF TypeInv
  <1>2. \A i \in 1 .. Len(output') : i + 1 \in 1 .. Len(output) /\ i + 1 # 1 /\ output'[i] = output[i + 1]
    BY <1>1
  <1>3. \A i \in 1 .. Len(output) : i = 1 \/ (i - 1 \in 1 .. Len(output') /\ output'[i - 1] = output[i])
    BY <1>1
  <1>4. 1 \in 1 .. Len(output)
    BY <1>1
  <1>5. Pending' = Pending /\ \A n : LeasedOnce(n)' = LeasedOnce(n)
    BY SameLeases
  <1>6. \A n \in Pending : n \in 1 .. Len(given) /\ n \in DOMAIN given
    BY PendingFacts DEF TypeInv
  <1>7. OnlyPending'
    <2>1. /\ \A i \in 1 .. Len(output') : Travels(output'[i].ref)
          /\ \A i \in 1 .. Len(input) : input[i] # Sentinel => Travels(input[i])
          /\ \A w \in Worker : doing[w] \notin Status => Travels(doing[w])
      BY <1>2 DEF Transit, OnlyPending
    <2>. QED BY <1>5, <2>1 DEF OnlyPending, Travels
  <1>8. ASSUME NEW r
        PROVE  /\ InInput(r)' <=> InInput(r)
               /\ InHand(r)' <=> InHand(r)
               /\ InOutput(r)' => InOutput(r)
               /\ r # output[1].ref => (InOutput(r)' <=> InOutput(r))
               /\ r = output[1].ref /\ AtOnePlace(r) => ~InOutput(r)' /\ ~InInput(r) /\ ~InHand(r)
               /\ AtOnePlace(r) => AtOnePlace(r)'
    <2>1. (InInput(r)' <=> InInput(r)) /\ (InHand(r)' <=> InHand(r))
      BY DEF InInput, InHand
    <2>2. InOutput(r)' => InOutput(r)
      BY <1>2 DEF InOutput
    <2>3. r # output[1].ref => (InOutput(r) => InOutput(r)')
      BY <1>3 DEF InOutput
    <2>4. r = output[1].ref => InOutput(r)
      BY <1>4 DEF InOutput
    <2>5. r = output[1].ref /\ AtOnePlace(r) => ~InInput(r) /\ ~InHand(r)
      BY <2>4 DEF AtOnePlace
    <2>6. r = output[1].ref /\ AtOnePlace(r) => ~InOutput(r)'
      <3>. SUFFICES ASSUME r = output[1].ref, AtOnePlace(r), NEW i \in 1 .. Len(output'), output'[i].ref = r
                    PROVE  FALSE
        BY DEF InOutput
      <3>1. i + 1 \in 1 .. Len(output) /\ output[i + 1].ref = r /\ i + 1 # 1
        BY <1>2
      <3>2. \A j, k \in 1 .. Len(output) : output[j].ref = r /\ output[k].ref = r => j = k
        BY DEF AtOnePlace
      <3>. QED BY <1>4, <3>1, <3>2
    <2>7. AtOnePlace(r) => AtOnePlace(r)'
      <3>. SUFFICES ASSUME AtOnePlace(r) PROVE AtOnePlace(r)'
        OBVIOUS
      <3>1. \A i, j \in 1 .. Len(output') : output'[i].ref = r /\ output'[j].ref = r => i = j
        <4>. TAKE i, j \in 1 .. Len(output')
        <4>1. output'[i].ref = r /\ output'[j].ref = r => i + 1 = j + 1
          BY <1>2 DEF AtOnePlace
        <4>. QED BY <1>1, <4>1
      <3>. QED BY <2>1, <2>2, <3>1 DEF AtOnePlace
    <2>. QED BY <2>1, <2>2, <2>3, <2>5, <2>6, <2>7
  <1>9. ASSUME NEW n \in Pending, LeasedOnce(n)
        PROVE  /\ AtOnePlace(given[n].ref) => AtOnePlace(given[n].ref)'
               /\ n # n0 => (InTransit(given[n].ref)' <=> InTransit(given[n].ref)) /\ released'[n] = released[n]
               /\ n = n0 => ~InTransit(given[n].ref)' /\ released'[n] = 1
    <2>1. PICK r : r = given[n].ref
      OBVIOUS
    <2>2. given'[n].ref = r
      BY <2>1
    <2>3. AtOnePlace(r) /\ (released[n] = 1 => ~InTransit(r))
      BY <1>9, <2>1 DEF Transit, OncePlaced
    <2>4. n # n0 => r # output[1].ref
      BY <1>6, <1>9, <2>1 DEF LeasedOnce
    <2>5. n # n0 => (InTransit(r)' <=> InTransit(r)) /\ released'[n] = released[n]
      BY <1>6, <1>8, <2>4 DEF InTransit
    <2>6. n = n0 => InOutput(r) /\ ~InTransit(r)'
      BY <1>4, <1>8, <2>1, <2>3 DEF InTransit, InOutput
    <2>7. n = n0 => released'[n] = 1
      BY <1>6, <1>9, <2>3, <2>6 DEF InTransit
    <2>. QED BY <1>8, <2>1, <2>2, <2>5, <2>6, <2>7
  <1>10. OncePlaced'
    BY <1>5, <1>9 DEF OncePlaced, Transit
  <1>11. Coming' = Coming
    BY <1>1, ComingType DEF Coming, Held
  <1>12. \A n \in Pending : Lost(n)' => Lost(n)
    <2>. TAKE n \in Pending
    <2>1. CASE n = n0
      BY <1>5, <1>9, <2>1 DEF Lost
    <2>2. CASE n # n0
      BY <1>5, <1>9, <2>2 DEF Lost
    <2>. QED BY <2>1, <2>2
  <1>13. Conserved'
    BY <1>5, <1>11, <1>12 DEF Conserved, Transit
  <1>. QED BY <1>7, <1>9, <1>10, <1>11, <1>13 DEF Transit

(* Every pending item has been collected, and every lease of its own is    *)
(* settled.                                                                *)
Complete == count = Cardinality(Pending)

AllSettled == \A n \in Pending : LeasedOnce(n) /\ released[n] \in {0, 1} => released[n] = 1

(* When as many outcomes are collected as leases were given, nothing was   *)
(* lost and nothing is under way.                                          *)
LEMMA AllCollected == TypeInv /\ RunInv /\ Transit /\ Complete => AllSettled
  <1>. SUFFICES ASSUME TypeInv, RunInv, Transit, count = Cardinality(Pending),
                       NEW n \in Pending, LeasedOnce(n), released[n] \in {0, 1}
                PROVE  released[n] = 1
    BY DEF Complete, AllSettled
  <1>1. Cardinality(Pending) \in Nat
    BY PendingFacts
  <1>2. /\ Coming <= Cardinality(Pending) /\ ~(Coming < Cardinality(Pending))
        /\ Len(output) = 0 /\ Cardinality(Held) = 0 /\ Cardinality(Others(input, Sentinel)) = 0
    BY <1>1, ComingType DEF Transit, Conserved, Coming
  <1>3. ~Lost(n)
    BY <1>2 DEF Transit, Conserved
  <1>4. Held = {} /\ Others(input, Sentinel) = {}
    <2>1. IsFiniteSet(Others(input, Sentinel))
      BY OthersFinite DEF TypeInv
    <2>. QED BY <1>2, <2>1, HeldFinite, FS_EmptySet
  <1>5. given[n].ref \notin Status /\ given[n].ref # Sentinel
    <2>1. n \in 1 .. Len(given)
      BY PendingFacts
    <2>. QED BY <2>1, RefIsItem, ItemIsNoWord
  <1>6. ~InTransit(given[n].ref)
    BY <1>2, <1>4, <1>5 DEF InTransit, InInput, InHand, InOutput, Held, Others
  <1>. QED BY <1>3, <1>6 DEF Lost

(* An outcome settles its lease; the last one ends the collecting.         *)
LEMMA CollectStep == ASSUME PoolInv, Collect PROVE PoolInv'
  <1>0. TypeInv /\ RunInv /\ LogInv
    BY DEF PoolInv
  <1> DEFINE n0 == LeaseByRef(Head(output).ref)
             then == IF count + 1 = Cardinality(Pending) THEN "join" ELSE "collect"
  <1>1. /\ phase = "collect" /\ output # <<>> /\ output' = Tail(output) /\ input' = input /\ doing' = doing
        /\ kind' = kind /\ runs' = runs /\ next' = next
        /\ Settle(n0, Head(output).ok, then)
    BY DEF Collect, sync
  <1>2. kind = "process" /\ ProcInv /\ Transit /\ runs # 0
    BY <1>1, ProcPhase DEF ProcInv
  <1>3. Head(output) = output[1] /\ 1 \in 1 .. Len(output) /\ output' \in Seq(Outcome)
    BY <1>0, <1>1 DEF TypeInv
  <1>4. n0 \in Pending /\ given[n0].ref = output[1].ref /\ n0 \in 1 .. Len(given) /\ given[n0].run = runs
    <2>1. Travels(Head(output).ref)
      BY <1>2, <1>3 DEF Transit, OnlyPending
    <2>. QED BY <1>0, <1>3, <2>1, LeaseFound
  <1>. HIDE DEF n0, then
  <1>5. /\ queue' = queue /\ given' = given /\ count' = count + 1
        /\ released' \in Seq(Nat) /\ Len(released') = Len(given)
        /\ \A m \in 1 .. Len(given) : released'[m] = IF m = n0 THEN released[m] + 1 ELSE released[m]
        /\ events' \in Seq(Nat) /\ \A e \in 1 .. Len(events') : events'[e] \in 1 .. Len(given)
        /\ phase' \in {then, "failed"}
        /\ RunInv' /\ LogInv'
    BY <1>0, <1>1, <1>4, SettleFacts
  <1>6. TypeInv'
    <2>1. count' \in Nat
      BY <1>0, <1>5 DEF TypeInv
    <2>. QED BY <1>0, <1>1, <1>3, <1>5, <2>1 DEF TypeInv
  <1>7. Pending' = Pending /\ \A n : LeasedOnce(n)' = LeasedOnce(n)
    BY <1>1, <1>5, SameLeases
  <1>8. Transit' /\ (LeasedOnce(n0) => released'[n0] = 1)
    <2>1. PICK k \in Pending : k = n0
      BY <1>4
    <2>2. LeasedOnce(k) => released[k] \in {0, 1}
      BY <1>2, <1>4, <2>1 DEF ProcInv
    <2>3. Transit' /\ (LeasedOnce(k) => released'[k] = 1)
      BY <1>0, <1>1, <1>2, <1>4, <1>5, <2>1, <2>2, CollectTransit
    <2>. QED BY <2>1, <2>3
  <1>9. ASSUME NEW n \in 1 .. Len(given), LeasedOnce(n)
        PROVE  released'[n] \in {0, 1} /\ (released'[n] = 0 => n \in Pending /\ phase' # "join")
    <2>1. released'[n] \in {0, 1} /\ (released'[n] = 0 => n \in Pending)
      <3>1. CASE n = n0
        BY <1>8, <1>9, <3>1
      <3>2. CASE n # n0
        BY <1>2, <1>5, <1>9, <3>2 DEF ProcInv
      <3>. QED BY <3>1, <3>2
    <2>2. phase' = "join" => count' = Cardinality(Pending')
      BY <1>5, <1>7 DEF then
    <2>3. n \in Pending /\ phase' = "join" => released'[n] = 1
      <3>. SUFFICES ASSUME n \in Pending, phase' = "join" PROVE released'[n] = 1
        OBVIOUS
      <3>1. n \in Pending' /\ LeasedOnce(n)' /\ count' = Cardinality(Pending)'
        BY <1>7, <1>9, <2>2
      <3>2. (TypeInv /\ RunInv /\ Transit /\ Complete => AllSettled)'
        BY AllCollected, PTL
      <3>3. Complete'
        BY <3>1 DEF Complete
      <3>4. AllSettled'
        BY <1>5, <1>6, <1>8, <3>2, <3>3
      <3>. QED BY <2>1, <3>1, <3>4 DEF AllSettled
    <2>. QED BY <2>1, <2>3
  <1>10. ProcInv'
    <2>1. phase' \in {"join", "collect", "failed"}
      BY <1>5 DEF then
    <2>. QED BY <1>5, <1>7, <1>8, <1>9, <2>1 DEF ProcInv
  <1>. QED BY <1>1, <1>2, <1>5, <1>6, <1>10 DEF PoolInv

-----------------------------------------------------------------------------
(* Every step keeps the invariant.                                         *)
LEMMA NextPool == PoolInv /\ [Next]_vars => PoolInv'
  <1>. SUFFICES ASSUME PoolInv, [Next]_vars PROVE PoolInv'
    OBVIOUS
  <1>1. CASE Run
    BY <1>1, RunStep
  <1>2. CASE Parent
    <2>1. CASE TurnWithout \/ TurnAcquires \/ TurnWorks \/ TurnRaises
      BY <2>1, TurnWithoutStep, TurnAcquiresStep, TurnWorksStep, TurnRaisesStep
    <2>2. CASE Drain \/ Dispatch \/ Collect \/ CollectRaises \/ Join
      BY <2>2, DrainStep, DispatchStep, CollectStep, CollectRaisesStep, JoinStep
    <2>. QED BY <1>2, <2>1, <2>2 DEF Parent
  <1>3. CASE \E w \in Worker : WorkerTakes(w) \/ WorkerReports(w) \/ WorkerDies(w)
    BY <1>3, WorkerStep
  <1>4. CASE UNCHANGED vars
    <2>1. /\ kind' = kind /\ queue' = queue /\ given' = given /\ released' = released /\ events' = events
          /\ runs' = runs /\ phase' = phase /\ next' = next /\ count' = count /\ processed' = processed
          /\ input' = input /\ output' = output /\ doing' = doing
      BY <1>4 DEF vars, port, sync, procs
    <2>2. Pending' = Pending /\ \A n : LeasedOnce(n)' = LeasedOnce(n)
      BY <2>1, SameLeases
    <2>3. TypeInv' /\ RunInv' /\ LogInv'
      BY <2>1, <2>2 DEF PoolInv, TypeInv, RunInv, LogInv
    <2>4. kind = "sync" => SyncInv'
      BY <2>1, <2>2 DEF PoolInv, SyncInv
    <2>5. phase = "collect" /\ kind = "process" => Transit'
      <3>1. \A r : (InInput(r)' <=> InInput(r)) /\ (InHand(r)' <=> InHand(r)) /\ (InOutput(r)' <=> InOutput(r))
        BY <2>1 DEF InInput, InHand, InOutput
      <3>2. \A r : AtOnePlace(r) => AtOnePlace(r)' /\ (InTransit(r)' <=> InTransit(r))
        BY <2>1, <3>1 DEF AtOnePlace, InTransit
      <3>3. Coming' = Coming
        BY <2>1 DEF Coming, Held
      <3>4. OnlyPending => OnlyPending'
        BY <2>1, <2>2 DEF OnlyPending, Travels
      <3>. QED BY <2>1, <3>2, <3>3, <3>4, MovedOn DEF PoolInv, ProcInv, Transit
    <2>6. kind = "process" => ProcInv'
      BY <2>1, <2>2, <2>5 DEF PoolInv, ProcInv
    <2>. QED BY <2>1, <2>3, <2>4, <2>6 DEF PoolInv
  <1>. QED BY <1>1, <1>2, <1>3, <1>4 DEF Next

(* The invariant of both pools: while MultiprocessWorkerPool collects, a   *)
(* work item leased once is in the input queue, with a worker or in the    *)
(* output queue, at one place only, or lost, and then the parent goes on   *)
(* waiting, since it collects fewer outcomes than it counted leases.       *)
THEOREM PoolInvCorrect == Spec => []PoolInv
  <1>1. Init => PoolInv
    BY InitPool
  <1>2. PoolInv /\ [Next]_vars => PoolInv'
    BY NextPool
  <1>. QED BY <1>1, <1>2, PTL DEF Spec

(* release is called once for every lease of a work item leased once, in   *)
(* whatever order the workers finish, and append logs it once in the first *)
(* run, whatever workers die: a run that returns has settled them all.     *)
THEOREM SettledOnceCorrect == Spec => []SettledOnce
  <1>1. PoolInv => SettledOnce
    <2>. SUFFICES ASSUME PoolInv, NEW n \in DOMAIN given, LeasedOnce(n)
                  PROVE  /\ released[n] <= 1
                         /\ phase = "done" => released[n] = 1
                         /\ phase = "done" /\ given[n].run = 1 =>
                                Cardinality({e \in DOMAIN events : events[e] = n}) = 1
      BY DEF SettledOnce
    <2>1. n \in 1 .. Len(given)
      BY DEF PoolInv, TypeInv
    <2>2. released[n] \in {0, 1} /\ (phase = "done" => released[n] # 0)
      <3>1. CASE kind = "sync"
        BY <2>1, <3>1 DEF PoolInv, SyncInv
      <3>2. CASE kind = "process"
        BY <2>1, <3>2 DEF PoolInv, ProcInv
      <3>. QED BY <3>1, <3>2 DEF PoolInv, TypeInv
    <2>3. given[n].run = 1 => Cardinality(EventsOf(events, n)) = released[n]
      BY <2>1 DEF PoolInv, LogInv
    <2>4. {e \in DOMAIN events : events[e] = n} = EventsOf(events, n)
      BY DEF PoolInv, TypeInv, EventsOf
    <2>. QED BY <2>2, <2>3, <2>4
  <1>. QED BY <1>1, PoolInvCorrect, PTL
=============================================================================
