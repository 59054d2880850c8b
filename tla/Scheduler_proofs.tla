-------------------------- MODULE Scheduler_proofs --------------------------
(***************************************************************************)
(* What scheduler/runtime.py guarantees for any number of items, workers   *)
(* and attempts, with nothing assumed of its callers: leases are swept at  *)
(* any time, items are settled with other items' leases and ids are        *)
(* enqueued again.                                                         *)
(***************************************************************************)
EXTENDS Scheduler, TLAPS

Ended == {"completed", "released", "expired"}

(* An id that was never enqueued has no item and no attempt.               *)
NewItems ==
    \A i \in Item : /\ enqueues[i] = 0 <=> status[i] = "absent"
                    /\ enqueues[i] = 0 => attempts[i] = 0

(* No lease is made ahead of the count of its item's attempts, so the next *)
(* lease, numbered by that count, is a new one.                            *)
FreshLeases ==
    \A i \in Item, n \in 1 .. MaxLeases :
        EnqueuedOnce(i) /\ n > attempts[i] => lease[<<i, n>>] = "absent"

(* What a worker holds was once leased to it.                              *)
HeldWasLeased ==
    \A w \in Worker : held[w] # NoLease => lease[held[w]] # "absent"

(* An item that can be leased has an attempt left.                         *)
BudgetLeft ==
    \A i \in Item :
        status[i] \in {"queued", "retrying"} => attempts[i] < MaxAttempts[i] + releases[i]

(* An item that an expiry put back or gave up has an expired lease.        *)
ExpiryVisible ==
    (\A i \in Item : EnqueuedOnce(i)) =>
        \A i \in Item : status[i] \in {"retrying", "dead_lettered"} =>
            \E n \in 1 .. MaxLeases : lease[<<i, n>>] = "expired"

LeaseInv == TypeOK /\ NewItems /\ FreshLeases /\ HeldWasLeased /\ OneHolder

(* What complete, release and expire have in common: lease l ends as ls    *)
(* and item i goes to status s.                                            *)
Settles(l, ls, i, s) ==
    /\ lease[l] # "absent" /\ ls \in Ended
    /\ status[i] # "absent" /\ s \in {"completed", "queued", "retrying", "dead_lettered"}
    /\ lease' = [lease EXCEPT ![l] = ls]
    /\ status' = [status EXCEPT ![i] = s]
    /\ attempts' = attempts /\ enqueues' = enqueues /\ invalid' = invalid
    /\ held' \in [Worker -> Lease \cup {NoLease}]
    /\ \A w \in Worker : held'[w] = held[w] \/ held'[w] = NoLease
    /\ IF s = "queued" THEN releases' = [releases EXCEPT ![i] = releases[i] + 1]
                       ELSE releases' = releases
    /\ s = "retrying" => attempts[i] < MaxAttempts[i]
    /\ s = "dead_lettered" => attempts[i] >= MaxAttempts[i]
    /\ s \in {"retrying", "dead_lettered"} => ls = "expired" /\ l[1] = i
    /\ lease[l] = "active" \/ ls = "expired"
    /\ orphaned \subseteq orphaned' /\ orphaned' \subseteq Item
    /\ l[1] = i \/ l[1] \in orphaned'

(* Steps that only let workers go or record a misuse.                      *)
LetsGo ==
    /\ status' = status /\ attempts' = attempts /\ lease' = lease
    /\ enqueues' = enqueues /\ releases' = releases /\ orphaned' = orphaned
    /\ invalid' \in BOOLEAN /\ (invalid => invalid')
    /\ held' \in [Worker -> Lease \cup {NoLease}]
    /\ \A w \in Worker : held'[w] = held[w] \/ held'[w] = NoLease

-----------------------------------------------------------------------------
(* A lease is the pair of its item and its number.                         *)
LEMMA LeaseParts ==
    ASSUME NEW l \in Lease
    PROVE  l[1] \in Item /\ l[2] \in 1 .. MaxLeases /\ l = <<l[1], l[2]>>
  BY DEF Lease

(* A pair of an item and a number is a lease.                              *)
LEMMA LeasePair ==
    ASSUME NEW i \in Item, NEW n \in 1 .. MaxLeases
    PROVE  <<i, n>> \in Lease /\ <<i, n>>[1] = i /\ <<i, n>>[2] = n
  BY DEF Lease

(* A step is an enqueue, a lease, the settling of an item or nothing.      *)
LEMMA Shapes ==
    ASSUME LeaseInv, [Next]_vars
    PROVE  \/ \E i \in Item : EnqueueFrontierItem(i)
           \/ \E w \in Worker, i \in Item :
                status[i] \in {"queued", "retrying"} /\ attempts[i] < MaxLeases /\ LeaseItem(w, i)
           \/ \E l \in Lease, ls \in Ended, i \in Item, s \in ItemStatus : Settles(l, ls, i, s)
           \/ LetsGo
  <1>. USE DEF LeaseInv, TypeOK
  <1>0. invalid \in BOOLEAN
    BY Zenon
  <1>1. ASSUME NEW w \in Worker, LeaseNextFrontierItem(w)
        PROVE  \E i \in Item :
                 status[i] \in {"queued", "retrying"} /\ attempts[i] < MaxLeases /\ LeaseItem(w, i)
    BY <1>1 DEF LeaseNextFrontierItem, Eligible
  <1>2. ASSUME NEW w \in Worker, HeartbeatLease(w) PROVE LetsGo
    <2>1. held[w] \in Lease /\ lease' = lease
      BY <1>2 DEF HeartbeatLease, RequireActiveLease
    <2>2. status' = status /\ attempts' = attempts /\ enqueues' = enqueues
          /\ releases' = releases /\ orphaned' = orphaned /\ held' = held
      BY <1>2 DEF HeartbeatLease
    <2>3. invalid' \in BOOLEAN /\ (invalid => invalid')
      BY <1>0, <1>2, Zenon DEF HeartbeatLease
    <2>. QED BY <2>1, <2>2, <2>3 DEF LetsGo
  <1>3. ASSUME NEW w \in Worker, LeaseRejected(w) PROVE LetsGo
    <2>1. status' = status /\ attempts' = attempts /\ enqueues' = enqueues /\ lease' = lease
          /\ releases' = releases /\ orphaned' = orphaned
          /\ held' = [held EXCEPT ![w] = NoLease]
      BY <1>3 DEF LeaseRejected
    <2>2. invalid' \in BOOLEAN /\ (invalid => invalid')
      BY <1>3, Zenon DEF LeaseRejected
    <2>. QED BY <2>1, <2>2 DEF LetsGo
  <1>4. ASSUME WrongToken PROVE LetsGo
    <2>1. status' = status /\ attempts' = attempts /\ enqueues' = enqueues /\ lease' = lease
          /\ releases' = releases /\ orphaned' = orphaned /\ held' = held
      BY <1>4 DEF WrongToken
    <2>2. invalid' \in BOOLEAN /\ (invalid => invalid')
      BY <1>4, Zenon DEF WrongToken
    <2>. QED BY <2>1, <2>2 DEF LetsGo
  <1>5. ASSUME NEW w \in Worker, WorkerLost(w) PROVE LetsGo
    <2>1. status' = status /\ attempts' = attempts /\ enqueues' = enqueues /\ lease' = lease
          /\ releases' = releases /\ orphaned' = orphaned
          /\ held' = [held EXCEPT ![w] = NoLease]
      BY <1>5 DEF WorkerLost
    <2>2. invalid' \in BOOLEAN /\ (invalid => invalid')
      BY <1>0, <1>5, Zenon DEF WorkerLost
    <2>. QED BY <2>1, <2>2 DEF LetsGo
  <1>6. ASSUME UNCHANGED vars PROVE LetsGo
    <2>1. status' = status /\ attempts' = attempts /\ enqueues' = enqueues /\ lease' = lease
          /\ releases' = releases /\ orphaned' = orphaned /\ held' = held
      BY <1>6 DEF vars
    <2>2. invalid' \in BOOLEAN /\ (invalid => invalid')
      BY <1>0, <1>6, Zenon DEF vars
    <2>. QED BY <2>1, <2>2 DEF LetsGo
  <1>7. ASSUME NEW w \in Worker, NEW i \in Item, CompleteFrontierItem(w, i)
        PROVE  \E l \in Lease, ls \in Ended, s \in ItemStatus : Settles(l, ls, i, s)
    <2>1. held[w] \in Lease /\ held[w][1] \in Item
      BY <1>7, LeaseParts DEF CompleteFrontierItem
    <2>2. orphaned \subseteq orphaned' /\ orphaned' \subseteq Item
          /\ (held[w][1] = i \/ held[w][1] \in orphaned')
      BY <1>7, <2>1 DEF CompleteFrontierItem, Orphan
    <2>3. invalid' = invalid
      BY <1>7, Zenon DEF CompleteFrontierItem
    <2>4. Settles(held[w], "completed", i, "completed")
      BY <1>7, <2>1, <2>2, <2>3 DEF CompleteFrontierItem, RequireActiveLease, Settles, Ended
    <2>. QED BY <2>1, <2>4 DEF Ended, ItemStatus
  <1>8. ASSUME NEW w \in Worker, NEW i \in Item, ReleaseFrontierItem(w, i)
        PROVE  \E l \in Lease, ls \in Ended, s \in ItemStatus : Settles(l, ls, i, s)
    <2>1. held[w] \in Lease /\ held[w][1] \in Item
      BY <1>8, LeaseParts DEF ReleaseFrontierItem
    <2>2. orphaned \subseteq orphaned' /\ orphaned' \subseteq Item
          /\ (held[w][1] = i \/ held[w][1] \in orphaned')
      BY <1>8, <2>1 DEF ReleaseFrontierItem, Orphan
    <2>3. invalid' = invalid
      BY <1>8, Zenon DEF ReleaseFrontierItem
    <2>4. Settles(held[w], "released", i, "queued")
      BY <1>8, <2>1, <2>2, <2>3 DEF ReleaseFrontierItem, RequireActiveLease, Settles, Ended
    <2>. QED BY <2>1, <2>4 DEF Ended, ItemStatus
  <1>9. ASSUME NEW l \in Lease, ExpireLease(l)
        PROVE  \E ls \in Ended, i \in Item, s \in ItemStatus : Settles(l, ls, i, s)
    <2>1. l[1] \in Item /\ l[2] \in 1 .. MaxLeases /\ l = <<l[1], l[2]>>
      BY LeaseParts
    <2>2. status[l[1]] # "absent"
      <3>. SUFFICES ASSUME enqueues[l[1]] = 0 PROVE FALSE
        BY <2>1 DEF NewItems
      <3>1. EnqueuedOnce(l[1]) /\ l[2] > attempts[l[1]]
        BY <2>1 DEF NewItems, EnqueuedOnce
      <3>. QED BY <3>1, <2>1, <1>9 DEF FreshLeases, ExpireLease
    <2>3. AfterExpiry(l[1]) \in {"retrying", "dead_lettered"}
          /\ (AfterExpiry(l[1]) = "retrying" => attempts[l[1]] < MaxAttempts[l[1]])
          /\ (AfterExpiry(l[1]) = "dead_lettered" => attempts[l[1]] >= MaxAttempts[l[1]])
      BY <2>1, SchedulerAssumption DEF AfterExpiry
    <2>4. invalid' = invalid
      BY <1>9, Zenon DEF ExpireLease
    <2>5. Settles(l, "expired", l[1], AfterExpiry(l[1]))
      BY <1>9, <2>1, <2>2, <2>3, <2>4 DEF ExpireLease, Settles, Ended
    <2>. QED BY <2>1, <2>3, <2>5 DEF Ended, ItemStatus
  <1>. QED
    BY <1>1, <1>2, <1>3, <1>4, <1>5, <1>6, <1>7, <1>8, <1>9, Zenon DEF Next

-----------------------------------------------------------------------------
(* Leases: no two of one name, no two holders.                             *)

(* Nothing is leased at first.                                             *)
LEMMA InitLeaseInv ==
    ASSUME Init PROVE LeaseInv
  <1>1. TypeOK
    <2>1. attempts \in [Item -> 0 .. MaxLeases] /\ enqueues \in [Item -> 0 .. MaxEnqueues]
          /\ releases \in [Item -> Nat]
      BY SchedulerAssumption DEF Init
    <2>2. invalid \in BOOLEAN
      BY Zenon DEF Init
    <2>3. status \in [Item -> ItemStatus] /\ lease \in [Lease -> LeaseStatus]
      BY DEF Init, ItemStatus, LeaseStatus
    <2>4. held \in [Worker -> Lease \cup {NoLease}] /\ orphaned \subseteq Item
      BY DEF Init
    <2>. QED BY <2>1, <2>2, <2>3, <2>4 DEF TypeOK
  <1>2. NewItems /\ FreshLeases
    BY LeasePair DEF Init, NewItems, FreshLeases
  <1>3. HeldWasLeased /\ OneHolder
    BY DEF Init, HeldWasLeased, OneHolder
  <1>. QED BY <1>1, <1>2, <1>3 DEF LeaseInv

(* A first enqueue finds no lease; a later one is left out.                *)
LEMMA EnqueueLeases ==
    ASSUME LeaseInv, NEW i \in Item, EnqueueFrontierItem(i) PROVE LeaseInv'
  <1>. USE DEF LeaseInv
  <1>0. /\ enqueues[i] < MaxEnqueues
        /\ status' = [status EXCEPT ![i] = "queued"]
        /\ attempts' = [attempts EXCEPT ![i] = 0]
        /\ enqueues' = [enqueues EXCEPT ![i] = enqueues[i] + 1]
        /\ releases' = [releases EXCEPT ![i] = 0]
        /\ orphaned' = orphaned \ {i}
        /\ lease' = lease /\ held' = held
    BY DEF EnqueueFrontierItem
  <1>1. TypeOK'
    <2>1. invalid' \in BOOLEAN
      BY Zenon DEF EnqueueFrontierItem, TypeOK
    <2>2. 0 \in 0 .. MaxLeases /\ enqueues[i] + 1 \in 0 .. MaxEnqueues
      BY <1>0, SchedulerAssumption DEF TypeOK
    <2>. QED BY <1>0, <2>1, <2>2 DEF TypeOK, ItemStatus
  <1>2. \A j \in Item : /\ status'[j] = IF j = i THEN "queued" ELSE status[j]
                        /\ attempts'[j] = IF j = i THEN 0 ELSE attempts[j]
                        /\ enqueues'[j] = IF j = i THEN enqueues[i] + 1 ELSE enqueues[j]
                        /\ enqueues[j] \in Nat
    BY <1>0, SchedulerAssumption DEF TypeOK
  <1>3. NewItems'
    BY <1>2 DEF NewItems
  <1>4. FreshLeases'
    <2>. SUFFICES ASSUME NEW j \in Item, NEW n \in 1 .. MaxLeases,
                         enqueues'[j] <= 1, n > attempts'[j]
                  PROVE  lease[<<j, n>>] = "absent"
      BY <1>0 DEF FreshLeases, EnqueuedOnce
    <2>1. enqueues[j] <= 1 /\ n > attempts[j]
      BY <1>2 DEF NewItems
    <2>. QED BY <2>1 DEF FreshLeases, EnqueuedOnce
  <1>5. HeldWasLeased'
    BY <1>0 DEF HeldWasLeased
  <1>6. OneHolder'
    <2>. SUFFICES ASSUME NEW v \in Worker, NEW w \in Worker, held[v] # NoLease,
                         held[v] = held[w], v # w, enqueues'[held[v][1]] <= 1
                  PROVE  lease[held[v]] # "active"
      BY <1>0 DEF OneHolder, EnqueuedOnce
    <2>1. held[v] \in Lease /\ held[v][1] \in Item
      BY LeaseParts DEF TypeOK
    <2>2. enqueues[held[v][1]] <= 1
      BY <1>2, <2>1
    <2>. QED BY <2>2 DEF OneHolder, EnqueuedOnce
  <1>. QED BY <1>1, <1>3, <1>4, <1>5, <1>6

(* The lease given out is a new one, so no one else holds it.              *)
LEMMA LeaseLeases ==
    ASSUME LeaseInv, NEW w \in Worker, NEW i \in Item, status[i] \in {"queued", "retrying"},
           attempts[i] < MaxLeases, LeaseItem(w, i)
    PROVE  LeaseInv'
  <1>. USE DEF LeaseInv
  <1>. DEFINE k == attempts[i] + 1
              new == <<i, k>>
  <1>1. k \in 1 .. MaxLeases /\ k \in 0 .. MaxLeases /\ new \in Lease /\ new # NoLease
        /\ attempts[i] \in Nat /\ new[1] = i
    BY SchedulerAssumption DEF TypeOK, Lease
  <1>2. /\ lease' = [lease EXCEPT ![new] = "active"]
        /\ status' = [status EXCEPT ![i] = "leased"]
        /\ attempts' = [attempts EXCEPT ![i] = k]
        /\ held' = [held EXCEPT ![w] = new]
        /\ orphaned' = orphaned \ {i}
        /\ enqueues' = enqueues /\ releases' = releases
    BY DEF LeaseItem
  <1>3. EnqueuedOnce(i) => lease[new] = "absent"
    BY <1>1 DEF FreshLeases
  <1>4. \A j \in Item : /\ status'[j] = IF j = i THEN "leased" ELSE status[j]
                        /\ attempts'[j] = IF j = i THEN k ELSE attempts[j]
    BY <1>2 DEF TypeOK
  <1>5. \A l \in Lease : lease'[l] = IF l = new THEN "active" ELSE lease[l]
    BY <1>2 DEF TypeOK
  <1>6. \A v \in Worker : held'[v] = IF v = w THEN new ELSE held[v]
    BY <1>2 DEF TypeOK
  <1>7. TypeOK'
    <2>1. invalid' \in BOOLEAN
      BY Zenon DEF LeaseItem, TypeOK
    <2>. QED BY <1>1, <1>2, <2>1 DEF TypeOK, ItemStatus, LeaseStatus
  <1>8. \A j \in Item, n \in 1 .. MaxLeases :
          /\ <<j, n>> \in Lease
          /\ <<j, n>> = new <=> (j = i /\ n = k)
    BY DEF Lease
  <1>. HIDE DEF new
  <1>9. NewItems'
    BY <1>1, <1>2, <1>4 DEF NewItems
  <1>10. FreshLeases'
    <2>. SUFFICES ASSUME NEW j \in Item, NEW n \in 1 .. MaxLeases,
                         enqueues[j] <= 1, n > attempts'[j]
                  PROVE  lease'[<<j, n>>] = "absent"
      BY <1>2 DEF FreshLeases, EnqueuedOnce
    <2>1. n > attempts[j] /\ ~(j = i /\ n = k)
      BY <1>1, <1>4
    <2>. QED BY <2>1, <1>5, <1>8 DEF FreshLeases, EnqueuedOnce
  <1>. HIDE DEF k
  <1>11. HeldWasLeased'
    BY <1>1, <1>5, <1>6 DEF HeldWasLeased, TypeOK
  <1>12. OneHolder'
    <2>. SUFFICES ASSUME NEW u \in Worker, NEW v \in Worker, held'[u] # NoLease,
                         held'[u] = held'[v], u # v, EnqueuedOnce(held'[u][1])
                  PROVE  lease'[held'[u]] # "active"
      BY <1>2 DEF OneHolder, EnqueuedOnce
    <2>1. held'[u] = held[u] /\ held'[v] = held[v] /\ held[u] # new
      <3>1. ASSUME NEW x \in Worker, held[x] = new, EnqueuedOnce(i) PROVE FALSE
        BY <3>1, <1>1, <1>3 DEF HeldWasLeased
      <3>2. CASE u = w
        <4>1. v # w /\ held[v] = new /\ EnqueuedOnce(i)
          BY <3>2, <1>1, <1>6
        <4>. QED BY <4>1, <3>1
      <3>3. CASE v = w
        <4>1. u # w /\ held[u] = new /\ EnqueuedOnce(i)
          BY <3>3, <1>1, <1>6
        <4>. QED BY <4>1, <3>1
      <3>4. CASE u # w /\ v # w
        <4>1. held'[u] = held[u] /\ held'[v] = held[v]
          BY <3>4, <1>6
        <4>. QED BY <4>1, <3>1, <1>1
      <3>. QED BY <3>2, <3>3, <3>4
    <2>2. held[u] \in Lease /\ lease[held[u]] # "active"
      BY <2>1 DEF TypeOK, OneHolder
    <2>. QED BY <2>1, <2>2, <1>5
  <1>. QED BY <1>7, <1>9, <1>10, <1>11, <1>12

(* Settling makes no lease active and gives none to a worker.              *)
LEMMA SettleLeases ==
    ASSUME LeaseInv, NEW l \in Lease, NEW ls \in Ended, NEW i \in Item, NEW s \in ItemStatus,
           Settles(l, ls, i, s)
    PROVE  LeaseInv'
  <1>. USE DEF LeaseInv
  <1>1. TypeOK'
    <2>1. invalid' \in BOOLEAN
      BY Zenon DEF Settles, TypeOK
    <2>2. releases' \in [Item -> Nat]
      BY DEF Settles, TypeOK
    <2>. QED BY <2>1, <2>2 DEF Settles, TypeOK, Ended, LeaseStatus
  <1>2. /\ \A m \in Lease : lease'[m] = IF m = l THEN ls ELSE lease[m]
        /\ ls # "active" /\ ls # "absent" /\ lease[l] # "absent"
    BY DEF Settles, TypeOK, Ended
  <1>3. NewItems'
    BY DEF Settles, NewItems, TypeOK
  <1>4. FreshLeases'
    BY <1>2, LeasePair DEF FreshLeases, EnqueuedOnce, Settles
  <1>5. HeldWasLeased'
    BY <1>2 DEF HeldWasLeased, Settles, TypeOK
  <1>6. OneHolder'
    BY <1>2 DEF OneHolder, EnqueuedOnce, Settles, TypeOK
  <1>. QED BY <1>1, <1>3, <1>4, <1>5, <1>6

(* Neither does letting go.                                                *)
LEMMA LetGoLeases ==
    ASSUME LeaseInv, LetsGo PROVE LeaseInv'
  <1>. USE DEF LeaseInv
  <1>1. TypeOK'
    <2>1. invalid' \in BOOLEAN
      BY Zenon DEF LetsGo
    <2>. QED BY <2>1 DEF LetsGo, TypeOK
  <1>2. NewItems' /\ FreshLeases'
    BY DEF LetsGo, NewItems, FreshLeases, EnqueuedOnce
  <1>3. HeldWasLeased' /\ OneHolder'
    BY DEF LetsGo, HeldWasLeased, OneHolder, EnqueuedOnce
  <1>. QED BY <1>1, <1>2, <1>3

-----------------------------------------------------------------------------
(* Items: leased items, retries, and what an expiry leaves behind.         *)

ItemInv == LeasedIsRecoverable /\ RetriesBounded /\ BudgetLeft /\ ExpiryVisible

(* No item is there at first.                                              *)
LEMMA InitItemInv ==
    ASSUME Init PROVE ItemInv
  BY SchedulerAssumption
     DEF Init, ItemInv, LeasedIsRecoverable, RetriesBounded, BudgetLeft, ExpiryVisible

(* An enqueued item starts again with all its attempts.                    *)
LEMMA EnqueueItems ==
    ASSUME LeaseInv, ItemInv, NEW i \in Item, EnqueueFrontierItem(i) PROVE ItemInv'
  <1>. USE DEF LeaseInv, ItemInv
  <1>1. /\ \A j \in Item : /\ status'[j] = IF j = i THEN "queued" ELSE status[j]
                           /\ attempts'[j] = IF j = i THEN 0 ELSE attempts[j]
                           /\ enqueues'[j] = IF j = i THEN enqueues[i] + 1 ELSE enqueues[j]
                           /\ releases'[j] = IF j = i THEN 0 ELSE releases[j]
                           /\ enqueues[j] \in Nat
        /\ lease' = lease /\ orphaned' = orphaned \ {i}
    BY SchedulerAssumption DEF EnqueueFrontierItem, TypeOK
  <1>2. LeasedIsRecoverable'
    <2>. SUFFICES ASSUME NEW j \in Item \ orphaned', status'[j] = "leased"
                  PROVE  \E n \in 1 .. MaxLeases : n = attempts'[j] /\ lease[<<j, n>>] = "active"
      BY <1>1 DEF LeasedIsRecoverable
    <2>1. j # i /\ status[j] = "leased" /\ j \in Item \ orphaned /\ attempts'[j] = attempts[j]
      BY <1>1
    <2>. QED BY <2>1 DEF LeasedIsRecoverable
  <1>3. RetriesBounded' /\ BudgetLeft'
    BY <1>1, SchedulerAssumption DEF RetriesBounded, BudgetLeft
  <1>4. ExpiryVisible'
    BY <1>1 DEF ExpiryVisible, EnqueuedOnce
  <1>. QED BY <1>2, <1>3, <1>4

(* A lease takes one of the attempts left, and of an item enqueued once it *)
(* replaces no expired lease.                                              *)
LEMMA LeaseItems ==
    ASSUME LeaseInv, ItemInv, NEW w \in Worker, NEW i \in Item,
           status[i] \in {"queued", "retrying"}, attempts[i] < MaxLeases, LeaseItem(w, i)
    PROVE  ItemInv'
  <1>. USE DEF LeaseInv, ItemInv
  <1>. DEFINE k == attempts[i] + 1
              new == <<i, k>>
  <1>1. k \in 1 .. MaxLeases /\ new \in Lease /\ attempts[i] \in Nat /\ releases[i] \in Nat
    BY SchedulerAssumption DEF TypeOK, Lease
  <1>2. /\ \A j \in Item : /\ status'[j] = IF j = i THEN "leased" ELSE status[j]
                           /\ attempts'[j] = IF j = i THEN k ELSE attempts[j]
        /\ \A l \in Lease : lease'[l] = IF l = new THEN "active" ELSE lease[l]
        /\ orphaned' = orphaned \ {i} /\ enqueues' = enqueues /\ releases' = releases
    BY DEF LeaseItem, TypeOK
  <1>3. \A j \in Item, n \in 1 .. MaxLeases :
          /\ <<j, n>> \in Lease
          /\ <<j, n>> = new <=> (j = i /\ n = k)
    BY DEF Lease
  <1>4. EnqueuedOnce(i) => lease[new] = "absent"
    BY <1>1 DEF FreshLeases
  <1>. HIDE DEF new
  <1>5. LeasedIsRecoverable'
    <2>. SUFFICES ASSUME NEW j \in Item \ orphaned', status'[j] = "leased"
                  PROVE  \E n \in 1 .. MaxLeases : n = attempts'[j] /\ lease'[<<j, n>>] = "active"
      BY DEF LeasedIsRecoverable
    <2>1. CASE j = i
      BY <2>1, <1>1, <1>2, <1>3
    <2>2. CASE j # i
      <3>1. status[j] = "leased" /\ j \in Item \ orphaned /\ attempts'[j] = attempts[j]
        BY <2>2, <1>2
      <3>2. PICK n \in 1 .. MaxLeases : n = attempts[j] /\ lease[<<j, n>>] = "active"
        BY <3>1 DEF LeasedIsRecoverable
      <3>. QED BY <3>1, <3>2, <2>2, <1>2, <1>3
    <2>. QED BY <2>1, <2>2
  <1>6. RetriesBounded' /\ BudgetLeft'
    BY <1>1, <1>2, SchedulerAssumption DEF RetriesBounded, BudgetLeft
  <1>. HIDE DEF k
  <1>7. ExpiryVisible'
    <2>. SUFFICES ASSUME \A j \in Item : EnqueuedOnce(j), NEW j \in Item,
                         status'[j] \in {"retrying", "dead_lettered"}
                  PROVE  \E n \in 1 .. MaxLeases : lease'[<<j, n>>] = "expired"
      BY <1>2 DEF ExpiryVisible, EnqueuedOnce
    <2>1. status[j] \in {"retrying", "dead_lettered"}
      BY <1>2
    <2>2. PICK n \in 1 .. MaxLeases : lease[<<j, n>>] = "expired"
      BY <2>1 DEF ExpiryVisible
    <2>. QED BY <2>2, <1>2, <1>3, <1>4
  <1>. QED BY <1>5, <1>6, <1>7

(* An item that is settled is not leased any more; one whose lease ends    *)
(* without it is orphaned; and an expired lease stays expired.             *)
LEMMA SettleItems ==
    ASSUME LeaseInv, ItemInv, NEW l \in Lease, NEW ls \in Ended, NEW i \in Item,
           NEW s \in ItemStatus, Settles(l, ls, i, s)
    PROVE  ItemInv'
  <1>. USE DEF LeaseInv, ItemInv
  <1>1. l[1] \in Item /\ l[2] \in 1 .. MaxLeases /\ l = <<l[1], l[2]>>
    BY LeaseParts
  <1>2. /\ \A m \in Lease : lease'[m] = IF m = l THEN ls ELSE lease[m]
        /\ \A j \in Item : status'[j] = IF j = i THEN s ELSE status[j]
        /\ attempts' = attempts /\ enqueues' = enqueues
        /\ orphaned \subseteq orphaned' /\ (l[1] = i \/ l[1] \in orphaned')
        /\ s # "leased"
    BY DEF Settles, TypeOK
  <1>3. \A j \in Item, n \in 1 .. MaxLeases :
          /\ <<j, n>> \in Lease
          /\ <<j, n>> = l <=> (j = l[1] /\ n = l[2])
    BY <1>1 DEF Lease
  <1>4. LeasedIsRecoverable'
    <2>. SUFFICES ASSUME NEW j \in Item \ orphaned', status'[j] = "leased"
                  PROVE  \E n \in 1 .. MaxLeases : n = attempts[j] /\ lease'[<<j, n>>] = "active"
      BY <1>2 DEF LeasedIsRecoverable
    <2>1. j # i /\ j # l[1] /\ status[j] = "leased" /\ j \in Item \ orphaned
      BY <1>2
    <2>2. PICK n \in 1 .. MaxLeases : n = attempts[j] /\ lease[<<j, n>>] = "active"
      BY <2>1 DEF LeasedIsRecoverable
    <2>. QED BY <2>1, <2>2, <1>2, <1>3
  <1>5. RetriesBounded' /\ BudgetLeft'
    <2>0. \A j \in Item : attempts[j] \in Nat /\ MaxAttempts[j] \in Nat /\ releases[j] \in Nat
      BY SchedulerAssumption DEF TypeOK
    <2>1. \A j \in Item :
            releases'[j] = IF j = i /\ s = "queued" THEN releases[j] + 1 ELSE releases[j]
      <3>1. releases' = IF s = "queued" THEN [releases EXCEPT ![i] = releases[i] + 1] ELSE releases
        BY DEF Settles
      <3>. QED BY <3>1 DEF TypeOK
    <2>2. /\ s = "retrying" => attempts[i] < MaxAttempts[i]
          /\ s = "dead_lettered" => attempts[i] >= MaxAttempts[i]
      BY DEF Settles
    <2>. QED BY <1>2, <2>0, <2>1, <2>2 DEF RetriesBounded, BudgetLeft
  <1>6. ExpiryVisible'
    <2>. SUFFICES ASSUME \A j \in Item : EnqueuedOnce(j), NEW j \in Item,
                         status'[j] \in {"retrying", "dead_lettered"}
                  PROVE  \E n \in 1 .. MaxLeases : lease'[<<j, n>>] = "expired"
      BY <1>2 DEF ExpiryVisible, EnqueuedOnce
    <2>1. CASE j = i
      <3>1. ls = "expired" /\ l[1] = i
        BY <2>1, <1>2 DEF Settles
      <3>. QED BY <3>1, <2>1, <1>1, <1>2, <1>3
    <2>2. CASE j # i
      <3>0. status[j] \in {"retrying", "dead_lettered"}
        BY <2>2, <1>2
      <3>1. PICK n \in 1 .. MaxLeases : lease[<<j, n>>] = "expired"
        BY <3>0 DEF ExpiryVisible
      <3>2. lease[l] = "active" \/ ls = "expired"
        BY DEF Settles
      <3>3. lease'[<<j, n>>] = "expired"
        BY <3>1, <3>2, <1>2, <1>3
      <3>. QED BY <3>3
    <2>. QED BY <2>1, <2>2
  <1>. QED BY <1>4, <1>5, <1>6

(* Letting go changes neither items nor leases.                            *)
LEMMA LetGoItems ==
    ASSUME ItemInv, LetsGo PROVE ItemInv'
  BY DEF LetsGo, ItemInv, LeasedIsRecoverable, RetriesBounded, BudgetLeft, ExpiryVisible, EnqueuedOnce

-----------------------------------------------------------------------------
(* The invariant holds in every reachable state, whatever the callers do.  *)
THEOREM SchedulerInvariant == Spec => [](LeaseInv /\ ItemInv)
  <1>1. Init => LeaseInv /\ ItemInv
    BY InitLeaseInv, InitItemInv
  <1>2. LeaseInv /\ ItemInv /\ [Next]_vars => (LeaseInv /\ ItemInv)'
    <2>. SUFFICES ASSUME LeaseInv, ItemInv, [Next]_vars PROVE LeaseInv' /\ ItemInv'
      OBVIOUS
    <2>1. CASE \E i \in Item : EnqueueFrontierItem(i)
      BY <2>1, EnqueueLeases, EnqueueItems
    <2>2. CASE \E w \in Worker, i \in Item :
                 status[i] \in {"queued", "retrying"} /\ attempts[i] < MaxLeases /\ LeaseItem(w, i)
      <3>1. PICK w \in Worker, i \in Item :
              status[i] \in {"queued", "retrying"} /\ attempts[i] < MaxLeases /\ LeaseItem(w, i)
        BY <2>2
      <3>. QED BY <3>1, LeaseLeases, LeaseItems
    <2>3. CASE \E l \in Lease, ls \in Ended, i \in Item, s \in ItemStatus : Settles(l, ls, i, s)
      <3>1. PICK l \in Lease, ls \in Ended, i \in Item, s \in ItemStatus : Settles(l, ls, i, s)
        BY <2>3
      <3>. QED BY <3>1, SettleLeases, SettleItems
    <2>4. CASE LetsGo
      BY <2>4, LetGoLeases, LetGoItems
    <2>. QED BY <2>1, <2>2, <2>3, <2>4, Shapes
  <1>. QED BY <1>1, <1>2, PTL DEF Spec

(* No two workers hold one active lease of an item enqueued once, although *)
(* expire_lease never asks whether a lease is active.                      *)
THEOREM OneHolderCorrect == Spec => []OneHolder
  <1>1. LeaseInv /\ ItemInv => OneHolder
    BY DEF LeaseInv
  <1>. QED BY <1>1, SchedulerInvariant, PTL

(* A leased item has the active lease of its latest attempt, unless its    *)
(* lease was spent on another item.                                        *)
THEOREM LeasedIsRecoverableCorrect == Spec => []LeasedIsRecoverable
  <1>1. LeaseInv /\ ItemInv => LeasedIsRecoverable
    BY DEF ItemInv
  <1>. QED BY <1>1, SchedulerInvariant, PTL

(* max_attempts and the releases bound the leases of an item, whatever is  *)
(* swept late, settled with another's lease or enqueued again.             *)
THEOREM RetriesBoundedCorrect == Spec => []RetriesBounded
  <1>1. LeaseInv /\ ItemInv => RetriesBounded
    BY DEF ItemInv
  <1>. QED BY <1>1, SchedulerInvariant, PTL

(* A lease that ended is never active again: the lease of a new attempt    *)
(* has a new name and a heartbeat needs an active lease.                   *)
THEOREM EndedLeaseStaysEndedCorrect == Spec => EndedLeaseStaysEnded
  <1>1. ASSUME LeaseInv, [Next]_vars, NEW l \in Lease,
               lease[l] \in {"completed", "released", "expired"}, enqueues'[l[1]] <= 1
        PROVE  lease'[l] # "active"
    <2>. USE DEF LeaseInv
    <2>0. l[1] \in Item /\ l[2] \in 1 .. MaxLeases /\ l = <<l[1], l[2]>>
      BY LeaseParts
    <2>1. CASE \E i \in Item : EnqueueFrontierItem(i)
      BY <2>1, <1>1 DEF EnqueueFrontierItem
    <2>2. CASE \E w \in Worker, i \in Item :
                 status[i] \in {"queued", "retrying"} /\ attempts[i] < MaxLeases /\ LeaseItem(w, i)
      <3>1. PICK w \in Worker, i \in Item : attempts[i] < MaxLeases /\ LeaseItem(w, i)
        BY <2>2
      <3>2. /\ lease' = [lease EXCEPT ![<<i, attempts[i] + 1>>] = "active"] /\ enqueues' = enqueues
            /\ attempts[i] + 1 \in 1 .. MaxLeases /\ attempts[i] + 1 > attempts[i]
        BY <1>1, <3>1, SchedulerAssumption DEF LeaseItem, TypeOK
      <3>3. l # <<i, attempts[i] + 1>>
        <4>. SUFFICES ASSUME l = <<i, attempts[i] + 1>> PROVE FALSE
          OBVIOUS
        <4>1. EnqueuedOnce(i)
          BY <1>1, <3>2 DEF EnqueuedOnce
        <4>2. lease[<<i, attempts[i] + 1>>] = "absent"
          BY <1>1, <3>2, <4>1 DEF FreshLeases
        <4>. QED BY <4>2, <1>1
      <3>. QED BY <1>1, <3>2, <3>3 DEF TypeOK
    <2>3. CASE \E m \in Lease, ls \in Ended, i \in Item, s \in ItemStatus : Settles(m, ls, i, s)
      BY <2>3, <1>1 DEF Settles, Ended, TypeOK
    <2>4. CASE LetsGo
      BY <2>4, <1>1 DEF LetsGo
    <2>. QED BY <1>1, <2>1, <2>2, <2>3, <2>4, Shapes
  <1>. DEFINE A == \A l \in Lease :
                     lease[l] \in {"completed", "released", "expired"} /\ enqueues'[l[1]] <= 1
                     => lease'[l] # "active"
  <1>2. LeaseInv /\ ItemInv /\ [Next]_vars => [A]_vars
    BY <1>1
  <1>. HIDE DEF A
  <1>3. Spec => [][A]_vars
    BY <1>2, SchedulerInvariant, PTL DEF Spec
  <1>. QED BY <1>3 DEF A, EndedLeaseStaysEnded

(* Once something went wrong there is an expired lease, or a recorded      *)
(* misuse, for good; so no report passes again.                            *)
THEOREM FailureStaysVisibleCorrect == Spec => FailureStaysVisible
  <1>. DEFINE A == /\ RecoveryResult # "pass" /\ (\A i \in Item : enqueues'[i] <= 1)
                      => RecoveryResult' # "pass"
                   /\ invalid => RecoveryResult' = "fail"
  <1>1. invalid => RecoveryResult = "fail"
    BY DEF RecoveryResult
  <1>2. (\E l \in Lease : lease[l] = "expired") => RecoveryResult # "pass"
    BY DEF RecoveryResult
  <1>3. ASSUME LeaseInv, ItemInv, \A i \in Item : EnqueuedOnce(i), RecoveryResult # "pass"
        PROVE  invalid \/ \E l \in Lease : lease[l] = "expired"
    <2>1. \/ invalid \/ \E i \in Item : status[i] = "dead_lettered"
          \/ \E l \in Lease : lease[l] = "expired"
          \/ \E i \in Item : status[i] = "retrying"
      BY <1>3 DEF RecoveryResult
    <2>2. ASSUME NEW i \in Item, status[i] \in {"retrying", "dead_lettered"}
          PROVE  \E l \in Lease : lease[l] = "expired"
      <3>1. PICK n \in 1 .. MaxLeases : lease[<<i, n>>] = "expired"
        BY <1>3, <2>2 DEF ItemInv, ExpiryVisible
      <3>. QED BY <3>1, LeasePair
    <2>. QED BY <2>1, <2>2
  <1>4. ASSUME LeaseInv, [Next]_vars PROVE invalid => invalid'
    <2>1. CASE \E i \in Item : EnqueueFrontierItem(i)
      <3>1. PICK i \in Item : EnqueueFrontierItem(i)
        BY <2>1
      <3>2. invalid' = invalid
        BY <3>1, Zenon DEF EnqueueFrontierItem
      <3>. QED BY <3>2, Zenon
    <2>2. CASE \E w \in Worker, i \in Item :
                 status[i] \in {"queued", "retrying"} /\ attempts[i] < MaxLeases /\ LeaseItem(w, i)
      <3>1. PICK w \in Worker, i \in Item : LeaseItem(w, i)
        BY <2>2
      <3>2. invalid' = invalid
        BY <3>1, Zenon DEF LeaseItem
      <3>. QED BY <3>2, Zenon
    <2>3. CASE \E m \in Lease, ls \in Ended, i \in Item, s \in ItemStatus : Settles(m, ls, i, s)
      <3>1. PICK m \in Lease, ls \in Ended, i \in Item, s \in ItemStatus : Settles(m, ls, i, s)
        BY <2>3
      <3>2. invalid' = invalid
        BY <3>1, Zenon DEF Settles
      <3>. QED BY <3>2, Zenon
    <2>4. CASE LetsGo
      BY <2>4, Zenon DEF LetsGo
    <2>. QED BY <1>4, <2>1, <2>2, <2>3, <2>4, Shapes
  <1>5. ASSUME LeaseInv, [Next]_vars, NEW l \in Lease, lease[l] = "expired", enqueues'[l[1]] <= 1
        PROVE  lease'[l] = "expired"
    <2>. USE DEF LeaseInv
    <2>1. CASE \E i \in Item : EnqueueFrontierItem(i)
      BY <2>1, <1>5 DEF EnqueueFrontierItem
    <2>2. CASE \E w \in Worker, i \in Item :
                 status[i] \in {"queued", "retrying"} /\ attempts[i] < MaxLeases /\ LeaseItem(w, i)
      <3>1. PICK w \in Worker, i \in Item : attempts[i] < MaxLeases /\ LeaseItem(w, i)
        BY <2>2
      <3>2. /\ lease' = [lease EXCEPT ![<<i, attempts[i] + 1>>] = "active"] /\ enqueues' = enqueues
            /\ attempts[i] + 1 \in 1 .. MaxLeases /\ attempts[i] + 1 > attempts[i]
        BY <1>5, <3>1, SchedulerAssumption DEF LeaseItem, TypeOK
      <3>3. l # <<i, attempts[i] + 1>>
        <4>. SUFFICES ASSUME l = <<i, attempts[i] + 1>> PROVE FALSE
          OBVIOUS
        <4>1. EnqueuedOnce(i)
          BY <1>5, <3>2 DEF EnqueuedOnce
        <4>2. lease[<<i, attempts[i] + 1>>] = "absent"
          BY <1>5, <3>2, <4>1 DEF FreshLeases
        <4>. QED BY <4>2, <1>5
      <3>. QED BY <1>5, <3>2, <3>3 DEF TypeOK
    <2>3. CASE \E m \in Lease, ls \in Ended, i \in Item, s \in ItemStatus : Settles(m, ls, i, s)
      BY <2>3, <1>5 DEF Settles, Ended, TypeOK
    <2>4. CASE LetsGo
      BY <2>4, <1>5 DEF LetsGo
    <2>. QED BY <1>5, <2>1, <2>2, <2>3, <2>4, Shapes
  <1>6. ASSUME LeaseInv, [Next]_vars, NEW i \in Item, enqueues'[i] <= 1 PROVE EnqueuedOnce(i)
    <2>. USE DEF LeaseInv
    <2>1. CASE \E j \in Item : EnqueueFrontierItem(j)
      BY <2>1, <1>6, SchedulerAssumption DEF EnqueueFrontierItem, EnqueuedOnce, TypeOK
    <2>2. CASE \E w \in Worker, j \in Item :
                 status[j] \in {"queued", "retrying"} /\ attempts[j] < MaxLeases /\ LeaseItem(w, j)
      BY <2>2, <1>6 DEF LeaseItem, EnqueuedOnce
    <2>3. CASE \E m \in Lease, ls \in Ended, j \in Item, s \in ItemStatus : Settles(m, ls, j, s)
      BY <2>3, <1>6 DEF Settles, EnqueuedOnce
    <2>4. CASE LetsGo
      BY <2>4, <1>6 DEF LetsGo, EnqueuedOnce
    <2>. QED BY <1>6, <2>1, <2>2, <2>3, <2>4, Shapes
  <1>7. ASSUME LeaseInv, ItemInv, [Next]_vars, RecoveryResult # "pass",
               \A i \in Item : enqueues'[i] <= 1
        PROVE  RecoveryResult' # "pass"
    <2>1. \A i \in Item : EnqueuedOnce(i)
      BY <1>6, <1>7
    <2>2. invalid' => RecoveryResult' = "fail"
      BY DEF RecoveryResult
    <2>3. (\E l \in Lease : lease'[l] = "expired") => RecoveryResult' # "pass"
      BY DEF RecoveryResult
    <2>4. invalid \/ \E l \in Lease : lease[l] = "expired"
      BY <1>3, <1>7, <2>1
    <2>5. ASSUME NEW l \in Lease, lease[l] = "expired" PROVE lease'[l] = "expired"
      BY <1>5, <1>7, <2>5, LeaseParts
    <2>. QED BY <1>4, <1>7, <2>2, <2>3, <2>4, <2>5
  <1>8. LeaseInv /\ ItemInv /\ [Next]_vars => [A]_vars
    <2>1. invalid' => RecoveryResult' = "fail"
      BY DEF RecoveryResult
    <2>. QED BY <2>1, <1>4, <1>7, Zenon DEF A
  <1>. HIDE DEF A
  <1>9. Spec => [][A]_vars
    BY <1>8, SchedulerInvariant, PTL DEF Spec
  <1>. QED BY <1>9 DEF A, FailureStaysVisible
=============================================================================
