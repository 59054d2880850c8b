------------------------------ MODULE Scheduler ------------------------------
(***************************************************************************)
(* The scheduler's frontier items and queue leases, scheduler/runtime.py   *)
(* over runtime_support/durable_store.py.                                  *)
(*                                                                         *)
(* The service functions run one at a time on the store; their callers,    *)
(* several workers and a sweeper that expires leases, interleave between   *)
(* calls and act on what they learned before.  Nothing is assumed of them  *)
(* that the functions do not check: an id is enqueued again, a lease that  *)
(* ended is expired, and an item is settled with another item's lease.  A  *)
(* lease is named by its item and attempt, which also give its token       *)
(* ("lease:<item>:<attempt>").                                             *)
(***************************************************************************)
EXTENDS Naturals

CONSTANTS
    Item, Worker,
    Priority, Rank,     \* per item: its priority, and its place in the order of ids
    MaxAttempts,        \* per item: max_attempts
    MaxLeases,          \* bound: attempts of an item since it was enqueued
    MaxEnqueues,        \* bound: how often an id is enqueued
    NoLease

ASSUME SchedulerAssumption ==
    /\ Priority \in [Item -> Nat]
    /\ Rank \in [Item -> Nat]
    /\ \A i, j \in Item : Rank[i] = Rank[j] => i = j
    /\ MaxAttempts \in [Item -> Nat \ {0}]
    /\ MaxLeases \in Nat /\ MaxEnqueues \in Nat
    /\ NoLease \notin Item \X (1 .. MaxLeases)

Lease == Item \X (1 .. MaxLeases)

VARIABLES
    status,     \* FrontierItem.status
    attempts,   \* FrontierItem.attempt_count
    lease,      \* lease -> QueueLease.status
    invalid,    \* has any misuse of a lease been recorded (invalid_lease_refs)?
    held,       \* worker -> the lease it believes to hold
    enqueues,   \* history: how often each id was enqueued
    releases,   \* history: releases of an item since it was last enqueued
    orphaned    \* history: items whose lease was spent on another item

vars == <<status, attempts, lease, invalid, held, enqueues, releases, orphaned>>

ItemStatus == {"absent", "queued", "leased", "completed", "retrying", "dead_lettered"}
LeaseStatus == {"absent", "active", "completed", "released", "expired"}

Init ==
    /\ status = [i \in Item |-> "absent"]
    /\ attempts = [i \in Item |-> 0]
    /\ lease = [l \in Lease |-> "absent"]
    /\ invalid = FALSE
    /\ held = [w \in Worker |-> NoLease]
    /\ enqueues = [i \in Item |-> 0]
    /\ releases = [i \in Item |-> 0]
    /\ orphaned = {}

(* enqueue_frontier_item saves a new item under the id, whatever is there; *)
(* the leases of the item it replaces stay.                                *)
EnqueueFrontierItem(i) ==
    /\ enqueues[i] < MaxEnqueues
    /\ status' = [status EXCEPT ![i] = "queued"]
    /\ attempts' = [attempts EXCEPT ![i] = 0]
    /\ enqueues' = [enqueues EXCEPT ![i] = @ + 1]
    /\ releases' = [releases EXCEPT ![i] = 0]
    /\ orphaned' = orphaned \ {i}
    /\ UNCHANGED <<lease, invalid, held>>

Eligible == {i \in Item : status[i] \in {"queued", "retrying"}}

(* The sort key (-priority, id).                                           *)
Before(i, j) ==
    \/ Priority[i] > Priority[j]
    \/ Priority[i] = Priority[j] /\ Rank[i] < Rank[j]

(* Mutant: the attempt is not counted.                                     *)
LeaseItem_NotCounted(w, i) ==
    /\ lease' = [lease EXCEPT ![<<i, attempts[i] + 1>>] = "active"]
    /\ status' = [status EXCEPT ![i] = "leased"]
    /\ held' = [held EXCEPT ![w] = <<i, attempts[i] + 1>>]
    /\ orphaned' = orphaned \ {i}
    /\ UNCHANGED <<attempts, invalid, enqueues, releases>>

(* The new lease replaces one of the same item and number, if an item that *)
(* was enqueued again has one.                                             *)
LeaseItem(w, i) ==
    /\ lease' = [lease EXCEPT ![<<i, attempts[i] + 1>>] = "active"]
    /\ status' = [status EXCEPT ![i] = "leased"]
    /\ attempts' = [attempts EXCEPT ![i] = @ + 1]
    /\ held' = [held EXCEPT ![w] = <<i, attempts[i] + 1>>]
    /\ orphaned' = orphaned \ {i}
    /\ UNCHANGED <<invalid, enqueues, releases>>

LeaseNextFrontierItem(w) ==
    /\ held[w] = NoLease
    /\ \E i \in Eligible :
         /\ \A j \in Eligible \ {i} : Before(i, j)
         /\ attempts[i] < MaxLeases
         /\ LeaseItem(w, i)

(* Mutant: the lease's status is not checked, only its token.              *)
RequireActiveLease_TokenOnly(l) == lease[l] # "absent"

(* _require_active_lease.  The holder passes the token it was given.       *)
RequireActiveLease(l) == lease[l] = "active"

(* A heartbeat records itself on the lease and makes it active again, so   *)
(* between calls no lease is in the status heartbeat_recorded.             *)
HeartbeatLease(w) ==
    /\ held[w] # NoLease
    /\ RequireActiveLease(held[w])
    /\ lease' = [lease EXCEPT ![held[w]] = "active"]
    /\ UNCHANGED <<status, attempts, invalid, held, enqueues, releases, orphaned>>

(* The lease of l's item was spent on item i.                              *)
Orphan(l, i) == orphaned' = IF l[1] = i THEN orphaned ELSE orphaned \cup {l[1]}

(* item_ref is an argument of its own, and any known item will do.         *)
CompleteFrontierItem(w, i) ==
    /\ held[w] # NoLease
    /\ RequireActiveLease(held[w])
    /\ status[i] # "absent"
    /\ lease' = [lease EXCEPT ![held[w]] = "completed"]
    /\ status' = [status EXCEPT ![i] = "completed"]
    /\ held' = [held EXCEPT ![w] = NoLease]
    /\ Orphan(held[w], i)
    /\ UNCHANGED <<attempts, invalid, enqueues, releases>>

ReleaseFrontierItem(w, i) ==
    /\ held[w] # NoLease
    /\ RequireActiveLease(held[w])
    /\ status[i] # "absent"
    /\ lease' = [lease EXCEPT ![held[w]] = "released"]
    /\ status' = [status EXCEPT ![i] = "queued"]
    /\ held' = [held EXCEPT ![w] = NoLease]
    /\ releases' = [releases EXCEPT ![i] = @ + 1]
    /\ Orphan(held[w], i)
    /\ UNCHANGED <<attempts, invalid, enqueues>>

(* The LeaseTokenError of a heartbeat, complete or release: the misuse is  *)
(* recorded and the worker gives up.                                       *)
LeaseRejected(w) ==
    /\ held[w] # NoLease
    /\ ~RequireActiveLease(held[w])
    /\ invalid' = TRUE
    /\ held' = [held EXCEPT ![w] = NoLease]
    /\ UNCHANGED <<status, attempts, lease, enqueues, releases, orphaned>>

(* A caller with the id of no lease, or a token that is not the lease's.   *)
WrongToken ==
    /\ invalid' = TRUE
    /\ UNCHANGED <<status, attempts, lease, held, enqueues, releases, orphaned>>

(* A worker that dies keeps nothing; its lease stays active.               *)
WorkerLost(w) ==
    /\ held[w] # NoLease
    /\ held' = [held EXCEPT ![w] = NoLease]
    /\ UNCHANGED <<status, attempts, lease, invalid, enqueues, releases, orphaned>>

(* Mutant: one attempt too many.                                           *)
AfterExpiry_Late(i) == IF attempts[i] <= MaxAttempts[i] THEN "retrying" ELSE "dead_lettered"

AfterExpiry(i) == IF attempts[i] < MaxAttempts[i] THEN "retrying" ELSE "dead_lettered"

(* Mutant: only the lease is saved.                                        *)
ExpireLease_LeaseOnly(l) ==
    /\ lease[l] # "absent"
    /\ lease' = [lease EXCEPT ![l] = "expired"]
    /\ UNCHANGED <<status, attempts, invalid, held, enqueues, releases, orphaned>>

(* The sweeper expires a lease at any time after it was made: expire_lease *)
(* asks neither whether the lease is active nor whether it is the latest   *)
(* of its item, and looks at the item's attempts only.                     *)
ExpireLease(l) ==
    /\ lease[l] # "absent"
    /\ lease' = [lease EXCEPT ![l] = "expired"]
    /\ status' = [status EXCEPT ![l[1]] = AfterExpiry(l[1])]
    /\ UNCHANGED <<attempts, invalid, held, enqueues, releases, orphaned>>

Next ==
    \/ \E i \in Item : EnqueueFrontierItem(i)
    \/ \E w \in Worker :
         \/ LeaseNextFrontierItem(w) \/ HeartbeatLease(w) \/ LeaseRejected(w) \/ WorkerLost(w)
         \/ \E i \in Item : CompleteFrontierItem(w, i) \/ ReleaseFrontierItem(w, i)
    \/ \E l \in Lease : ExpireLease(l)
    \/ WrongToken

Spec == Init /\ [][Next]_vars

-----------------------------------------------------------------------------
(* scheduler_recovery_report.                                              *)

(* Mutant: a lease that expired is forgotten once its item is leased again. *)
RecoveryResult_RetryingOnly ==
    IF invalid \/ {i \in Item : status[i] = "dead_lettered"} # {} THEN "fail"
    ELSE IF {i \in Item : status[i] = "retrying"} # {} THEN "needs_review"
    ELSE "pass"

RecoveryResult ==
    IF invalid \/ {i \in Item : status[i] = "dead_lettered"} # {} THEN "fail"
    ELSE IF {l \in Lease : lease[l] = "expired"} # {} \/ {i \in Item : status[i] = "retrying"} # {}
    THEN "needs_review"
    ELSE "pass"

-----------------------------------------------------------------------------
(* Properties.  They hold whatever the callers do; those about the leases  *)
(* of an item leave out an id that was enqueued again, whose leases are    *)
(* numbered from one again.                                                *)

TypeOK ==
    /\ status \in [Item -> ItemStatus]
    /\ attempts \in [Item -> 0 .. MaxLeases]
    /\ lease \in [Lease -> LeaseStatus]
    /\ invalid \in BOOLEAN
    /\ held \in [Worker -> Lease \cup {NoLease}]
    /\ enqueues \in [Item -> 0 .. MaxEnqueues]
    /\ releases \in [Item -> Nat]
    /\ orphaned \subseteq Item

EnqueuedOnce(i) == enqueues[i] <= 1

(* No two workers hold the same active lease, over late sweeps, retries    *)
(* and leases spent on other items.                                        *)
OneHolder ==
    \A v, w \in Worker :
        /\ held[v] # NoLease /\ held[v] = held[w] /\ v # w
        /\ EnqueuedOnce(held[v][1])
        => lease[held[v]] # "active"

(* A lease that ended, by whatever call, is never active again: a late     *)
(* heartbeat does not revive it and no later attempt gets its name, so its *)
(* holder is fenced off for good.                                          *)
EndedLeaseStaysEnded ==
    [][\A l \in Lease :
         lease[l] \in {"completed", "released", "expired"} /\ enqueues'[l[1]] <= 1
         => lease'[l] # "active"]_vars

(* An item is leased only while the lease of its latest attempt is active, *)
(* so completing or expiring that lease always gets it out again.  Only an *)
(* item whose lease was spent on another is left behind.                   *)
LeasedIsRecoverable ==
    \A i \in Item \ orphaned :
        status[i] = "leased" =>
            \E n \in 1 .. MaxLeases : n = attempts[i] /\ lease[<<i, n>>] = "active"

(* max_attempts bounds the work on an item whatever is swept late or       *)
(* settled with another item's lease: since it was last enqueued it has    *)
(* been leased at most max_attempts times plus once per release, and only  *)
(* an item whose attempts are used up is dead-lettered.                    *)
RetriesBounded ==
    \A i \in Item :
        /\ attempts[i] <= MaxAttempts[i] + releases[i]
        /\ status[i] = "dead_lettered" => attempts[i] >= MaxAttempts[i]

(* What went wrong stays visible: a report that has failed or asked for a  *)
(* review never passes later, although an item may be completed after it   *)
(* was dead-lettered; and a recorded misuse of a lease fails it for good.  *)
FailureStaysVisible ==
    [][/\ RecoveryResult # "pass" /\ (\A i \in Item : enqueues'[i] <= 1)
          => RecoveryResult' # "pass"
       /\ invalid => RecoveryResult' = "fail"]_vars
=============================================================================
