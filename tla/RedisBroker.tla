----------------------------- MODULE RedisBroker -----------------------------
(***************************************************************************)
(* The Redis queue broker, adapters/queue_brokers/redis.py, for one queue. *)
(*                                                                         *)
(* Each method is a sequence of separate Redis commands with no            *)
(* transaction around them, so a step here is one command: a call first    *)
(* reads, then carries out the writes it decided on (todo) while other     *)
(* callers run.  A call may raise between any two commands (a lost         *)
(* connection or reply, a validator that refuses a record) and its         *)
(* caller then still holds the lease; a worker may also crash.             *)
(* A lease id and its token are fresh together and are one value here; the *)
(* id of an item's dead-letter record is the item's.                       *)
(***************************************************************************)
EXTENDS Naturals, Sequences, FiniteSets

CONSTANTS
    Item, Key, KeyOf,   \* queue items and the idempotency key of each
    Worker,
    NoItem, NoToken, NoLease,
    MaxTokens,          \* bound: leases granted
    MaxFaults           \* bound: calls that raise and workers that crash

Token == 1 .. MaxTokens
LeaseStatus == {"active", "released"}
Handle == [item : Item, token : Token]

ASSUME BrokerAssumption ==
    /\ KeyOf \in [Item -> Key]
    /\ NoItem \notin Item
    /\ NoToken \notin Nat
    /\ NoLease \notin Handle \cup LeaseStatus
    /\ MaxTokens \in Nat
    /\ MaxFaults \in Nat

(* A worker makes its calls on a main thread; a second one heartbeats.     *)
Thread == Worker \X {"main", "heartbeat"}

VARIABLES
    idempotency,    \* key -> id of the item that claimed it
    queue,          \* the list of queued item ids
    items,          \* id -> status and fencing token of the stored QueueItem
    leases,         \* token -> status of the stored ShardLease
    expired,        \* tokens of leases whose expires_at has passed
    deadRecords,    \* items with a stored RetryDeadLetterRecord
    deadLetters,    \* the dead-letter list
    operations,     \* operation records
    nextToken,
    todo,           \* thread -> the commands its call has still to make
    held,           \* worker -> the lease it was granted and has not given back
    crashed,        \* workers that are gone
    faults

redisVars == <<idempotency, queue, items, leases, expired, deadRecords, deadLetters, operations>>
vars == <<redisVars, nextToken, todo, held, crashed, faults>>

Init ==
    /\ idempotency = [k \in Key |-> NoItem]
    /\ queue = <<>>
    /\ items = [i \in Item |-> [status |-> "none", token |-> NoToken]]
    /\ leases = [t \in Token |-> NoLease]
    /\ expired = {}
    /\ deadRecords = {}
    /\ deadLetters = <<>>
    /\ operations = {}
    /\ nextToken = 1
    /\ todo = [th \in Thread |-> <<>>]
    /\ held = [w \in Worker |-> NoLease]
    /\ crashed = {}
    /\ faults = 0

(* The commands of a call after its reads.                                 *)
Command(do, item, token, status) == [do |-> do, item |-> item, token |-> token, status |-> status]
SetItem(i, t, status) == Command("set_item", i, t, status)
SetLease(i, t, status) == Command("set_lease", i, t, status)
Push(i) == Command("rpush", i, NoToken, "none")
SetDead(i) == Command("set_dead", i, NoToken, "none")
PushDead(i) == Command("rpush_dead", i, NoToken, "none")
RecordOperation(i, t, operation) == Command("record", i, t, operation)

Idle(w, part) == w \notin crashed /\ todo[<<w, part>>] = <<>>
Call(w, part, commands) == todo' = [todo EXCEPT ![<<w, part>>] = commands]

-----------------------------------------------------------------------------
(* The calls, up to the point where what they will write is decided.       *)

(* enqueue: SET NX on the idempotency key decides.  A worker enqueues also *)
(* while it holds a lease.                                                 *)
Enqueue(w, i) ==
    /\ Idle(w, "main")
    /\ IF idempotency[KeyOf[i]] = NoItem
       THEN /\ idempotency' = [idempotency EXCEPT ![KeyOf[i]] = i]
            /\ Call(w, "main", <<SetItem(i, NoToken, "queued"), Push(i),
                                 RecordOperation(i, NoToken, "enqueue")>>)
       ELSE /\ Call(w, "main", <<RecordOperation(i, NoToken, "duplicate_enqueue")>>)
            /\ UNCHANGED idempotency
    /\ UNCHANGED <<queue, items, leases, expired, deadRecords, deadLetters, operations, nextToken, held,
                   crashed, faults>>

(* lease, first command: LPOP.  An empty queue raises and changes nothing. *)
LeasePop(w) ==
    /\ Idle(w, "main") /\ held[w] = NoLease
    /\ queue # <<>> /\ nextToken <= MaxTokens
    /\ queue' = Tail(queue)
    /\ Call(w, "main", <<Command("get_item", Head(queue), nextToken, "none")>>)
    /\ nextToken' = nextToken + 1
    /\ UNCHANGED <<idempotency, items, leases, expired, deadRecords, deadLetters, operations, held, crashed,
                   faults>>

(* lease, second command: GET of the item, which QueuedIsFree shows to be  *)
(* stored.  The token is fresh.                                            *)
LeaseRead(w) ==
    /\ todo[<<w, "main">>] # <<>>
    /\ LET cmd == Head(todo[<<w, "main">>])
       IN  /\ cmd.do = "get_item"
           /\ items[cmd.item].status # "none"
           /\ Call(w, "main", <<SetItem(cmd.item, cmd.token, "leased"),
                                SetLease(cmd.item, cmd.token, "active"),
                                RecordOperation(cmd.item, cmd.token, "lease")>>)
    /\ UNCHANGED <<redisVars, nextToken, held, crashed, faults>>

(* _validate_lease: the stored lease must carry the caller's token; its    *)
(* status and expiry are not looked at.                                    *)
ValidLease(h) == leases[h.token] # NoLease

(* heartbeat writes back the lease it read, with a new expiry.             *)
Heartbeat(w) ==
    /\ Idle(w, "heartbeat") /\ held[w] # NoLease
    /\ LET h == held[w]
       IN  /\ ValidLease(h)
           /\ Call(w, "heartbeat", <<SetLease(h.item, h.token, leases[h.token]),
                                     RecordOperation(h.item, h.token, "heartbeat")>>)
    /\ UNCHANGED <<redisVars, nextToken, held, crashed, faults>>

(* Mutant: the item's token is not compared with the lease's.              *)
ValidRefs_AnyToken(h) == ValidLease(h)

(* ack, nack and dead_letter also compare the item's token.                *)
ValidRefs(h) == ValidLease(h) /\ items[h.item].token = h.token

(* Mutant: the outcome is recorded before the item is rewritten.           *)
Ack_RecordFirst(h) ==
    <<RecordOperation(h.item, h.token, "ack"), SetItem(h.item, h.token, "acked"),
      SetLease(h.item, h.token, "released")>>

Ack(h) ==
    <<SetItem(h.item, h.token, "acked"), SetLease(h.item, h.token, "released"),
      RecordOperation(h.item, h.token, "ack")>>

(* Mutants: the item is pushed before it is rewritten; it is not pushed.   *)
Nack_PushFirst(h) ==
    <<Push(h.item), SetItem(h.item, NoToken, "queued"), SetLease(h.item, h.token, "released"),
      RecordOperation(h.item, h.token, "nack")>>
Nack_NoPush(h) ==
    <<SetItem(h.item, NoToken, "queued"), SetLease(h.item, h.token, "released"),
      RecordOperation(h.item, h.token, "nack")>>

Nack(h) ==
    <<SetItem(h.item, NoToken, "queued"), SetLease(h.item, h.token, "released"), Push(h.item),
      RecordOperation(h.item, h.token, "nack")>>

(* Mutant: the record is stored after the entry that names it.             *)
DeadLetter_RecordLast(h) ==
    <<SetItem(h.item, h.token, "dead_lettered"), SetLease(h.item, h.token, "released"),
      PushDead(h.item), SetDead(h.item), RecordOperation(h.item, h.token, "dead_letter")>>

DeadLetter(h) ==
    <<SetItem(h.item, h.token, "dead_lettered"), SetDead(h.item),
      SetLease(h.item, h.token, "released"), PushDead(h.item),
      RecordOperation(h.item, h.token, "dead_letter")>>

Settle(w) ==
    /\ Idle(w, "main") /\ held[w] # NoLease
    /\ ValidRefs(held[w])
    /\ \E commands \in {Ack(held[w]), Nack(held[w]), DeadLetter(held[w])} :
         Call(w, "main", commands)
    /\ UNCHANGED <<redisVars, nextToken, held, crashed, faults>>

(* The ValueError of a stale token; the worker gives the lease up.         *)
SettleRejected(w) ==
    /\ Idle(w, "main") /\ held[w] # NoLease
    /\ ~ValidRefs(held[w])
    /\ held' = [held EXCEPT ![w] = NoLease]
    /\ UNCHANGED <<redisVars, nextToken, todo, crashed, faults>>

-----------------------------------------------------------------------------
(* The commands.                                                           *)

Running(th, do) == todo[th] # <<>> /\ Head(todo[th]).do = do
Advance(th) == todo' = [todo EXCEPT ![th] = Tail(@)]

DoSetItem(th) ==
    /\ Running(th, "set_item")
    /\ LET cmd == Head(todo[th])
       IN  items' = [items EXCEPT ![cmd.item] = [status |-> cmd.status, token |-> cmd.token]]
    /\ Advance(th)
    /\ UNCHANGED <<idempotency, queue, leases, expired, deadRecords, deadLetters, operations, nextToken, held,
                   crashed, faults>>

(* A lease is written by lease and heartbeat with an expiry to come.       *)
DoSetLease(th) ==
    /\ Running(th, "set_lease")
    /\ LET cmd == Head(todo[th])
       IN  /\ leases' = [leases EXCEPT ![cmd.token] = cmd.status]
           /\ expired' = IF th[2] = "heartbeat" THEN expired \ {cmd.token} ELSE expired
    /\ Advance(th)
    /\ UNCHANGED <<idempotency, queue, items, deadRecords, deadLetters, operations, nextToken, held, crashed,
                   faults>>

DoPush(th) ==
    /\ Running(th, "rpush")
    /\ queue' = Append(queue, Head(todo[th]).item)
    /\ Advance(th)
    /\ UNCHANGED <<idempotency, items, leases, expired, deadRecords, deadLetters, operations, nextToken, held,
                   crashed, faults>>

DoSetDead(th) ==
    /\ Running(th, "set_dead")
    /\ deadRecords' = deadRecords \cup {Head(todo[th]).item}
    /\ Advance(th)
    /\ UNCHANGED <<idempotency, queue, items, leases, expired, deadLetters, operations, nextToken,
                   held, crashed, faults>>

DoPushDead(th) ==
    /\ Running(th, "rpush_dead")
    /\ deadLetters' = Append(deadLetters, Head(todo[th]).item)
    /\ Advance(th)
    /\ UNCHANGED <<idempotency, queue, items, leases, expired, deadRecords, operations, nextToken,
                   held, crashed, faults>>

LogWith(cmd) ==
    operations \cup {[operation |-> cmd.status, item |-> cmd.item, token |-> cmd.token]}

(* _record_operation, the last write of every call (its own three commands *)
(* touch nothing else); with it the caller learns the outcome.             *)
DoRecord(th) ==
    /\ Running(th, "record")
    /\ LET cmd == Head(todo[th])
       IN  /\ operations' = LogWith(cmd)
           /\ held' = CASE cmd.status = "lease" ->
                             [held EXCEPT ![th[1]] = [item |-> cmd.item, token |-> cmd.token]]
                        [] cmd.status \in {"ack", "nack", "dead_letter"} ->
                             [held EXCEPT ![th[1]] = NoLease]
                        [] OTHER -> held
    /\ Advance(th)
    /\ UNCHANGED <<idempotency, queue, items, leases, expired, deadRecords, deadLetters, nextToken, crashed,
                   faults>>

-----------------------------------------------------------------------------
(* The outside: time passes, calls raise, workers crash.                   *)

Expire(t) ==
    /\ leases[t] = "active" /\ t \notin expired
    /\ expired' = expired \cup {t}
    /\ UNCHANGED <<idempotency, queue, items, leases, deadRecords, deadLetters, operations, nextToken, todo,
                   held, crashed, faults>>

(* The call raises before its next command or, at the last one, when only  *)
(* the reply is lost.                                                      *)
CallRaises(th) ==
    /\ todo[th] # <<>> /\ faults < MaxFaults
    /\ todo' = [todo EXCEPT ![th] = <<>>]
    /\ faults' = faults + 1
    /\ operations' \in {operations} \cup
            (IF Running(th, "record") THEN {LogWith(Head(todo[th]))} ELSE {})
    /\ UNCHANGED <<idempotency, queue, items, leases, expired, deadRecords, deadLetters, nextToken, held,
                   crashed>>

Crash(w) ==
    /\ w \notin crashed /\ faults < MaxFaults
    /\ crashed' = crashed \cup {w}
    /\ todo' = [th \in Thread |-> IF th[1] = w THEN <<>> ELSE todo[th]]
    /\ held' = [held EXCEPT ![w] = NoLease]
    /\ faults' = faults + 1
    /\ UNCHANGED <<redisVars, nextToken>>

Execute(th) ==
    DoSetItem(th) \/ DoSetLease(th) \/ DoPush(th) \/ DoSetDead(th) \/ DoPushDead(th)
    \/ DoRecord(th)

Next ==
    \/ \E w \in Worker :
         \/ \E i \in Item : Enqueue(w, i)
         \/ LeasePop(w) \/ LeaseRead(w) \/ Heartbeat(w) \/ Settle(w) \/ SettleRejected(w)
         \/ Crash(w)
    \/ \E th \in Thread : Execute(th) \/ CallRaises(th)
    \/ \E t \in Token : Expire(t)

Spec == Init /\ [][Next]_vars

(* A worker that is alive goes on with its call and, between calls, looks  *)
(* for work and settles what it holds.                                     *)
FairSpec ==
    /\ Spec
    /\ \A th \in Thread : WF_vars(Execute(th))
    /\ \A w \in Worker : WF_vars(LeasePop(w) \/ LeaseRead(w) \/ Settle(w) \/ SettleRejected(w))

-----------------------------------------------------------------------------
(* Properties.                                                             *)

Concerns(th, i) == \E k \in DOMAIN todo[th] : todo[th][k].item = i
Writes(th, i) ==
    \E k \in DOMAIN todo[th] : todo[th][k].do \in {"get_item", "set_item"} /\ todo[th][k].item = i

(* An item in the queue is there once, is free (stored as queued, without  *)
(* a token) and no call is about to rewrite it, so that the next lease is  *)
(* the only claim on it: the order "item, lease, rpush" of nack and the    *)
(* SET NX of enqueue.                                                      *)
QueuedIsFree ==
    \A k \in DOMAIN queue :
        /\ items[queue[k]] = [status |-> "queued", token |-> NoToken]
        /\ \A th \in Thread : ~Writes(th, queue[k])
        /\ \A j \in DOMAIN queue : queue[j] = queue[k] => j = k

(* Fencing: an item under a token is changed only by the worker that was   *)
(* granted this token, whatever stale holders, retried calls and blind     *)
(* writes are around.                                                      *)
OnlyHolderWrites ==
    [][\A i \in Item :
         items'[i] # items[i] /\ items[i].token # NoToken =>
            \E w \in Worker : held[w] = [item |-> i, token |-> items[i].token]]_vars

(* As long as no call has failed, a claimed idempotency key is never left  *)
(* behind: its item is queued, in the hands of a call or of a worker, or   *)
(* settled.                                                                *)
NothingLost ==
    faults = 0 =>
        \A k \in Key : idempotency[k] # NoItem =>
            LET i == idempotency[k]
            IN  \/ \E j \in DOMAIN queue : queue[j] = i
                \/ \E th \in Thread : Concerns(th, i)
                \/ \E w \in Worker : held[w] # NoLease /\ held[w].item = i
                \/ items[i].status \in {"acked", "dead_lettered"}

(* As long as no call has failed, the operation log and the dead-letter    *)
(* list tell the fate of an item: a recorded ack or dead_letter is applied *)
(* and stays, and an item is dead-lettered once.                           *)
LogTruthful ==
    faults = 0 =>
        /\ \A o \in operations :
             /\ o.operation = "ack" => items[o.item] = [status |-> "acked", token |-> o.token]
             /\ o.operation = "dead_letter" =>
                    /\ items[o.item] = [status |-> "dead_lettered", token |-> o.token]
                    /\ \E k \in DOMAIN deadLetters : deadLetters[k] = o.item
        /\ \A j, k \in DOMAIN deadLetters : deadLetters[j] = deadLetters[k] => j = k

(* Crash-safe dead letters: at whatever command calls are cut off or       *)
(* repeated, an entry of the dead-letter list has its stored record, and a *)
(* dead_letter in the operation log has its entry.                         *)
DeadLettersBacked ==
    /\ \A k \in DOMAIN deadLetters : deadLetters[k] \in deadRecords
    /\ \A o \in operations :
         o.operation = "dead_letter" => \E k \in DOMAIN deadLetters : deadLetters[k] = o.item

(* acquire_lease takes an item that is "queued or expired", and a missed   *)
(* heartbeat "allows expiry": the item of an expired lease is not stuck.   *)
ExpiredRedelivered ==
    \A i \in Item :
        (items[i].status = "leased" /\ items[i].token \in expired)
            ~> (items[i].status # "leased" \/ items[i].token \notin expired)
=============================================================================
