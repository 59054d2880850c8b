-------------------------- MODULE RedisBroker_proofs --------------------------
(***************************************************************************)
(* The Redis broker for any number of items, keys, workers, leases and     *)
(* faults: an item has at most one claim on it, and from that the queue    *)
(* is free and fencing holds; before the first fault nothing is lost and   *)
(* the log tells the truth; and dead letters are backed at every fault.    *)
(***************************************************************************)
EXTENDS RedisBroker, TLAPS

(* Where a call of a main thread can stand: what it has still to do, for   *)
(* the item and the token the call is about.                               *)
Plan(i, t) ==
    LET log(operation) == RecordOperation(i, t, operation)
        release == SetLease(i, t, "released")
    IN
    [idle |-> <<>>,
     enqSet |-> <<SetItem(i, NoToken, "queued"), Push(i), log("enqueue")>>,
     enqPush |-> <<Push(i), log("enqueue")>>,
     enqLog |-> <<log("enqueue")>>,
     dupLog |-> <<log("duplicate_enqueue")>>,
     popped |-> <<Command("get_item", i, t, "none")>>,
     takeSet |-> <<SetItem(i, t, "leased"), SetLease(i, t, "active"), log("lease")>>,
     takeLease |-> <<SetLease(i, t, "active"), log("lease")>>,
     takeLog |-> <<log("lease")>>,
     ackSet |-> <<SetItem(i, t, "acked"), release, log("ack")>>,
     ackLease |-> <<release, log("ack")>>,
     ackLog |-> <<log("ack")>>,
     nackSet |-> <<SetItem(i, NoToken, "queued"), release, Push(i), log("nack")>>,
     nackLease |-> <<release, Push(i), log("nack")>>,
     nackPush |-> <<Push(i), log("nack")>>,
     nackLog |-> <<log("nack")>>,
     deadSet |-> <<SetItem(i, t, "dead_lettered"), SetDead(i), release, PushDead(i),
                   log("dead_letter")>>,
     deadRec |-> <<SetDead(i), release, PushDead(i), log("dead_letter")>>,
     deadLease |-> <<release, PushDead(i), log("dead_letter")>>,
     deadPush |-> <<PushDead(i), log("dead_letter")>>,
     deadLog |-> <<log("dead_letter")>>]

EnqStage == {"enqSet", "enqPush", "enqLog", "dupLog"}
TakeStage == {"popped", "takeSet", "takeLease", "takeLog"}
SettleStage ==
    {"ackSet", "ackLease", "ackLog", "nackSet", "nackLease", "nackPush", "nackLog",
     "deadSet", "deadRec", "deadLease", "deadPush", "deadLog"}
Stage == EnqStage \cup TakeStage \cup SettleStage

(* The next place, the number of commands left, and what the last of them  *)
(* records; a place is determined by the last two.                         *)
After ==
    [enqSet |-> "enqPush", enqPush |-> "enqLog", enqLog |-> "idle", dupLog |-> "idle",
     popped |-> "idle", takeSet |-> "takeLease", takeLease |-> "takeLog", takeLog |-> "idle",
     ackSet |-> "ackLease", ackLease |-> "ackLog", ackLog |-> "idle",
     nackSet |-> "nackLease", nackLease |-> "nackPush", nackPush |-> "nackLog",
     nackLog |-> "idle", deadSet |-> "deadRec", deadRec |-> "deadLease", deadLease |-> "deadPush",
     deadPush |-> "deadLog", deadLog |-> "idle"]
Left ==
    [enqSet |-> 3, enqPush |-> 2, enqLog |-> 1, dupLog |-> 1,
     popped |-> 1, takeSet |-> 3, takeLease |-> 2, takeLog |-> 1,
     ackSet |-> 3, ackLease |-> 2, ackLog |-> 1,
     nackSet |-> 4, nackLease |-> 3, nackPush |-> 2, nackLog |-> 1,
     deadSet |-> 5, deadRec |-> 4, deadLease |-> 3, deadPush |-> 2, deadLog |-> 1]
Outcome ==
    [enqSet |-> "enqueue", enqPush |-> "enqueue", enqLog |-> "enqueue",
     dupLog |-> "duplicate_enqueue",
     popped |-> "none", takeSet |-> "lease", takeLease |-> "lease", takeLog |-> "lease",
     ackSet |-> "ack", ackLease |-> "ack", ackLog |-> "ack",
     nackSet |-> "nack", nackLease |-> "nack", nackPush |-> "nack", nackLog |-> "nack",
     deadSet |-> "dead_letter", deadRec |-> "dead_letter", deadLease |-> "dead_letter",
     deadPush |-> "dead_letter", deadLog |-> "dead_letter"]

Final(q) == q[Len(q)]

SetStage == {"enqSet", "takeSet", "ackSet", "nackSet", "deadSet"}
LeaseStage == {"takeLease", "ackLease", "nackLease", "deadLease"}
PushStage == {"enqPush", "nackPush"}
LogStage == {"enqLog", "dupLog", "takeLog", "ackLog", "nackLog", "deadLog"}

(* The item as a call writes it.                                           *)
Stored(s, t) ==
    [status |-> IF s = "takeSet" THEN "leased" ELSE IF s = "ackSet" THEN "acked"
                ELSE IF s = "deadSet" THEN "dead_lettered" ELSE "queued",
     token |-> IF s \in {"enqSet", "nackSet"} THEN NoToken ELSE t]

(* The fields of a command.                                                *)
LEMMA Fields ==
    ASSUME NEW do, NEW i, NEW t, NEW status
    PROVE  LET c == Command(do, i, t, status)
           IN  c.do = do /\ c.item = i /\ c.token = t /\ c.status = status
  BY DEF Command

(* Executing the first command leads to the next place.                    *)
LEMMA PlanTail ==
    ASSUME NEW i, NEW t, NEW s \in Stage
    PROVE  /\ Plan(i, t)[s] # <<>>
           /\ Tail(Plan(i, t)[s]) = Plan(i, t)[After[s]]
           /\ After[s] \in Stage \cup {"idle"}
  <1> DEFINE p == Plan(i, t)
  <1>1. CASE s \in EnqStage
    <2>1. \/ s = "enqSet" /\ After[s] = "enqPush"
          \/ s = "enqPush" /\ After[s] = "enqLog"
          \/ s = "enqLog" /\ After[s] = "idle"
          \/ s = "dupLog" /\ After[s] = "idle"
      BY <1>1 DEF EnqStage, After
    <2>2. /\ p["enqSet"] # <<>> /\ Tail(p["enqSet"]) = p["enqPush"]
          /\ p["enqPush"] # <<>> /\ Tail(p["enqPush"]) = p["enqLog"]
      BY DEF Plan
    <2>4. /\ p["enqLog"] # <<>> /\ Tail(p["enqLog"]) = p["idle"]
          /\ p["dupLog"] # <<>> /\ Tail(p["dupLog"]) = p["idle"]
      BY DEF Plan
    <2> HIDE DEF p
    <2>3. p[s] # <<>> /\ Tail(p[s]) = p[After[s]]
      BY <2>1, <2>2, <2>4, Zenon
    <2> QED BY <2>1, <2>3 DEF p, Stage, EnqStage, TakeStage, SettleStage
  <1>2. CASE s \in TakeStage
    <2>1. \/ s = "popped" /\ After[s] = "idle"
          \/ s = "takeSet" /\ After[s] = "takeLease"
          \/ s = "takeLease" /\ After[s] = "takeLog"
          \/ s = "takeLog" /\ After[s] = "idle"
      BY <1>2 DEF TakeStage, After
    <2>2. /\ p["popped"] # <<>> /\ Tail(p["popped"]) = p["idle"]
          /\ p["takeSet"] # <<>> /\ Tail(p["takeSet"]) = p["takeLease"]
      BY DEF Plan
    <2>4. /\ p["takeLease"] # <<>> /\ Tail(p["takeLease"]) = p["takeLog"]
          /\ p["takeLog"] # <<>> /\ Tail(p["takeLog"]) = p["idle"]
      BY DEF Plan
    <2> HIDE DEF p
    <2>3. p[s] # <<>> /\ Tail(p[s]) = p[After[s]]
      BY <2>1, <2>2, <2>4, Zenon
    <2> QED BY <2>1, <2>3 DEF p, Stage, EnqStage, TakeStage, SettleStage
  <1>3. CASE s \in SettleStage
    <2>1. \/ s = "ackSet" /\ After[s] = "ackLease"
          \/ s = "ackLease" /\ After[s] = "ackLog"
          \/ s = "ackLog" /\ After[s] = "idle"
          \/ s = "nackSet" /\ After[s] = "nackLease"
          \/ s = "nackLease" /\ After[s] = "nackPush"
          \/ s = "nackPush" /\ After[s] = "nackLog"
          \/ s = "nackLog" /\ After[s] = "idle"
          \/ s = "deadSet" /\ After[s] = "deadRec"
          \/ s = "deadRec" /\ After[s] = "deadLease"
          \/ s = "deadLease" /\ After[s] = "deadPush"
          \/ s = "deadPush" /\ After[s] = "deadLog"
          \/ s = "deadLog" /\ After[s] = "idle"
      BY <1>3 DEF SettleStage, After
    <2>2. /\ p["ackSet"] # <<>> /\ Tail(p["ackSet"]) = p["ackLease"]
          /\ p["ackLease"] # <<>> /\ Tail(p["ackLease"]) = p["ackLog"]
          /\ p["ackLog"] # <<>> /\ Tail(p["ackLog"]) = p["idle"]
      BY DEF Plan
    <2>4. /\ p["nackSet"] # <<>> /\ Tail(p["nackSet"]) = p["nackLease"]
          /\ p["nackLease"] # <<>> /\ Tail(p["nackLease"]) = p["nackPush"]
      BY DEF Plan
    <2>7. /\ p["nackPush"] # <<>> /\ Tail(p["nackPush"]) = p["nackLog"]
          /\ p["nackLog"] # <<>> /\ Tail(p["nackLog"]) = p["idle"]
      BY DEF Plan
    <2>5. /\ p["deadSet"] # <<>> /\ Tail(p["deadSet"]) = p["deadRec"]
          /\ p["deadRec"] # <<>> /\ Tail(p["deadRec"]) = p["deadLease"]
      BY DEF Plan
    <2>8. p["deadLease"] # <<>> /\ Tail(p["deadLease"]) = p["deadPush"]
      BY DEF Plan
    <2>6. /\ p["deadPush"] # <<>> /\ Tail(p["deadPush"]) = p["deadLog"]
          /\ p["deadLog"] # <<>> /\ Tail(p["deadLog"]) = p["idle"]
      BY DEF Plan
    <2> HIDE DEF p
    <2>3. p[s] # <<>> /\ Tail(p[s]) = p[After[s]]
      BY <2>1, <2>2, <2>4, <2>5, <2>6, <2>7, <2>8, Zenon
    <2> QED BY <2>1, <2>3 DEF p, Stage, EnqStage, TakeStage, SettleStage
  <1> QED BY <1>1, <1>2, <1>3 DEF Stage

(* The kind of the first command, by place.                                *)
LEMMA PlanHead ==
    ASSUME NEW i, NEW t, NEW s \in Stage
    PROVE  LET c == Head(Plan(i, t)[s])
           IN  /\ c.item = i
               /\ c.do = "set_item" <=> s \in SetStage
               /\ c.do = "set_lease" <=> s \in LeaseStage
               /\ c.do = "rpush" <=> s \in PushStage
               /\ c.do = "set_dead" <=> s = "deadRec"
               /\ c.do = "rpush_dead" <=> s = "deadPush"
               /\ c.do = "record" <=> s \in LogStage
               /\ c.do = "get_item" <=> s = "popped"
               /\ s \in SetStage => [status |-> c.status, token |-> c.token] = Stored(s, t)
               /\ s \in LeaseStage => c.token = t /\ c.status \in LeaseStatus
               /\ s \in LogStage => c.token = t /\ c.status = Outcome[s]
               /\ s = "popped" => c.token = t
  <1> DEFINE c == Head(Plan(i, t)[s])
  <1> USE Fields DEF SetStage, LeaseStage, PushStage, LogStage, Stored, LeaseStatus, Outcome,
                     SetItem, SetLease, Push, SetDead, PushDead, RecordOperation
  <1>1. CASE s \in EnqStage
    BY <1>1 DEF EnqStage, Plan
  <1>2. CASE s \in TakeStage
    BY <1>2 DEF TakeStage, Plan
  <1>3. CASE s \in {"ackSet", "ackLease", "ackLog"}
    BY <1>3 DEF Plan
  <1>4. CASE s \in {"nackSet", "nackLease", "nackPush", "nackLog"}
    BY <1>4 DEF Plan
  <1>5. CASE s \in {"deadSet", "deadRec", "deadLease", "deadPush", "deadLog"}
    BY <1>5 DEF Plan
  <1> QED BY <1>1, <1>2, <1>3, <1>4, <1>5 DEF Stage, SettleStage

(* The length of a plan and its last command.                              *)
LEMMA PlanEnd ==
    ASSUME NEW i, NEW t, NEW s \in Stage
    PROVE  LET p == Plan(i, t)[s]
           IN  /\ Len(p) = Left[s]
               /\ Final(p).item = i /\ Final(p).token = t /\ Final(p).status = Outcome[s]
  <1> DEFINE p == Plan(i, t)
             ends(q, n, operation) ==
                /\ Len(q) = n
                /\ Final(q).item = i /\ Final(q).token = t /\ Final(q).status = operation
  <1>1. CASE s \in EnqStage
    <2>1. \/ s = "enqSet" /\ Left[s] = 3 /\ Outcome[s] = "enqueue"
          \/ s = "enqPush" /\ Left[s] = 2 /\ Outcome[s] = "enqueue"
          \/ s = "enqLog" /\ Left[s] = 1 /\ Outcome[s] = "enqueue"
          \/ s = "dupLog" /\ Left[s] = 1 /\ Outcome[s] = "duplicate_enqueue"
      BY <1>1 DEF EnqStage, Left, Outcome
    <2>2. /\ ends(p["enqSet"], 3, "enqueue")
          /\ ends(p["enqPush"], 2, "enqueue")
          /\ ends(p["enqLog"], 1, "enqueue")
          /\ ends(p["dupLog"], 1, "duplicate_enqueue")
      BY DEF Plan, Final, RecordOperation, Command
    <2> HIDE DEF p
    <2>3. ends(p[s], Left[s], Outcome[s])
      BY <2>1, <2>2
    <2> QED BY <2>3 DEF p
  <1>2. CASE s \in TakeStage
    <2>1. \/ s = "popped" /\ Left[s] = 1 /\ Outcome[s] = "none"
          \/ s = "takeSet" /\ Left[s] = 3 /\ Outcome[s] = "lease"
          \/ s = "takeLease" /\ Left[s] = 2 /\ Outcome[s] = "lease"
          \/ s = "takeLog" /\ Left[s] = 1 /\ Outcome[s] = "lease"
      BY <1>2 DEF TakeStage, Left, Outcome
    <2>2. /\ ends(p["popped"], 1, "none")
          /\ ends(p["takeSet"], 3, "lease")
          /\ ends(p["takeLease"], 2, "lease")
          /\ ends(p["takeLog"], 1, "lease")
      BY DEF Plan, Final, RecordOperation, Command
    <2> HIDE DEF p
    <2>3. ends(p[s], Left[s], Outcome[s])
      BY <2>1, <2>2
    <2> QED BY <2>3 DEF p
  <1>3. CASE s \in SettleStage
    <2>1. \/ s = "ackSet" /\ Left[s] = 3 /\ Outcome[s] = "ack"
          \/ s = "ackLease" /\ Left[s] = 2 /\ Outcome[s] = "ack"
          \/ s = "ackLog" /\ Left[s] = 1 /\ Outcome[s] = "ack"
          \/ s = "nackSet" /\ Left[s] = 4 /\ Outcome[s] = "nack"
          \/ s = "nackLease" /\ Left[s] = 3 /\ Outcome[s] = "nack"
          \/ s = "nackPush" /\ Left[s] = 2 /\ Outcome[s] = "nack"
          \/ s = "nackLog" /\ Left[s] = 1 /\ Outcome[s] = "nack"
          \/ s = "deadSet" /\ Left[s] = 5 /\ Outcome[s] = "dead_letter"
          \/ s = "deadRec" /\ Left[s] = 4 /\ Outcome[s] = "dead_letter"
          \/ s = "deadLease" /\ Left[s] = 3 /\ Outcome[s] = "dead_letter"
          \/ s = "deadPush" /\ Left[s] = 2 /\ Outcome[s] = "dead_letter"
          \/ s = "deadLog" /\ Left[s] = 1 /\ Outcome[s] = "dead_letter"
      BY <1>3 DEF SettleStage, Left, Outcome
    <2>2. /\ ends(p["ackSet"], 3, "ack")
          /\ ends(p["ackLease"], 2, "ack")
          /\ ends(p["ackLog"], 1, "ack")
          /\ ends(p["nackSet"], 4, "nack")
          /\ ends(p["nackLease"], 3, "nack")
          /\ ends(p["nackPush"], 2, "nack")
          /\ ends(p["nackLog"], 1, "nack")
          /\ ends(p["deadSet"], 5, "dead_letter")
          /\ ends(p["deadRec"], 4, "dead_letter")
          /\ ends(p["deadLease"], 3, "dead_letter")
          /\ ends(p["deadPush"], 2, "dead_letter")
          /\ ends(p["deadLog"], 1, "dead_letter")
      BY DEF Plan, Final, RecordOperation, Command
    <2> HIDE DEF p
    <2> HIDE DEF ends
    <2>3. ends(p[s], Left[s], Outcome[s])
      BY <2>1, <2>2, Zenon
    <2> QED BY <2>3 DEF p, ends
  <1> QED BY <1>1, <1>2, <1>3 DEF Stage

(* A place is determined by what is left and what is recorded last.        *)
LEMMA StageUnique ==
    ASSUME NEW s \in Stage, NEW r \in Stage, Left[s] = Left[r], Outcome[s] = Outcome[r]
    PROVE  s = r
  BY DEF Stage, EnqStage, TakeStage, SettleStage, Left, Outcome

(* So a plan determines its place, item and token.                         *)
LEMMA PlanUnique ==
    ASSUME NEW i, NEW t, NEW s \in Stage, NEW j, NEW u, NEW r \in Stage,
           Plan(i, t)[s] = Plan(j, u)[r]
    PROVE  s = r /\ i = j /\ t = u
  <1>1. Left[s] = Left[r]
    BY PlanEnd
  <1>2. Outcome[s] = Outcome[r] /\ i = j /\ t = u
    BY PlanEnd, <1>1
  <1> QED BY <1>1, <1>2, StageUnique

(* The last command of a plan is in it.                                    *)
LEMMA PlanDomain ==
    ASSUME NEW i, NEW t, NEW s \in Stage
    PROVE  Left[s] \in DOMAIN Plan(i, t)[s]
  <1>1. CASE s \in EnqStage
    BY <1>1 DEF EnqStage, Plan, Left
  <1>2. CASE s \in TakeStage
    BY <1>2 DEF TakeStage, Plan, Left
  <1>3. CASE s \in SettleStage
    BY <1>3 DEF SettleStage, Plan, Left
  <1> QED BY <1>1, <1>2, <1>3 DEF Stage

(* The commands of a call are all about its item, and the item is written  *)
(* only by those of SetStage and by what follows popped.                   *)
LEMMA PlanItem ==
    ASSUME NEW i, NEW t, NEW s \in Stage, NEW k \in DOMAIN Plan(i, t)[s]
    PROVE  /\ Plan(i, t)[s][k].item = i
           /\ Plan(i, t)[s][k].do \in {"get_item", "set_item"} =>
                s \in SetStage \cup {"popped"}
  <1> DEFINE p == Plan(i, t)
             good(r) == \A n \in DOMAIN p[r] :
                          /\ p[r][n].item = i
                          /\ p[r][n].do \in {"get_item", "set_item"} => r \in SetStage \cup {"popped"}
  <1>1. good("enqSet") /\ good("enqPush")
    BY DEF Plan, SetStage, SetItem, SetLease, Push, SetDead, PushDead, RecordOperation, Command
  <1>2. good("enqLog") /\ good("dupLog")
    BY DEF Plan, SetStage, SetItem, SetLease, Push, SetDead, PushDead, RecordOperation, Command
  <1>3. good("popped") /\ good("takeSet")
    BY DEF Plan, SetStage, SetItem, SetLease, Push, SetDead, PushDead, RecordOperation, Command
  <1>4. good("takeLease") /\ good("takeLog")
    BY DEF Plan, SetStage, SetItem, SetLease, Push, SetDead, PushDead, RecordOperation, Command
  <1>5. good("ackSet") /\ good("ackLease")
    BY DEF Plan, SetStage, SetItem, SetLease, Push, SetDead, PushDead, RecordOperation, Command
  <1>6. good("ackLog") /\ good("nackSet")
    BY DEF Plan, SetStage, SetItem, SetLease, Push, SetDead, PushDead, RecordOperation, Command
  <1>7. good("nackLease") /\ good("nackPush")
    BY DEF Plan, SetStage, SetItem, SetLease, Push, SetDead, PushDead, RecordOperation, Command
  <1>8. good("nackLog") /\ good("deadSet")
    BY DEF Plan, SetStage, SetItem, SetLease, Push, SetDead, PushDead, RecordOperation, Command
  <1>9. good("deadLease") /\ good("deadPush")
    BY DEF Plan, SetStage, SetItem, SetLease, Push, SetDead, PushDead, RecordOperation, Command
  <1>10. good("deadLog") /\ good("deadRec")
    BY DEF Plan, SetStage, SetItem, SetLease, Push, SetDead, PushDead, RecordOperation, Command
  <1> HIDE DEF good
  <1>11. good(s)
    BY <1>1, <1>2, <1>3, <1>4, <1>5, <1>6, <1>7, <1>8, <1>9, <1>10, Zenon DEF Stage, EnqStage, TakeStage, SettleStage
  <1> QED BY <1>11 DEF good

-----------------------------------------------------------------------------
(* The main thread of w stands at s in a call about item i and token t.    *)
Main(w) == todo[<<w, "main">>]
At(w, s, i, t) == Main(w) = Plan(i, t)[s]

AnyToken == Token \cup {NoToken}
FreeItem == [status |-> "queued", token |-> NoToken]

(* What its place in a call says of the stored item, x, and of the lease   *)
(* the worker holds.                                                       *)
ItemIs(s, x, t) ==
    /\ s = "enqSet" => x.token = NoToken
    /\ s \in {"enqPush", "popped", "takeSet", "nackLease", "nackPush"} => x = FreeItem
    /\ s \in {"takeLease", "takeLog", "ackSet", "nackSet", "deadSet"} => x.token = t
    /\ s = "nackLog" => x.token # t
    /\ s \in {"ackLease", "ackLog"} => x = [status |-> "acked", token |-> t]
    /\ s \in {"deadRec", "deadLease", "deadPush", "deadLog"} =>
         x = [status |-> "dead_lettered", token |-> t]
HeldIs(s, h, i, t) ==
    /\ s \in EnqStage => t = NoToken
    /\ s \in TakeStage => t \in Token /\ h = NoLease
    /\ s \in SettleStage => t \in Token /\ h = [item |-> i, token |-> t]
MainOK(w) ==
    \/ Main(w) = <<>>
    \/ \E s \in Stage, i \in Item, t \in AnyToken :
         At(w, s, i, t) /\ HeldIs(s, held[w], i, t) /\ ItemIs(s, items[i], t)

(* What the heartbeat thread of w has still to do.                         *)
BeatPlans(h, s) ==
    {<<>>, <<RecordOperation(h.item, h.token, "heartbeat")>>,
     <<SetLease(h.item, h.token, s), RecordOperation(h.item, h.token, "heartbeat")>>}
BeatOK(w) ==
    \/ todo[<<w, "heartbeat">>] = <<>>
    \/ \E h \in Handle, s \in LeaseStatus : todo[<<w, "heartbeat">>] \in BeatPlans(h, s)

(* A worker has a claim on an item when its call is bound to write or push *)
(* the item, or when it holds the item's current token.                    *)
ClaimStage ==
    {"enqSet", "enqPush", "popped", "takeSet", "takeLease", "takeLog", "nackLease", "nackPush"}
Claim(w, i) ==
    \/ \E s \in ClaimStage, t \in AnyToken : At(w, s, i, t)
    \/ held[w] # NoLease /\ held[w].item = i /\ items[i].token = held[w].token
HasToken(w, t) ==
    \/ held[w] # NoLease /\ held[w].token = t
    \/ \E s \in TakeStage, i \in Item : At(w, s, i, t)

InQueue(i) == \E k \in DOMAIN queue : queue[k] = i

TypeOK ==
    /\ idempotency \in [Key -> Item \cup {NoItem}]
    /\ queue \in Seq(Item) /\ deadLetters \in Seq(Item)
    /\ DOMAIN items = Item
    /\ leases \in [Token -> LeaseStatus \cup {NoLease}]
    /\ nextToken \in Nat \ {0} /\ faults \in Nat
    /\ DOMAIN todo = Thread
    /\ held \in [Worker -> Handle \cup {NoLease}]

Stages == \A w \in Worker : MainOK(w)
Beats == \A w \in Worker : BeatOK(w)
Exclusive ==
    /\ \A w, v \in Worker, i \in Item : Claim(w, i) /\ Claim(v, i) => w = v
    /\ \A w \in Worker, i \in Item : Claim(w, i) => idempotency[KeyOf[i]] = i /\ ~InQueue(i)
Tokens ==
    /\ \A w, v \in Worker, t \in Token : HasToken(w, t) /\ HasToken(v, t) => w = v
    /\ \A w \in Worker, t \in Token : HasToken(w, t) => t < nextToken
Queued ==
    /\ \A k \in DOMAIN queue : items[queue[k]] = FreeItem /\ idempotency[KeyOf[queue[k]]] = queue[k]
    /\ \A j, k \in DOMAIN queue : queue[j] = queue[k] => j = k
Untouched ==
    \A i \in Item : idempotency[KeyOf[i]] # i => items[i] = [status |-> "none", token |-> NoToken]
QueueInv == TypeOK /\ Stages /\ Beats /\ Exclusive /\ Tokens /\ Queued /\ Untouched

(* A key is claimed by an item of that key; a lease that is held, or whose *)
(* operation is about to be recorded, is stored.                           *)
KeyRight == \A k \in Key : idempotency[k] # NoItem => KeyOf[idempotency[k]] = k
Granted ==
    /\ \A w \in Worker : held[w] # NoLease => leases[held[w].token] # NoLease
    /\ \A w \in Worker, i \in Item, t \in Token : At(w, "takeLog", i, t) => leases[t] # NoLease

(* The fate of an item while no call has failed: it is queued, claimed or  *)
(* settled, and what the log and the dead-letter list say of it is so.     *)
InDead(i) == \E k \in DOMAIN deadLetters : deadLetters[k] = i
Settled(i) == items[i].status \in {"acked", "dead_lettered"}
Claimed(i) == \E w \in Worker : Claim(w, i)
Accounted ==
    \A i \in Item : idempotency[KeyOf[i]] = i => InQueue(i) \/ Settled(i) \/ Claimed(i)
Closed(i) == i \in Item /\ idempotency[KeyOf[i]] = i /\ ~InQueue(i)
Reported ==
    \A o \in operations :
        /\ o.operation \in {"ack", "dead_letter"} => Closed(o.item) /\ ~Claimed(o.item)
        /\ o.operation = "ack" => items[o.item] = [status |-> "acked", token |-> o.token]
        /\ o.operation = "dead_letter" =>
             items[o.item] = [status |-> "dead_lettered", token |-> o.token] /\ InDead(o.item)
Buried ==
    /\ \A i \in Item : InDead(i) =>
         /\ Closed(i)
         /\ \A w \in Worker : Claim(w, i) => \E t \in Token : At(w, "deadLog", i, t)
    /\ \A j, k \in DOMAIN deadLetters : deadLetters[j] = deadLetters[k] => j = k
    /\ \A w \in Worker, i \in Item, t \in Token : At(w, "deadLog", i, t) => InDead(i)
FateInv == KeyRight /\ Granted /\ (faults = 0 => Accounted /\ Reported /\ Buried)

-----------------------------------------------------------------------------
(* Lemmas on a state: a thread is in one place.                            *)
LEMMA AtUnique ==
    ASSUME NEW w, NEW s \in Stage, NEW i, NEW t, At(w, s, i, t)
    PROVE  /\ Main(w) # <<>>
           /\ \A r \in Stage : \A j, u : At(w, r, j, u) => r = s /\ j = i /\ u = t
  <1>1. Main(w) # <<>>
    BY PlanTail DEF At
  <1>2. ASSUME NEW r \in Stage, NEW j, NEW u, At(w, r, j, u)
        PROVE  s = r /\ i = j /\ t = u
    <2>1. Plan(i, t)[s] = Plan(j, u)[r]
      BY <1>2 DEF At
    <2> QED BY <2>1, PlanUnique
  <1> QED BY <1>1, <1>2

(* The groups of places are places.                                        *)
LEMMA ClaimStages ==
    ClaimStage \subseteq Stage /\ TakeStage \subseteq Stage /\ SetStage \subseteq Stage
  BY DEF ClaimStage, Stage, EnqStage, TakeStage, SettleStage, SetStage

(* A handle is an item and a token, and no handle is the lack of one.      *)
LEMMA HandleFields ==
    /\ \A i \in Item, t \in Token :
          /\ [item |-> i, token |-> t] \in Handle
          /\ [item |-> i, token |-> t] # NoLease
          /\ [item |-> i, token |-> t].item = i /\ [item |-> i, token |-> t].token = t
    /\ \A h \in Handle : h # NoLease /\ h.item \in Item /\ h.token \in Token
    /\ NoToken \notin Token /\ NoItem \notin Item
  BY BrokerAssumption DEF Handle, Token

(* A call that is not about to end without effect has a claim on its item. *)
LEMMA StageClaims ==
    ASSUME NEW w, NEW s \in Stage, NEW i \in Item, NEW t \in AnyToken,
           At(w, s, i, t), HeldIs(s, held[w], i, t), ItemIs(s, items[i], t),
           s \notin {"enqLog", "dupLog", "nackLog"}
    PROVE  Claim(w, i)
  <1>1. CASE s \in ClaimStage
    BY <1>1 DEF Claim
  <1>2. CASE s \notin ClaimStage
    <2>1. s \in {"ackSet", "ackLease", "ackLog", "nackSet", "deadSet", "deadRec", "deadLease",
                 "deadPush", "deadLog"}
      BY <1>2 DEF ClaimStage, Stage, EnqStage, TakeStage, SettleStage
    <2>2. items[i].token = t
      BY <2>1 DEF ItemIs
    <2>3. t \in Token /\ held[w] = [item |-> i, token |-> t]
      BY <2>1 DEF HeldIs, SettleStage
    <2> QED BY <2>2, <2>3, HandleFields DEF Claim
  <1> QED BY <1>1, <1>2

-----------------------------------------------------------------------------
(* What a step of w may do to the items without disturbing another worker. *)
OwnStep(w) ==
    /\ \A v \in Worker \ {w} : Main(v)' = Main(v) /\ held'[v] = held[v]
    /\ \A i \in Item :
         \/ items'[i] = items[i]
         \/ /\ Claim(w, i)
            /\ \/ items'[i].token = NoToken
               \/ items'[i].token \in Token /\ HasToken(w, items'[i].token)

(* A step of one worker changes nothing of what another one claims.        *)
LEMMA Frame ==
    ASSUME QueueInv, NEW w \in Worker, OwnStep(w), NEW v \in Worker, v # w
    PROVE  /\ \A i \in Item : Claim(v, i)' <=> Claim(v, i)
           /\ \A t \in Token : HasToken(v, t)' <=> HasToken(v, t)
           /\ MainOK(v)'
  <1>1. Main(v)' = Main(v) /\ held'[v] = held[v]
    BY DEF OwnStep
  <1>2. \A s, i, t : At(v, s, i, t)' <=> At(v, s, i, t)
    BY <1>1 DEF At
  <1>3. held[v] # NoLease => held[v] \in Handle /\ held[v].token \in Token /\ HasToken(v, held[v].token)
    BY HandleFields DEF QueueInv, TypeOK, HasToken
  <1>4. ASSUME NEW i \in Item PROVE Claim(v, i)' <=> Claim(v, i)
    <2>1. CASE items'[i] = items[i]
      BY <2>1, <1>1, <1>2 DEF Claim
    <2>2. CASE items'[i] # items[i]
      <3>1. Claim(w, i) /\ ~Claim(v, i)
        BY <2>2 DEF OwnStep, QueueInv, Exclusive
      <3>2. held[v] # NoLease => items'[i].token # held[v].token
        BY <2>2, <1>3, HandleFields DEF OwnStep, QueueInv, Tokens
      <3> QED BY <3>1, <3>2, <1>1, <1>2 DEF Claim
    <2> QED BY <2>1, <2>2
  <1>5. ASSUME NEW t \in Token PROVE HasToken(v, t)' <=> HasToken(v, t)
    BY <1>1, <1>2 DEF HasToken
  <1>6. MainOK(v)'
    <2>1. CASE Main(v) = <<>>
      BY <2>1, <1>1 DEF MainOK
    <2>2. CASE Main(v) # <<>>
      <3>1. PICK s \in Stage, i \in Item, t \in AnyToken :
              At(v, s, i, t) /\ HeldIs(s, held[v], i, t) /\ ItemIs(s, items[i], t)
        BY <2>2 DEF QueueInv, Stages, MainOK
      <3>2. ItemIs(s, items'[i], t)
        <4>1. CASE s \in {"enqLog", "dupLog"}
          BY <4>1 DEF ItemIs
        <4>3. CASE s = "nackLog"
          <5>1. t \in Token /\ HasToken(v, t) /\ items[i].token # t
            BY <3>1, <4>3, HandleFields DEF HeldIs, ItemIs, SettleStage, HasToken
          <5>2. items'[i].token # t
            BY <5>1, HandleFields DEF OwnStep, QueueInv, Tokens
          <5> QED BY <4>3, <5>2 DEF ItemIs
        <4>2. CASE s \notin {"enqLog", "dupLog", "nackLog"}
          <5>1. Claim(v, i)
            BY <3>1, <4>2, StageClaims
          <5>2. items'[i] = items[i]
            BY <5>1 DEF OwnStep, QueueInv, Exclusive
          <5> QED BY <5>2, <3>1
        <4> QED BY <4>1, <4>2, <4>3
      <3> QED BY <3>1, <3>2, <1>1, <1>2 DEF MainOK
    <2> QED BY <2>1, <2>2
  <1> QED BY <1>4, <1>5, <1>6

(* What a step of w may do to its own claims and tokens.                   *)
OwnClaims(w) ==
    \A i \in Item :
        /\ Claim(w, i)' => /\ Claim(w, i) \/ \A v \in Worker : ~Claim(v, i)
                           /\ idempotency'[KeyOf[i]] = i /\ ~InQueue(i)'
        /\ InQueue(i)' => InQueue(i) \/ Claim(w, i)
        /\ idempotency[KeyOf[i]] = i => idempotency'[KeyOf[i]] = i
OwnTokens(w) ==
    /\ nextToken' \in Nat /\ nextToken <= nextToken'
    /\ \A t \in Token : HasToken(w, t)' => HasToken(w, t) \/ (t = nextToken /\ t < nextToken')

(* Claims stay exclusive when the worker that moves takes none that        *)
(* another has.                                                            *)
LEMMA ClaimsKept ==
    ASSUME QueueInv, NEW w \in Worker, OwnStep(w), OwnClaims(w)
    PROVE  Exclusive'
  <1>1. \A v \in Worker, i \in Item : v # w => (Claim(v, i)' <=> Claim(v, i))
    BY Frame
  <1>2. ASSUME NEW v \in Worker, NEW u \in Worker, NEW i \in Item, Claim(v, i)', Claim(u, i)'
        PROVE  v = u
    BY <1>1, <1>2 DEF OwnClaims, QueueInv, Exclusive
  <1>3. ASSUME NEW v \in Worker, NEW i \in Item, Claim(v, i)'
        PROVE  idempotency'[KeyOf[i]] = i /\ ~InQueue(i)'
    BY <1>1, <1>3 DEF OwnClaims, QueueInv, Exclusive
  <1> QED BY <1>2, <1>3 DEF Exclusive

(* Tokens stay with one worker when the one that moves takes none but the  *)
(* next.                                                                   *)
LEMMA TokensKept ==
    ASSUME QueueInv, NEW w \in Worker, OwnStep(w), OwnTokens(w)
    PROVE  Tokens'
  <1>1. \A v \in Worker, t \in Token : v # w => (HasToken(v, t)' <=> HasToken(v, t))
    BY Frame
  <1>2. \A v \in Worker, t \in Token : HasToken(v, t) => t < nextToken
    BY DEF QueueInv, Tokens
  <1>3. nextToken \in Nat /\ Token \subseteq Nat
    BY BrokerAssumption DEF QueueInv, TypeOK, Token
  <1>4. ASSUME NEW v \in Worker, NEW u \in Worker, NEW t \in Token, HasToken(v, t)', HasToken(u, t)'
        PROVE  v = u
    <2>1. ~(t = nextToken /\ HasToken(v, t)) /\ ~(t = nextToken /\ HasToken(u, t))
      BY <1>2, <1>3
    <2> QED BY <1>1, <1>4, <2>1 DEF OwnTokens, QueueInv, Tokens
  <1>5. ASSUME NEW v \in Worker, NEW t \in Token, HasToken(v, t)'
        PROVE  t < nextToken'
    BY <1>1, <1>2, <1>3, <1>5 DEF OwnTokens
  <1> QED BY <1>4, <1>5 DEF Tokens

-----------------------------------------------------------------------------
(* One command of a call takes it to the next place.                       *)
LEMMA AfterCases ==
    ASSUME NEW s \in Stage, After[s] # "idle"
    PROVE  /\ s \in EnqStage => <<s, After[s]>> \in {<<"enqSet", "enqPush">>, <<"enqPush", "enqLog">>}
           /\ s \in TakeStage =>
                <<s, After[s]>> \in {<<"takeSet", "takeLease">>, <<"takeLease", "takeLog">>}
           /\ s \in SettleStage =>
                <<s, After[s]>> \in
                    {<<"ackSet", "ackLease">>, <<"ackLease", "ackLog">>, <<"nackSet", "nackLease">>,
                     <<"nackLease", "nackPush">>, <<"nackPush", "nackLog">>,
                     <<"deadSet", "deadRec">>, <<"deadRec", "deadLease">>, <<"deadLease", "deadPush">>,
                     <<"deadPush", "deadLog">>}
  <1>1. CASE s \in EnqStage
    BY <1>1 DEF EnqStage, TakeStage, SettleStage, After
  <1>2. CASE s \in TakeStage
    BY <1>2 DEF EnqStage, TakeStage, SettleStage, After
  <1>3. CASE s \in SettleStage
    BY <1>3 DEF EnqStage, TakeStage, SettleStage, After
  <1> QED BY <1>1, <1>2, <1>3 DEF Stage

(* What a call writes to an item, by place.                                *)
LEMMA StoredFields ==
    ASSUME NEW t
    PROVE  /\ Stored("enqSet", t) = FreeItem /\ Stored("nackSet", t) = FreeItem
           /\ Stored("takeSet", t).token = t
           /\ Stored("ackSet", t) = [status |-> "acked", token |-> t]
           /\ Stored("deadSet", t) = [status |-> "dead_lettered", token |-> t]
           /\ FreeItem.token = NoToken /\ FreeItem.status = "queued"
           /\ \A s \in SetStage : Stored(s, t).token \in {NoToken, t}
           /\ \A s \in {"takeSet", "ackSet", "deadSet"} : Stored(s, t).token = t
           /\ [status |-> "acked", token |-> t].token = t
           /\ [status |-> "dead_lettered", token |-> t].token = t
           /\ [status |-> "acked", token |-> t].status = "acked"
           /\ [status |-> "dead_lettered", token |-> t].status = "dead_lettered"
  BY DEF Stored, FreeItem, SetStage

(* What a place requires of the handle and the item holds at the next one. *)
LEMMA NextPlace ==
    ASSUME NEW s \in Stage, NEW i, NEW t, NEW h, NEW x, After[s] # "idle"
    PROVE  /\ HeldIs(s, h, i, t) => HeldIs(After[s], h, i, t)
           /\ HeldIs(s, h, i, t) /\ ItemIs(s, x, t) /\ s \notin SetStage => ItemIs(After[s], x, t)
           /\ s \in SetStage => ItemIs(After[s], Stored(s, t), t)
  <1>1. CASE s \in EnqStage
    BY <1>1, AfterCases, StoredFields DEF EnqStage, TakeStage, SettleStage, HeldIs, ItemIs, SetStage
  <1>2. CASE s \in TakeStage
    BY <1>2, AfterCases, StoredFields DEF EnqStage, TakeStage, SettleStage, HeldIs, ItemIs, SetStage
  <1>3. CASE s \in SettleStage
    BY <1>3, AfterCases, StoredFields, HandleFields DEF EnqStage, TakeStage, SettleStage, HeldIs, ItemIs, SetStage
  <1> QED BY <1>1, <1>2, <1>3 DEF Stage

(* An idle thread has no plan.                                             *)
LEMMA NotIdle == "idle" \notin Stage /\ \A i, t : Plan(i, t)["idle"] = <<>>
  BY DEF Stage, EnqStage, TakeStage, SettleStage, Plan

(* The record ends these calls.                                            *)
LEMMA LogsEnd == \A s \in {"enqLog", "dupLog", "nackLog", "popped", "takeLog"} : After[s] = "idle"
  BY DEF After

(* The place a thread is at before and after its next command.             *)
LEMMA Placed ==
    ASSUME QueueInv, NEW w \in Worker, Main(w) # <<>>
    PROVE  \E s \in Stage, i \in Item, t \in AnyToken :
              At(w, s, i, t) /\ HeldIs(s, held[w], i, t) /\ ItemIs(s, items[i], t)
  BY DEF QueueInv, Stages, MainOK

(* Executing a command moves its thread on and no other.                   *)
LEMMA Advanced ==
    ASSUME DOMAIN todo = Thread, NEW w \in Worker, NEW s \in Stage, NEW i, NEW t,
           At(w, s, i, t), Advance(<<w, "main">>)
    PROVE  /\ Main(w)' = Plan(i, t)[After[s]]
           /\ \A r \in Stage : \A j, u : At(w, r, j, u)' => r = After[s] /\ j = i /\ u = t
           /\ \A v \in Worker \ {w} : Main(v)' = Main(v)
           /\ \A v \in Worker : todo'[<<v, "heartbeat">>] = todo[<<v, "heartbeat">>]
           /\ DOMAIN todo' = Thread
  <1>1. Main(w)' = Plan(i, t)[After[s]]
    BY PlanTail DEF Advance, Main, At, Thread
  <1>2. ASSUME NEW r \in Stage, NEW j, NEW u, At(w, r, j, u)'
        PROVE  r = After[s] /\ j = i /\ u = t
    <2>1. Plan(j, u)[r] = Plan(i, t)[After[s]] /\ Plan(j, u)[r] # <<>>
      BY <1>1, <1>2, PlanTail DEF At
    <2>2. After[s] \in Stage
      BY <2>1, PlanTail, NotIdle
    <2>3. r = After[s] /\ j = i /\ u = t
      BY <2>1, <2>2, PlanUnique
    <2> QED BY <2>3
  <1> QED BY <1>1, <1>2 DEF Advance, Main, Thread

(* A main thread that moves on keeps what its place requires.              *)
LEMMA MainMoves ==
    ASSUME QueueInv, NEW w \in Worker, NEW s \in Stage, NEW i \in Item, NEW t \in AnyToken,
           At(w, s, i, t), HeldIs(s, held[w], i, t), ItemIs(s, items[i], t),
           Advance(<<w, "main">>),
           \A v \in Worker \ {w} : held'[v] = held[v],
           \/ held'[w] = held[w] /\ s \notin {"nackLog", "takeLog"}
           \/ held'[w] = NoLease /\ s \in {"ackLog", "nackLog", "deadLog"}
           \/ held'[w] = [item |-> i, token |-> t] /\ s = "takeLog",
           \A j \in Item : j # i => items'[j] = items[j],
           IF s \in SetStage THEN items'[i] = Stored(s, t) ELSE items'[i] = items[i]
    PROVE  /\ OwnStep(w) /\ MainOK(w)'
           /\ \A j \in Item : Claim(w, j)' => Claim(w, j)
           /\ \A u \in Token : HasToken(w, u)' => HasToken(w, u)
  <1>1. DOMAIN todo = Thread /\ held \in [Worker -> Handle \cup {NoLease}]
    BY DEF QueueInv, TypeOK
  <1>2. /\ Main(w)' = Plan(i, t)[After[s]]
        /\ \A r \in Stage : \A j, u : At(w, r, j, u)' => r = After[s] /\ j = i /\ u = t
        /\ \A v \in Worker \ {w} : Main(v)' = Main(v)
    BY <1>1, Advanced
  <1>3. s \notin {"enqLog", "dupLog", "nackLog"} => Claim(w, i)
    BY StageClaims
  <1>4. /\ s \in {"takeSet", "ackSet", "deadSet", "takeLease", "takeLog"} => t \in Token /\ HasToken(w, t)
        /\ s \in TakeStage => HasToken(w, t)
    BY HandleFields DEF HeldIs, HasToken, TakeStage, SettleStage
  <1>5. OwnStep(w)
    <2>1. ASSUME NEW j \in Item, items'[j] # items[j]
          PROVE  /\ Claim(w, j)
                 /\ \/ items'[j].token = NoToken
                    \/ items'[j].token \in Token /\ HasToken(w, items'[j].token)
      <3>1. j = i /\ s \in SetStage /\ items'[i] = Stored(s, t)
        BY <2>1
      <3>2. Claim(w, i)
        BY <3>1, <1>3 DEF SetStage
      <3>3. CASE s \in {"enqSet", "nackSet"}
        BY <3>1, <3>2, <3>3, StoredFields
      <3>4. CASE s \in {"takeSet", "ackSet", "deadSet"}
        BY <3>1, <3>2, <3>4, <1>4, StoredFields
      <3> QED BY <3>1, <3>3, <3>4 DEF SetStage
    <2>2. \A v \in Worker \ {w} : Main(v)' = Main(v) /\ held'[v] = held[v]
      BY <1>2
    <2> QED BY <2>1, <2>2 DEF OwnStep
  <1>6. MainOK(w)'
    <2>1. CASE After[s] = "idle"
      BY <2>1, <1>2, NotIdle DEF MainOK
    <2>2. CASE After[s] # "idle"
      <3>1. After[s] \in Stage
        BY <2>2, PlanTail
      <3>2. s \notin {"ackLog", "nackLog", "deadLog", "takeLog"}
        BY <2>2 DEF After
      <3>3. HeldIs(After[s], held'[w], i, t)
        BY <2>2, <3>2, NextPlace
      <3>4. ItemIs(After[s], items'[i], t)
        BY <2>2, NextPlace
      <3>5. At(w, After[s], i, t)'
        BY <1>2 DEF At
      <3> QED BY <3>1, <3>3, <3>4, <3>5 DEF MainOK
    <2> QED BY <2>1, <2>2
  <1>7. ASSUME NEW j \in Item, Claim(w, j)' PROVE Claim(w, j)
    <2>1. CASE \E r \in ClaimStage, u \in AnyToken : At(w, r, j, u)'
      <3>1. j = i /\ After[s] \in Stage
        BY <2>1, <1>2, ClaimStages
      <3>2. s \notin {"enqLog", "dupLog", "nackLog"}
        BY <3>1, NotIdle, LogsEnd
      <3> QED BY <3>1, <3>2, <1>3
    <2>2. CASE held'[w] # NoLease /\ held'[w].item = j /\ items'[j].token = held'[w].token
      <3>1. CASE s = "takeLog" /\ held'[w] = [item |-> i, token |-> t]
        BY <2>2, <3>1, <1>3
      <3>2. CASE held'[w] = held[w]
        <4>1. CASE items'[j] = items[j]
          BY <2>2, <3>2, <4>1 DEF Claim
        <4>2. CASE items'[j] # items[j]
          BY <4>2, <1>3 DEF SetStage
        <4> QED BY <4>1, <4>2
      <3> QED BY <2>2, <3>1, <3>2
    <2> QED BY <1>7, <2>1, <2>2 DEF Claim
  <1>8. ASSUME NEW u \in Token, HasToken(w, u)' PROVE HasToken(w, u)
    <2>1. CASE \E r \in TakeStage, j \in Item : At(w, r, j, u)'
      <3>1. u = t /\ After[s] \in TakeStage
        BY <2>1, <1>2, ClaimStages
      <3>2. s \in TakeStage
        BY <3>1, AfterCases, NotIdle, ClaimStages DEF Stage, EnqStage, TakeStage, SettleStage
      <3> QED BY <3>1, <3>2, <1>4
    <2>2. CASE held'[w] # NoLease /\ held'[w].token = u
      <3>1. CASE s = "takeLog" /\ held'[w] = [item |-> i, token |-> t]
        BY <2>2, <3>1, <1>4
      <3>2. CASE held'[w] = held[w]
        BY <2>2, <3>2 DEF HasToken
      <3> QED BY <2>2, <3>1, <3>2
    <2> QED BY <1>8, <2>1, <2>2 DEF HasToken
  <1> QED BY <1>5, <1>6, <1>7, <1>8

-----------------------------------------------------------------------------
(* Lemmas that put the parts of the invariant together.                    *)
LEMMA OwnStepKeeps ==
    ASSUME QueueInv, NEW w \in Worker, OwnStep(w), OwnClaims(w), OwnTokens(w), MainOK(w)'
    PROVE  /\ Stages' /\ Exclusive' /\ Tokens' /\ Untouched'
           /\ queue' = queue => Queued'
  <1>1. Stages'
    BY Frame DEF Stages
  <1>2. Exclusive' /\ Tokens'
    BY ClaimsKept, TokensKept
  <1>3. Untouched'
    BY DEF QueueInv, Untouched, Exclusive, OwnStep, OwnClaims
  <1>4. ASSUME queue' = queue PROVE Queued'
    <2>1. ASSUME NEW k \in DOMAIN queue
          PROVE  items'[queue[k]] = FreeItem /\ idempotency'[KeyOf[queue[k]]] = queue[k]
      <3>1. queue[k] \in Item /\ InQueue(queue[k])
        BY DEF QueueInv, TypeOK, InQueue
      <3>2. items'[queue[k]] = items[queue[k]]
        BY <3>1 DEF OwnStep, QueueInv, Exclusive
      <3> QED BY <3>1, <3>2 DEF OwnClaims, QueueInv, Queued
    <2> QED BY <1>4, <2>1 DEF QueueInv, Queued
  <1> QED BY <1>1, <1>2, <1>3, <1>4

(* A step that leaves the queue, the items and the keys alone and gives w  *)
(* no new claim or token.                                                  *)
Shrinks(w) ==
    /\ \A i \in Item : Claim(w, i)' => Claim(w, i)
    /\ \A t \in Token : HasToken(w, t)' => HasToken(w, t)

(* A step that only gives up claims and tokens keeps the invariant.        *)
LEMMA ShrinkKeeps ==
    ASSUME QueueInv, NEW w \in Worker, OwnStep(w), Shrinks(w), MainOK(w)',
           queue' = queue, idempotency' = idempotency, nextToken' = nextToken
    PROVE  Stages' /\ Exclusive' /\ Tokens' /\ Untouched' /\ Queued'
  <1>1. \A i \in Item : InQueue(i)' <=> InQueue(i)
    BY DEF InQueue
  <1>2. OwnClaims(w)
    BY <1>1 DEF Shrinks, OwnClaims, QueueInv, Exclusive
  <1>3. OwnTokens(w)
    BY DEF Shrinks, OwnTokens, QueueInv, TypeOK
  <1> QED BY <1>2, <1>3, OwnStepKeeps

(* A step that touches neither main threads nor items keeps it.            *)
LEMMA QuietKeeps ==
    ASSUME QueueInv, \A v \in Worker : Main(v)' = Main(v),
           UNCHANGED <<idempotency, queue, items, nextToken, held>>
    PROVE  Stages' /\ Exclusive' /\ Tokens' /\ Untouched' /\ Queued'
  <1>1. \A v \in Worker : \A s, i, t : At(v, s, i, t)' <=> At(v, s, i, t)
    BY DEF At
  <1>2. \A v \in Worker : \A i : Claim(v, i)' <=> Claim(v, i)
    BY <1>1 DEF Claim
  <1>3. \A v \in Worker : \A t : HasToken(v, t)' <=> HasToken(v, t)
    BY <1>1 DEF HasToken
  <1>4. \A i : InQueue(i)' <=> InQueue(i)
    BY DEF InQueue
  <1>5. Stages'
    BY <1>1 DEF QueueInv, Stages, MainOK
  <1>6. Exclusive' /\ Tokens'
    BY <1>2, <1>3, <1>4 DEF QueueInv, Exclusive, Tokens
  <1>7. Untouched' /\ Queued'
    BY DEF QueueInv, Untouched, Queued
  <1> QED BY <1>5, <1>6, <1>7

(* A call starts, or lease goes on after its GET.                          *)
LEMMA Called ==
    ASSUME DOMAIN todo = Thread, NEW w \in Worker, NEW s \in Stage, NEW i, NEW t,
           Call(w, "main", Plan(i, t)[s])
    PROVE  /\ At(w, s, i, t)'
           /\ \A r \in Stage : \A j, u : At(w, r, j, u)' => r = s /\ j = i /\ u = t
           /\ \A v \in Worker \ {w} : Main(v)' = Main(v)
           /\ \A v \in Worker : todo'[<<v, "heartbeat">>] = todo[<<v, "heartbeat">>]
           /\ DOMAIN todo' = Thread
  <1>1. At(w, s, i, t)'
    BY DEF Call, Main, At, Thread
  <1>2. ASSUME NEW r \in Stage, NEW j, NEW u, At(w, r, j, u)'
        PROVE  r = s /\ j = i /\ u = t
    <2>1. Plan(j, u)[r] = Plan(i, t)[s]
      BY <1>1, <1>2 DEF At
    <2> QED BY <2>1, PlanUnique
  <1> QED BY <1>1, <1>2 DEF Call, Main, Thread

(* Heartbeat threads that do not move keep their plans.                    *)
LEMMA BeatsSame ==
    ASSUME QueueInv, \A v \in Worker : todo'[<<v, "heartbeat">>] = todo[<<v, "heartbeat">>]
    PROVE  Beats'
  BY DEF QueueInv, Beats, BeatOK

(* The call of w ends, or w gives its lease up.                            *)
LEMMA DropKeeps ==
    ASSUME QueueInv, NEW w \in Worker, Main(w)' = <<>>,
           \A v \in Worker \ {w} : Main(v)' = Main(v) /\ held'[v] = held[v],
           held'[w] \in {held[w], NoLease},
           UNCHANGED <<idempotency, queue, items, nextToken>>
    PROVE  Stages' /\ Exclusive' /\ Tokens' /\ Untouched' /\ Queued'
  <1>1. OwnStep(w) /\ MainOK(w)'
    BY DEF OwnStep, MainOK
  <1>2. \A s \in Stage : \A i, t : ~At(w, s, i, t)'
    BY PlanTail DEF At
  <1>3. Shrinks(w)
    BY <1>2, ClaimStages DEF Shrinks, Claim, HasToken
  <1> QED BY <1>1, <1>3, ShrinkKeeps

-----------------------------------------------------------------------------
(* The invariant holds at first and each action keeps it.                  *)
LEMMA InitQueue == Init => QueueInv
  <1> SUFFICES ASSUME Init PROVE QueueInv
    OBVIOUS
  <1>1. TypeOK
    BY BrokerAssumption DEF Init, TypeOK, Token
  <1>2. \A w \in Worker : Main(w) = <<>> /\ todo[<<w, "heartbeat">>] = <<>> /\ held[w] = NoLease
    BY DEF Init, Main, Thread
  <1>3. Stages /\ Beats
    BY <1>2 DEF Stages, Beats, MainOK, BeatOK
  <1>4. ASSUME NEW w \in Worker, NEW s \in Stage, NEW i, NEW t PROVE ~At(w, s, i, t)
    <2>1. Plan(i, t)[s] # <<>>
      BY PlanTail
    <2> QED BY <1>2, <2>1 DEF At
  <1>5. \A w \in Worker : \A i : ~Claim(w, i) /\ ~HasToken(w, i)
    BY <1>2, <1>4, ClaimStages DEF Claim, HasToken
  <1>6. Exclusive /\ Tokens
    BY <1>5 DEF Exclusive, Tokens
  <1>7. Queued /\ Untouched
    BY DEF Init, Queued, Untouched
  <1> QED BY <1>1, <1>3, <1>6, <1>7 DEF QueueInv

(* The types, as the proofs use them.                                      *)
LEMMA TypeFacts ==
    ASSUME QueueInv
    PROVE  /\ DOMAIN todo = Thread /\ DOMAIN items = Item
           /\ held \in [Worker -> Handle \cup {NoLease}]
           /\ idempotency \in [Key -> Item \cup {NoItem}]
           /\ queue \in Seq(Item) /\ nextToken \in Nat
           /\ \A i \in Item : KeyOf[i] \in Key
  BY BrokerAssumption DEF QueueInv, TypeOK

(* enqueue: the key is free, so nobody else claims the item.               *)
LEMMA EnqueueQueue ==
    ASSUME QueueInv, NEW w \in Worker, NEW i \in Item, Enqueue(w, i)
    PROVE  QueueInv'
  <1> USE TypeFacts
  <1>1. /\ Main(w) = <<>>
        /\ UNCHANGED <<queue, items, leases, deadLetters, nextToken, held, faults>>
    BY DEF Enqueue, Idle, Main
  <1>2. NoToken \in AnyToken /\ ~(\E t \in Token : t = NoToken)
    BY HandleFields DEF AnyToken
  <1>3. CASE idempotency[KeyOf[i]] = NoItem
    <2>1. /\ idempotency' = [idempotency EXCEPT ![KeyOf[i]] = i]
          /\ Call(w, "main", Plan(i, NoToken)["enqSet"])
      BY <1>3 DEF Enqueue, Plan
    <2>2. "enqSet" \in Stage
      BY DEF Stage, EnqStage
    <2>3. /\ At(w, "enqSet", i, NoToken)'
          /\ \A r \in Stage : \A j, u : At(w, r, j, u)' => r = "enqSet" /\ j = i /\ u = NoToken
          /\ \A v \in Worker \ {w} : Main(v)' = Main(v)
          /\ \A v \in Worker : todo'[<<v, "heartbeat">>] = todo[<<v, "heartbeat">>]
          /\ DOMAIN todo' = Thread
      BY <2>1, <2>2, Called
    <2>4. i # NoItem /\ items[i] = [status |-> "none", token |-> NoToken]
      BY <1>3, HandleFields DEF QueueInv, Untouched
    <2>5. OwnStep(w)
      BY <1>1, <2>3 DEF OwnStep
    <2>6. MainOK(w)'
      BY <1>1, <1>2, <2>2, <2>3, <2>4 DEF MainOK, HeldIs, ItemIs, EnqStage, TakeStage, SettleStage
    <2>7. \A j \in Item : Claim(w, j)' => j = i \/ Claim(w, j)
      BY <1>1, <2>3, ClaimStages DEF Claim
    <2>8. /\ \A v \in Worker : ~Claim(v, i)
          /\ ~InQueue(i)
      BY <1>3, <2>4 DEF QueueInv, Exclusive, Queued, InQueue
    <2>9. OwnClaims(w)
      <3>1. \A j \in Item : InQueue(j)' <=> InQueue(j)
        BY <1>1 DEF InQueue
      <3>2. idempotency'[KeyOf[i]] = i
        BY <2>1
      <3>3. \A j \in Item : idempotency[KeyOf[j]] = j => idempotency'[KeyOf[j]] = j
        BY <1>3, <2>1, HandleFields
      <3> QED BY <2>7, <2>8, <3>1, <3>2, <3>3 DEF OwnClaims, QueueInv, Exclusive
    <2>10. OwnTokens(w)
      <3>1. \A t \in Token : HasToken(w, t)' => HasToken(w, t)
        BY <1>1, <1>2, <2>3, ClaimStages DEF HasToken
      <3> QED BY <1>1, <3>1 DEF OwnTokens
    <2>11. TypeOK'
      BY <1>1, <2>1, <2>3 DEF QueueInv, TypeOK
    <2> QED BY <1>1, <2>3, <2>5, <2>6, <2>9, <2>10, <2>11, OwnStepKeeps, BeatsSame DEF QueueInv
  <1>4. CASE idempotency[KeyOf[i]] # NoItem
    <2>1. /\ idempotency' = idempotency
          /\ Call(w, "main", Plan(i, NoToken)["dupLog"])
      BY <1>4 DEF Enqueue, Plan
    <2>2. "dupLog" \in Stage
      BY DEF Stage, EnqStage
    <2>3. /\ At(w, "dupLog", i, NoToken)'
          /\ \A r \in Stage : \A j, u : At(w, r, j, u)' => r = "dupLog" /\ j = i /\ u = NoToken
          /\ \A v \in Worker \ {w} : Main(v)' = Main(v)
          /\ \A v \in Worker : todo'[<<v, "heartbeat">>] = todo[<<v, "heartbeat">>]
          /\ DOMAIN todo' = Thread
      BY <2>1, <2>2, Called
    <2>4. OwnStep(w)
      BY <1>1, <2>3 DEF OwnStep
    <2>5. MainOK(w)'
      BY <1>1, <1>2, <2>2, <2>3 DEF MainOK, HeldIs, ItemIs, EnqStage, TakeStage, SettleStage
    <2>6. Shrinks(w)
      BY <1>1, <2>3, ClaimStages DEF Shrinks, Claim, HasToken, ClaimStage, TakeStage
    <2>7. TypeOK'
      BY <1>1, <2>1, <2>3 DEF QueueInv, TypeOK
    <2> QED BY <1>1, <2>1, <2>3, <2>4, <2>5, <2>6, <2>7, ShrinkKeeps, BeatsSame DEF QueueInv
  <1> QED BY <1>3, <1>4

(* lease, the pop: the claim goes from the queue to the worker.            *)
LEMMA LeasePopQueue ==
    ASSUME QueueInv, NEW w \in Worker, LeasePop(w)
    PROVE  QueueInv'
  <1> USE TypeFacts
  <1>0. PICK i, t : i = Head(queue) /\ t = nextToken
    OBVIOUS
  <1>1. /\ Main(w) = <<>> /\ held[w] = NoLease /\ queue # <<>>
        /\ queue' = Tail(queue) /\ nextToken' = nextToken + 1
        /\ UNCHANGED <<idempotency, items, leases, deadLetters, held, faults>>
    BY DEF LeasePop, Idle, Main
  <1>2. i \in Item /\ t \in Token /\ t \in AnyToken /\ i = queue[1] /\ 1 \in DOMAIN queue
    BY <1>0, <1>1 DEF LeasePop, Token, AnyToken, QueueInv, TypeOK
  <1>3. Call(w, "main", Plan(i, t)["popped"])
    BY <1>0 DEF LeasePop, Plan
  <1>4. "popped" \in Stage
    BY DEF Stage, TakeStage
  <1>5. /\ At(w, "popped", i, t)'
        /\ \A r \in Stage : \A j, u : At(w, r, j, u)' => r = "popped" /\ j = i /\ u = t
        /\ \A v \in Worker \ {w} : Main(v)' = Main(v)
        /\ \A v \in Worker : todo'[<<v, "heartbeat">>] = todo[<<v, "heartbeat">>]
        /\ DOMAIN todo' = Thread
    BY <1>3, <1>4, Called
  <1>6. items[i] = FreeItem /\ idempotency[KeyOf[i]] = i /\ InQueue(i)
    BY <1>2 DEF QueueInv, Queued, InQueue
  <1>7. /\ DOMAIN queue' = 1 .. (Len(queue) - 1) /\ queue' \in Seq(Item)
        /\ \A k \in DOMAIN queue' : k + 1 \in DOMAIN queue /\ queue'[k] = queue[k + 1]
    BY <1>1
  <1>8. /\ \A j \in Item : InQueue(j)' => InQueue(j)
        /\ ~InQueue(i)'
    <2>1. ASSUME NEW k \in DOMAIN queue', queue'[k] = i PROVE FALSE
      <3>1. k + 1 = 1
        BY <1>2, <1>7, <2>1 DEF QueueInv, Queued
      <3> QED BY <1>7, <3>1
    <2> QED BY <1>7, <2>1 DEF InQueue
  <1>9. OwnStep(w)
    BY <1>1, <1>5 DEF OwnStep
  <1>10. MainOK(w)'
    BY <1>1, <1>2, <1>4, <1>5, <1>6 DEF MainOK, HeldIs, ItemIs, EnqStage, TakeStage, SettleStage
  <1>11. OwnClaims(w)
    <2>1. \A j \in Item : Claim(w, j)' => j = i
      BY <1>1, <1>5, ClaimStages DEF Claim
    <2>2. \A v \in Worker : ~Claim(v, i)
      BY <1>2, <1>6 DEF QueueInv, Exclusive
    <2> QED BY <1>1, <1>6, <1>8, <2>1, <2>2 DEF OwnClaims
  <1>12. OwnTokens(w)
    <2>1. \A u \in Token : HasToken(w, u)' => u = t
      BY <1>1, <1>5, ClaimStages DEF HasToken
    <2> QED BY <1>0, <1>1, <2>1 DEF OwnTokens
  <1>13. Stages' /\ Exclusive' /\ Tokens' /\ Untouched' /\ Beats'
    BY <1>5, <1>9, <1>10, <1>11, <1>12, OwnStepKeeps, BeatsSame
  <1>14. Queued'
    <2>1. \A k \in DOMAIN queue' : items'[queue'[k]] = FreeItem /\ idempotency'[KeyOf[queue'[k]]] = queue'[k]
      BY <1>1, <1>7 DEF QueueInv, Queued
    <2>2. ASSUME NEW j \in DOMAIN queue', NEW k \in DOMAIN queue', queue'[j] = queue'[k]
          PROVE  j = k
      <3>1. j + 1 = k + 1
        BY <1>7, <2>2 DEF QueueInv, Queued
      <3> QED BY <1>7, <3>1
    <2> QED BY <2>1, <2>2 DEF Queued
  <1>15. TypeOK'
    BY <1>1, <1>5, <1>7 DEF QueueInv, TypeOK
  <1> QED BY <1>13, <1>14, <1>15 DEF QueueInv

(* lease, the read: the token drawn is new.                                *)
LEMMA LeaseReadQueue ==
    ASSUME QueueInv, NEW w \in Worker, LeaseRead(w)
    PROVE  QueueInv'
  <1> USE TypeFacts
  <1>1. /\ Main(w) # <<>> /\ Head(Main(w)).do = "get_item"
        /\ UNCHANGED <<idempotency, queue, items, leases, deadLetters, nextToken, held, faults>>
    BY DEF LeaseRead, Main, redisVars
  <1>2. PICK s \in Stage, i \in Item, t \in AnyToken :
          At(w, s, i, t) /\ HeldIs(s, held[w], i, t) /\ ItemIs(s, items[i], t)
    BY <1>1, Placed
  <1>3. s = "popped" /\ Head(Main(w)).item = i /\ Head(Main(w)).token = t
    BY <1>1, <1>2, PlanHead DEF At
  <1>4. t \in Token /\ held[w] = NoLease /\ items[i] = FreeItem /\ HasToken(w, t) /\ Claim(w, i)
    BY <1>2, <1>3 DEF HeldIs, ItemIs, TakeStage, HasToken, Claim, ClaimStage
  <1>5. Call(w, "main", Plan(i, t)["takeSet"])
    BY <1>3 DEF LeaseRead, Plan, Main
  <1>6. "takeSet" \in Stage
    BY DEF Stage, TakeStage
  <1>7. /\ At(w, "takeSet", i, t)'
        /\ \A r \in Stage : \A j, u : At(w, r, j, u)' => r = "takeSet" /\ j = i /\ u = t
        /\ \A v \in Worker \ {w} : Main(v)' = Main(v)
        /\ \A v \in Worker : todo'[<<v, "heartbeat">>] = todo[<<v, "heartbeat">>]
        /\ DOMAIN todo' = Thread
    BY <1>5, <1>6, Called
  <1>8. OwnStep(w)
    BY <1>1, <1>7 DEF OwnStep
  <1>9. MainOK(w)'
    BY <1>1, <1>4, <1>6, <1>7 DEF MainOK, HeldIs, ItemIs, EnqStage, TakeStage, SettleStage
  <1>10. Shrinks(w)
    BY <1>1, <1>4, <1>7, ClaimStages DEF Shrinks, Claim, HasToken
  <1>11. TypeOK'
    BY <1>1, <1>7 DEF QueueInv, TypeOK
  <1> QED BY <1>1, <1>7, <1>8, <1>9, <1>10, <1>11, ShrinkKeeps, BeatsSame DEF QueueInv

(* ack, nack and dead_letter: the fence lets only the holder in.           *)
LEMMA SettleQueue ==
    ASSUME QueueInv, NEW w \in Worker, Settle(w)
    PROVE  QueueInv'
  <1> USE TypeFacts
  <1>1. /\ Main(w) = <<>> /\ held[w] # NoLease
        /\ items[held[w].item].token = held[w].token
        /\ UNCHANGED <<idempotency, queue, items, leases, deadLetters, nextToken, held, faults>>
    BY DEF Settle, ValidRefs, Idle, Main, redisVars
  <1>2. PICK i \in Item, t \in Token : held[w] = [item |-> i, token |-> t]
    BY <1>1 DEF Handle
  <1>3. held[w].item = i /\ held[w].token = t /\ t \in AnyToken /\ HasToken(w, t) /\ Claim(w, i)
    BY <1>1, <1>2 DEF HasToken, Claim, AnyToken
  <1>4. \E s \in {"ackSet", "nackSet", "deadSet"} : Call(w, "main", Plan(i, t)[s])
    BY <1>3 DEF Settle, Plan, Ack, Nack, DeadLetter
  <1>5. PICK s \in {"ackSet", "nackSet", "deadSet"} : Call(w, "main", Plan(i, t)[s])
    BY <1>4
  <1>6. s \in Stage /\ s \notin ClaimStage /\ s \notin TakeStage
    BY DEF Stage, SettleStage, ClaimStage, TakeStage
  <1>7. /\ At(w, s, i, t)'
        /\ \A r \in Stage : \A j, u : At(w, r, j, u)' => r = s /\ j = i /\ u = t
        /\ \A v \in Worker \ {w} : Main(v)' = Main(v)
        /\ \A v \in Worker : todo'[<<v, "heartbeat">>] = todo[<<v, "heartbeat">>]
        /\ DOMAIN todo' = Thread
    BY <1>5, <1>6, Called
  <1>8. OwnStep(w)
    BY <1>1, <1>7 DEF OwnStep
  <1>9. MainOK(w)'
    <2>1. HeldIs(s, held[w], i, t) /\ ItemIs(s, items[i], t)
      BY <1>1, <1>2, <1>3 DEF HeldIs, ItemIs, EnqStage, TakeStage, SettleStage
    <2> QED BY <1>1, <1>3, <1>6, <1>7, <2>1 DEF MainOK
  <1>10. Shrinks(w)
    BY <1>1, <1>6, <1>7, ClaimStages DEF Shrinks, Claim, HasToken
  <1>11. TypeOK'
    BY <1>1, <1>7 DEF QueueInv, TypeOK
  <1> QED BY <1>1, <1>7, <1>8, <1>9, <1>10, <1>11, ShrinkKeeps, BeatsSame DEF QueueInv

(* A settlement that the fence rejects changes nothing.                    *)
LEMMA SettleRejectedQueue ==
    ASSUME QueueInv, NEW w \in Worker, SettleRejected(w)
    PROVE  QueueInv'
  <1> USE TypeFacts
  <1>1. /\ Main(w) = <<>> /\ todo' = todo /\ held' = [held EXCEPT ![w] = NoLease]
        /\ UNCHANGED <<idempotency, queue, items, leases, deadLetters, nextToken, faults>>
    BY DEF SettleRejected, Idle, Main, redisVars
  <1>2. \A v \in Worker : Main(v)' = Main(v)
    BY <1>1 DEF Main
  <1>3. Stages' /\ Exclusive' /\ Tokens' /\ Untouched' /\ Queued'
    BY <1>1, <1>2, DropKeeps
  <1>4. TypeOK' /\ Beats'
    BY <1>1, BeatsSame DEF QueueInv, TypeOK
  <1> QED BY <1>3, <1>4 DEF QueueInv

(* A crash drops the claims of its worker.                                 *)
LEMMA CrashQueue ==
    ASSUME QueueInv, NEW w \in Worker, Crash(w)
    PROVE  QueueInv'
  <1> USE TypeFacts
  <1>1. /\ held' = [held EXCEPT ![w] = NoLease] /\ faults' = faults + 1
        /\ todo' = [th \in Thread |-> IF th[1] = w THEN <<>> ELSE todo[th]]
        /\ UNCHANGED <<idempotency, queue, items, leases, deadLetters, nextToken>>
    BY DEF Crash, redisVars
  <1>2. ASSUME NEW v \in Worker
        PROVE  /\ v = w => Main(v)' = <<>> /\ todo'[<<v, "heartbeat">>] = <<>>
               /\ v # w => /\ Main(v)' = Main(v)
                           /\ todo'[<<v, "heartbeat">>] = todo[<<v, "heartbeat">>]
    BY <1>1 DEF Main, Thread
  <1>3. Stages' /\ Exclusive' /\ Tokens' /\ Untouched' /\ Queued'
    BY <1>1, <1>2, DropKeeps
  <1>4. Beats'
    BY <1>2 DEF QueueInv, Beats, BeatOK
  <1>5. TypeOK'
    BY <1>1 DEF QueueInv, TypeOK
  <1> QED BY <1>3, <1>4, <1>5 DEF QueueInv

(* The passing of time changes no claim.                                   *)
LEMMA ExpireQueue ==
    ASSUME QueueInv, NEW t \in Token, Expire(t)
    PROVE  QueueInv'
  <1>1. UNCHANGED <<idempotency, queue, items, leases, deadLetters, nextToken, todo, held, faults>>
    BY DEF Expire
  <1>2. \A v \in Worker : Main(v)' = Main(v)
    BY <1>1 DEF Main
  <1>3. Stages' /\ Exclusive' /\ Tokens' /\ Untouched' /\ Queued'
    BY <1>1, <1>2, QuietKeeps
  <1>4. TypeOK' /\ Beats'
    BY <1>1, BeatsSame DEF QueueInv, TypeOK
  <1> QED BY <1>3, <1>4 DEF QueueInv

(* A call that raises drops the rest of its plan.                          *)
LEMMA CallRaisesQueue ==
    ASSUME QueueInv, NEW th \in Thread, CallRaises(th)
    PROVE  QueueInv'
  <1> USE TypeFacts
  <1>1. /\ todo' = [todo EXCEPT ![th] = <<>>] /\ faults' = faults + 1
        /\ UNCHANGED <<idempotency, queue, items, leases, deadLetters, nextToken, held>>
    BY DEF CallRaises
  <1>2. TypeOK'
    BY <1>1 DEF QueueInv, TypeOK
  <1>3. PICK w \in Worker : th = <<w, "main">> \/ th = <<w, "heartbeat">>
    BY DEF Thread
  <1>4. CASE th = <<w, "main">>
    <2>1. /\ Main(w)' = <<>>
          /\ \A v \in Worker \ {w} : Main(v)' = Main(v)
          /\ \A v \in Worker : todo'[<<v, "heartbeat">>] = todo[<<v, "heartbeat">>]
      BY <1>1, <1>4 DEF Main, Thread
    <2>2. Stages' /\ Exclusive' /\ Tokens' /\ Untouched' /\ Queued'
      BY <1>1, <2>1, DropKeeps
    <2> QED BY <1>2, <2>1, <2>2, BeatsSame DEF QueueInv
  <1>5. CASE th = <<w, "heartbeat">>
    <2>1. /\ \A v \in Worker : Main(v)' = Main(v)
          /\ todo'[<<w, "heartbeat">>] = <<>>
          /\ \A v \in Worker \ {w} : todo'[<<v, "heartbeat">>] = todo[<<v, "heartbeat">>]
      BY <1>1, <1>5 DEF Main, Thread
    <2>2. Stages' /\ Exclusive' /\ Tokens' /\ Untouched' /\ Queued'
      BY <1>1, <2>1, QuietKeeps
    <2>3. Beats'
      BY <2>1 DEF QueueInv, Beats, BeatOK
    <2> QED BY <1>2, <2>2, <2>3 DEF QueueInv
  <1> QED BY <1>3, <1>4, <1>5

(* The heartbeat thread touches neither items nor queue.                   *)
LEMMA HeartbeatQueue ==
    ASSUME QueueInv, NEW w \in Worker, Heartbeat(w)
    PROVE  QueueInv'
  <1> USE TypeFacts
  <1>1. /\ held[w] \in Handle /\ leases[held[w].token] \in LeaseStatus
        /\ UNCHANGED <<idempotency, queue, items, leases, deadLetters, nextToken, held, faults>>
    BY HandleFields DEF Heartbeat, ValidLease, redisVars, QueueInv, TypeOK
  <1>2. /\ todo'[<<w, "heartbeat">>] \in BeatPlans(held[w], leases[held[w].token])
        /\ \A v \in Worker : Main(v)' = Main(v)
        /\ \A v \in Worker \ {w} : todo'[<<v, "heartbeat">>] = todo[<<v, "heartbeat">>]
        /\ DOMAIN todo' = Thread
    BY DEF Heartbeat, Call, BeatPlans, Main, Thread
  <1>3. Stages' /\ Exclusive' /\ Tokens' /\ Untouched' /\ Queued'
    BY <1>1, <1>2, QuietKeeps
  <1>4. Beats'
    BY <1>1, <1>2 DEF QueueInv, Beats, BeatOK
  <1>5. TypeOK'
    BY <1>1, <1>2 DEF QueueInv, TypeOK
  <1> QED BY <1>3, <1>4, <1>5 DEF QueueInv

(* The plans of a heartbeat thread.                                        *)
LEMMA BeatHead ==
    ASSUME QueueInv, NEW w \in Worker, todo[<<w, "heartbeat">>] # <<>>
    PROVE  LET q == todo[<<w, "heartbeat">>]
           IN  \E h \in Handle, s \in LeaseStatus :
                  \/ /\ Head(q) = SetLease(h.item, h.token, s)
                     /\ Tail(q) \in BeatPlans(h, s)
                  \/ /\ Head(q) = RecordOperation(h.item, h.token, "heartbeat")
                     /\ Tail(q) = <<>>
  <1>1. PICK h \in Handle, s \in LeaseStatus : todo[<<w, "heartbeat">>] \in BeatPlans(h, s)
    BY DEF QueueInv, Beats, BeatOK
  <1>2. CASE todo[<<w, "heartbeat">>] = <<RecordOperation(h.item, h.token, "heartbeat")>>
    <2>1. /\ Head(todo[<<w, "heartbeat">>]) = RecordOperation(h.item, h.token, "heartbeat")
          /\ Tail(todo[<<w, "heartbeat">>]) = <<>>
      BY <1>2
    <2> QED BY <2>1
  <1>3. CASE todo[<<w, "heartbeat">>] =
               <<SetLease(h.item, h.token, s), RecordOperation(h.item, h.token, "heartbeat")>>
    <2>1. /\ Head(todo[<<w, "heartbeat">>]) = SetLease(h.item, h.token, s)
          /\ Tail(todo[<<w, "heartbeat">>]) = <<RecordOperation(h.item, h.token, "heartbeat")>>
      BY <1>3
    <2> QED BY <2>1 DEF BeatPlans
  <1> QED BY <1>1, <1>2, <1>3 DEF BeatPlans

(* What the record of a call gives its worker: the handle, or none.        *)
LEMMA RecordHeld ==
    ASSUME NEW th, DoRecord(th), NEW c, c = Head(todo[th])
    PROVE  /\ c.status = "lease" =>
                held' = [held EXCEPT ![th[1]] = [item |-> c.item, token |-> c.token]]
           /\ c.status \in {"ack", "nack", "dead_letter"} => held' = [held EXCEPT ![th[1]] = NoLease]
           /\ c.status \notin {"lease", "ack", "nack", "dead_letter"} => held' = held
           /\ operations' = LogWith(c)
  BY Zenon DEF DoRecord

(* A command of a heartbeat touches neither queue nor items.               *)
LEMMA ExecuteBeatQueue ==
    ASSUME QueueInv, NEW w \in Worker, Execute(<<w, "heartbeat">>)
    PROVE  /\ QueueInv'
           /\ UNCHANGED <<idempotency, queue, items, deadRecords, deadLetters, nextToken, held, faults>>
           /\ \A v \in Worker : Main(v)' = Main(v)
           /\ \A u \in Token : leases[u] # NoLease => leases'[u] # NoLease
           /\ \/ operations' = operations
              \/ \E h \in Handle :
                   operations' = LogWith(RecordOperation(h.item, h.token, "heartbeat"))
  <1> DEFINE th == <<w, "heartbeat">>
  <1> USE TypeFacts
  <1>1. th \in Thread /\ th[1] = w /\ th[2] = "heartbeat"
    BY DEF Thread
  <1>2. todo[th] # <<>> /\ Advance(th) /\ Head(todo[th]).do \in {"set_item", "set_lease", "rpush", "set_dead", "rpush_dead", "record"}
    BY DEF Execute, DoSetItem, DoSetLease, DoPush, DoSetDead, DoPushDead, DoRecord, Running
  <1>3. PICK h \in Handle, s \in LeaseStatus :
          \/ /\ Head(todo[th]) = SetLease(h.item, h.token, s)
             /\ Tail(todo[th]) \in BeatPlans(h, s)
          \/ /\ Head(todo[th]) = RecordOperation(h.item, h.token, "heartbeat")
             /\ Tail(todo[th]) = <<>>
    BY <1>2, BeatHead
  <1>4. /\ todo'[th] = Tail(todo[th]) /\ DOMAIN todo' = Thread
        /\ \A v \in Worker : Main(v)' = Main(v)
        /\ \A v \in Worker \ {w} : todo'[<<v, "heartbeat">>] = todo[<<v, "heartbeat">>]
    BY <1>1, <1>2 DEF Advance, Main, Thread
  <1>5. BeatOK(w)'
    BY <1>3, <1>4 DEF BeatOK
  <1>6. Beats'
    BY <1>4, <1>5 DEF QueueInv, Beats, BeatOK
  <1>7. /\ UNCHANGED <<idempotency, queue, items, deadRecords, deadLetters, nextToken, held, faults>>
        /\ leases' \in [Token -> LeaseStatus \cup {NoLease}]
        /\ \A u \in Token : leases[u] # NoLease => leases'[u] # NoLease
        /\ \/ operations' = operations
           \/ operations' = LogWith(RecordOperation(h.item, h.token, "heartbeat"))
    <2>1. CASE Head(todo[th]) = SetLease(h.item, h.token, s)
      <3>1. Head(todo[th]).do = "set_lease" /\ Head(todo[th]).status = s
        BY <2>1, Fields DEF SetLease
      <3>2. DoSetLease(th)
        BY <3>1 DEF Execute, DoSetItem, DoSetLease, DoPush, DoSetDead, DoPushDead, DoRecord, Running
      <3> QED BY <3>1, <3>2, BrokerAssumption DEF DoSetLease, QueueInv, TypeOK
    <2>2. CASE Head(todo[th]) = RecordOperation(h.item, h.token, "heartbeat")
      <3>1. Head(todo[th]).do = "record" /\ Head(todo[th]).status = "heartbeat"
        BY <2>2, Fields DEF RecordOperation
      <3>2. DoRecord(th)
        BY <3>1 DEF Execute, DoSetItem, DoSetLease, DoPush, DoSetDead, DoPushDead, DoRecord, Running
      <3>3. held' = held /\ operations' = LogWith(Head(todo[th]))
        BY <3>1, <3>2, RecordHeld
      <3>4. UNCHANGED <<idempotency, queue, items, leases, deadRecords, deadLetters, nextToken, faults>>
        BY <3>2 DEF DoRecord
      <3> QED BY <2>2, <3>3, <3>4 DEF QueueInv, TypeOK
    <2> QED BY <1>3, <2>1, <2>2
  <1>8. Stages' /\ Exclusive' /\ Tokens' /\ Untouched' /\ Queued'
    BY <1>4, <1>7, QuietKeeps
  <1>9. TypeOK'
    BY <1>4, <1>7 DEF QueueInv, TypeOK
  <1> QED BY <1>4, <1>6, <1>7, <1>8, <1>9 DEF QueueInv

(* What the next command of a main thread at place s does.                 *)
Effect(w, s, i, t) ==
    /\ s # "popped"
    /\ \A u \in Token : leases[u] # NoLease => leases'[u] # NoLease
    /\ s \in LeaseStage => leases'[t] # NoLease
    /\ UNCHANGED <<idempotency, nextToken, faults>>
    /\ \A v \in Worker \ {w} : held'[v] = held[v]
    /\ \/ held'[w] = held[w] /\ s \notin {"takeLog", "ackLog", "nackLog", "deadLog"}
       \/ held'[w] = NoLease /\ s \in {"ackLog", "nackLog", "deadLog"}
       \/ held'[w] = [item |-> i, token |-> t] /\ s = "takeLog"
    /\ items' = IF s \in SetStage THEN [items EXCEPT ![i] = Stored(s, t)] ELSE items
    /\ queue' = IF s \in PushStage THEN Append(queue, i) ELSE queue
    /\ deadRecords' = IF s = "deadRec" THEN deadRecords \cup {i} ELSE deadRecords
    /\ deadLetters' = IF s = "deadPush" THEN Append(deadLetters, i) ELSE deadLetters
    /\ operations' = IF s \in LogStage
                     THEN operations \cup {[operation |-> Outcome[s], item |-> i, token |-> t]}
                     ELSE operations

(* The groups of places are disjoint.                                      *)
LEMMA StageKinds ==
    /\ \A s \in SetStage : s \notin PushStage \cup LogStage \cup LeaseStage \cup {"deadRec", "deadPush"}
    /\ \A s \in PushStage : s \notin LogStage \cup LeaseStage \cup {"deadRec", "deadPush"}
    /\ \A s \in LogStage : s \notin LeaseStage \cup {"deadRec", "deadPush"}
    /\ "deadPush" \notin LeaseStage /\ "deadRec" \notin LeaseStage
    /\ \A s \in Stage \ LogStage : s \notin {"takeLog", "ackLog", "nackLog", "deadLog"}
  BY DEF SetStage, PushStage, LogStage, LeaseStage

(* What the last command of a call records.                                *)
LEMMA OutcomeOf ==
    /\ Outcome["takeLog"] = "lease" /\ Outcome["ackLog"] = "ack" /\ Outcome["nackLog"] = "nack"
    /\ Outcome["deadLog"] = "dead_letter" /\ Outcome["enqLog"] = "enqueue"
    /\ Outcome["dupLog"] = "duplicate_enqueue"
  BY DEF Outcome

(* A command of a main thread is the one its place says.                   *)
LEMMA ExecuteMain ==
    ASSUME QueueInv, NEW w \in Worker, Execute(<<w, "main">>)
    PROVE  \E s \in Stage, i \in Item, t \in AnyToken :
              /\ At(w, s, i, t) /\ HeldIs(s, held[w], i, t) /\ ItemIs(s, items[i], t)
              /\ Advance(<<w, "main">>) /\ Effect(w, s, i, t)
              /\ TypeOK'
  <1> DEFINE th == <<w, "main">>
             c == Head(Main(w))
  <1> USE TypeFacts
  <1>1. /\ Main(w) # <<>> /\ Advance(th)
        /\ c.do \in {"set_item", "set_lease", "rpush", "set_dead", "rpush_dead", "record"}
    BY DEF Execute, DoSetItem, DoSetLease, DoPush, DoSetDead, DoPushDead, DoRecord, Running, Main
  <1>2. PICK s \in Stage, i \in Item, t \in AnyToken :
          At(w, s, i, t) /\ HeldIs(s, held[w], i, t) /\ ItemIs(s, items[i], t)
    BY <1>1, Placed
  <1>3. /\ c.item = i
        /\ c.do = "set_item" <=> s \in SetStage
        /\ c.do = "set_lease" <=> s \in LeaseStage
        /\ c.do = "rpush" <=> s \in PushStage
        /\ c.do = "set_dead" <=> s = "deadRec"
        /\ c.do = "rpush_dead" <=> s = "deadPush"
        /\ c.do = "record" <=> s \in LogStage
        /\ c.do = "get_item" <=> s = "popped"
        /\ s \in SetStage => [status |-> c.status, token |-> c.token] = Stored(s, t)
        /\ s \in LeaseStage => c.token = t /\ c.status \in LeaseStatus
        /\ s \in LogStage => c.token = t /\ c.status = Outcome[s]
    BY <1>2, PlanHead DEF At
  <1>4. DOMAIN todo' = Thread
    BY <1>1 DEF Advance
  <1>5. t \in Token \/ s \notin {"takeLog"}
    BY <1>2 DEF HeldIs, TakeStage
  <1>11. s # "popped"
    BY <1>1, <1>3
  <1>6. CASE c.do = "set_item"
    <2>1. DoSetItem(th)
      BY <1>6 DEF Execute, DoSetItem, DoSetLease, DoPush, DoSetDead, DoPushDead, DoRecord, Running, Main
    <2>2. items' = [items EXCEPT ![i] = Stored(s, t)]
      BY <2>1, <1>3, <1>6 DEF DoSetItem, Main
    <2>3. UNCHANGED <<idempotency, queue, leases, deadRecords, deadLetters, operations, nextToken, held, faults>>
      BY <2>1 DEF DoSetItem
    <2>4. Effect(w, s, i, t)
      BY <2>2, <2>3, <1>3, <1>6, <1>11, StageKinds DEF Effect
    <2>5. TypeOK'
      BY <2>2, <2>3, <1>4 DEF QueueInv, TypeOK
    <2> QED BY <1>1, <1>2, <2>4, <2>5
  <1>7. CASE c.do = "set_lease"
    <2>1. DoSetLease(th)
      BY <1>7 DEF Execute, DoSetItem, DoSetLease, DoPush, DoSetDead, DoPushDead, DoRecord, Running, Main
    <2>2. /\ leases' = [leases EXCEPT ![c.token] = c.status]
          /\ UNCHANGED <<idempotency, queue, items, deadRecords, deadLetters, operations, nextToken, held, faults>>
      BY <2>1 DEF DoSetLease, Main
    <2>3. Effect(w, s, i, t)
      <3>1. /\ leases \in [Token -> LeaseStatus \cup {NoLease}] /\ c.token = t
            /\ c.status \in LeaseStatus /\ NoLease \notin LeaseStatus /\ t \in Token
        BY <1>2, <1>3, <1>7, BrokerAssumption
           DEF QueueInv, TypeOK, HeldIs, LeaseStage, TakeStage, SettleStage
      <3>2. /\ \A u \in Token : leases[u] # NoLease => leases'[u] # NoLease
            /\ leases'[t] # NoLease
        BY <2>2, <3>1
      <3> QED BY <2>2, <3>2, <1>3, <1>7, <1>11, StageKinds DEF Effect
    <2>4. TypeOK'
      BY <2>2, <1>3, <1>4, <1>7 DEF QueueInv, TypeOK
    <2> QED BY <1>1, <1>2, <2>3, <2>4
  <1>8. CASE c.do = "rpush"
    <2>1. DoPush(th)
      BY <1>8 DEF Execute, DoSetItem, DoSetLease, DoPush, DoSetDead, DoPushDead, DoRecord, Running, Main
    <2>2. /\ queue' = Append(queue, i)
          /\ UNCHANGED <<idempotency, items, leases, deadRecords, deadLetters, operations, nextToken, held, faults>>
      BY <2>1, <1>3 DEF DoPush, Main
    <2>3. Effect(w, s, i, t)
      BY <2>2, <1>3, <1>8, <1>11, StageKinds DEF Effect
    <2>4. TypeOK'
      BY <2>2, <1>4 DEF QueueInv, TypeOK
    <2> QED BY <1>1, <1>2, <2>3, <2>4
  <1>9. CASE c.do = "rpush_dead"
    <2>1. DoPushDead(th)
      BY <1>9 DEF Execute, DoSetItem, DoSetLease, DoPush, DoSetDead, DoPushDead, DoRecord, Running, Main
    <2>2. /\ deadLetters' = Append(deadLetters, i)
          /\ UNCHANGED <<idempotency, queue, items, leases, deadRecords, operations, nextToken, held, faults>>
      BY <2>1, <1>3 DEF DoPushDead, Main
    <2>3. Effect(w, s, i, t)
      BY <2>2, <1>3, <1>9, <1>11, StageKinds DEF Effect
    <2>4. TypeOK'
      BY <2>2, <1>4 DEF QueueInv, TypeOK
    <2> QED BY <1>1, <1>2, <2>3, <2>4
  <1>12. CASE c.do = "set_dead"
    <2>1. DoSetDead(th)
      BY <1>12 DEF Execute, DoSetItem, DoSetLease, DoPush, DoSetDead, DoPushDead, DoRecord, Running, Main
    <2>2. /\ deadRecords' = deadRecords \cup {i}
          /\ UNCHANGED <<idempotency, queue, items, leases, deadLetters, operations, nextToken, held, faults>>
      BY <2>1, <1>3 DEF DoSetDead, Main
    <2>3. Effect(w, s, i, t)
      BY <2>2, <1>3, <1>12, <1>11, StageKinds DEF Effect
    <2>4. TypeOK'
      BY <2>2, <1>4 DEF QueueInv, TypeOK
    <2> QED BY <1>1, <1>2, <2>3, <2>4
  <1>10. CASE c.do = "record"
    <2>1. DoRecord(th)
      BY <1>10 DEF Execute, DoSetItem, DoSetLease, DoPush, DoSetDead, DoPushDead, DoRecord, Running, Main
    <2>2. UNCHANGED <<idempotency, queue, items, leases, deadRecords, deadLetters, nextToken, faults>>
      BY <2>1 DEF DoRecord
    <2>3. /\ c.status = "lease" => held' = [held EXCEPT ![w] = [item |-> c.item, token |-> c.token]]
          /\ c.status \in {"ack", "nack", "dead_letter"} => held' = [held EXCEPT ![w] = NoLease]
          /\ c.status \notin {"lease", "ack", "nack", "dead_letter"} => held' = held
          /\ operations' = LogWith(c)
      <3>1. c = Head(todo[th]) /\ th[1] = w
        BY DEF Main
      <3> HIDE DEF th, c
      <3> QED BY <2>1, <3>1, RecordHeld
    <2>4. operations' = operations \cup {[operation |-> Outcome[s], item |-> i, token |-> t]}
      BY <2>3, <1>3, <1>10 DEF LogWith
    <2>5. /\ held' \in [Worker -> Handle \cup {NoLease}]
          /\ \A v \in Worker \ {w} : held'[v] = held[v]
          /\ \/ held'[w] = held[w] /\ s \notin {"takeLog", "ackLog", "nackLog", "deadLog"}
             \/ held'[w] = NoLease /\ s \in {"ackLog", "nackLog", "deadLog"}
             \/ held'[w] = [item |-> i, token |-> t] /\ s = "takeLog"
      <3>1. CASE s = "takeLog"
        <4>1. held' = [held EXCEPT ![w] = [item |-> i, token |-> t]]
          BY <3>1, <2>3, <1>3, <1>10, OutcomeOf
        <4> QED BY <4>1, <3>1, <1>5, HandleFields
      <3>2. CASE s \in {"ackLog", "nackLog", "deadLog"}
        <4>1. held' = [held EXCEPT ![w] = NoLease]
          BY <3>2, <2>3, <1>3, <1>10, OutcomeOf
        <4> QED BY <4>1, <3>2
      <3>3. CASE s \in {"enqLog", "dupLog"}
        <4>1. held' = held
          BY <3>3, <2>3, <1>3, <1>10, OutcomeOf
        <4> QED BY <4>1, <3>3
      <3> QED BY <3>1, <3>2, <3>3, <1>3, <1>10 DEF LogStage
    <2>6. Effect(w, s, i, t)
      BY <2>2, <2>4, <2>5, <1>3, <1>10, <1>11, StageKinds DEF Effect
    <2>7. TypeOK'
      BY <2>2, <2>5, <1>4 DEF QueueInv, TypeOK
    <2> QED BY <1>1, <1>2, <2>6, <2>7
  <1> QED BY <1>1, <1>6, <1>7, <1>8, <1>9, <1>10, <1>12

(* And it keeps the invariant: a push gives the claim to the queue.        *)
LEMMA ExecuteMainQueue ==
    ASSUME QueueInv, NEW w \in Worker, NEW s \in Stage, NEW i \in Item, NEW t \in AnyToken,
           At(w, s, i, t), HeldIs(s, held[w], i, t), ItemIs(s, items[i], t),
           Advance(<<w, "main">>), Effect(w, s, i, t), TypeOK'
    PROVE  /\ QueueInv'
           /\ OwnStep(w) /\ Shrinks(w)
           /\ s \in PushStage => ~Claim(w, i)'
  <1> USE TypeFacts
  <1>1. /\ UNCHANGED <<idempotency, nextToken>>
        /\ \A j \in Item : j # i => items'[j] = items[j]
        /\ IF s \in SetStage THEN items'[i] = Stored(s, t) ELSE items'[i] = items[i]
        /\ queue' = IF s \in PushStage THEN Append(queue, i) ELSE queue
    BY DEF Effect
  <1>2. /\ OwnStep(w) /\ MainOK(w)'
        /\ \A j \in Item : Claim(w, j)' => Claim(w, j)
        /\ \A u \in Token : HasToken(w, u)' => HasToken(w, u)
    BY <1>1, MainMoves DEF Effect
  <1>3. Shrinks(w)
    BY <1>2 DEF Shrinks
  <1>4. Beats'
    <2>1. \A v \in Worker : todo'[<<v, "heartbeat">>] = todo[<<v, "heartbeat">>]
      BY Advanced
    <2> QED BY <2>1, BeatsSame
  <1>5. CASE s \notin PushStage
    BY <1>1, <1>2, <1>3, <1>4, <1>5, ShrinkKeeps DEF QueueInv
  <1>6. CASE s \in PushStage
    <2>1. items'[i] = FreeItem
      BY <1>1, <1>6 DEF PushStage, SetStage, ItemIs
    <2>2. ~Claim(w, i)'
      <3>1. After[s] \notin ClaimStage
        BY <1>6 DEF PushStage, After, ClaimStage
      <3>2. \A r \in ClaimStage, u \in AnyToken : ~At(w, r, i, u)'
        BY <3>1, Advanced, ClaimStages
      <3>3. held'[w] # NoLease => held'[w].token # items'[i].token
        <4>1. held'[w] = held[w]
          BY <1>6 DEF Effect, PushStage
        <4> QED BY <4>1, <2>1, StoredFields, HandleFields
      <3> QED BY <3>2, <3>3 DEF Claim
    <2>3. Claim(w, i)
      BY <1>6, StageClaims DEF PushStage
    <2>4. /\ DOMAIN queue = 1 .. Len(queue) /\ DOMAIN queue' = 1 .. (Len(queue) + 1)
          /\ Len(queue) \in Nat
          /\ \A k \in DOMAIN queue : queue'[k] = queue[k]
          /\ queue'[Len(queue) + 1] = i
      BY <1>1, <1>6
    <2>5. \A j \in Item : InQueue(j)' => InQueue(j) \/ j = i
      BY <2>4 DEF InQueue
    <2>6. OwnClaims(w)
      BY <1>1, <1>2, <2>2, <2>3, <2>5 DEF OwnClaims, QueueInv, Exclusive
    <2>7. OwnTokens(w)
      BY <1>1, <1>2 DEF OwnTokens
    <2>8. Stages' /\ Exclusive' /\ Tokens' /\ Untouched'
      BY <1>2, <2>6, <2>7, OwnStepKeeps
    <2>9. Queued'
      <3>1. idempotency[KeyOf[i]] = i /\ ~InQueue(i)
        BY <2>3 DEF QueueInv, Exclusive
      <3>2. ASSUME NEW k \in DOMAIN queue'
            PROVE  items'[queue'[k]] = FreeItem /\ idempotency'[KeyOf[queue'[k]]] = queue'[k]
        <4>1. CASE k \in DOMAIN queue
          BY <4>1, <1>1, <1>6, <2>4, StageKinds DEF QueueInv, Queued
        <4>2. CASE k = Len(queue) + 1
          BY <4>2, <1>1, <2>1, <2>4, <3>1
        <4> QED BY <4>1, <4>2, <2>4
      <3>3. ASSUME NEW j \in DOMAIN queue', NEW k \in DOMAIN queue', queue'[j] = queue'[k]
            PROVE  j = k
        BY <3>1, <3>3, <2>4 DEF QueueInv, Queued, InQueue
      <3> QED BY <3>2, <3>3 DEF Queued
    <2> QED BY <1>2, <1>3, <1>4, <2>2, <2>8, <2>9 DEF QueueInv
  <1> QED BY <1>5, <1>6

(* A worker has two threads.                                               *)
LEMMA ThreadOf == \A th \in Thread : \E w \in Worker : th = <<w, "main">> \/ th = <<w, "heartbeat">>
  BY DEF Thread

(* Every step keeps the invariant.                                         *)
LEMMA NextQueue ==
    ASSUME QueueInv, [Next]_vars
    PROVE  QueueInv'
  <1>1. ASSUME NEW w \in Worker, NEW i \in Item, Enqueue(w, i) PROVE QueueInv'
    BY <1>1, EnqueueQueue
  <1>2. ASSUME NEW w \in Worker, LeasePop(w) PROVE QueueInv'
    BY <1>2, LeasePopQueue
  <1>3. ASSUME NEW w \in Worker, LeaseRead(w) PROVE QueueInv'
    BY <1>3, LeaseReadQueue
  <1>4. ASSUME NEW w \in Worker, Heartbeat(w) PROVE QueueInv'
    BY <1>4, HeartbeatQueue
  <1>5. ASSUME NEW w \in Worker, Settle(w) PROVE QueueInv'
    BY <1>5, SettleQueue
  <1>6. ASSUME NEW w \in Worker, SettleRejected(w) PROVE QueueInv'
    BY <1>6, SettleRejectedQueue
  <1>7. ASSUME NEW w \in Worker, Crash(w) PROVE QueueInv'
    BY <1>7, CrashQueue
  <1>8. ASSUME NEW th \in Thread, Execute(th) PROVE QueueInv'
    <2>1. PICK w \in Worker : th = <<w, "main">> \/ th = <<w, "heartbeat">>
      BY ThreadOf
    <2>2. CASE th = <<w, "main">>
      <3>1. PICK s \in Stage, i \in Item, t \in AnyToken :
              /\ At(w, s, i, t) /\ HeldIs(s, held[w], i, t) /\ ItemIs(s, items[i], t)
              /\ Advance(<<w, "main">>) /\ Effect(w, s, i, t)
              /\ TypeOK'
        BY <1>8, <2>2, ExecuteMain
      <3> QED BY <3>1, ExecuteMainQueue
    <2>3. CASE th = <<w, "heartbeat">>
      BY <1>8, <2>3, ExecuteBeatQueue
    <2> QED BY <2>1, <2>2, <2>3
  <1>9. ASSUME NEW th \in Thread, CallRaises(th) PROVE QueueInv'
    BY <1>9, CallRaisesQueue
  <1>10. ASSUME NEW t \in Token, Expire(t) PROVE QueueInv'
    BY <1>10, ExpireQueue
  <1>11. CASE UNCHANGED vars
    <2>1. UNCHANGED <<idempotency, queue, items, leases, deadLetters, nextToken, todo, held, faults>>
      BY <1>11 DEF vars, redisVars
    <2>2. \A v \in Worker : Main(v)' = Main(v)
      BY <2>1 DEF Main
    <2>3. TypeOK' /\ Beats'
      BY <2>1, BeatsSame DEF QueueInv, TypeOK
    <2> QED BY <2>1, <2>2, <2>3, QuietKeeps DEF QueueInv
  <1> QED BY <1>1, <1>2, <1>3, <1>4, <1>5, <1>6, <1>7, <1>8, <1>9, <1>10, <1>11 DEF Next

(* The inductive invariant: an item has at most one claim on it.           *)
THEOREM QueueInvCorrect == Spec => []QueueInv
  BY InitQueue, NextQueue, PTL DEF Spec

(* A queued item is claimed by the queue alone.                            *)
LEMMA InvQueuedIsFree == QueueInv => QueuedIsFree
  <1> SUFFICES ASSUME QueueInv PROVE QueuedIsFree
    OBVIOUS
  <1> USE TypeFacts
  <1>1. ASSUME NEW k \in DOMAIN queue, NEW th \in Thread, Writes(th, queue[k]) PROVE FALSE
    <2>1. queue[k] \in Item /\ InQueue(queue[k])
      BY DEF InQueue
    <2>2. PICK w \in Worker : th = <<w, "main">> \/ th = <<w, "heartbeat">>
      BY ThreadOf
    <2>3. PICK n \in DOMAIN todo[th] :
            todo[th][n].do \in {"get_item", "set_item"} /\ todo[th][n].item = queue[k]
      BY <1>1 DEF Writes
    <2>4. CASE th = <<w, "main">>
      <3>1. Main(w) # <<>>
        BY <2>3, <2>4 DEF Main
      <3>2. PICK s \in Stage, i \in Item, t \in AnyToken :
              At(w, s, i, t) /\ HeldIs(s, held[w], i, t) /\ ItemIs(s, items[i], t)
        BY <3>1, Placed
      <3>3. todo[th] = Plan(i, t)[s]
        BY <2>4, <3>2 DEF At, Main
      <3>4. queue[k] = i /\ s \in SetStage \cup {"popped"}
        BY <2>3, <3>3, PlanItem
      <3>5. Claim(w, i)
        BY <3>2, <3>4, StageClaims DEF SetStage
      <3> QED BY <2>1, <3>4, <3>5 DEF QueueInv, Exclusive
    <2>5. CASE th = <<w, "heartbeat">>
      <3>1. todo[th] # <<>>
        BY <2>3
      <3>2. PICK h \in Handle, s \in LeaseStatus : todo[th] \in BeatPlans(h, s)
        BY <2>5, <3>1 DEF QueueInv, Beats, BeatOK
      <3>3. CASE todo[th] = <<RecordOperation(h.item, h.token, "heartbeat")>>
        <4>1. todo[th][n] = RecordOperation(h.item, h.token, "heartbeat")
          BY <2>3, <3>3
        <4> QED BY <2>3, <4>1, Fields DEF RecordOperation
      <3>4. CASE todo[th] =
                   <<SetLease(h.item, h.token, s), RecordOperation(h.item, h.token, "heartbeat")>>
        <4>1. todo[th][n] \in {SetLease(h.item, h.token, s), RecordOperation(h.item, h.token, "heartbeat")}
          BY <2>3, <3>4
        <4> QED BY <2>3, <4>1, Fields DEF RecordOperation, SetLease
      <3> QED BY <3>1, <3>2, <3>3, <3>4 DEF BeatPlans
    <2> QED BY <2>2, <2>4, <2>5
  <1> QED BY <1>1 DEF QueuedIsFree, QueueInv, Queued, FreeItem

(* QueuedIsFree for every instance: the item that a lease pops is free,    *)
(* and no other call of redis.py is about to rewrite it.                   *)
THEOREM QueuedIsFreeCorrect == Spec => []QueuedIsFree
  BY QueueInvCorrect, InvQueuedIsFree, PTL

(* Whoever changes an item that has a token holds that token.              *)
LEMMA HolderStep ==
    ASSUME QueueInv, [Next]_vars, NEW i \in Item, items'[i] # items[i], items[i].token # NoToken
    PROVE  \E w \in Worker : held[w] = [item |-> i, token |-> items[i].token]
  <1>1. \E th \in Thread : Execute(th)
    <2>1. ~\E w \in Worker :
              \/ \E j \in Item : Enqueue(w, j)
              \/ LeasePop(w) \/ LeaseRead(w) \/ Heartbeat(w) \/ Settle(w) \/ SettleRejected(w)
              \/ Crash(w)
      BY DEF Enqueue, LeasePop, LeaseRead, Heartbeat, Settle, SettleRejected, Crash, redisVars
    <2>2. ~\E th \in Thread : CallRaises(th)
      BY DEF CallRaises
    <2>3. ~\E t \in Token : Expire(t)
      BY DEF Expire
    <2>4. ~UNCHANGED vars
      BY DEF vars, redisVars
    <2> QED BY <2>1, <2>2, <2>3, <2>4 DEF Next
  <1>2. PICK w \in Worker : Execute(<<w, "main">>) \/ Execute(<<w, "heartbeat">>)
    BY <1>1, ThreadOf
  <1>3. Execute(<<w, "main">>)
    BY <1>2, ExecuteBeatQueue
  <1>4. PICK s \in Stage, j \in Item, t \in AnyToken :
          /\ At(w, s, j, t) /\ HeldIs(s, held[w], j, t) /\ ItemIs(s, items[j], t)
          /\ Effect(w, s, j, t)
    BY <1>3, ExecuteMain
  <1>5. j = i /\ s \in SetStage
    BY <1>4, TypeFacts DEF Effect
  <1>6. s \in {"ackSet", "nackSet", "deadSet"}
    BY <1>4, <1>5, StoredFields DEF SetStage, ItemIs
  <1> QED BY <1>4, <1>5, <1>6 DEF HeldIs, ItemIs, SettleStage

(* OnlyHolderWrites for every instance: the fencing of ack, nack and       *)
(* dead_letter by the token of the stored item.                            *)
THEOREM OnlyHolderWritesCorrect == Spec => OnlyHolderWrites
  <1>1. QueueInv /\ [Next]_vars =>
          [\A i \in Item :
             items'[i] # items[i] /\ items[i].token # NoToken =>
                \E w \in Worker : held[w] = [item |-> i, token |-> items[i].token]]_vars
    BY HolderStep
  <1> QED BY <1>1, QueueInvCorrect, PTL DEF Spec, OnlyHolderWrites

-----------------------------------------------------------------------------
(* The fate of the items.                                                  *)
LEMMA InitFate == Init => FateInv
  <1> SUFFICES ASSUME Init PROVE FateInv
    OBVIOUS
  <1>1. \A w \in Worker : Main(w) = <<>> /\ held[w] = NoLease
    BY DEF Init, Main, Thread
  <1>2. ASSUME NEW w \in Worker, NEW s \in Stage, NEW i, NEW t PROVE ~At(w, s, i, t)
    <2>1. Plan(i, t)[s] # <<>>
      BY PlanTail
    <2> QED BY <1>1, <2>1 DEF At
  <1>3. "takeLog" \in Stage /\ "deadLog" \in Stage
    BY DEF Stage, TakeStage, SettleStage
  <1>4. KeyRight /\ Granted
    BY <1>1, <1>2, <1>3 DEF Init, KeyRight, Granted
  <1>5. Accounted /\ Reported
    BY BrokerAssumption DEF Init, Accounted, Reported
  <1>6. Buried
    BY <1>2, <1>3 DEF Init, Buried, InDead
  <1> QED BY <1>4, <1>5, <1>6 DEF FateInv

(* A lease stays stored: what every action does to it.                     *)
LEMMA GrantedKeeps ==
    ASSUME Granted, held \in [Worker -> Handle \cup {NoLease}],
           \A u \in Token : leases[u] # NoLease => leases'[u] # NoLease,
           NEW w \in Worker,
           \A v \in Worker \ {w} : Main(v)' = Main(v) /\ held'[v] = held[v],
           held'[w] # NoLease =>
             \/ held'[w] = held[w]
             \/ held'[w] \in Handle /\ leases'[held'[w].token] # NoLease,
           \A i \in Item, t \in Token : At(w, "takeLog", i, t)' => leases'[t] # NoLease
    PROVE  Granted'
  <1>1. ASSUME NEW v \in Worker, held'[v] # NoLease PROVE leases'[held'[v].token] # NoLease
    BY <1>1, HandleFields DEF Granted
  <1>2. ASSUME NEW v \in Worker, NEW i \in Item, NEW t \in Token, At(v, "takeLog", i, t)'
        PROVE  leases'[t] # NoLease
    BY <1>2 DEF Granted, At
  <1> QED BY <1>1, <1>2 DEF Granted

(* A step after which every claim, item and record is as before.           *)
LEMMA SameFate ==
    ASSUME QueueInv, Accounted /\ Reported /\ Buried,
           UNCHANGED <<idempotency, queue, items, deadLetters>>,
           \A o \in operations' \ operations : o.operation \notin {"ack", "dead_letter"},
           \A v \in Worker, i \in Item : Claim(v, i)' <=> Claim(v, i),
           \A v \in Worker, i \in Item, t \in Token :
               At(v, "deadLog", i, t)' <=> At(v, "deadLog", i, t)
    PROVE  Accounted' /\ Reported' /\ Buried'
  <1>1. \A i : (InQueue(i)' <=> InQueue(i)) /\ (Closed(i)' <=> Closed(i)) /\ (InDead(i)' <=> InDead(i))
    BY DEF InQueue, Closed, InDead
  <1>2. \A i \in Item : (Claimed(i)' <=> Claimed(i)) /\ (Settled(i)' <=> Settled(i))
    BY DEF Claimed, Settled
  <1>3. Accounted'
    BY <1>1, <1>2 DEF Accounted
  <1>4. Reported'
    <2> SUFFICES ASSUME NEW o \in operations'
                 PROVE  /\ o.operation \in {"ack", "dead_letter"} => Closed(o.item)' /\ ~Claimed(o.item)'
                        /\ o.operation = "ack" => items'[o.item] = [status |-> "acked", token |-> o.token]
                        /\ o.operation = "dead_letter" =>
                             /\ items'[o.item] = [status |-> "dead_lettered", token |-> o.token]
                             /\ InDead(o.item)'
      BY DEF Reported
    <2>1. CASE o \in operations
      BY <2>1, <1>1, <1>2 DEF Reported, Closed
    <2>2. CASE o \notin operations
      BY <2>2
    <2> QED BY <2>1, <2>2
  <1>5. Buried'
    <2>1. \A i \in Item : InDead(i)' =>
             /\ Closed(i)'
             /\ \A w \in Worker : Claim(w, i)' => \E t \in Token : At(w, "deadLog", i, t)'
      BY <1>1 DEF Buried
    <2>2. \A j, k \in DOMAIN deadLetters' : deadLetters'[j] = deadLetters'[k] => j = k
      BY DEF Buried
    <2>3. \A w \in Worker, i \in Item, t \in Token : At(w, "deadLog", i, t)' => InDead(i)'
      BY <1>1 DEF Buried
    <2> QED BY <2>1, <2>2, <2>3 DEF Buried
  <1> QED BY <1>3, <1>4, <1>5

(* A step by which w gets a claim on an item that was queued or new.       *)
LEMMA NewClaim ==
    ASSUME QueueInv, Accounted /\ Reported /\ Buried,
           UNCHANGED <<items, deadLetters, operations>>,
           NEW w \in Worker, NEW i \in Item, ~Closed(i), Claim(w, i)',
           \A j \in Item : j # i =>
               /\ idempotency'[KeyOf[j]] = j <=> idempotency[KeyOf[j]] = j
               /\ InQueue(j)' <=> InQueue(j),
           \A v \in Worker, j \in Item : j # i => (Claim(v, j)' <=> Claim(v, j)),
           \A v \in Worker, j \in Item, t \in Token :
               At(v, "deadLog", j, t)' <=> At(v, "deadLog", j, t)
    PROVE  Accounted' /\ Reported' /\ Buried'
  <1>1. \A j \in Item : (InDead(j)' <=> InDead(j)) /\ (Settled(j)' <=> Settled(j))
    BY DEF InDead, Settled
  <1>2. \A j \in Item : j # i => (Closed(j)' <=> Closed(j)) /\ (Claimed(j)' <=> Claimed(j))
    BY DEF Closed, Claimed
  <1>3. Claimed(i)'
    BY DEF Claimed
  <1>4. Accounted'
    BY <1>1, <1>2, <1>3 DEF Accounted
  <1>5. Reported'
    <2> SUFFICES ASSUME NEW o \in operations'
                 PROVE  /\ o.operation \in {"ack", "dead_letter"} => Closed(o.item)' /\ ~Claimed(o.item)'
                        /\ o.operation = "ack" => items'[o.item] = [status |-> "acked", token |-> o.token]
                        /\ o.operation = "dead_letter" =>
                             /\ items'[o.item] = [status |-> "dead_lettered", token |-> o.token]
                             /\ InDead(o.item)'
      BY DEF Reported
    <2>1. o \in operations
      OBVIOUS
    <2>2. o.operation \in {"ack", "dead_letter"} => o.item \in Item /\ o.item # i
      <3>1. o.operation \in {"ack", "dead_letter"} => Closed(o.item)
        BY <2>1 DEF Reported
      <3>2. Closed(o.item) => o.item \in Item
        BY DEF Closed
      <3>3. o.item = i => ~Closed(o.item)
        OBVIOUS
      <3> QED BY <3>1, <3>2, <3>3
    <2>3. o.operation \in {"ack", "dead_letter"} => Closed(o.item)' /\ ~Claimed(o.item)'
      BY <2>1, <2>2, <1>2 DEF Reported
    <2> QED BY <2>1, <2>2, <2>3, <1>1 DEF Reported
  <1>6. Buried'
    <2>1. ASSUME NEW j \in Item, InDead(j)'
          PROVE  /\ Closed(j)'
                 /\ \A v \in Worker : Claim(v, j)' => \E t \in Token : At(v, "deadLog", j, t)'
      BY <2>1, <1>1, <1>2 DEF Buried
    <2>2. \A j, k \in DOMAIN deadLetters' : deadLetters'[j] = deadLetters'[k] => j = k
      BY DEF Buried
    <2>3. \A v \in Worker, j \in Item, t \in Token : At(v, "deadLog", j, t)' => InDead(j)'
      BY <1>1 DEF Buried
    <2> QED BY <2>1, <2>2, <2>3 DEF Buried
  <1> QED BY <1>4, <1>5, <1>6

(* The places the log is about.                                            *)
LEMMA LogPlaces ==
    /\ {"takeLog", "deadLog", "enqSet", "dupLog", "popped", "takeSet", "ackSet", "nackSet",
        "deadSet"} \subseteq Stage
    /\ {"dupLog", "ackSet", "nackSet", "deadSet"} \cap ClaimStage = {}
  BY DEF Stage, EnqStage, TakeStage, SettleStage, ClaimStage

(* The other workers stay where they are.                                  *)
LEMMA OthersSame ==
    ASSUME QueueInv, NEW w \in Worker, OwnStep(w)
    PROVE  \A v \in Worker \ {w} : \A s, i, t : At(v, s, i, t)' <=> At(v, s, i, t)
  BY DEF OwnStep, At

(* enqueue takes charge of the item.                                       *)
LEMMA EnqueueFate ==
    ASSUME QueueInv, FateInv, NEW w \in Worker, NEW i \in Item, Enqueue(w, i)
    PROVE  FateInv'
  <1> USE TypeFacts
  <1>1. /\ Main(w) = <<>>
        /\ UNCHANGED <<queue, items, leases, deadLetters, operations, nextToken, held, faults>>
    BY DEF Enqueue, Idle, Main
  <1>2. ASSUME NEW s \in Stage, NEW j, NEW t PROVE ~At(w, s, j, t)
    BY <1>1, AtUnique
  <1>3. \A j \in Item :
          Claim(w, j) <=> held[w] # NoLease /\ held[w].item = j /\ items[j].token = held[w].token
    BY <1>1, <1>2, ClaimStages DEF Claim
  <1>4. \A j \in Item : InQueue(j)' <=> InQueue(j)
    BY <1>1 DEF InQueue
  <1>5. CASE idempotency[KeyOf[i]] = NoItem
    <2>1. /\ idempotency' = [idempotency EXCEPT ![KeyOf[i]] = i]
          /\ Call(w, "main", Plan(i, NoToken)["enqSet"])
      BY <1>5 DEF Enqueue, Plan
    <2>2. /\ At(w, "enqSet", i, NoToken)'
          /\ \A r \in Stage : \A j, u : At(w, r, j, u)' => r = "enqSet" /\ j = i /\ u = NoToken
          /\ \A v \in Worker \ {w} : Main(v)' = Main(v)
      BY <2>1, LogPlaces, Called
    <2>3. OwnStep(w)
      BY <1>1, <2>2 DEF OwnStep
    <2>4. KeyRight'
      BY <2>1 DEF FateInv, KeyRight
    <2>5. Granted'
      <3>1. \A j \in Item, t \in Token : ~At(w, "takeLog", j, t)'
        BY <2>2, LogPlaces
      <3> QED BY <1>1, <2>2, <3>1, GrantedKeeps DEF FateInv
    <2>6. ASSUME faults = 0 PROVE Accounted' /\ Reported' /\ Buried'
      <3>1. Accounted /\ Reported /\ Buried
        BY <2>6 DEF FateInv
      <3>2. ~Closed(i) /\ i # NoItem
        BY <1>5, HandleFields DEF Closed
      <3>3. Claim(w, i)'
        BY <2>2 DEF Claim, ClaimStage, AnyToken
      <3>4. \A j \in Item : j # i => (idempotency'[KeyOf[j]] = j <=> idempotency[KeyOf[j]] = j)
        BY <1>5, <2>1, HandleFields
      <3>5. \A v \in Worker, j \in Item : j # i => (Claim(v, j)' <=> Claim(v, j))
        <4>1. \A j \in Item : j # i => (Claim(w, j)' <=> Claim(w, j))
          BY <1>1, <1>3, <2>2, ClaimStages DEF Claim
        <4> QED BY <4>1, <1>3, <2>3, Frame
      <3>6. \A v \in Worker, j \in Item, t \in Token :
               At(v, "deadLog", j, t)' <=> At(v, "deadLog", j, t)
        BY <1>2, <2>2, <2>3, OthersSame, LogPlaces
      <3> QED BY <1>1, <1>4, <3>1, <3>2, <3>3, <3>4, <3>5, <3>6, NewClaim
    <2> QED BY <1>1, <2>4, <2>5, <2>6 DEF FateInv
  <1>6. CASE idempotency[KeyOf[i]] # NoItem
    <2>1. /\ idempotency' = idempotency
          /\ Call(w, "main", Plan(i, NoToken)["dupLog"])
      BY <1>6 DEF Enqueue, Plan
    <2>2. /\ \A r \in Stage : \A j, u : At(w, r, j, u)' => r = "dupLog" /\ j = i /\ u = NoToken
          /\ \A v \in Worker \ {w} : Main(v)' = Main(v)
      BY <2>1, LogPlaces, Called
    <2>3. OwnStep(w)
      BY <1>1, <2>2 DEF OwnStep
    <2>4. KeyRight'
      BY <2>1 DEF FateInv, KeyRight
    <2>5. Granted'
      <3>1. \A j \in Item, t \in Token : ~At(w, "takeLog", j, t)'
        BY <2>2, LogPlaces
      <3> QED BY <1>1, <2>2, <3>1, GrantedKeeps DEF FateInv
    <2>6. ASSUME faults = 0 PROVE Accounted' /\ Reported' /\ Buried'
      <3>1. Accounted /\ Reported /\ Buried
        BY <2>6 DEF FateInv
      <3>2. \A v \in Worker, j \in Item : Claim(v, j)' <=> Claim(v, j)
        <4>1. \A j \in Item : Claim(w, j)' <=> Claim(w, j)
          BY <1>1, <1>3, <2>2, ClaimStages, LogPlaces DEF Claim
        <4> QED BY <4>1, <2>3, Frame
      <3>3. \A v \in Worker, j \in Item, t \in Token :
               At(v, "deadLog", j, t)' <=> At(v, "deadLog", j, t)
        BY <1>2, <2>2, <2>3, OthersSame, LogPlaces
      <3> QED BY <1>1, <2>1, <3>1, <3>2, <3>3, SameFate
    <2> QED BY <1>1, <2>4, <2>5, <2>6 DEF FateInv
  <1> QED BY <1>5, <1>6

(* A popped item is in charge of its worker.                               *)
LEMMA LeasePopFate ==
    ASSUME QueueInv, FateInv, NEW w \in Worker, LeasePop(w)
    PROVE  FateInv'
  <1> USE TypeFacts
  <1>0. PICK i, t : i = Head(queue) /\ t = nextToken
    OBVIOUS
  <1>1. /\ Main(w) = <<>> /\ held[w] = NoLease /\ queue # <<>> /\ queue' = Tail(queue)
        /\ UNCHANGED <<idempotency, items, leases, deadLetters, operations, held, faults>>
    BY DEF LeasePop, Idle, Main
  <1>2. /\ i \in Item /\ t \in Token /\ t \in AnyToken
        /\ i = queue[1] /\ 1 \in DOMAIN queue /\ InQueue(i)
    BY <1>0, <1>1 DEF LeasePop, Token, AnyToken, QueueInv, TypeOK, InQueue
  <1>3. Call(w, "main", Plan(i, t)["popped"])
    BY <1>0 DEF LeasePop, Plan
  <1>4. /\ At(w, "popped", i, t)'
        /\ \A r \in Stage : \A j, u : At(w, r, j, u)' => r = "popped" /\ j = i /\ u = t
        /\ \A v \in Worker \ {w} : Main(v)' = Main(v)
    BY <1>3, LogPlaces, Called
  <1>5. OwnStep(w)
    BY <1>1, <1>4 DEF OwnStep
  <1>6. ASSUME NEW s \in Stage, NEW j, NEW u PROVE ~At(w, s, j, u)
    BY <1>1, AtUnique
  <1>7. KeyRight'
    BY <1>1 DEF FateInv, KeyRight
  <1>8. Granted'
    <2>1. \A j \in Item, u \in Token : ~At(w, "takeLog", j, u)'
      BY <1>4, LogPlaces
    <2> QED BY <1>1, <1>4, <2>1, GrantedKeeps DEF FateInv
  <1>9. ASSUME faults = 0 PROVE Accounted' /\ Reported' /\ Buried'
    <2>1. Accounted /\ Reported /\ Buried
      BY <1>9 DEF FateInv
    <2>2. ~Closed(i) /\ Claim(w, i)'
      BY <1>2, <1>4 DEF Closed, Claim, ClaimStage
    <2>3. ASSUME NEW j \in Item, j # i PROVE InQueue(j)' <=> InQueue(j)
      <3>1. /\ DOMAIN queue = 1 .. Len(queue) /\ DOMAIN queue' = 1 .. (Len(queue) - 1)
            /\ \A k \in DOMAIN queue' : k + 1 \in DOMAIN queue /\ queue'[k] = queue[k + 1]
        BY <1>1
      <3>2. InQueue(j)' => InQueue(j)
        BY <3>1 DEF InQueue
      <3>3. ASSUME NEW k \in DOMAIN queue, queue[k] = j PROVE InQueue(j)'
        <4>1. k # 1
          BY <1>2, <2>3, <3>3
        <4>2. k - 1 \in DOMAIN queue' /\ queue'[k - 1] = queue[k]
          BY <3>1, <4>1
        <4> QED BY <3>3, <4>2 DEF InQueue
      <3> QED BY <3>2, <3>3 DEF InQueue
    <2>4. \A v \in Worker, j \in Item : j # i => (Claim(v, j)' <=> Claim(v, j))
      <3>1. \A j \in Item : j # i => ~Claim(w, j)' /\ ~Claim(w, j)
        BY <1>1, <1>4, <1>6, ClaimStages DEF Claim
      <3> QED BY <3>1, <1>5, Frame
    <2>5. \A v \in Worker, j \in Item, u \in Token :
             At(v, "deadLog", j, u)' <=> At(v, "deadLog", j, u)
      BY <1>4, <1>5, <1>6, OthersSame, LogPlaces
    <2> QED BY <1>1, <1>2, <2>1, <2>2, <2>3, <2>4, <2>5, NewClaim
  <1> QED BY <1>1, <1>7, <1>8, <1>9 DEF FateInv

(* And stays so, or was settled before.                                    *)
LEMMA LeaseReadFate ==
    ASSUME QueueInv, FateInv, NEW w \in Worker, LeaseRead(w)
    PROVE  FateInv'
  <1> USE TypeFacts
  <1>1. /\ Main(w) # <<>> /\ Head(Main(w)).do = "get_item"
        /\ UNCHANGED <<idempotency, queue, items, leases, deadLetters, operations, held, faults>>
    BY DEF LeaseRead, Main, redisVars
  <1>2. PICK s \in Stage, i \in Item, t \in AnyToken :
          At(w, s, i, t) /\ HeldIs(s, held[w], i, t) /\ ItemIs(s, items[i], t)
    BY <1>1, Placed
  <1>3. s = "popped" /\ Head(Main(w)).item = i /\ Head(Main(w)).token = t
    BY <1>1, <1>2, PlanHead DEF At
  <1>4. t \in Token /\ held[w] = NoLease /\ Claim(w, i)
    BY <1>2, <1>3 DEF HeldIs, TakeStage, Claim, ClaimStage
  <1>5. Call(w, "main", Plan(i, t)["takeSet"])
    BY <1>3 DEF LeaseRead, Plan, Main
  <1>6. /\ At(w, "takeSet", i, t)'
        /\ \A r \in Stage : \A j, u : At(w, r, j, u)' => r = "takeSet" /\ j = i /\ u = t
        /\ \A v \in Worker \ {w} : Main(v)' = Main(v)
    BY <1>5, LogPlaces, Called
  <1>7. \A r \in Stage : \A j, u : At(w, r, j, u) => r = "popped" /\ j = i /\ u = t
    BY <1>2, <1>3, AtUnique
  <1>8. OwnStep(w)
    BY <1>1, <1>6 DEF OwnStep
  <1>9. KeyRight'
    BY <1>1 DEF FateInv, KeyRight
  <1>10. Granted'
    <2>1. \A j \in Item, u \in Token : ~At(w, "takeLog", j, u)'
      BY <1>6, LogPlaces
    <2> QED BY <1>1, <1>6, <2>1, GrantedKeeps DEF FateInv
  <1>11. ASSUME faults = 0 PROVE Accounted' /\ Reported' /\ Buried'
    <2>1. Accounted /\ Reported /\ Buried
      BY <1>11 DEF FateInv
    <2>2. Claim(w, i)'
      BY <1>6 DEF Claim, ClaimStage
    <2>3. \A j \in Item : j # i => ~Claim(w, j) /\ ~Claim(w, j)'
      BY <1>1, <1>4, <1>6, <1>7, ClaimStages DEF Claim
    <2>4. \A v \in Worker, j \in Item : Claim(v, j)' <=> Claim(v, j)
      BY <1>4, <1>8, <2>2, <2>3, Frame
    <2>5. \A v \in Worker, j \in Item, u \in Token :
             At(v, "deadLog", j, u)' <=> At(v, "deadLog", j, u)
      BY <1>6, <1>7, <1>8, OthersSame, LogPlaces
    <2> QED BY <1>1, <2>1, <2>4, <2>5, SameFate
  <1> QED BY <1>1, <1>9, <1>10, <1>11 DEF FateInv

(* A settlement is under way, or refused.                                  *)
LEMMA SettleFate ==
    ASSUME QueueInv, FateInv, NEW w \in Worker, Settle(w)
    PROVE  FateInv'
  <1> USE TypeFacts
  <1>1. /\ Main(w) = <<>> /\ held[w] # NoLease
        /\ UNCHANGED <<idempotency, queue, items, leases, deadLetters, operations, held, faults>>
    BY DEF Settle, Idle, Main, redisVars
  <1>2. PICK i \in Item, t \in Token : held[w] = [item |-> i, token |-> t]
    BY <1>1 DEF Handle
  <1>3. held[w].item = i /\ held[w].token = t
    BY <1>2
  <1>4. \E s \in {"ackSet", "nackSet", "deadSet"} : Call(w, "main", Plan(i, t)[s])
    BY <1>3 DEF Settle, Plan, Ack, Nack, DeadLetter
  <1>5. PICK s \in {"ackSet", "nackSet", "deadSet"} : Call(w, "main", Plan(i, t)[s])
    BY <1>4
  <1>6. /\ \A r \in Stage : \A j, u : At(w, r, j, u)' => r = s /\ j = i /\ u = t
        /\ \A v \in Worker \ {w} : Main(v)' = Main(v)
    BY <1>5, LogPlaces, Called
  <1>7. ASSUME NEW r \in Stage, NEW j, NEW u PROVE ~At(w, r, j, u)
    BY <1>1, AtUnique
  <1>8. OwnStep(w)
    BY <1>1, <1>6 DEF OwnStep
  <1>9. KeyRight'
    BY <1>1 DEF FateInv, KeyRight
  <1>10. Granted'
    <2>1. \A j \in Item, u \in Token : ~At(w, "takeLog", j, u)'
      BY <1>6, LogPlaces
    <2> QED BY <1>1, <1>6, <2>1, GrantedKeeps DEF FateInv
  <1>11. ASSUME faults = 0 PROVE Accounted' /\ Reported' /\ Buried'
    <2>1. Accounted /\ Reported /\ Buried
      BY <1>11 DEF FateInv
    <2>2. \A j \in Item : Claim(w, j)' <=> Claim(w, j)
      BY <1>1, <1>6, <1>7, ClaimStages, LogPlaces DEF Claim
    <2>3. \A v \in Worker, j \in Item : Claim(v, j)' <=> Claim(v, j)
      BY <1>8, <2>2, Frame
    <2>4. \A v \in Worker, j \in Item, u \in Token :
             At(v, "deadLog", j, u)' <=> At(v, "deadLog", j, u)
      BY <1>6, <1>7, <1>8, OthersSame, LogPlaces
    <2> QED BY <1>1, <2>1, <2>3, <2>4, SameFate
  <1> QED BY <1>1, <1>9, <1>10, <1>11 DEF FateInv

(* The lease a worker gives up had no claim: its record is still stored,   *)
(* so it is the item's token that has changed.                             *)
LEMMA SettleRejectedFate ==
    ASSUME QueueInv, FateInv, NEW w \in Worker, SettleRejected(w)
    PROVE  FateInv'
  <1> USE TypeFacts
  <1>1. /\ Main(w) = <<>> /\ todo' = todo /\ held' = [held EXCEPT ![w] = NoLease]
        /\ UNCHANGED <<idempotency, queue, items, leases, deadLetters, operations, faults>>
    BY DEF SettleRejected, Idle, Main, redisVars
  <1>2. items[held[w].item].token # held[w].token
    BY DEF SettleRejected, ValidRefs, ValidLease, FateInv, Granted
  <1>3. \A v \in Worker : Main(v)' = Main(v)
    BY <1>1 DEF Main
  <1>4. OwnStep(w)
    BY <1>1, <1>3 DEF OwnStep
  <1>5. ASSUME NEW r \in Stage, NEW j, NEW u PROVE ~At(w, r, j, u) /\ ~At(w, r, j, u)'
    BY <1>1, <1>3, PlanTail DEF At
  <1>6. KeyRight'
    BY <1>1 DEF FateInv, KeyRight
  <1>7. Granted'
    BY <1>1, <1>3, <1>5, LogPlaces, GrantedKeeps DEF FateInv
  <1>8. ASSUME faults = 0 PROVE Accounted' /\ Reported' /\ Buried'
    <2>1. Accounted /\ Reported /\ Buried
      BY <1>8 DEF FateInv
    <2>2. \A j \in Item : ~Claim(w, j) /\ ~Claim(w, j)'
      BY <1>1, <1>2, <1>5, ClaimStages DEF Claim
    <2>3. \A v \in Worker, j \in Item : Claim(v, j)' <=> Claim(v, j)
      BY <1>4, <2>2, Frame
    <2>4. \A v \in Worker, j \in Item, u \in Token :
             At(v, "deadLog", j, u)' <=> At(v, "deadLog", j, u)
      BY <1>3 DEF At
    <2> QED BY <1>1, <2>1, <2>3, <2>4, SameFate
  <1> QED BY <1>1, <1>6, <1>7, <1>8 DEF FateInv

(* The steps that touch no item, no main thread and no held lease.         *)
LEMMA QuietFate ==
    ASSUME QueueInv, FateInv, \A v \in Worker : Main(v)' = Main(v),
           UNCHANGED <<idempotency, queue, items, deadLetters, held, faults>>,
           \A u \in Token : leases[u] # NoLease => leases'[u] # NoLease,
           \A o \in operations' \ operations : o.operation \notin {"ack", "dead_letter"}
    PROVE  FateInv'
  <1> USE TypeFacts
  <1>1. \A v \in Worker : \A s, i, t : At(v, s, i, t)' <=> At(v, s, i, t)
    BY DEF At
  <1>2. \A v \in Worker, i \in Item : Claim(v, i)' <=> Claim(v, i)
    BY <1>1 DEF Claim
  <1>3. KeyRight'
    BY DEF FateInv, KeyRight
  <1>4. Granted'
    BY <1>1, HandleFields DEF FateInv, Granted
  <1>5. faults = 0 => Accounted' /\ Reported' /\ Buried'
    BY <1>1, <1>2, SameFate DEF FateInv
  <1> QED BY <1>3, <1>4, <1>5 DEF FateInv

(* After a fault only the two unconditional parts remain.                  *)
LEMMA FaultFate ==
    ASSUME QueueInv, FateInv, faults' = faults + 1, NEW w \in Worker,
           \A v \in Worker \ {w} : Main(v)' = Main(v),
           Main(w)' \in {Main(w), <<>>},
           \A v \in Worker : held'[v] \in {held[v], NoLease},
           UNCHANGED <<idempotency, leases>>
    PROVE  FateInv'
  <1> USE TypeFacts
  <1>1. faults' # 0
    BY DEF QueueInv, TypeOK
  <1>2. KeyRight'
    BY DEF FateInv, KeyRight
  <1>3. \A v \in Worker, i \in Item, t \in Token :
           At(v, "takeLog", i, t)' => At(v, "takeLog", i, t)
    <2>1. \A i, t : Plan(i, t)["takeLog"] # <<>>
      BY PlanTail, LogPlaces
    <2> QED BY <2>1 DEF At
  <1>4. Granted'
    BY <1>3 DEF FateInv, Granted
  <1> QED BY <1>1, <1>2, <1>4 DEF FateInv

(* A claim of a worker in a call: the call is about the item, or the       *)
(* worker holds the item while it enqueues another.                        *)
LEMMA ClaimOf ==
    ASSUME QueueInv, NEW w \in Worker, NEW s \in Stage, NEW i \in Item, NEW t \in AnyToken,
           At(w, s, i, t), HeldIs(s, held[w], i, t), ItemIs(s, items[i], t),
           NEW j \in Item, Claim(w, j)
    PROVE  \/ j = i /\ s \notin {"enqLog", "dupLog", "nackLog"}
           \/ /\ s \in EnqStage
              /\ held[w] # NoLease /\ held[w].item = j /\ items[j].token = held[w].token
  <1>1. CASE \E r \in ClaimStage, u \in AnyToken : At(w, r, j, u)
    <2>1. j = i /\ s \in ClaimStage
      BY <1>1, AtUnique, ClaimStages
    <2> QED BY <2>1 DEF ClaimStage
  <1>2. CASE held[w] # NoLease /\ held[w].item = j /\ items[j].token = held[w].token
    <2>1. s \in EnqStage \/ s \in SettleStage
      BY <1>2 DEF HeldIs, Stage
    <2>4. CASE s \in SettleStage
      <3>2. t \in Token /\ held[w] = [item |-> i, token |-> t]
        BY <2>4 DEF HeldIs
      <3>3. j = i /\ items[i].token = t
        BY <1>2, <3>2
      <3> QED BY <2>4, <3>3 DEF SettleStage, ItemIs
    <2> QED BY <1>2, <2>1, <2>4
  <1> QED BY <1>1, <1>2 DEF Claim

(* A claim ends only when the item is queued or settled.                   *)
LEMMA ClaimGoesOn ==
    ASSUME QueueInv, NEW w \in Worker, NEW s \in Stage, NEW i \in Item, NEW t \in AnyToken,
           At(w, s, i, t), HeldIs(s, held[w], i, t), ItemIs(s, items[i], t),
           Advance(<<w, "main">>), Effect(w, s, i, t),
           s \notin {"enqLog", "dupLog", "nackLog"}
    PROVE  Claim(w, i)' \/ InQueue(i)' \/ Settled(i)'
  <1> USE TypeFacts
  <1>1. At(w, After[s], i, t)'
    BY Advanced DEF At
  <1>2. CASE s \in {"enqSet", "takeSet", "takeLease", "nackSet", "nackLease"}
    <2>1. After[s] \in ClaimStage
      BY <1>2 DEF After, ClaimStage
    <2> QED BY <1>1, <2>1 DEF Claim
  <1>3. CASE s = "takeLog"
    <2>1. held'[w] = [item |-> i, token |-> t] /\ items' = items
      BY <1>3 DEF Effect, SetStage
    <2>2. items[i].token = t /\ t \in Token
      BY <1>3 DEF ItemIs, HeldIs, TakeStage
    <2> QED BY <2>1, <2>2, HandleFields DEF Claim
  <1>4. CASE s \in PushStage
    <2>1. queue' = Append(queue, i)
      BY <1>4 DEF Effect
    <2>2. Len(queue) + 1 \in DOMAIN queue' /\ queue'[Len(queue) + 1] = i
      BY <2>1
    <2> QED BY <2>2 DEF InQueue
  <1>5. CASE s \in {"ackSet", "deadSet"}
    <2>1. items'[i] = Stored(s, t)
      BY <1>5 DEF Effect, SetStage
    <2> QED BY <1>5, <2>1, StoredFields DEF Settled
  <1>6. CASE s \in {"ackLease", "ackLog", "deadRec", "deadLease", "deadPush", "deadLog"}
    <2>1. items' = items
      BY <1>6 DEF Effect, SetStage
    <2> QED BY <1>6, <2>1, StoredFields DEF Settled, ItemIs
  <1> QED BY <1>2, <1>3, <1>4, <1>5, <1>6
        DEF Stage, EnqStage, TakeStage, SettleStage, PushStage, Effect

(* Every command of a main thread keeps the fate of each item and the      *)
(* truth of the log.                                                       *)
LEMMA ExecuteMainFate ==
    ASSUME QueueInv, FateInv, NEW w \in Worker, NEW s \in Stage, NEW i \in Item, NEW t \in AnyToken,
           At(w, s, i, t), HeldIs(s, held[w], i, t), ItemIs(s, items[i], t),
           Advance(<<w, "main">>), Effect(w, s, i, t), OwnStep(w), Shrinks(w)
    PROVE  FateInv'
  <1> USE TypeFacts
  <1>1. /\ UNCHANGED <<idempotency, faults>>
        /\ \A j \in Item : j # i => items'[j] = items[j]
        /\ s \notin SetStage => items' = items
    BY DEF Effect
  <1>2. /\ \A r \in Stage : \A j, u : At(w, r, j, u)' => r = After[s] /\ j = i /\ u = t
        /\ At(w, After[s], i, t)'
        /\ \A v \in Worker \ {w} : Main(v)' = Main(v)
    BY Advanced DEF At
  <1>3. \A r \in Stage : \A j, u : At(w, r, j, u) => r = s /\ j = i /\ u = t
    <2>1. ASSUME NEW r \in Stage, NEW j, NEW u, At(w, r, j, u) PROVE s = r /\ i = j /\ t = u
      <3>1. Plan(i, t)[s] = Plan(j, u)[r]
        BY <2>1 DEF At
      <3> QED BY <3>1, PlanUnique
    <2> QED BY <2>1
  <1>4. \A v \in Worker, j \in Item : Claim(v, j)' => Claim(v, j)
    BY Frame DEF Shrinks
  <1>5. \A v \in Worker, j \in Item : v # w => (Claim(v, j)' <=> Claim(v, j))
    BY Frame
  <1>6. s \notin {"enqLog", "dupLog", "nackLog"} => Claim(w, i)
    BY StageClaims
  <1>7. KeyRight'
    BY <1>1 DEF FateInv, KeyRight
  <1>8. Granted'
    <2>1. ASSUME NEW j \in Item, NEW u \in Token, At(w, "takeLog", j, u)' PROVE leases'[u] # NoLease
      <3>1. After[s] = "takeLog" /\ u = t
        BY <1>2, <2>1, LogPlaces
      <3>2. s = "takeLease"
        BY <3>1, AfterCases DEF Stage, EnqStage, TakeStage, SettleStage
      <3> QED BY <3>1, <3>2 DEF Effect, LeaseStage
    <2>2. ASSUME held'[w] # NoLease
          PROVE  \/ held'[w] = held[w]
                 \/ held'[w] \in Handle /\ leases'[held'[w].token] # NoLease
      <3>1. CASE held'[w] = [item |-> i, token |-> t] /\ s = "takeLog"
        <4>1. t \in Token
          BY <3>1 DEF HeldIs, TakeStage
        <4>2. leases[t] # NoLease
          BY <3>1, <4>1 DEF FateInv, Granted
        <4> QED BY <3>1, <4>1, <4>2, HandleFields DEF Effect
      <3> QED BY <2>2, <3>1 DEF Effect
    <2>3. /\ Granted
          /\ \A u \in Token : leases[u] # NoLease => leases'[u] # NoLease
          /\ \A v \in Worker \ {w} : Main(v)' = Main(v) /\ held'[v] = held[v]
      BY <1>2 DEF FateInv, Effect
    <2> QED BY <2>1, <2>2, <2>3, GrantedKeeps
  <1>9. ASSUME faults = 0 PROVE Accounted' /\ Reported' /\ Buried'
    <2>1. Accounted /\ Reported /\ Buried
      BY <1>9 DEF FateInv
    <2>2. /\ s \notin PushStage => queue' = queue
          /\ s \in PushStage => queue' = Append(queue, i)
          /\ s # "deadPush" => deadLetters' = deadLetters
          /\ s = "deadPush" => deadLetters' = Append(deadLetters, i)
      BY DEF Effect
    <2>3. /\ \A j \in Item : InQueue(j) => InQueue(j)'
          /\ \A j \in Item : InQueue(j)' => InQueue(j) \/ (j = i /\ s \in PushStage)
      <3>1. CASE s \notin PushStage
        BY <3>1, <2>2 DEF InQueue
      <3>2. CASE s \in PushStage
        <4>1. queue' = Append(queue, i) /\ queue \in Seq(Item)
          BY <3>2, <2>2
        <4>2. /\ DOMAIN queue = 1 .. Len(queue) /\ Len(queue) \in Nat
              /\ DOMAIN queue' = 1 .. (Len(queue) + 1)
              /\ \A k \in DOMAIN queue : queue'[k] = queue[k]
              /\ queue'[Len(queue) + 1] = i
          BY <4>1
        <4>3. /\ DOMAIN queue \subseteq DOMAIN queue' /\ Len(queue) + 1 \in DOMAIN queue'
              /\ \A k \in DOMAIN queue' : k \in DOMAIN queue \/ k = Len(queue) + 1
          BY <4>2
        <4> QED BY <3>2, <4>2, <4>3 DEF InQueue
      <3> QED BY <3>1, <3>2
    <2>4. deadLetters \in Seq(Item)
      BY DEF QueueInv, TypeOK
    <2>5. /\ \A j \in Item : InDead(j) => InDead(j)'
          /\ \A j \in Item : InDead(j)' => InDead(j) \/ (j = i /\ s = "deadPush")
          /\ s = "deadPush" => InDead(i)'
      <3>1. CASE s # "deadPush"
        BY <3>1, <2>2 DEF InDead
      <3>2. CASE s = "deadPush"
        <4>1. deadLetters' = Append(deadLetters, i)
          BY <3>2, <2>2
        <4>2. /\ DOMAIN deadLetters = 1 .. Len(deadLetters) /\ Len(deadLetters) \in Nat
              /\ DOMAIN deadLetters' = 1 .. (Len(deadLetters) + 1)
              /\ \A k \in DOMAIN deadLetters : deadLetters'[k] = deadLetters[k]
              /\ deadLetters'[Len(deadLetters) + 1] = i
          BY <4>1, <2>4
        <4>3. /\ DOMAIN deadLetters \subseteq DOMAIN deadLetters' /\ Len(deadLetters) + 1 \in DOMAIN deadLetters'
              /\ \A k \in DOMAIN deadLetters' : k \in DOMAIN deadLetters \/ k = Len(deadLetters) + 1
          BY <4>2
        <4> QED BY <3>2, <4>2, <4>3 DEF InDead
      <3> QED BY <3>1, <3>2
    <2>6. \A j \in Item : items'[j] # items[j] => j = i /\ Claim(w, i) /\ s \in SetStage
      BY <1>1, <1>6 DEF SetStage
    <2>7. Accounted'
      <3> SUFFICES ASSUME NEW j \in Item, idempotency[KeyOf[j]] = j
                   PROVE  InQueue(j)' \/ Settled(j)' \/ Claimed(j)'
        BY <1>1 DEF Accounted
      <3>1. CASE \E v \in Worker : v # w /\ Claim(v, j)
        BY <3>1, <1>5 DEF Claimed
      <3>2. CASE Claim(w, j)
        <4>1. CASE j = i /\ s \notin {"enqLog", "dupLog", "nackLog"}
          BY <4>1, ClaimGoesOn DEF Claimed
        <4>2. CASE /\ s \in EnqStage
                   /\ held[w] # NoLease /\ held[w].item = j /\ items[j].token = held[w].token
          <5>1. held'[w] = held[w]
            BY <4>2 DEF Effect, EnqStage
          <5>2. items[j].token # NoToken
            BY <4>2, HandleFields
          <5>3. items'[j] = items[j]
            BY <1>1, <4>2, <5>2 DEF ItemIs, EnqStage, SetStage
          <5> QED BY <4>2, <5>1, <5>3 DEF Claim, Claimed
        <4> QED BY <3>2, <4>1, <4>2, ClaimOf
      <3>3. CASE InQueue(j)
        BY <3>3, <2>3
      <3>4. CASE Settled(j) /\ ~Claim(w, j)
        BY <3>4, <2>6 DEF Settled
      <3> QED BY <2>1, <3>1, <3>2, <3>3, <3>4 DEF Accounted, Claimed
    <2>8. ASSUME NEW j \in Item, Closed(j), ~Claim(w, j) \/ s \notin PushStage
          PROVE  Closed(j)'
      <3>1. j = i /\ s \in PushStage => Claim(w, j)
        BY <1>6 DEF PushStage
      <3> QED BY <1>1, <2>3, <2>8, <3>1 DEF Closed
    <2>9. Reported'
      <3> SUFFICES ASSUME NEW o \in operations'
                   PROVE  /\ o.operation \in {"ack", "dead_letter"} => Closed(o.item)' /\ ~Claimed(o.item)'
                          /\ o.operation = "ack" => items'[o.item] = [status |-> "acked", token |-> o.token]
                          /\ o.operation = "dead_letter" =>
                               /\ items'[o.item] = [status |-> "dead_lettered", token |-> o.token]
                               /\ InDead(o.item)'
        BY DEF Reported
      <3>1. CASE o \in operations /\ o.operation \in {"ack", "dead_letter"}
        <4>1. Closed(o.item) /\ ~Claimed(o.item)
          BY <3>1, <2>1 DEF Reported
        <4>2. o.item \in Item /\ \A v \in Worker : ~Claim(v, o.item)
          BY <4>1 DEF Closed, Claimed
        <4>3. Closed(o.item)' /\ ~Claimed(o.item)'
          BY <4>1, <4>2, <2>8, <1>4 DEF Claimed
        <4>4. items'[o.item] = items[o.item]
          BY <4>2, <2>6
        <4> QED BY <3>1, <4>2, <4>3, <4>4, <2>1, <2>5 DEF Reported
      <3>2. CASE o \notin operations /\ o.operation \in {"ack", "dead_letter"}
        <4>1. s \in LogStage /\ o = [operation |-> Outcome[s], item |-> i, token |-> t]
          BY <3>2 DEF Effect
        <4>2. o.operation = Outcome[s] /\ o.item = i /\ o.token = t
          BY <4>1
        <4>3. \/ s = "ackLog" /\ o.operation = "ack"
              \/ s = "deadLog" /\ o.operation = "dead_letter"
          BY <3>2, <4>1, <4>2, OutcomeOf DEF LogStage
        <4>4. Claim(w, i) /\ s \notin PushStage /\ s \notin SetStage
          BY <4>3, <1>6 DEF PushStage, SetStage
        <4>5. Closed(i) /\ Closed(i)'
          BY <4>4, <2>8 DEF QueueInv, Exclusive, Closed
        <4>6. ~Claim(w, i)'
          <5>1. After[s] \notin Stage
            BY <4>3, NotIdle DEF After
          <5>2. held'[w] = NoLease
            BY <4>3 DEF Effect
          <5> QED BY <5>1, <5>2, <1>2, ClaimStages DEF Claim
        <4>7. ~Claimed(i)'
          BY <4>4, <4>6, <1>5 DEF Claimed, QueueInv, Exclusive
        <4>8. items' = items
          BY <4>4, <1>1
        <4>9. s = "deadLog" => InDead(i)'
          <5>1. s = "deadLog" => t \in Token
            BY DEF HeldIs, SettleStage
          <5> QED BY <5>1, <2>1, <2>5 DEF Buried
        <4> QED BY <4>2, <4>3, <4>5, <4>7, <4>8, <4>9 DEF ItemIs
      <3> QED BY <3>1, <3>2
    <2>10. Buried'
      <3>1. ASSUME NEW j \in Item, InDead(j)'
            PROVE  /\ Closed(j)'
                   /\ \A v \in Worker : Claim(v, j)' => \E u \in Token : At(v, "deadLog", j, u)'
        <4>1. CASE InDead(j)
          <5>1. /\ Closed(j)
                /\ \A v \in Worker : Claim(v, j) => \E u \in Token : At(v, "deadLog", j, u)
            BY <4>1, <2>1 DEF Buried
          <5>2. Claim(w, j) => s = "deadLog" /\ j = i
            BY <5>1, <1>3, LogPlaces
          <5>3. Closed(j)'
            BY <5>1, <5>2, <2>8 DEF PushStage
          <5>4. ~Claim(w, j)'
            <6>1. CASE ~Claim(w, j)
              BY <6>1, <1>4
            <6>2. CASE s = "deadLog"
              <7>1. After[s] \notin Stage
                BY <6>2, NotIdle DEF After
              <7>2. held'[w] = NoLease
                BY <6>2 DEF Effect
              <7> QED BY <7>1, <7>2, <1>2, ClaimStages DEF Claim
            <6> QED BY <6>1, <6>2, <5>2
          <5>5. \A v \in Worker \ {w} : \A u : At(v, "deadLog", j, u)' <=> At(v, "deadLog", j, u)
            BY OthersSame
          <5> QED BY <5>1, <5>3, <5>4, <5>5, <1>4
        <4>2. CASE ~InDead(j)
          <5>1. j = i /\ s = "deadPush"
            BY <3>1, <4>2, <2>5
          <5>2. Claim(w, i) /\ t \in Token
            BY <5>1, <1>6 DEF HeldIs, SettleStage
          <5>3. Closed(i)'
            BY <5>1, <5>2, <2>8 DEF QueueInv, Exclusive, Closed, PushStage
          <5>4. At(w, "deadLog", i, t)'
            BY <5>1, <1>2 DEF After
          <5>5. \A v \in Worker : Claim(v, i)' => v = w
            BY <5>2, <1>4 DEF QueueInv, Exclusive
          <5> QED BY <5>1, <5>2, <5>3, <5>4, <5>5
        <4> QED BY <4>1, <4>2
      <3>2. ASSUME NEW j \in DOMAIN deadLetters', NEW k \in DOMAIN deadLetters',
                   deadLetters'[j] = deadLetters'[k]
            PROVE  j = k
        <4>1. CASE s # "deadPush"
          BY <3>2, <4>1, <2>1, <2>2 DEF Buried
        <4>2. CASE s = "deadPush"
          <5>1. Claim(w, i) /\ ~\E u \in Token : At(w, "deadLog", i, u)
            BY <4>2, <1>3, <1>6, LogPlaces
          <5>2. ~InDead(i)
            BY <5>1, <2>1 DEF Buried
          <5>3. deadLetters' = Append(deadLetters, i)
            BY <4>2, <2>2
          <5> QED BY <3>2, <5>2, <5>3, <2>1, <2>4 DEF Buried, InDead
        <4> QED BY <4>1, <4>2
      <3>3. ASSUME NEW v \in Worker, NEW j \in Item, NEW u \in Token, At(v, "deadLog", j, u)'
            PROVE  InDead(j)'
        <4>1. CASE v # w
          BY <3>3, <4>1, <2>1, <2>5, OthersSame DEF Buried
        <4>2. CASE v = w
          <5>1. After[s] = "deadLog" /\ j = i
            BY <3>3, <4>2, <1>2, LogPlaces
          <5>2. s = "deadPush"
            BY <5>1, AfterCases DEF Stage, EnqStage, TakeStage, SettleStage
          <5> QED BY <5>1, <5>2, <2>5
        <4> QED BY <4>1, <4>2
      <3> QED BY <3>1, <3>2, <3>3 DEF Buried
    <2> QED BY <2>7, <2>9, <2>10
  <1> QED BY <1>1, <1>7, <1>8, <1>9 DEF FateInv

(* Every step does.                                                        *)
LEMMA NextFate ==
    ASSUME QueueInv, FateInv, [Next]_vars
    PROVE  FateInv'
  <1> USE TypeFacts
  <1>1. ASSUME NEW w \in Worker, NEW i \in Item, Enqueue(w, i) PROVE FateInv'
    BY <1>1, EnqueueFate
  <1>2. ASSUME NEW w \in Worker, LeasePop(w) PROVE FateInv'
    BY <1>2, LeasePopFate
  <1>3. ASSUME NEW w \in Worker, LeaseRead(w) PROVE FateInv'
    BY <1>3, LeaseReadFate
  <1>4. ASSUME NEW w \in Worker, Heartbeat(w) PROVE FateInv'
    <2>1. /\ UNCHANGED <<idempotency, queue, items, leases, deadLetters, operations, held, faults>>
          /\ \A v \in Worker : Main(v)' = Main(v)
      BY <1>4 DEF Heartbeat, Call, Main, redisVars, Thread
    <2> QED BY <2>1, QuietFate
  <1>5. ASSUME NEW w \in Worker, Settle(w) PROVE FateInv'
    BY <1>5, SettleFate
  <1>6. ASSUME NEW w \in Worker, SettleRejected(w) PROVE FateInv'
    BY <1>6, SettleRejectedFate
  <1>7. ASSUME NEW w \in Worker, Crash(w) PROVE FateInv'
    <2>1. /\ faults' = faults + 1 /\ UNCHANGED <<idempotency, leases>>
          /\ held' = [held EXCEPT ![w] = NoLease]
          /\ todo' = [th \in Thread |-> IF th[1] = w THEN <<>> ELSE todo[th]]
      BY <1>7 DEF Crash, redisVars
    <2>2. /\ Main(w)' = <<>>
          /\ \A v \in Worker \ {w} : Main(v)' = Main(v)
          /\ \A v \in Worker : held'[v] \in {held[v], NoLease}
      BY <2>1 DEF Main, Thread
    <2> QED BY <2>1, <2>2, FaultFate
  <1>8. ASSUME NEW th \in Thread, Execute(th) PROVE FateInv'
    <2>1. PICK w \in Worker : th = <<w, "main">> \/ th = <<w, "heartbeat">>
      BY ThreadOf
    <2>2. CASE th = <<w, "main">>
      <3>1. PICK s \in Stage, i \in Item, t \in AnyToken :
              /\ At(w, s, i, t) /\ HeldIs(s, held[w], i, t) /\ ItemIs(s, items[i], t)
              /\ Advance(<<w, "main">>) /\ Effect(w, s, i, t)
              /\ TypeOK'
        BY <1>8, <2>2, ExecuteMain
      <3>2. OwnStep(w) /\ Shrinks(w)
        BY <3>1, ExecuteMainQueue
      <3> QED BY <3>1, <3>2, ExecuteMainFate
    <2>3. CASE th = <<w, "heartbeat">>
      <3>1. /\ UNCHANGED <<idempotency, queue, items, deadLetters, held, faults>>
            /\ \A v \in Worker : Main(v)' = Main(v)
            /\ \A u \in Token : leases[u] # NoLease => leases'[u] # NoLease
            /\ \/ operations' = operations
               \/ \E h \in Handle :
                    operations' = LogWith(RecordOperation(h.item, h.token, "heartbeat"))
        BY <1>8, <2>3, ExecuteBeatQueue
      <3>2. \A o \in operations' \ operations : o.operation \notin {"ack", "dead_letter"}
        BY <3>1, Fields DEF LogWith, RecordOperation
      <3> QED BY <3>1, <3>2, QuietFate
    <2> QED BY <2>1, <2>2, <2>3
  <1>9. ASSUME NEW th \in Thread, CallRaises(th) PROVE FateInv'
    <2>1. /\ faults' = faults + 1 /\ UNCHANGED <<idempotency, leases, held>>
          /\ todo' = [todo EXCEPT ![th] = <<>>]
      BY <1>9 DEF CallRaises
    <2>2. PICK w \in Worker : th = <<w, "main">> \/ th = <<w, "heartbeat">>
      BY ThreadOf
    <2>3. /\ Main(w)' \in {Main(w), <<>>}
          /\ \A v \in Worker \ {w} : Main(v)' = Main(v)
      BY <2>1, <2>2 DEF Main, Thread
    <2> QED BY <2>1, <2>3, FaultFate
  <1>10. ASSUME NEW t \in Token, Expire(t) PROVE FateInv'
    <2>1. UNCHANGED <<idempotency, queue, items, leases, deadLetters, operations, todo, held, faults>>
      BY <1>10 DEF Expire
    <2> QED BY <2>1, QuietFate DEF Main
  <1>11. CASE UNCHANGED vars
    <2>1. UNCHANGED <<idempotency, queue, items, leases, deadLetters, operations, todo, held, faults>>
      BY <1>11 DEF vars, redisVars
    <2> QED BY <2>1, QuietFate DEF Main
  <1> QED BY <1>1, <1>2, <1>3, <1>4, <1>5, <1>6, <1>7, <1>8, <1>9, <1>10, <1>11 DEF Next

(* The inductive invariant behind the next two: an item is queued, claimed *)
(* or settled as long as no call has failed.                               *)
THEOREM FateInvCorrect == Spec => []FateInv
  BY InitFate, NextFate, QueueInvCorrect, PTL DEF Spec

(* Without a fault an item that was taken in is in charge of somebody.     *)
LEMMA InvNothingLost == QueueInv /\ FateInv => NothingLost
  <1> SUFFICES ASSUME QueueInv, FateInv, faults = 0,
                      NEW k \in Key, NEW i, i = idempotency[k], i # NoItem
               PROVE  \/ \E j \in DOMAIN queue : queue[j] = i
                      \/ \E th \in Thread : Concerns(th, i)
                      \/ \E w \in Worker : held[w] # NoLease /\ held[w].item = i
                      \/ items[i].status \in {"acked", "dead_lettered"}
    BY DEF NothingLost
  <1> USE TypeFacts
  <1>1. i \in Item /\ idempotency[KeyOf[i]] = i
    BY DEF FateInv, KeyRight
  <1>2. InQueue(i) \/ Settled(i) \/ Claimed(i)
    BY <1>1 DEF FateInv, Accounted
  <1>3. ASSUME NEW w \in Worker, Claim(w, i), ~(held[w] # NoLease /\ held[w].item = i)
        PROVE  Concerns(<<w, "main">>, i)
    <2>1. PICK s \in ClaimStage, t \in AnyToken : At(w, s, i, t)
      BY <1>3 DEF Claim
    <2>2. s \in Stage
      BY ClaimStages
    <2>3. /\ Len(Plan(i, t)[s]) = Left[s]
          /\ Final(Plan(i, t)[s]).item = i
      BY <2>2, PlanEnd
    <2>4. Left[s] \in DOMAIN Plan(i, t)[s]
      BY <2>2, PlanDomain
    <2>5. todo[<<w, "main">>] = Plan(i, t)[s]
      BY <2>1 DEF At, Main
    <2> QED BY <2>3, <2>4, <2>5 DEF Concerns, Final
  <1>4. \A w \in Worker : <<w, "main">> \in Thread
    BY DEF Thread
  <1> QED BY <1>2, <1>3, <1>4 DEF InQueue, Settled, Claimed

(* NothingLost for every instance: as long as no call has failed, an item  *)
(* whose key was claimed is queued, in hand or settled.                    *)
THEOREM NothingLostCorrect == Spec => []NothingLost
  BY QueueInvCorrect, FateInvCorrect, InvNothingLost, PTL

(* What is logged was done.                                                *)
LEMMA InvLogTruthful == FateInv => LogTruthful
  <1> SUFFICES ASSUME FateInv, faults = 0
               PROVE  /\ \A o \in operations :
                            /\ o.operation = "ack" =>
                                    items[o.item] = [status |-> "acked", token |-> o.token]
                            /\ o.operation = "dead_letter" =>
                                    /\ items[o.item] = [status |-> "dead_lettered", token |-> o.token]
                                    /\ \E k \in DOMAIN deadLetters : deadLetters[k] = o.item
                      /\ \A j, k \in DOMAIN deadLetters : deadLetters[j] = deadLetters[k] => j = k
    BY DEF LogTruthful
  <1> QED BY DEF FateInv, Reported, Buried, InDead

(* LogTruthful for every instance: a recorded ack or dead_letter is        *)
(* applied and stays, and an item is dead-lettered once.                   *)
THEOREM LogTruthfulCorrect == Spec => []LogTruthful
  BY FateInvCorrect, InvLogTruthful, PTL
-----------------------------------------------------------------------------
(* The dead letters, whatever fails: how far a dead_letter has come says   *)
(* what it has stored.                                                     *)
DeadStage == {"deadLease", "deadPush", "deadLog"}
BackedInv ==
    /\ \A w \in Worker, s \in DeadStage, i \in Item, t \in AnyToken :
         At(w, s, i, t) => i \in deadRecords /\ (s = "deadLog" => InDead(i))
    /\ DeadLettersBacked

(* They are places, and no call starts there.                              *)
LEMMA DeadStages ==
    /\ DeadStage \subseteq Stage
    /\ DeadStage \cap {"enqSet", "dupLog", "popped", "takeSet", "ackSet", "nackSet", "deadSet"} = {}
  BY DEF DeadStage, Stage, SettleStage

(* A step that brings no call closer to its dead letter.                   *)
LEMMA QuietBacked ==
    ASSUME BackedInv, UNCHANGED <<deadRecords, deadLetters>>,
           \A w \in Worker, s \in DeadStage, i \in Item, t \in AnyToken :
               At(w, s, i, t)' => At(w, s, i, t),
           \A o \in operations' \ operations : o.operation = "dead_letter" => InDead(o.item)
    PROVE  BackedInv'
  <1>1. \A i : InDead(i)' <=> InDead(i)
    BY DEF InDead
  <1>2. DeadLettersBacked'
    BY DEF BackedInv, DeadLettersBacked, InDead
  <1> QED BY <1>1, <1>2 DEF BackedInv

(* A call of w starts, or ends.                                            *)
LEMMA StartBacked ==
    ASSUME BackedInv, UNCHANGED <<deadRecords, deadLetters, operations>>, NEW w \in Worker,
           \A v \in Worker \ {w} : Main(v)' = Main(v),
           \A s \in DeadStage : \A i, t : ~At(w, s, i, t)'
    PROVE  BackedInv'
  <1>1. ASSUME NEW v \in Worker, NEW s \in DeadStage, NEW i \in Item, NEW t \in AnyToken, At(v, s, i, t)'
        PROVE  At(v, s, i, t)
    BY <1>1 DEF At
  <1> QED BY <1>1, QuietBacked

(* A command of a main thread stores what its place will say it has.       *)
LEMMA ExecuteMainBacked ==
    ASSUME QueueInv, BackedInv, NEW w \in Worker, NEW s \in Stage, NEW i \in Item, NEW t \in AnyToken,
           At(w, s, i, t), Advance(<<w, "main">>), Effect(w, s, i, t)
    PROVE  BackedInv'
  <1> USE TypeFacts
  <1>1. /\ \A r \in Stage : \A j, u : At(w, r, j, u)' => r = After[s] /\ j = i /\ u = t
        /\ \A v \in Worker \ {w} : Main(v)' = Main(v)
    BY Advanced
  <1>2. deadLetters \in Seq(Item)
    BY DEF QueueInv, TypeOK
  <1>3. /\ deadRecords \subseteq deadRecords'
        /\ s = "deadRec" => i \in deadRecords'
    BY DEF Effect
  <1>4. /\ \A j : InDead(j) => InDead(j)'
        /\ \A j : InDead(j)' => InDead(j) \/ (j = i /\ s = "deadPush")
        /\ s = "deadPush" => InDead(i)'
    <2>1. CASE s # "deadPush"
      <3>1. deadLetters' = deadLetters
        BY <2>1 DEF Effect
      <3> QED BY <2>1, <3>1 DEF InDead
    <2>2. CASE s = "deadPush"
      <3>1. deadLetters' = Append(deadLetters, i)
        BY <2>2 DEF Effect
      <3>2. /\ DOMAIN deadLetters = 1 .. Len(deadLetters) /\ Len(deadLetters) \in Nat
            /\ DOMAIN deadLetters' = 1 .. (Len(deadLetters) + 1)
            /\ \A k \in DOMAIN deadLetters : deadLetters'[k] = deadLetters[k]
            /\ deadLetters'[Len(deadLetters) + 1] = i
        BY <3>1, <1>2
      <3>3. /\ DOMAIN deadLetters \subseteq DOMAIN deadLetters' /\ Len(deadLetters) + 1 \in DOMAIN deadLetters'
            /\ \A k \in DOMAIN deadLetters' : k \in DOMAIN deadLetters \/ k = Len(deadLetters) + 1
        BY <3>2
      <3> QED BY <2>2, <3>2, <3>3 DEF InDead
    <2> QED BY <2>1, <2>2
  <1>5. s \in {"deadLease", "deadPush", "deadLog"} => i \in deadRecords
    BY DEF BackedInv, DeadStage
  <1>6. ASSUME NEW v \in Worker, NEW r \in DeadStage, NEW j \in Item, NEW u \in AnyToken, At(v, r, j, u)'
        PROVE  j \in deadRecords' /\ (r = "deadLog" => InDead(j)')
    <2>1. CASE v # w
      <3>1. At(v, r, j, u)
        BY <1>1, <1>6, <2>1 DEF At
      <3> QED BY <3>1, <1>3, <1>4 DEF BackedInv
    <2>2. CASE v = w
      <3>1. r = After[s] /\ j = i
        BY <1>1, <1>6, <2>2, DeadStages
      <3>2. \/ s = "deadRec" /\ r = "deadLease"
            \/ s = "deadLease" /\ r = "deadPush"
            \/ s = "deadPush" /\ r = "deadLog"
        BY <3>1, AfterCases DEF DeadStage, Stage, EnqStage, TakeStage, SettleStage
      <3> QED BY <3>1, <3>2, <1>3, <1>4, <1>5
    <2> QED BY <2>1, <2>2
  <1>7. DeadLettersBacked'
    <2>1. ASSUME NEW k \in DOMAIN deadLetters' PROVE deadLetters'[k] \in deadRecords'
      <3>0. PICK j : j = deadLetters'[k]
        OBVIOUS
      <3>1. InDead(j)'
        BY <2>1, <3>0 DEF InDead
      <3>2. InDead(j) => j \in deadRecords
        BY DEF InDead, BackedInv, DeadLettersBacked
      <3> QED BY <3>0, <3>1, <3>2, <1>3, <1>4, <1>5
    <2>2. ASSUME NEW o \in operations', o.operation = "dead_letter" PROVE InDead(o.item)'
      <3>1. CASE o \in operations
        BY <2>2, <3>1, <1>4 DEF BackedInv, DeadLettersBacked, InDead
      <3>2. CASE o \notin operations
        <4>1. s \in LogStage /\ o = [operation |-> Outcome[s], item |-> i, token |-> t]
          BY <3>2 DEF Effect
        <4>2. Outcome[s] = "dead_letter" /\ o.item = i
          BY <2>2, <4>1
        <4>3. s = "deadLog"
          BY <4>1, <4>2, OutcomeOf DEF LogStage
        <4> QED BY <4>2, <4>3, <1>4 DEF BackedInv, DeadStage
      <3> QED BY <3>1, <3>2
    <2> QED BY <2>1, <2>2 DEF DeadLettersBacked, InDead
  <1> QED BY <1>6, <1>7 DEF BackedInv

(* What a call may log although it raises.                                 *)
LEMMA RaisesBacked ==
    ASSUME QueueInv, BackedInv, NEW th \in Thread, CallRaises(th)
    PROVE  BackedInv'
  <1> USE TypeFacts
  <1>1. /\ todo[th] # <<>> /\ todo' = [todo EXCEPT ![th] = <<>>]
        /\ UNCHANGED <<deadRecords, deadLetters>>
    BY DEF CallRaises
  <1>2. PICK w \in Worker : th = <<w, "main">> \/ th = <<w, "heartbeat">>
    BY ThreadOf
  <1>3. ASSUME NEW v \in Worker, NEW s \in DeadStage, NEW i \in Item, NEW t \in AnyToken, At(v, s, i, t)'
        PROVE  At(v, s, i, t)
    <2>1. Plan(i, t)[s] # <<>>
      BY PlanTail, DeadStages
    <2>2. Main(v)' \in {Main(v), <<>>}
      BY <1>1, <1>2 DEF Main, Thread
    <2> QED BY <1>3, <2>1, <2>2 DEF At
  <1>4. ASSUME NEW o \in operations' \ operations, o.operation = "dead_letter"
        PROVE  InDead(o.item)
    <2>1. Head(todo[th]).do = "record" /\ operations' = LogWith(Head(todo[th]))
      BY <1>4 DEF CallRaises, Running
    <2>2. o.operation = Head(todo[th]).status /\ o.item = Head(todo[th]).item
      BY <1>4, <2>1 DEF LogWith
    <2>3. CASE th = <<w, "main">>
      <3>1. PICK s \in Stage, i \in Item, t \in AnyToken : At(w, s, i, t)
        BY <1>1, <2>3, Placed DEF Main
      <3>2. /\ Head(todo[th]).item = i /\ s \in LogStage
            /\ Head(todo[th]).status = Outcome[s]
        BY <2>1, <2>3, <3>1, PlanHead DEF At, Main
      <3>3. s = "deadLog"
        BY <1>4, <2>2, <3>2, OutcomeOf DEF LogStage
      <3> QED BY <2>2, <3>1, <3>2, <3>3 DEF BackedInv, DeadStage
    <2>4. CASE th = <<w, "heartbeat">>
      <3>1. PICK h \in Handle, s \in LeaseStatus :
              \/ Head(todo[th]) = SetLease(h.item, h.token, s)
              \/ Head(todo[th]) = RecordOperation(h.item, h.token, "heartbeat")
        BY <1>1, <2>4, BeatHead
      <3> QED BY <1>4, <2>1, <2>2, <3>1, Fields DEF SetLease, RecordOperation
    <2> QED BY <1>2, <2>3, <2>4
  <1> QED BY <1>1, <1>3, <1>4, QuietBacked

(* Every step keeps the dead letters backed.                               *)
LEMMA NextBacked ==
    ASSUME QueueInv, BackedInv, [Next]_vars
    PROVE  BackedInv'
  <1> USE TypeFacts
  <1>1. ASSUME NEW w \in Worker, NEW i \in Item, Enqueue(w, i) PROVE BackedInv'
    <2>1. UNCHANGED <<deadRecords, deadLetters, operations>>
      BY <1>1 DEF Enqueue
    <2>2. PICK s \in {"enqSet", "dupLog"} : Call(w, "main", Plan(i, NoToken)[s])
      BY <1>1 DEF Enqueue, Plan
    <2>3. /\ \A r \in Stage : \A j, u : At(w, r, j, u)' => r = s
          /\ \A v \in Worker \ {w} : Main(v)' = Main(v)
      BY <2>2, LogPlaces, Called
    <2> QED BY <2>1, <2>3, DeadStages, StartBacked
  <1>2. ASSUME NEW w \in Worker, LeasePop(w) PROVE BackedInv'
    <2>1. UNCHANGED <<deadRecords, deadLetters, operations>>
      BY <1>2 DEF LeasePop
    <2>2. Call(w, "main", Plan(Head(queue), nextToken)["popped"])
      BY <1>2 DEF LeasePop, Plan
    <2>3. /\ \A r \in Stage : \A j, u : At(w, r, j, u)' => r = "popped"
          /\ \A v \in Worker \ {w} : Main(v)' = Main(v)
      BY <2>2, LogPlaces, Called
    <2> QED BY <2>1, <2>3, DeadStages, StartBacked
  <1>3. ASSUME NEW w \in Worker, LeaseRead(w) PROVE BackedInv'
    <2>1. UNCHANGED <<deadRecords, deadLetters, operations>>
      BY <1>3 DEF LeaseRead, redisVars
    <2>2. PICK i, t : Call(w, "main", Plan(i, t)["takeSet"])
      BY <1>3 DEF LeaseRead, Plan
    <2>3. /\ \A r \in Stage : \A j, u : At(w, r, j, u)' => r = "takeSet"
          /\ \A v \in Worker \ {w} : Main(v)' = Main(v)
      BY <2>2, LogPlaces, Called
    <2> QED BY <2>1, <2>3, DeadStages, StartBacked
  <1>4. ASSUME NEW w \in Worker, Heartbeat(w) PROVE BackedInv'
    <2>1. /\ UNCHANGED <<deadRecords, deadLetters, operations>>
          /\ \A v \in Worker : Main(v)' = Main(v)
      BY <1>4 DEF Heartbeat, Call, Main, redisVars, Thread
    <2> QED BY <2>1, QuietBacked DEF At
  <1>5. ASSUME NEW w \in Worker, Settle(w) PROVE BackedInv'
    <2>1. UNCHANGED <<deadRecords, deadLetters, operations>>
      BY <1>5 DEF Settle, redisVars
    <2>2. PICK s \in {"ackSet", "nackSet", "deadSet"} :
            Call(w, "main", Plan(held[w].item, held[w].token)[s])
      BY <1>5 DEF Settle, Plan, Ack, Nack, DeadLetter
    <2>3. /\ \A r \in Stage : \A j, u : At(w, r, j, u)' => r = s
          /\ \A v \in Worker \ {w} : Main(v)' = Main(v)
      BY <2>2, LogPlaces, Called
    <2> QED BY <2>1, <2>3, DeadStages, StartBacked
  <1>6. ASSUME NEW w \in Worker, SettleRejected(w) PROVE BackedInv'
    <2>1. UNCHANGED <<deadRecords, deadLetters, operations, todo>>
      BY <1>6 DEF SettleRejected, redisVars
    <2> QED BY <2>1, QuietBacked DEF At, Main
  <1>7. ASSUME NEW w \in Worker, Crash(w) PROVE BackedInv'
    <2>1. /\ UNCHANGED <<deadRecords, deadLetters, operations>>
          /\ todo' = [th \in Thread |-> IF th[1] = w THEN <<>> ELSE todo[th]]
      BY <1>7 DEF Crash, redisVars
    <2>2. /\ Main(w)' = <<>>
          /\ \A v \in Worker \ {w} : Main(v)' = Main(v)
      BY <2>1 DEF Main, Thread
    <2>3. \A s \in DeadStage : \A i, t : ~At(w, s, i, t)'
      BY <2>2, PlanTail, DeadStages DEF At
    <2> QED BY <2>1, <2>2, <2>3, StartBacked
  <1>8. ASSUME NEW th \in Thread, Execute(th) PROVE BackedInv'
    <2>1. PICK w \in Worker : th = <<w, "main">> \/ th = <<w, "heartbeat">>
      BY ThreadOf
    <2>2. CASE th = <<w, "main">>
      BY <1>8, <2>2, ExecuteMain, ExecuteMainBacked
    <2>3. CASE th = <<w, "heartbeat">>
      <3>1. /\ UNCHANGED <<deadRecords, deadLetters>>
            /\ \A v \in Worker : Main(v)' = Main(v)
            /\ \/ operations' = operations
               \/ \E h \in Handle :
                    operations' = LogWith(RecordOperation(h.item, h.token, "heartbeat"))
        BY <1>8, <2>3, ExecuteBeatQueue
      <3>2. \A o \in operations' \ operations : o.operation # "dead_letter"
        BY <3>1, Fields DEF LogWith, RecordOperation
      <3> QED BY <3>1, <3>2, QuietBacked DEF At
    <2> QED BY <2>1, <2>2, <2>3
  <1>9. ASSUME NEW th \in Thread, CallRaises(th) PROVE BackedInv'
    BY <1>9, RaisesBacked
  <1>10. ASSUME NEW t \in Token, Expire(t) PROVE BackedInv'
    <2>1. UNCHANGED <<deadRecords, deadLetters, operations, todo>>
      BY <1>10 DEF Expire
    <2> QED BY <2>1, QuietBacked DEF At, Main
  <1>11. CASE UNCHANGED vars
    <2>1. UNCHANGED <<deadRecords, deadLetters, operations, todo>>
      BY <1>11 DEF vars, redisVars
    <2> QED BY <2>1, QuietBacked DEF At, Main
  <1> QED BY <1>1, <1>2, <1>3, <1>4, <1>5, <1>6, <1>7, <1>8, <1>9, <1>10, <1>11 DEF Next

(* DeadLettersBacked for every instance, with any number of faults: the    *)
(* order "item, record, lease, rpush, log" of dead_letter.                 *)
THEOREM DeadLettersBackedCorrect == Spec => []DeadLettersBacked
  <1>1. Init => BackedInv
    <2> SUFFICES ASSUME Init PROVE BackedInv
      OBVIOUS
    <2>1. \A w \in Worker : Main(w) = <<>>
      BY DEF Init, Main, Thread
    <2>2. \A w \in Worker, s \in DeadStage : \A i, t : ~At(w, s, i, t)
      BY <2>1, PlanTail, DeadStages DEF At
    <2>3. DeadLettersBacked
      BY DEF Init, DeadLettersBacked
    <2> QED BY <2>2, <2>3 DEF BackedInv
  <1>2. BackedInv => DeadLettersBacked
    BY DEF BackedInv
  <1> QED BY <1>1, <1>2, NextBacked, QueueInvCorrect, PTL DEF Spec
===============================================================================
