-------------------------- MODULE RobotsCache_proofs --------------------------
(***************************************************************************)
(* The robots cache for any threads in any number of processes that share  *)
(* a cache directory, any TTLs, redirects and crashes: a process asks the  *)
(* host again only when all it heard is too old, what it advises rests on  *)
(* a status in date, and no thread keeps the lock of the host.             *)
(***************************************************************************)
EXTENDS RobotsCache, TLAPS

Status == {"200", "404", "other", "failure", "none"}
Entry == Result \cup {None}
(* What _read_disk_cache has before it reads the body.                     *)
Unread == [status |-> "200", body |-> "none"]
Pcs == {"idle", "wait", "body", "fetch", "save"}

(* The types that matter to what a process does with its own answers.      *)
TypeOK ==
    /\ pc \in [Thread -> Pcs]
    /\ mem \in [Proc -> Entry] /\ memAge \in [Proc -> Age]
    /\ got \in [Thread -> Entry \cup {Unread}] /\ gotAge \in [Thread -> Age]
    /\ meta \in Status /\ metaAge \in Age
    /\ todo \in [Thread -> {<<>>, <<"meta">>, <<"body", "meta">>}]
    /\ DOMAIN basis = Thread
    /\ hop \in [Thread -> 0 .. MaxRedirects] /\ DOMAIN url = Thread
    /\ heard \subseteq Proc \X Status \X Nat

-----------------------------------------------------------------------------
(* Facts about results and ages.                                           *)
LEMMA ResultFacts ==
    /\ Failure \in Result
    /\ \A r \in Served : r \in Result
    /\ [status |-> "other", body |-> "none"] \in Result
    /\ [status |-> "200", body |-> "allow"] \in Result
    /\ [status |-> "200", body |-> "deny"] \in Result
  BY RobotsAssumption DEF Result, Answer, Failure

(* An entry is a result with a status, and has a body only for a 200.      *)
LEMMA StatusFacts ==
    ASSUME NEW r \in Entry
    PROVE  /\ r.status \in Status
           /\ r /= None <=> r \in Result
           /\ r \in Result <=> r.status /= "none"
           /\ r.status = "200" => r.body \in {"allow", "deny"}
           /\ r.status /= "200" => r = [status |-> r.status, body |-> "none"]
  BY DEF Entry, Result, Answer, Failure, None, Status

(* What the meta file alone says is an entry without a body.               *)
LEMMA MetaFacts ==
    ASSUME NEW s \in Status
    PROVE  /\ [status |-> s, body |-> "none"] \in Entry \cup {Unread}
           /\ s /= "none" => [status |-> s, body |-> "none"] /= None
  BY DEF Entry, Result, Answer, Failure, None, Status, Unread

(* An entry that is fresh was so a tick ago, and a new one is fresh.       *)
LEMMA AgeFacts ==
    ASSUME NEW s, NEW a \in Age
    PROVE  /\ 0 \in Age /\ a \in Nat /\ Older(a) \in Age
           /\ Fresh(s, Older(a)) => Fresh(s, a)
           /\ Fresh(s, a) => Older(a) = a + 1
           /\ s /= "none" => Fresh(s, 0)
  <1>1. TtlOf(s) \in 1 .. MaxTtl /\ MaxTtl \in Nat
    BY RobotsAssumption DEF TtlOf, MaxTtl
  <1> QED
    BY <1>1, RobotsAssumption DEF Age, Older, Fresh

-----------------------------------------------------------------------------
(* Types.                                                                  *)
LEMMA TypeInit == Init => TypeOK
  <1> SUFFICES ASSUME Init
               PROVE  TypeOK
    OBVIOUS
  <1>1. None \in Entry /\ 0 \in Age
    BY RobotsAssumption DEF Entry, Age, MaxTtl
  <1>2. 0 \in 0 .. MaxRedirects
    BY RobotsAssumption
  <1> QED
    BY <1>1, <1>2 DEF Init, TypeOK, Pcs, Status

(* Returning from evaluate keeps the types.                                *)
LEMMA ReturnType ==
    ASSUME TypeOK, NEW t \in Thread, NEW r \in Entry, NEW a \in Age, NEW bs, Return(t, r, a, bs)
    PROVE  /\ pc' \in [Thread -> Pcs]
           /\ mem' \in [Proc -> Entry] /\ memAge' \in [Proc -> Age]
           /\ got' \in [Thread -> Entry \cup {Unread}] /\ gotAge' \in [Thread -> Age]
           /\ DOMAIN basis' = Thread
  <1>1. None \in Entry /\ 0 \in Age
    BY RobotsAssumption DEF Entry, Age, MaxTtl
  <1>2. ProcOf[t] \in Proc
    BY RobotsAssumption
  <1>3. mem' \in [Proc -> Entry] /\ memAge' \in [Proc -> Age]
    BY <1>2 DEF Return, TypeOK
  <1>4. got' \in [Thread -> Entry \cup {Unread}] /\ gotAge' \in [Thread -> Age]
    BY <1>1 DEF Return, TypeOK
  <1> QED
    BY <1>3, <1>4 DEF Return, TypeOK, Pcs

(* The end of a fetch keeps the types.                                     *)
LEMMA FetchedType ==
    ASSUME TypeOK, NEW t \in Thread, NEW r \in Result, Fetched(t, r),
           UNCHANGED disk
    PROVE  TypeOK'
  <1>1. r \in Entry /\ 0 \in Age /\ 0 \in Nat /\ 0 \in 0 .. MaxRedirects
    BY RobotsAssumption DEF Entry, Age, MaxTtl
  <1>2. ProcOf[t] \in Proc
    BY RobotsAssumption
  <1>3. mem' \in [Proc -> Entry] /\ memAge' \in [Proc -> Age]
    BY <1>1, <1>2 DEF Fetched, TypeOK
  <1>4. got' \in [Thread -> Entry \cup {Unread}] /\ gotAge' \in [Thread -> Age]
    BY <1>1 DEF Fetched, TypeOK
  <1>5. heard' \subseteq Proc \X Status \X Nat
    <2>1. r.status \in Status
      BY <1>1, StatusFacts
    <2> QED
      BY <1>1, <1>2, <2>1 DEF Fetched, TypeOK
  <1>8. hop' \in [Thread -> 0 .. MaxRedirects] /\ DOMAIN url' = Thread
    BY <1>1 DEF Fetched, TypeOK
  <1>6. todo' \in [Thread -> {<<>>, <<"meta">>, <<"body", "meta">>}]
    BY DEF Fetched, TypeOK, SaveOrder
  <1>7. pc' \in [Thread -> Pcs] /\ DOMAIN basis' = Thread
    BY DEF Fetched, TypeOK, Pcs
  <1> QED
    BY <1>3, <1>4, <1>5, <1>6, <1>7, <1>8 DEF TypeOK, disk

(* A fetch goes on to another hop, or it has a result.                     *)
LEMMA FetchHopCases ==
    ASSUME NEW t \in Thread, FetchHop(t)
    PROVE  /\ pc[t] = "fetch" /\ advice' = NoAdvice /\ UNCHANGED disk
           /\ \/ \E r \in Result : Fetched(t, r)
              \/ /\ hop[t] /= MaxRedirects /\ hop' = [hop EXCEPT ![t] = @ + 1]
                 /\ DOMAIN url' = DOMAIN url
                 /\ UNCHANGED <<mem, memAge, got, gotAge, todo, fetched, heard, basis, pc>>
  BY ResultFacts DEF FetchHop

(* A hop of one thread leaves the others where they are.                   *)
LEMMA FetchHopElsewhere ==
    ASSUME TypeOK, NEW v \in Thread, FetchHop(v), NEW t \in Thread, v /= t
    PROVE  UNCHANGED <<pc[t], url[t], hop[t], todo[t]>>
  BY DEF FetchHop, Fetched, TypeOK

(* What reading the body makes of a meta file.                             *)
Parsed(t) ==
    IF got[t].status = "200"
    THEN [status |-> "200", body |-> IF body = "deny" THEN "deny" ELSE "allow"]
    ELSE got[t]

(* What is read from the two files is an entry.                            *)
LEMMA ParsedType ==
    ASSUME TypeOK, NEW t \in Thread
    PROVE  Parsed(t) \in Entry
  <1>1. CASE got[t].status = "200"
    BY <1>1, ResultFacts DEF Parsed, Entry
  <1>2. CASE got[t].status /= "200"
    BY <1>2 DEF TypeOK, Parsed, Unread
  <1> QED
    BY <1>1, <1>2

(* The two files are written body first.                                   *)
LEMMA TailFacts ==
    /\ Tail(<<"meta">>) = <<>> /\ Tail(<<"body", "meta">>) = <<"meta">>
    /\ Head(<<"meta">>) = "meta" /\ Head(<<"body", "meta">>) = "body"
    /\ <<"meta">> /= <<>> /\ <<"body", "meta">> /= <<>> /\ <<"meta">> /= <<"body", "meta">>
  OBVIOUS

(* A thread that saves has a result to save.                               *)
Saving == \A t \in Thread : pc[t] = "save" => got[t] \in Result

(* Every step keeps the types.                                             *)
LEMMA TypeNext == TypeOK /\ Saving /\ [Next]_vars => TypeOK'
  <1> SUFFICES ASSUME TypeOK, Saving, [Next]_vars
               PROVE  TypeOK'
    OBVIOUS
  <1>1. CASE UNCHANGED vars
    BY <1>1 DEF TypeOK, vars, local, disk
  <1>2. ASSUME NEW t \in Thread, Evaluate(t)
        PROVE  TypeOK'
    BY <1>2 DEF Evaluate, TypeOK, Pcs, disk
  <1>10. ASSUME NEW t \in Thread, GetOrFetch(t)
        PROVE  TypeOK'
    <2>1. mem[ProcOf[t]] \in Entry /\ memAge[ProcOf[t]] \in Age
      BY RobotsAssumption DEF TypeOK
    <2>2. ASSUME NEW bs, Return(t, mem[ProcOf[t]], memAge[ProcOf[t]], bs)
          PROVE  TypeOK'
      BY <1>10, <2>1, <2>2, ReturnType DEF GetOrFetch, TypeOK, disk
    <2>3. CASE /\ got' = [got EXCEPT ![t] = [status |-> meta, body |-> "none"]]
               /\ gotAge' = [gotAge EXCEPT ![t] = metaAge]
               /\ pc' = [pc EXCEPT ![t] = "body"]
               /\ \E bs : basis' = [basis EXCEPT ![t] = bs]
               /\ UNCHANGED <<mem, memAge>>
      <3>1. got' \in [Thread -> Entry \cup {Unread}] /\ gotAge' \in [Thread -> Age]
        BY <2>3, MetaFacts DEF TypeOK
      <3>2. pc' \in [Thread -> Pcs] /\ DOMAIN basis' = Thread
        BY <2>3 DEF TypeOK, Pcs
      <3> QED
        BY <1>10, <2>3, <3>1, <3>2 DEF GetOrFetch, TypeOK, disk
    <2>4. CASE /\ pc' = [pc EXCEPT ![t] = "fetch"]
               /\ UNCHANGED <<mem, memAge, got, gotAge, basis>>
      BY <1>10, <2>4 DEF GetOrFetch, TypeOK, Pcs, disk
    <2> QED
      BY <1>10, <2>2, <2>3, <2>4 DEF GetOrFetch
  <1>3. ASSUME NEW t \in Thread, ReadBody(t)
        PROVE  TypeOK'
    <2>1. Return(t, Parsed(t), gotAge[t], basis[t])
      BY <1>3 DEF ReadBody, Parsed
    <2>2. Parsed(t) \in Entry /\ gotAge[t] \in Age
      BY ParsedType DEF TypeOK
    <2> QED
      BY <1>3, <2>1, <2>2, ReturnType DEF ReadBody, TypeOK, disk
  <1>11. ASSUME NEW t \in Thread, ReadBodyFails(t)
         PROVE  TypeOK'
    <2>1. None \in Entry /\ 0 \in Age
      BY RobotsAssumption DEF Entry, Age, MaxTtl
    <2>2. got' \in [Thread -> Entry \cup {Unread}] /\ gotAge' \in [Thread -> Age]
      BY <1>11, <2>1 DEF ReadBodyFails, TypeOK
    <2> QED
      BY <1>11, <2>2 DEF ReadBodyFails, TypeOK, Pcs, disk
  <1>4. ASSUME NEW t \in Thread, FetchHop(t)
        PROVE  TypeOK'
    <2>1. CASE /\ hop[t] /= MaxRedirects /\ hop' = [hop EXCEPT ![t] = @ + 1]
               /\ DOMAIN url' = DOMAIN url
               /\ UNCHANGED <<mem, memAge, got, gotAge, todo, heard, basis, pc>>
      <3>1. hop' \in [Thread -> 0 .. MaxRedirects]
        <4>1. hop[t] + 1 \in 0 .. MaxRedirects
          BY <2>1, RobotsAssumption DEF TypeOK
        <4> QED
          BY <2>1, <4>1 DEF TypeOK
      <3> QED
        BY <1>4, <2>1, <3>1, FetchHopCases DEF TypeOK, disk
    <2> QED
      BY <1>4, <2>1, FetchHopCases, FetchedType
  <1>5. ASSUME NEW t \in Thread, SaveFile(t)
        PROVE  TypeOK'
    <2>1. todo' \in [Thread -> {<<>>, <<"meta">>, <<"body", "meta">>}]
      <3>1. Tail(todo[t]) \in {<<>>, <<"meta">>}
        BY <1>5, TailFacts DEF SaveFile, TypeOK
      <3> QED
        BY <1>5, <3>1 DEF SaveFile, TypeOK
    <2>2. got[t].status \in Status /\ gotAge[t] \in Age
      BY StatusFacts DEF TypeOK, Unread, Status
    <2>3. meta' \in Status /\ metaAge' \in Age
      BY <1>5, <2>2 DEF SaveFile, TypeOK
    <2> QED
      BY <1>5, <2>1, <2>3 DEF SaveFile, TypeOK
  <1>6. ASSUME NEW t \in Thread, SaveFails(t)
        PROVE  TypeOK'
    BY <1>6 DEF SaveFails, TypeOK, disk
  <1>7. ASSUME NEW t \in Thread, Finish(t)
        PROVE  TypeOK'
    <2>1. got[t] \in Entry /\ gotAge[t] \in Age
      BY <1>7 DEF Finish, Saving, TypeOK, Entry
    <2> QED
      BY <1>7, <2>1, ReturnType DEF Finish, TypeOK, disk
  <1>8. ASSUME NEW p \in Proc, Crash(p)
        PROVE  TypeOK'
    <2>1. None \in Entry /\ 0 \in Age
      BY RobotsAssumption DEF Entry, Age, MaxTtl
    <2>2. mem' \in [Proc -> Entry] /\ memAge' \in [Proc -> Age]
      BY <1>8, <2>1 DEF Crash, TypeOK
    <2>3. got' \in [Thread -> Entry \cup {Unread}] /\ gotAge' \in [Thread -> Age]
      BY <1>8, <2>1 DEF Crash, TypeOK
    <2>4. pc' \in [Thread -> Pcs] /\ DOMAIN basis' = Thread
      BY <1>8 DEF Crash, TypeOK, Pcs
    <2>5. todo' \in [Thread -> {<<>>, <<"meta">>, <<"body", "meta">>}]
      BY <1>8 DEF Crash, TypeOK
    <2>6. heard' \subseteq Proc \X Status \X Nat
      BY <1>8 DEF Crash, TypeOK
    <2>7. hop' \in [Thread -> 0 .. MaxRedirects]
      BY <1>8, RobotsAssumption DEF Crash, TypeOK
    <2> QED
      BY <1>8, <2>2, <2>3, <2>4, <2>5, <2>6, <2>7 DEF Crash, TypeOK, disk
  <1>9. CASE Tick
    <2>1. \A a \in Age : 0 \in Age /\ Older(a) \in Age
      BY AgeFacts
    <2>2. memAge' \in [Proc -> Age] /\ gotAge' \in [Thread -> Age] /\ metaAge' \in Age
      BY <1>9, <2>1 DEF Tick, TypeOK
    <2>3. heard' \subseteq Proc \X Status \X Nat
      BY <1>9 DEF Tick, TypeOK
    <2> QED
      BY <1>9, <2>2, <2>3 DEF Tick, TypeOK
  <1> QED
    BY <1>1, <1>2, <1>3, <1>4, <1>5, <1>6, <1>7, <1>8, <1>9, <1>10, <1>11 DEF Next, Step

(* A thread that saves has a result to save.                               *)
LEMMA SavingNext == TypeOK /\ Saving /\ [Next]_vars => Saving'
  <1> SUFFICES ASSUME TypeOK, Saving, [Next]_vars, NEW u \in Thread, pc'[u] = "save"
               PROVE  got'[u] \in Result
    BY DEF Saving
  <1>1. CASE pc[u] = "save" /\ got'[u] = got[u]
    BY <1>1 DEF Saving
  <1>2. CASE UNCHANGED vars
    BY <1>1, <1>2 DEF vars, local
  <1>3. ASSUME NEW t \in Thread, Evaluate(t) \/ GetOrFetch(t)
        PROVE  got'[u] \in Result
    BY <1>1, <1>3 DEF Evaluate, GetOrFetch, Return, TypeOK
  <1>4. ASSUME NEW t \in Thread, ReadBody(t) \/ ReadBodyFails(t) \/ Finish(t)
        PROVE  got'[u] \in Result
    BY <1>1, <1>4 DEF ReadBody, ReadBodyFails, Finish, Return, TypeOK
  <1>5. ASSUME NEW t \in Thread, FetchHop(t)
        PROVE  got'[u] \in Result
    <2>1. CASE UNCHANGED <<got, pc>>
      BY <1>1, <2>1
    <2>2. ASSUME NEW r \in Result, Fetched(t, r)
          PROVE  got'[u] \in Result
      BY <1>1, <2>2 DEF Fetched, TypeOK
    <2> QED
      BY <1>5, <2>1, <2>2, FetchHopCases
  <1>6. ASSUME NEW t \in Thread, SaveFile(t) \/ SaveFails(t)
        PROVE  got'[u] \in Result
    BY <1>1, <1>6 DEF SaveFile, SaveFails
  <1>7. ASSUME NEW p \in Proc, Crash(p)
        PROVE  got'[u] \in Result
    BY <1>1, <1>7 DEF Crash
  <1>8. CASE Tick
    BY <1>1, <1>8 DEF Tick
  <1> QED
    BY <1>2, <1>3, <1>4, <1>5, <1>6, <1>7, <1>8 DEF Next, Step

-----------------------------------------------------------------------------
(* The lock of the key.                                                    *)
OneInside ==
    \A t, u \in Thread :
        t /= u /\ ProcOf[t] = ProcOf[u] => pc[t] \notin Inside \/ pc[u] \notin Inside

(* A thread gets inside only by GetOrFetch, past the lock.                 *)
LEMMA Entering ==
    ASSUME TypeOK, [Next]_vars, NEW t \in Thread, pc[t] \notin Inside, pc'[t] \in Inside
    PROVE  GetOrFetch(t) /\ \A u \in Thread \ {t} : pc'[u] = pc[u]
  <1>1. CASE UNCHANGED vars
    BY <1>1 DEF vars, local
  <1>2. ASSUME NEW v \in Thread, GetOrFetch(v)
        PROVE  GetOrFetch(t) /\ \A u \in Thread \ {t} : pc'[u] = pc[u]
    BY <1>2 DEF GetOrFetch, Return, TypeOK
  <1>3. ASSUME NEW v \in Thread, ReadBody(v) \/ Finish(v) \/ Evaluate(v)
        PROVE  FALSE
    BY <1>3 DEF ReadBody, Finish, Evaluate, Return, TypeOK, Inside
  <1>4. ASSUME NEW v \in Thread, FetchHop(v)
        PROVE  FALSE
    BY <1>4, FetchHopCases DEF Fetched, TypeOK, Inside
  <1>5. ASSUME NEW v \in Thread, SaveFile(v) \/ SaveFails(v) \/ ReadBodyFails(v)
        PROVE  FALSE
    BY <1>5 DEF SaveFile, SaveFails, ReadBodyFails, TypeOK, Inside
  <1>6. ASSUME NEW p \in Proc, Crash(p)
        PROVE  FALSE
    BY <1>6 DEF Crash, Inside
  <1>7. CASE Tick
    BY <1>7 DEF Tick
  <1> QED
    BY <1>1, <1>2, <1>3, <1>4, <1>5, <1>6, <1>7 DEF Next, Step

(* The lock of the host lets one thread of a process in.                   *)
LEMMA OneInsideNext == TypeOK /\ OneInside /\ [Next]_vars => OneInside'
  <1> SUFFICES ASSUME TypeOK, OneInside, [Next]_vars,
                      NEW t \in Thread, NEW u \in Thread, t /= u, ProcOf[t] = ProcOf[u],
                      pc'[t] \in Inside, pc'[u] \in Inside
               PROVE  FALSE
    BY DEF OneInside
  <1>1. CASE pc[t] \notin Inside
    <2>1. GetOrFetch(t) /\ pc'[u] = pc[u]
      BY <1>1, Entering
    <2> QED
      BY <2>1 DEF GetOrFetch, HostLockFree
  <1>2. CASE pc[u] \notin Inside
    <2>1. GetOrFetch(u) /\ pc'[t] = pc[t]
      BY <1>2, Entering
    <2> QED
      BY <2>1 DEF GetOrFetch, HostLockFree
  <1> QED
    BY <1>1, <1>2 DEF OneInside

-----------------------------------------------------------------------------
(* What a process heard and may still use is what it holds in memory; a    *)
(* thread that looks elsewhere knows that there is nothing; one that saves *)
(* saves what is in memory.                                                *)
Ledger ==
    /\ \A h \in heard :
         Fresh(h[2], h[3]) /\ h[2] = mem[h[1]].status /\ h[3] = memAge[h[1]]
    /\ \A t \in Thread :
         /\ pc[t] \in {"body", "fetch"} => \A h \in heard : h[1] /= ProcOf[t]
         /\ pc[t] = "save" => got[t] = mem[ProcOf[t]] /\ gotAge[t] = memAge[ProcOf[t]]

(* An answer is too old before its process stops to use it.                *)
LEMMA NothingHeard ==
    ASSUME Ledger, NEW p \in Proc, ~Fresh(mem[p].status, memAge[p])
    PROVE  \A h \in heard : h[1] /= p
  BY DEF Ledger

(* A hit and the returns: what was heard stays, and the memory of the process  *)
(* changes only when nothing it heard is fresh.                            *)
LEMMA LedgerReturn ==
    ASSUME TypeOK, OneInside, Ledger, NEW t \in Thread, NEW r, NEW a, NEW bs, Return(t, r, a, bs),
           UNCHANGED heard,
           pc[t] \in Inside \/ HostLockFree(ProcOf[t]),
           \/ \A h \in heard : h[1] /= ProcOf[t]
           \/ r = mem[ProcOf[t]] /\ a = memAge[ProcOf[t]]
    PROVE  Ledger'
  <1>1. ProcOf[t] \in Proc
    BY RobotsAssumption
  <1>2. /\ mem'[ProcOf[t]] = r /\ memAge'[ProcOf[t]] = a
        /\ \A p \in Proc : p /= ProcOf[t] => mem'[p] = mem[p] /\ memAge'[p] = memAge[p]
    BY <1>1 DEF Return, TypeOK
  <1>3. \A h \in heard : h[2] = mem'[h[1]].status /\ h[3] = memAge'[h[1]]
    BY <1>2 DEF Ledger, TypeOK
  <1>4. ASSUME NEW u \in Thread, pc'[u] \in Inside
        PROVE  /\ pc[u] = pc'[u] /\ got'[u] = got[u] /\ gotAge'[u] = gotAge[u]
               /\ ProcOf[u] \in Proc /\ ProcOf[u] /= ProcOf[t]
    <2>1. u /= t /\ pc[u] = pc'[u] /\ got'[u] = got[u] /\ gotAge'[u] = gotAge[u]
      BY <1>4 DEF Return, TypeOK, Inside
    <2> QED
      BY <1>4, <2>1, RobotsAssumption DEF OneInside, HostLockFree
  <1> QED
    BY <1>2, <1>3, <1>4 DEF Ledger, Inside

(* The only thread inside finds nothing in date, so its fetch is the only  *)
(* one in date.                                                            *)
LEMMA LedgerFetched ==
    ASSUME TypeOK, OneInside, Ledger, NEW t \in Thread, pc[t] = "fetch",
           NEW r \in Result, Fetched(t, r)
    PROVE  Ledger'
  <1> DEFINE p == ProcOf[t]
  <1>1. p \in Proc /\ \A h \in heard : h[1] /= p
    BY RobotsAssumption DEF Ledger
  <1>2. /\ mem'[p] = r /\ memAge'[p] = 0
        /\ \A q \in Proc : q /= p => mem'[q] = mem[q] /\ memAge'[q] = memAge[q]
    BY <1>1 DEF Fetched, TypeOK
  <1>3. Fresh(r.status, 0)
    <2>1. r \in Entry /\ 0 \in Age
      BY RobotsAssumption DEF Entry, Age, MaxTtl
    <2> QED
      BY <2>1, StatusFacts, AgeFacts
  <1>4. \A h \in heard' : h \in heard \/ h = <<p, r.status, 0>>
    BY DEF Fetched
  <1>5. ASSUME NEW h \in heard'
        PROVE  Fresh(h[2], h[3]) /\ h[2] = mem'[h[1]].status /\ h[3] = memAge'[h[1]]
    <2>1. CASE h \in heard
      BY <1>1, <1>2, <2>1 DEF Ledger, TypeOK
    <2>2. CASE h = <<p, r.status, 0>>
      BY <1>2, <1>3, <2>2
    <2> QED
      BY <1>4, <2>1, <2>2
  <1>6. /\ pc'[t] = "save" /\ got'[t] = r /\ gotAge'[t] = 0
        /\ \A u \in Thread : u /= t =>
             pc'[u] = pc[u] /\ got'[u] = got[u] /\ gotAge'[u] = gotAge[u]
    BY DEF Fetched, TypeOK
  <1>7. ASSUME NEW u \in Thread
        PROVE  /\ pc'[u] \in {"body", "fetch"} => \A h \in heard' : h[1] /= ProcOf[u]
               /\ pc'[u] = "save" => got'[u] = mem'[ProcOf[u]] /\ gotAge'[u] = memAge'[ProcOf[u]]
    <2>1. CASE u = t
      BY <1>2, <1>6, <2>1
    <2>2. CASE u /= t /\ ProcOf[u] = p
      BY <1>6, <2>2 DEF OneInside, Inside
    <2>3. CASE u /= t /\ ProcOf[u] /= p
      <3>1. ProcOf[u] \in Proc
        BY RobotsAssumption
      <3>2. \A h \in heard' : h \in heard \/ h[1] = p
        BY <1>4
      <3> QED
        BY <1>2, <1>6, <2>3, <3>1, <3>2 DEF Ledger
    <2> QED
      BY <2>1, <2>2, <2>3
  <1> QED
    BY <1>5, <1>7 DEF Ledger

(* A crash takes the memory of its process, and with it the reason to      *)
(* count its fetches.                                                      *)
LEMMA LedgerCrash ==
    ASSUME TypeOK, Ledger, NEW p \in Proc, Crash(p)
    PROVE  Ledger'
  <1>1. \A q \in Proc : q /= p => mem'[q] = mem[q] /\ memAge'[q] = memAge[q]
    BY DEF Crash, TypeOK
  <1>2. \A h \in heard' : h \in heard /\ h[1] /= p
    BY DEF Crash
  <1>3. ASSUME NEW h \in heard'
        PROVE  Fresh(h[2], h[3]) /\ h[2] = mem'[h[1]].status /\ h[3] = memAge'[h[1]]
    BY <1>1, <1>2 DEF Ledger, TypeOK
  <1>4. ASSUME NEW u \in Thread, pc'[u] \in Inside
        PROVE  /\ pc'[u] = pc[u] /\ got'[u] = got[u] /\ gotAge'[u] = gotAge[u]
               /\ ProcOf[u] \in Proc /\ ProcOf[u] /= p
    BY <1>4, RobotsAssumption DEF Crash, Inside
  <1>5. ASSUME NEW u \in Thread, pc'[u] \in {"body", "fetch"}, NEW h \in heard'
        PROVE  h[1] /= ProcOf[u]
    BY <1>2, <1>4, <1>5 DEF Ledger, Inside
  <1>6. ASSUME NEW u \in Thread, pc'[u] = "save"
        PROVE  got'[u] = mem'[ProcOf[u]] /\ gotAge'[u] = memAge'[ProcOf[u]]
    BY <1>1, <1>4, <1>6 DEF Ledger, Inside
  <1> QED
    BY <1>3, <1>5, <1>6 DEF Ledger

(* Time ages the memory of a process and its fetches alike.                *)
LEMMA LedgerTick ==
    ASSUME TypeOK, Saving, Ledger, Tick
    PROVE  Ledger'
  <1>1. mem' = mem /\ pc' = pc /\ got' = got
    BY DEF Tick
  <1>2. ASSUME NEW g \in heard'
        PROVE  \E h \in heard : g = <<h[1], h[2], h[3] + 1>> /\ Fresh(h[2], h[3] + 1)
    BY DEF Tick
  <1>3. ASSUME NEW g \in heard'
        PROVE  Fresh(g[2], g[3]) /\ g[2] = mem'[g[1]].status /\ g[3] = memAge'[g[1]]
    <2>1. PICK h \in heard : g = <<h[1], h[2], h[3] + 1>> /\ Fresh(h[2], h[3] + 1)
      BY <1>2
    <2>2. /\ h[1] \in Proc /\ h[2] = mem[h[1]].status /\ h[3] = memAge[h[1]]
          /\ Fresh(h[2], h[3]) /\ h[3] \in Age
      BY DEF Ledger, TypeOK
    <2>3. mem[h[1]] /= None
      BY <2>2 DEF Fresh, None
    <2>4. memAge'[h[1]] = Older(h[3])
      BY <2>2, <2>3 DEF Tick
    <2>5. memAge'[h[1]] = h[3] + 1
      BY <2>2, <2>4, AgeFacts
    <2> QED
      BY <1>1, <2>1, <2>2, <2>5
  <1>4. ASSUME NEW u \in Thread, pc'[u] \in {"body", "fetch"}, NEW g \in heard'
        PROVE  g[1] /= ProcOf[u]
    BY <1>1, <1>2, <1>4 DEF Ledger
  <1>5. ASSUME NEW u \in Thread, pc'[u] = "save"
        PROVE  got'[u] = mem'[ProcOf[u]] /\ gotAge'[u] = memAge'[ProcOf[u]]
    BY <1>1, <1>5, RobotsAssumption DEF Ledger, Tick
  <1> QED
    BY <1>3, <1>4, <1>5 DEF Ledger

FetchInv == TypeOK /\ Saving /\ OneInside /\ Ledger

(* Every step keeps the ledger of fetches.                                 *)
LEMMA LedgerNext == FetchInv /\ [Next]_vars => Ledger'
  <1> SUFFICES ASSUME TypeOK, Saving, OneInside, Ledger, [Next]_vars
               PROVE  Ledger'
    BY DEF FetchInv
  <1>1. CASE UNCHANGED <<mem, memAge, heard, pc, got, gotAge>>
    BY <1>1 DEF Ledger
  <1>2. ASSUME NEW t \in Thread, Evaluate(t)
        PROVE  Ledger'
    <2>1. /\ UNCHANGED <<mem, memAge, heard, got, gotAge>> /\ pc'[t] = "wait"
          /\ \A u \in Thread : u /= t => pc'[u] = pc[u]
      BY <1>2 DEF Evaluate, TypeOK
    <2> QED
      BY <2>1 DEF Ledger
  <1>8. ASSUME NEW t \in Thread, GetOrFetch(t)
        PROVE  Ledger'
    <2>1. HostLockFree(ProcOf[t]) /\ ProcOf[t] \in Proc /\ UNCHANGED heard
      BY <1>8, RobotsAssumption DEF GetOrFetch
    <2>2. ASSUME NEW bs, Return(t, mem[ProcOf[t]], memAge[ProcOf[t]], bs)
          PROVE  Ledger'
      BY <2>1, <2>2, LedgerReturn
    <2>3. CASE ~Fresh(mem[ProcOf[t]].status, memAge[ProcOf[t]])
      <3>1. \A h \in heard : h[1] /= ProcOf[t]
        BY <2>1, <2>3, NothingHeard
      <3>2. /\ UNCHANGED <<mem, memAge, heard>> /\ pc'[t] \in {"body", "fetch"}
            /\ \A u \in Thread : u /= t => pc'[u] = pc[u] /\ got'[u] = got[u] /\ gotAge'[u] = gotAge[u]
        BY <1>8, <2>3 DEF GetOrFetch, TypeOK
      <3> QED
        BY <3>1, <3>2 DEF Ledger
    <2> QED
      BY <1>8, <2>2, <2>3 DEF GetOrFetch
  <1>3. ASSUME NEW t \in Thread, ReadBody(t)
        PROVE  Ledger'
    <2>1. /\ Return(t, Parsed(t), gotAge[t], basis[t])
          /\ pc[t] = "body" /\ UNCHANGED heard
      BY <1>3 DEF ReadBody, Parsed
    <2>2. \A h \in heard : h[1] /= ProcOf[t]
      BY <2>1 DEF Ledger
    <2> QED
      BY <2>1, <2>2, LedgerReturn DEF Inside
  <1>9. ASSUME NEW t \in Thread, ReadBodyFails(t)
        PROVE  Ledger'
    <2>1. /\ UNCHANGED <<mem, memAge, heard>> /\ pc[t] = "body" /\ pc'[t] = "fetch"
          /\ \A u \in Thread : u /= t => pc'[u] = pc[u] /\ got'[u] = got[u] /\ gotAge'[u] = gotAge[u]
      BY <1>9 DEF ReadBodyFails, TypeOK
    <2> QED
      BY <2>1 DEF Ledger
  <1>4. ASSUME NEW t \in Thread, FetchHop(t)
        PROVE  Ledger'
    BY <1>1, <1>4, FetchHopCases, LedgerFetched
  <1>5. ASSUME NEW t \in Thread, SaveFile(t) \/ SaveFails(t)
        PROVE  Ledger'
    BY <1>1, <1>5 DEF SaveFile, SaveFails
  <1>6. ASSUME NEW t \in Thread, Finish(t)
        PROVE  Ledger'
    <2>1. /\ Return(t, got[t], gotAge[t], basis[t]) /\ pc[t] = "save" /\ UNCHANGED heard
          /\ got[t] = mem[ProcOf[t]] /\ gotAge[t] = memAge[ProcOf[t]]
      BY <1>6 DEF Finish, Ledger
    <2> QED
      BY <2>1, LedgerReturn DEF Inside
  <1>7. CASE UNCHANGED vars
    BY <1>1, <1>7 DEF vars, local
  <1> QED
    BY <1>2, <1>3, <1>4, <1>5, <1>6, <1>7, <1>8, <1>9, LedgerCrash, LedgerTick DEF Next, Step

(* The inductive invariant behind FetchOnce.                               *)
LEMMA FetchInvCorrect == Spec => []FetchInv
  <1>1. Init => FetchInv
    BY TypeInit DEF Init, FetchInv, Saving, OneInside, Ledger, Inside
  <1>2. FetchInv /\ [Next]_vars => FetchInv'
    BY TypeNext, SavingNext, OneInsideNext, LedgerNext DEF FetchInv
  <1> QED
    BY <1>1, <1>2, PTL DEF Spec

(* A thread that saves goes on to return.                                  *)
LEMMA SavingStays ==
    ASSUME TypeOK, [Next]_vars, NEW t \in Thread, pc[t] = "save"
    PROVE  pc'[t] \in {"save", "idle"}
  <1>1. CASE UNCHANGED vars
    BY <1>1 DEF vars, local
  <1>2. ASSUME NEW v \in Thread, Evaluate(v) \/ GetOrFetch(v)
        PROVE  pc'[t] \in {"save", "idle"}
    BY <1>2 DEF Evaluate, GetOrFetch, Return, TypeOK
  <1>3. ASSUME NEW v \in Thread, ReadBody(v) \/ ReadBodyFails(v) \/ Finish(v)
        PROVE  pc'[t] \in {"save", "idle"}
    BY <1>3 DEF ReadBody, ReadBodyFails, Finish, Return, TypeOK
  <1>4. ASSUME NEW v \in Thread, FetchHop(v)
        PROVE  pc'[t] \in {"save", "idle"}
    BY <1>4, FetchHopCases DEF Fetched, TypeOK
  <1>5. ASSUME NEW v \in Thread, SaveFile(v) \/ SaveFails(v)
        PROVE  pc'[t] \in {"save", "idle"}
    BY <1>5 DEF SaveFile, SaveFails
  <1>6. ASSUME NEW p \in Proc, Crash(p)
        PROVE  pc'[t] \in {"save", "idle"}
    BY <1>6 DEF Crash
  <1>7. CASE Tick
    BY <1>7 DEF Tick
  <1> QED
    BY <1>1, <1>2, <1>3, <1>4, <1>5, <1>6, <1>7 DEF Next, Step

(* Fetch once per host, for any threads and processes, crashes included.   *)
THEOREM FetchOnceCorrect == Spec => FetchOnce
  <1>1. FetchInv /\ [Next]_vars =>
          [\A t \in Thread : pc[t] /= "fetch" /\ pc'[t] = "fetch" =>
              /\ \A u \in Thread \ {t} : ProcOf[u] = ProcOf[t] => pc[u] \notin Inside
              /\ \A h \in heard : h[1] /= ProcOf[t]]_vars
    <2> SUFFICES ASSUME FetchInv, [Next]_vars, NEW t \in Thread, pc[t] /= "fetch", pc'[t] = "fetch"
                 PROVE  /\ \A u \in Thread \ {t} : ProcOf[u] = ProcOf[t] => pc[u] \notin Inside
                        /\ \A h \in heard : h[1] /= ProcOf[t]
      OBVIOUS
    <2>1. CASE pc[t] \notin Inside
      <3>1. GetOrFetch(t)
        BY <2>1, Entering DEF FetchInv, Inside
      <3>2. \A u \in Thread \ {t} : ProcOf[u] = ProcOf[t] => pc[u] \notin Inside
        BY <3>1 DEF GetOrFetch, HostLockFree
      <3>3. ~Fresh(mem[ProcOf[t]].status, memAge[ProcOf[t]]) /\ ProcOf[t] \in Proc
        BY <3>1, RobotsAssumption DEF GetOrFetch, Return, FetchInv, TypeOK
      <3> QED
        BY <3>2, <3>3, NothingHeard DEF FetchInv
    <2>2. CASE pc[t] = "body"
      BY <2>2 DEF FetchInv, OneInside, Ledger, Inside
    <2>3. CASE pc[t] = "save"
      BY <2>3, SavingStays DEF FetchInv
    <2> QED
      BY <2>1, <2>2, <2>3 DEF Inside
  <1> QED
    BY <1>1, FetchInvCorrect, PTL DEF Spec, FetchOnce

-----------------------------------------------------------------------------
(* An entry that may still be used is one that was fetched no longer ago   *)
(* than its age says: in memory, on disk, and in the hands of a thread.    *)
InDate(status, age) == Fresh(status, age) => <<status, age>> \in fetched

DateInv ==
    /\ \A p \in Proc : InDate(mem[p].status, memAge[p])
    /\ InDate(meta, metaAge)
    /\ \A t \in Thread : pc[t] \in {"body", "save"} =>
         got[t] /= None /\ InDate(got[t].status, gotAge[t]) /\ got[t].status \in basis[t]
    /\ AdviceInDate

(* What is allowed is what the status lets the file say.                   *)
LEMMA VerdictFacts ==
    ASSUME NEW r
    PROVE  Allows(r) \in Verdicts(r.status)
  BY DEF Allows, Verdicts

(* Returning what is in date, with a basis that holds its status, keeps    *)
(* memory and advice in date.                                              *)
LEMMA DateReturn ==
    ASSUME TypeOK, DateInv, NEW t \in Thread, NEW r, NEW a, NEW bs, Return(t, r, a, bs),
           InDate(r.status, a), r.status \in bs, UNCHANGED <<disk, fetched>>
    PROVE  DateInv'
  <1>1. ProcOf[t] \in Proc
    BY RobotsAssumption
  <1>2. /\ mem'[ProcOf[t]] = r /\ memAge'[ProcOf[t]] = a
        /\ \A p \in Proc : p /= ProcOf[t] => mem'[p] = mem[p] /\ memAge'[p] = memAge[p]
    BY <1>1 DEF Return, TypeOK
  <1>3. \A p \in Proc : InDate(mem[p].status, memAge[p])'
    BY <1>2 DEF DateInv, InDate
  <1>4. InDate(meta, metaAge)'
    BY DEF DateInv, InDate, disk
  <1>5. pc'[t] = "idle" /\ \A u \in Thread : u /= t =>
          pc'[u] = pc[u] /\ got'[u] = got[u] /\ gotAge'[u] = gotAge[u] /\ basis'[u] = basis[u]
    BY DEF Return, TypeOK
  <1>6. ASSUME NEW u \in Thread, pc'[u] \in {"body", "save"}
        PROVE  (got[u] /= None /\ InDate(got[u].status, gotAge[u]) /\ got[u].status \in basis[u])'
    BY <1>5, <1>6 DEF DateInv, InDate
  <1>7. AdviceInDate'
    <2>1. advice'.allow = Allows(r) /\ advice'.basis = bs
      BY DEF Return
    <2>2. advice'.allow \in Verdicts(r.status)
      BY <2>1, VerdictFacts
    <2> QED
      BY <2>1, <2>2 DEF AdviceInDate
  <1> QED
    BY <1>3, <1>4, <1>6, <1>7 DEF DateInv

(* Between returns there is no advice.                                     *)
LEMMA NoAdviceInDate ==
    ASSUME advice' = NoAdvice
    PROVE  AdviceInDate'
  BY DEF NoAdvice, AdviceInDate

(* A fresh entry was fetched, so its status is among those of the day.     *)
LEMMA DateNow ==
    ASSUME NEW s, NEW a, InDate(s, a), Fresh(s, a)
    PROVE  s \in {f[1] : f \in fetched}
  <1>1. <<s, a>> \in fetched /\ <<s, a>>[1] = s
    BY DEF InDate
  <1> QED
    BY <1>1

(* The look into memory and at the meta file.                              *)
LEMMA DateGetOrFetch ==
    ASSUME TypeOK, DateInv, NEW t \in Thread, GetOrFetch(t)
    PROVE  DateInv'
  <1> DEFINE p == ProcOf[t]
             now == {f[1] : f \in fetched}
  <1>1. p \in Proc /\ UNCHANGED <<disk, fetched>>
    BY RobotsAssumption DEF GetOrFetch
  <1>2. CASE Fresh(mem[p].status, memAge[p])
    <2>1. Return(t, mem[p], memAge[p], now)
      BY <1>2 DEF GetOrFetch
    <2>2. InDate(mem[p].status, memAge[p])
      BY <1>1 DEF DateInv
    <2>3. mem[p].status \in now
      BY <1>2, <2>2, DateNow
    <2> QED
      BY <1>1, <2>1, <2>2, <2>3, DateReturn
  <1>3. CASE ~Fresh(mem[p].status, memAge[p])
    <2>1. UNCHANGED <<mem, memAge>> /\ advice' = NoAdvice
      BY <1>3 DEF GetOrFetch
    <2>2. /\ \A q \in Proc : InDate(mem[q].status, memAge[q])'
          /\ InDate(meta, metaAge)' /\ AdviceInDate'
      BY <1>1, <2>1, NoAdviceInDate DEF DateInv, InDate, disk
    <2>3. \A u \in Thread : u /= t =>
            pc'[u] = pc[u] /\ got'[u] = got[u] /\ gotAge'[u] = gotAge[u] /\ basis'[u] = basis[u]
      BY <1>3 DEF GetOrFetch, TypeOK
    <2>4. \/ pc'[t] = "fetch"
          \/ /\ Fresh(meta, metaAge) /\ got'[t] = [status |-> meta, body |-> "none"]
             /\ gotAge'[t] = metaAge /\ basis'[t] = now
      BY <1>3 DEF GetOrFetch, TypeOK
    <2>5. ASSUME NEW u \in Thread, pc'[u] \in {"body", "save"}
          PROVE  (got[u] /= None /\ InDate(got[u].status, gotAge[u]) /\ got[u].status \in basis[u])'
      <3>1. CASE u /= t
        BY <1>1, <2>3, <2>5, <3>1 DEF DateInv, InDate
      <3>2. CASE u = t
        <4>1. /\ Fresh(meta, metaAge) /\ got'[u] = [status |-> meta, body |-> "none"]
              /\ gotAge'[u] = metaAge /\ basis'[u] = now
          BY <2>4, <2>5, <3>2
        <4>2. InDate(meta, metaAge)
          BY DEF DateInv
        <4>3. meta \in now
          BY <4>1, <4>2, DateNow
        <4>4. got'[u] /= None
          BY <4>1 DEF Fresh, None
        <4> QED
          BY <1>1, <4>1, <4>2, <4>3, <4>4 DEF InDate
      <3> QED
        BY <3>1, <3>2
    <2> QED
      BY <2>2, <2>5 DEF DateInv
  <1> QED
    BY <1>2, <1>3

(* A fetch is in date, and so is all that was.                             *)
LEMMA DateFetched ==
    ASSUME TypeOK, DateInv, NEW t \in Thread, NEW r \in Result, Fetched(t, r),
           advice' = NoAdvice, UNCHANGED disk
    PROVE  DateInv'
  <1> DEFINE p == ProcOf[t]
  <1>1. p \in Proc
    BY RobotsAssumption
  <1>2. /\ mem'[p] = r /\ memAge'[p] = 0
        /\ \A q \in Proc : q /= p => mem'[q] = mem[q] /\ memAge'[q] = memAge[q]
    BY <1>1 DEF Fetched, TypeOK
  <1>3. fetched \subseteq fetched' /\ <<r.status, 0>> \in fetched'
    BY DEF Fetched
  <1>4. \A q \in Proc : InDate(mem[q].status, memAge[q])'
    BY <1>2, <1>3 DEF DateInv, InDate
  <1>5. InDate(meta, metaAge)' /\ AdviceInDate'
    BY <1>3, NoAdviceInDate DEF DateInv, InDate, disk
  <1>6. /\ got'[t] = r /\ gotAge'[t] = 0 /\ basis'[t] = {r.status}
        /\ \A u \in Thread : u /= t =>
             pc'[u] = pc[u] /\ got'[u] = got[u] /\ gotAge'[u] = gotAge[u] /\ basis'[u] = basis[u]
    BY DEF Fetched, TypeOK
  <1>7. r /= None
    BY StatusFacts DEF Entry
  <1>8. ASSUME NEW u \in Thread, pc'[u] \in {"body", "save"}
        PROVE  (got[u] /= None /\ InDate(got[u].status, gotAge[u]) /\ got[u].status \in basis[u])'
    <2>1. CASE u = t
      BY <1>3, <1>6, <1>7, <2>1 DEF InDate
    <2>2. CASE u /= t
      BY <1>3, <1>6, <1>8, <2>2 DEF DateInv, InDate
    <2> QED
      BY <2>1, <2>2
  <1> QED
    BY <1>4, <1>5, <1>8 DEF DateInv

(* A meta file carries the age of the fetch, however long ago that was.    *)
LEMMA DateSave ==
    ASSUME TypeOK, DateInv, NEW t \in Thread, SaveFile(t) \/ SaveFails(t)
    PROVE  DateInv'
  <1>1. /\ pc[t] = "save" /\ advice' = NoAdvice
        /\ UNCHANGED <<mem, memAge, pc, got, gotAge, fetched, basis>>
    BY DEF SaveFile, SaveFails
  <1>2. \/ UNCHANGED <<meta, metaAge>>
        \/ meta' = got[t].status /\ metaAge' = gotAge[t]
    BY DEF SaveFile, SaveFails, disk
  <1>3. InDate(meta, metaAge)'
    BY <1>1, <1>2 DEF DateInv, InDate
  <1> QED
    BY <1>1, <1>3, NoAdviceInDate DEF DateInv, InDate

(* A crash takes memory away, and leaves what was fetched fetched.         *)
LEMMA DateCrash ==
    ASSUME TypeOK, DateInv, NEW p \in Proc, Crash(p)
    PROVE  DateInv'
  <1>1. advice' = NoAdvice /\ UNCHANGED <<disk, fetched>>
    BY DEF Crash
  <1>2. ASSUME NEW q \in Proc
        PROVE  InDate(mem[q].status, memAge[q])'
    <2>1. CASE q = p
      BY <2>1 DEF Crash, TypeOK, InDate, Fresh, None
    <2>2. CASE q /= p
      <3>1. mem'[q] = mem[q] /\ memAge'[q] = memAge[q]
        BY <2>2 DEF Crash, TypeOK
      <3> QED
        BY <1>1, <3>1 DEF DateInv, InDate
    <2> QED
      BY <2>1, <2>2
  <1>3. InDate(meta, metaAge)'
    BY <1>1 DEF DateInv, InDate, disk
  <1>4. ASSUME NEW u \in Thread, pc'[u] \in {"body", "save"}
        PROVE  (got[u] /= None /\ InDate(got[u].status, gotAge[u]) /\ got[u].status \in basis[u])'
    <2>1. pc'[u] = pc[u] /\ got'[u] = got[u] /\ gotAge'[u] = gotAge[u] /\ basis'[u] = basis[u]
      BY <1>4 DEF Crash
    <2> QED
      BY <1>1, <1>4, <2>1 DEF DateInv, InDate
  <1> QED
    BY <1>1, <1>2, <1>3, <1>4, NoAdviceInDate DEF DateInv

(* Entries and fetches grow old together.                                  *)
LEMMA DateTick ==
    ASSUME TypeOK, DateInv, Tick
    PROVE  DateInv'
  <1>1. advice' = NoAdvice /\ UNCHANGED <<mem, meta, pc, got, basis>>
    BY DEF Tick
  <1>2. ASSUME NEW s, NEW a \in Age, InDate(s, a), Fresh(s, Older(a))
        PROVE  <<s, Older(a)>> \in fetched'
    <2>1. Fresh(s, a) /\ Older(a) = a + 1
      BY <1>2, AgeFacts
    <2>2. <<s, a>> \in fetched
      BY <1>2, <2>1 DEF InDate
    <2> QED
      BY <1>2, <2>1, <2>2 DEF Tick
  <1>3. InDate(meta, metaAge)'
    <2> SUFFICES ASSUME Fresh(meta, metaAge')
                 PROVE  <<meta, metaAge'>> \in fetched'
      BY <1>1 DEF InDate
    <2>1. metaAge' = Older(metaAge) /\ metaAge \in Age
      BY <1>1 DEF Tick, TypeOK, Fresh
    <2> QED
      BY <1>2, <2>1 DEF DateInv
  <1>4. ASSUME NEW q \in Proc
        PROVE  InDate(mem[q].status, memAge[q])'
    <2> SUFFICES ASSUME Fresh(mem[q].status, memAge'[q])
                 PROVE  <<mem[q].status, memAge'[q]>> \in fetched'
      BY <1>1 DEF InDate
    <2>1. mem[q] /= None
      BY DEF Fresh, None
    <2>2. memAge'[q] = Older(memAge[q]) /\ memAge[q] \in Age
      BY <2>1 DEF Tick, TypeOK
    <2> QED
      BY <1>2, <2>2 DEF DateInv
  <1>5. ASSUME NEW u \in Thread, pc[u] \in {"body", "save"}
        PROVE  (got[u] /= None /\ InDate(got[u].status, gotAge[u]) /\ got[u].status \in basis[u])'
    <2>1. got[u] /= None /\ InDate(got[u].status, gotAge[u]) /\ got[u].status \in basis[u]
      BY <1>5 DEF DateInv
    <2>2. gotAge'[u] = Older(gotAge[u]) /\ gotAge[u] \in Age
      BY <2>1 DEF Tick, TypeOK
    <2>3. Fresh(got[u].status, gotAge'[u]) => <<got[u].status, gotAge'[u]>> \in fetched'
      BY <1>2, <2>1, <2>2
    <2> QED
      BY <1>1, <2>1, <2>3 DEF InDate
  <1> QED
    BY <1>1, <1>3, <1>4, <1>5, NoAdviceInDate DEF DateInv

(* Every step keeps what is held in date.                                  *)
LEMMA DateNext == TypeOK /\ DateInv /\ [Next]_vars => DateInv'
  <1> SUFFICES ASSUME TypeOK, DateInv, [Next]_vars
               PROVE  DateInv'
    OBVIOUS
  <1>1. CASE UNCHANGED vars
    BY <1>1 DEF vars, local, disk, DateInv, InDate, AdviceInDate
  <1>2. ASSUME NEW t \in Thread, Evaluate(t) \/ ReadBodyFails(t)
        PROVE  DateInv'
    <2>1. advice' = NoAdvice /\ UNCHANGED <<mem, memAge, meta, metaAge, fetched>>
      BY <1>2 DEF Evaluate, ReadBodyFails, disk
    <2>2. ASSUME NEW u \in Thread, pc'[u] \in {"body", "save"}
          PROVE  pc'[u] = pc[u] /\ got'[u] = got[u] /\ gotAge'[u] = gotAge[u] /\ basis'[u] = basis[u]
      BY <1>2, <2>2 DEF Evaluate, ReadBodyFails, TypeOK
    <2> QED
      BY <2>1, <2>2, NoAdviceInDate DEF DateInv, InDate
  <1>3. ASSUME NEW t \in Thread, ReadBody(t)
        PROVE  DateInv'
    <2>1. /\ pc[t] = "body" /\ UNCHANGED <<disk, fetched>>
          /\ Return(t, Parsed(t), gotAge[t], basis[t])
      BY <1>3 DEF ReadBody, Parsed
    <2>2. Parsed(t).status = got[t].status
      BY DEF Parsed
    <2> QED
      BY <2>1, <2>2, DateReturn DEF DateInv
  <1>4. ASSUME NEW t \in Thread, FetchHop(t)
        PROVE  DateInv'
    <2>1. CASE UNCHANGED <<mem, memAge, got, gotAge, fetched, basis, pc>>
      BY <1>4, <2>1, FetchHopCases, NoAdviceInDate DEF DateInv, InDate, disk
    <2> QED
      BY <1>4, <2>1, FetchHopCases, DateFetched
  <1>5. ASSUME NEW t \in Thread, Finish(t)
        PROVE  DateInv'
    <2>1. /\ pc[t] = "save" /\ UNCHANGED <<disk, fetched>>
          /\ Return(t, got[t], gotAge[t], basis[t])
      BY <1>5 DEF Finish
    <2> QED
      BY <2>1, DateReturn DEF DateInv
  <1> QED
    BY <1>1, <1>2, <1>3, <1>4, <1>5, DateGetOrFetch, DateSave, DateCrash, DateTick DEF Next, Step

(* What an evaluate says rests on a status in date, for any processes that *)
(* share the cache directory and whatever they leave in it.                *)
THEOREM AdviceInDateCorrect == Spec => []AdviceInDate
  <1>1. Init => DateInv
    BY DEF Init, DateInv, InDate, AdviceInDate, NoAdvice, Fresh, None
  <1>2. TypeOK /\ DateInv /\ [Next]_vars => DateInv'
    BY DateNext
  <1>3. DateInv => AdviceInDate
    BY DEF DateInv
  <1>4. FetchInv => TypeOK
    BY DEF FetchInv
  <1> QED
    BY <1>1, <1>2, <1>3, <1>4, FetchInvCorrect, PTL DEF Spec

-----------------------------------------------------------------------------
(* The lock is given back.                                                 *)
LEMMA StepsLeftType ==
    ASSUME TypeOK, NEW t \in Thread
    PROVE  StepsLeft(t) \in Nat
  <1>1. Len(todo[t]) \in Nat
    BY DEF TypeOK
  <1>2. MaxRedirects - hop[t] \in Nat
    BY RobotsAssumption DEF TypeOK
  <1> QED
    BY <1>1, <1>2, RobotsAssumption DEF StepsLeft

(* Each step with the lock held brings its return nearer.                  *)
LEMMA StepsLeftShrinks ==
    ASSUME TypeOK, [Next]_vars, NEW t \in Thread, pc[t] \in Inside
    PROVE  UNCHANGED <<pc[t], url[t], hop[t], todo[t]>> \/ StepsLeft(t)' < StepsLeft(t)
  <1> DEFINE Goal == UNCHANGED <<pc[t], url[t], hop[t], todo[t]>> \/ StepsLeft(t)' < StepsLeft(t)
  <1>1. StepsLeft(t) >= 1 /\ StepsLeft(t) \in Nat
    <2>1. Len(todo[t]) \in Nat
      BY DEF TypeOK
    <2>2. MaxRedirects - hop[t] \in Nat
      BY RobotsAssumption DEF TypeOK
    <2> QED
      BY <2>1, <2>2, RobotsAssumption DEF StepsLeft, Inside
  <1>2. CASE pc'[t] = "idle"
    BY <1>1, <1>2 DEF StepsLeft
  <1>3. CASE UNCHANGED vars
    BY <1>3 DEF vars, local
  <1>4. ASSUME NEW v \in Thread, Evaluate(v) \/ GetOrFetch(v)
        PROVE  Goal
    <2>1. v /= t
      BY <1>4 DEF Evaluate, GetOrFetch, Inside
    <2>2. pc'[t] = pc[t] /\ UNCHANGED <<url, hop, todo>>
      BY <1>4, <2>1 DEF Evaluate, GetOrFetch, Return, TypeOK
    <2> QED
      BY <2>2
  <1>5. ASSUME NEW v \in Thread, ReadBody(v) \/ Finish(v)
        PROVE  Goal
    <2>1. UNCHANGED <<url, hop, todo>> /\ (pc'[t] = pc[t] \/ pc'[t] = "idle")
      BY <1>5 DEF ReadBody, Finish, Return, TypeOK
    <2> QED
      BY <1>2, <2>1
  <1>6. ASSUME NEW v \in Thread, ReadBodyFails(v)
        PROVE  Goal
    <2>1. CASE v /= t
      BY <1>6, <2>1 DEF ReadBodyFails, TypeOK
    <2>2. CASE v = t
      <3>1. pc[t] = "body" /\ pc'[t] = "fetch" /\ hop'[t] \in 0 .. MaxRedirects
        BY <1>6, <2>2 DEF ReadBodyFails, TypeOK
      <3> QED
        BY <3>1, RobotsAssumption DEF StepsLeft
    <2> QED
      BY <2>1, <2>2
  <1>7. ASSUME NEW v \in Thread, FetchHop(v)
        PROVE  Goal
    <2>1. ASSUME NEW r \in Result, Fetched(v, r)
          PROVE  Goal
      <3>1. CASE v /= t
        BY <2>1, <3>1 DEF Fetched, TypeOK
      <3>2. CASE v = t
        <4>1. pc[t] = "fetch" /\ pc'[t] = "save" /\ todo'[t] = <<"body", "meta">>
          BY <1>7, <2>1, <3>2, FetchHopCases DEF Fetched, TypeOK, SaveOrder
        <4>2. Len(<<"body", "meta">>) = 2
          OBVIOUS
        <4>3. hop[t] \in 0 .. MaxRedirects
          BY DEF TypeOK
        <4> QED
          BY <4>1, <4>2, <4>3, RobotsAssumption DEF StepsLeft
      <3> QED
        BY <3>1, <3>2
    <2>2. CASE hop[v] /= MaxRedirects /\ hop' = [hop EXCEPT ![v] = @ + 1] /\ UNCHANGED <<todo, pc>>
      <3>1. CASE v /= t
        BY <1>7, <2>2, <3>1, FetchHopElsewhere
      <3>2. CASE v = t
        <4>1. pc[t] = "fetch" /\ pc'[t] = "fetch" /\ hop'[t] = hop[t] + 1 /\ hop[t] \in 0 .. MaxRedirects
          BY <1>7, <2>2, <3>2, FetchHopCases DEF TypeOK
        <4> QED
          BY <4>1, RobotsAssumption DEF StepsLeft
      <3> QED
        BY <3>1, <3>2
    <2> QED
      BY <1>7, <2>1, <2>2, FetchHopCases
  <1>8. ASSUME NEW v \in Thread, SaveFile(v) \/ SaveFails(v)
        PROVE  Goal
    <2>1. /\ pc[v] = "save" /\ todo[v] /= <<>> /\ UNCHANGED <<pc, url, hop>>
          /\ todo' = [todo EXCEPT ![v] = Tail(@)] \/ todo' = [todo EXCEPT ![v] = <<>>]
      BY <1>8 DEF SaveFile, SaveFails
    <2>2. CASE v /= t
      BY <2>1, <2>2 DEF TypeOK
    <2>3. CASE v = t
      <3>1. Len(todo'[t]) < Len(todo[t]) /\ Len(todo[t]) \in Nat /\ Len(todo'[t]) \in Nat
        <4>1. todo'[t] = Tail(todo[t]) \/ todo'[t] = <<>>
          BY <2>1, <2>3 DEF TypeOK
        <4>2. todo[t] \in {<<"meta">>, <<"body", "meta">>}
          BY <2>1, <2>3 DEF TypeOK
        <4>3. Len(<<>>) = 0 /\ Len(<<"meta">>) = 1 /\ Len(<<"body", "meta">>) = 2
          OBVIOUS
        <4>4. CASE todo[t] = <<"meta">>
          <5>1. todo'[t] = <<>>
            BY <4>1, <4>4, TailFacts, Zenon
          <5> QED
            BY <4>3, <4>4, <5>1
        <4>5. CASE todo[t] = <<"body", "meta">>
          <5>1. todo'[t] = <<>> \/ todo'[t] = <<"meta">>
            BY <4>1, <4>5, TailFacts, Zenon
          <5> QED
            BY <4>3, <4>5, <5>1
        <4> QED
          BY <4>2, <4>4, <4>5
      <3> QED
        BY <2>1, <2>3, <3>1 DEF StepsLeft
    <2> QED
      BY <2>2, <2>3
  <1>9. ASSUME NEW p \in Proc, Crash(p)
        PROVE  Goal
    BY <1>2, <1>9 DEF Crash
  <1>10. CASE Tick
    BY <1>10 DEF Tick
  <1> QED
    BY <1>3, <1>4, <1>5, <1>6, <1>7, <1>8, <1>9, <1>10 DEF Next, Step

(* No thread keeps the lock of the key, for any threads and processes, any *)
(* redirects and whichever reads and writes fail.                          *)
THEOREM LockGivenBackCorrect == Spec => LockGivenBack
  <1>1. FetchInv /\ [Next]_vars =>
          [\A t \in Thread :
              /\ StepsLeft(t) \in Nat
              /\ pc[t] \in Inside => \/ UNCHANGED <<pc[t], url[t], hop[t], todo[t]>>
                                    \/ StepsLeft(t)' < StepsLeft(t)]_vars
    BY StepsLeftType, StepsLeftShrinks DEF FetchInv
  <1> QED
    BY <1>1, FetchInvCorrect, PTL DEF Spec, LockGivenBack
===============================================================================
