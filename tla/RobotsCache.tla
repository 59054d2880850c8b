----------------------------- MODULE RobotsCache -----------------------------
(***************************************************************************)
(* UrllibRobotsParser (adapters/network/urllib_robots.py) for one cache    *)
(* key, a host and a user agent: threads of one or more processes ask      *)
(* whether the host allows a URL.  A process keeps the parsed file in      *)
(* memory under a lock of its own; processes share a cache directory that  *)
(* holds a body file and a meta file, each written atomically.  Their wall *)
(* clocks agree and do not run backwards.                                  *)
(*                                                                         *)
(* A fetch result is [status, body]; the body only matters by whether it   *)
(* allows the URL.  Ages count ticks since the fetch and stop at the       *)
(* longest TTL, past which no entry is used.                               *)
(***************************************************************************)
EXTENDS Naturals, Sequences, FiniteSets

CONSTANTS
    Thread, Proc, ProcOf,       \* threads and the process each runs in
    Ttl, FailureTtl,            \* ttl_seconds, failure_ttl_seconds, in ticks
    RobotsUrl,                  \* URLs the robots fetch may be led to
    Home,                       \* _robots_url_for(url)
    Refused,                    \* URLs _check_policy refuses
    Served,                     \* what servers answer, redirects apart
    MaxRedirects,
    MaxCrashes                  \* bound

(* Rules that allow or deny the URL under 200, no file under 404, an error *)
(* under any other status.                                                 *)
Answer == {[status |-> "200", body |-> "allow"], [status |-> "200", body |-> "deny"],
           [status |-> "404", body |-> "none"], [status |-> "other", body |-> "none"]}

ASSUME RobotsAssumption ==
    /\ ProcOf \in [Thread -> Proc]
    /\ Ttl \in Nat \ {0} /\ FailureTtl \in Nat \ {0}
    /\ Home \in RobotsUrl /\ MaxRedirects \in Nat /\ Served \subseteq Answer

None == [status |-> "none", body |-> "none"]
Failure == [status |-> "failure", body |-> "none"]      \* _FETCH_FAILURE_STATUS
Result == Answer \cup {Failure}
MaxTtl == IF Ttl < FailureTtl THEN FailureTtl ELSE Ttl
Age == 0 .. MaxTtl
NoAdvice == [given |-> FALSE, allow |-> FALSE, basis |-> {}]

VARIABLES
    mem, memAge,        \* process -> its cached entry (_entries) and its age
    body,               \* the body file: what its rules say, or "absent"
    meta, metaAge,      \* the meta file: the status in it, or "none"; its age
    pc,                 \* thread -> where it is in evaluate
    got, gotAge,        \* thread -> the entry it is about to return, its age
    url, hop,           \* thread -> where its robots fetch is
    todo,               \* thread -> the files it has yet to write
    advice,             \* is_allowed with its basis, when the step is a return from evaluate
    crashes,            \* crashes so far
    fetched,            \* history: <<status, age>> of all fetches that are still fresh
    heard,              \* history: <<process, status, age>> of those its process remembers
    basis               \* history: thread -> statuses its evaluate may rely on

local == <<pc, got, gotAge, url, hop, todo>>
disk == <<body, meta, metaAge>>
vars == <<mem, memAge, disk, local, advice, crashes, fetched, heard, basis>>

Init ==
    /\ mem = [p \in Proc |-> None] /\ memAge = [p \in Proc |-> 0]
    /\ body = "absent" /\ meta = "none" /\ metaAge = 0
    /\ pc = [t \in Thread |-> "idle"]
    /\ got = [t \in Thread |-> None] /\ gotAge = [t \in Thread |-> 0]
    /\ url = [t \in Thread |-> Home] /\ hop = [t \in Thread |-> 0]
    /\ todo = [t \in Thread |-> <<>>]
    /\ advice = NoAdvice
    /\ crashes = 0
    /\ fetched = {} /\ heard = {}
    /\ basis = [t \in Thread |-> {}]

TtlOf(status) == IF status = "failure" THEN FailureTtl ELSE Ttl

Fresh(status, age) == status /= "none" /\ age < TtlOf(status)

(* _build_parser and can_fetch: an unreadable file refuses everything, a   *)
(* missing one or an empty set of rules allows everything.                 *)
Allows(r) == r.status = "404" \/ (r.status = "200" /\ r.body /= "deny")

-----------------------------------------------------------------------------
(* The lock of the cache key lets one thread of a process in; the others   *)
(* wait for it.                                                            *)
Inside == {"body", "fetch", "save"}
HostLockFree_NoLock(p) == TRUE    \* mutant
HostLockFree(p) == \A t \in Thread : ProcOf[t] = p => pc[t] \notin Inside

Return(t, r, age, bs) ==
    /\ mem' = [mem EXCEPT ![ProcOf[t]] = r]
    /\ memAge' = [memAge EXCEPT ![ProcOf[t]] = age]
    /\ advice' = [given |-> TRUE, allow |-> Allows(r), basis |-> bs]
    /\ basis' = [basis EXCEPT ![t] = {}]
    /\ pc' = [pc EXCEPT ![t] = "idle"]
    /\ got' = [got EXCEPT ![t] = None]
    /\ gotAge' = [gotAge EXCEPT ![t] = 0]

(* evaluate, up to the host's lock.  The registry of locks has a lock of   *)
(* its own, held for a look-up in a dictionary and for nothing that can    *)
(* block, so finding the host's lock is a single step.                     *)
Evaluate(t) ==
    /\ pc[t] = "idle"
    /\ pc' = [pc EXCEPT ![t] = "wait"]
    /\ advice' = NoAdvice
    /\ UNCHANGED <<mem, memAge, disk, got, gotAge, url, hop, todo, crashes, fetched, heard, basis>>

(* _get_or_fetch once it has the lock, up to the first read of the disk    *)
(* that can find another process's write: a fresh entry in memory is used, *)
(* else a fresh meta file; without one, or when it cannot be read, the host*)
(* is asked.                                                               *)
GetOrFetch(t) ==
    LET p == ProcOf[t]
        now == {f[1] : f \in fetched}
    IN  /\ pc[t] = "wait" /\ HostLockFree(p)
        /\ \/ /\ Fresh(mem[p].status, memAge[p])
              /\ Return(t, mem[p], memAge[p], now)
           \/ /\ ~Fresh(mem[p].status, memAge[p])
              /\ Fresh(meta, metaAge)
              /\ got' = [got EXCEPT ![t] = [status |-> meta, body |-> "none"]]
              /\ gotAge' = [gotAge EXCEPT ![t] = metaAge]
              /\ pc' = [pc EXCEPT ![t] = "body"]
              /\ basis' = [basis EXCEPT ![t] = now]
              /\ advice' = NoAdvice
              /\ UNCHANGED <<mem, memAge>>
           \/ /\ ~Fresh(mem[p].status, memAge[p])
              /\ pc' = [pc EXCEPT ![t] = "fetch"]
              /\ advice' = NoAdvice
              /\ UNCHANGED <<mem, memAge, got, gotAge, basis>>
        /\ UNCHANGED <<disk, url, hop, todo, crashes, fetched, heard>>

(* _read_disk_cache, the body: a missing file counts as an empty one, and  *)
(* the entry keeps the age its meta file gives it.                         *)
(* Mutant: the age starts again when the entry comes from the disk.        *)
ReadBody_AgeRestarts(t) ==
    /\ pc[t] = "body"
    /\ LET r == IF got[t].status = "200"
                THEN [status |-> "200", body |-> IF body = "deny" THEN "deny" ELSE "allow"]
                ELSE got[t]
       IN  Return(t, r, 0, basis[t])
    /\ UNCHANGED <<disk, url, hop, todo, crashes, fetched, heard>>

ReadBody(t) ==
    /\ pc[t] = "body"
    /\ LET r == IF got[t].status = "200"
                THEN [status |-> "200", body |-> IF body = "deny" THEN "deny" ELSE "allow"]
                ELSE got[t]
       IN  Return(t, r, gotAge[t], basis[t])
    /\ UNCHANGED <<disk, url, hop, todo, crashes, fetched, heard>>

(* The body cannot be read, as when another process unlinks it after it    *)
(* was seen to exist: the host is asked.                                   *)
ReadBodyFails(t) ==
    /\ pc[t] = "body"
    /\ pc' = [pc EXCEPT ![t] = "fetch"]
    /\ got' = [got EXCEPT ![t] = None]
    /\ gotAge' = [gotAge EXCEPT ![t] = 0]
    /\ basis' = [basis EXCEPT ![t] = {}]
    /\ advice' = NoAdvice
    /\ UNCHANGED <<mem, memAge, disk, url, hop, todo, crashes, fetched, heard>>

-----------------------------------------------------------------------------
(* make_httpx_robots_fetcher's fetch, one hop: the policy is checked before*)
(* every request, and any exception is a fetch failure.                    *)
SaveOrder == <<"body", "meta">>

Fetched(t, r) ==
    /\ got' = [got EXCEPT ![t] = r]
    /\ gotAge' = [gotAge EXCEPT ![t] = 0]
    /\ todo' = [todo EXCEPT ![t] = SaveOrder]
    /\ mem' = [mem EXCEPT ![ProcOf[t]] = r]
    /\ memAge' = [memAge EXCEPT ![ProcOf[t]] = 0]
    /\ fetched' = fetched \cup {<<r.status, 0>>}
    /\ heard' = heard \cup {<<ProcOf[t], r.status, 0>>}
    /\ basis' = [basis EXCEPT ![t] = {r.status}]
    /\ pc' = [pc EXCEPT ![t] = "save"]
    /\ url' = [url EXCEPT ![t] = Home]
    /\ hop' = [hop EXCEPT ![t] = 0]

PolicyAllows(u) == u \notin Refused

(* Mutant: redirects are not counted.                                      *)
FetchHop_Uncounted(t) ==
    /\ pc[t] = "fetch"
    /\ \/ Fetched(t, Failure)
       \/ PolicyAllows(url[t]) /\ \E r \in Served : Fetched(t, r)
       \/ /\ PolicyAllows(url[t])
          /\ \E u \in RobotsUrl : url' = [url EXCEPT ![t] = u]
          /\ UNCHANGED <<mem, memAge, got, gotAge, todo, fetched, heard, basis, pc, hop>>
    /\ advice' = NoAdvice
    /\ UNCHANGED <<disk, crashes>>

FetchHop(t) ==
    /\ pc[t] = "fetch"
    /\ \/ Fetched(t, Failure)
       \/ PolicyAllows(url[t]) /\ \E r \in Served : Fetched(t, r)
       \/ /\ PolicyAllows(url[t])
          /\ IF hop[t] = MaxRedirects THEN Fetched(t, [status |-> "other", body |-> "none"])
             ELSE /\ \E u \in RobotsUrl : url' = [url EXCEPT ![t] = u]
                  /\ hop' = [hop EXCEPT ![t] = @ + 1]
                  /\ UNCHANGED <<mem, memAge, got, gotAge, todo, fetched, heard, basis, pc>>
    /\ advice' = NoAdvice
    /\ UNCHANGED <<disk, crashes>>

(* _write_disk_cache, one file; a body that there is none of is unlinked.  *)
(* An OSError is logged, and what is left to write is not written.         *)
SaveFile(t) ==
    /\ pc[t] = "save" /\ todo[t] /= <<>>
    /\ \/ /\ Head(todo[t]) = "body"
          /\ body' = IF got[t].status = "200" THEN got[t].body ELSE "absent"
          /\ UNCHANGED <<meta, metaAge>>
       \/ /\ Head(todo[t]) = "meta"
          /\ meta' = got[t].status
          /\ metaAge' = gotAge[t]
          /\ UNCHANGED body
    /\ todo' = [todo EXCEPT ![t] = Tail(@)]
    /\ advice' = NoAdvice
    /\ UNCHANGED <<mem, memAge, pc, got, gotAge, url, hop, crashes, fetched, heard, basis>>

SaveFails(t) ==
    /\ pc[t] = "save" /\ todo[t] /= <<>>
    /\ todo' = [todo EXCEPT ![t] = <<>>]
    /\ advice' = NoAdvice
    /\ UNCHANGED <<mem, memAge, disk, pc, got, gotAge, url, hop, crashes, fetched, heard, basis>>

Finish(t) ==
    /\ pc[t] = "save" /\ todo[t] = <<>>
    /\ Return(t, got[t], gotAge[t], basis[t])
    /\ UNCHANGED <<disk, url, hop, todo, crashes, fetched, heard>>

-----------------------------------------------------------------------------
(* A process dies between any two steps and starts again with no memory.   *)
Crash(p) ==
    /\ \/ mem[p] /= None
       \/ \E t \in Thread : ProcOf[t] = p /\ pc[t] /= "idle"
    /\ mem' = [mem EXCEPT ![p] = None]
    /\ memAge' = [memAge EXCEPT ![p] = 0]
    /\ pc' = [t \in Thread |-> IF ProcOf[t] = p THEN "idle" ELSE pc[t]]
    /\ got' = [t \in Thread |-> IF ProcOf[t] = p THEN None ELSE got[t]]
    /\ gotAge' = [t \in Thread |-> IF ProcOf[t] = p THEN 0 ELSE gotAge[t]]
    /\ todo' = [t \in Thread |-> IF ProcOf[t] = p THEN <<>> ELSE todo[t]]
    /\ crashes < MaxCrashes
    /\ crashes' = crashes + 1
    /\ heard' = {h \in heard : h[1] /= p}
    /\ basis' = [t \in Thread |-> IF ProcOf[t] = p THEN {} ELSE basis[t]]
    /\ url' = [t \in Thread |-> IF ProcOf[t] = p THEN Home ELSE url[t]]
    /\ hop' = [t \in Thread |-> IF ProcOf[t] = p THEN 0 ELSE hop[t]]
    /\ advice' = NoAdvice
    /\ UNCHANGED <<disk, fetched>>

Older(age) == IF age < MaxTtl THEN age + 1 ELSE MaxTtl

Tick ==
    /\ memAge' = [p \in Proc |-> IF mem[p] = None THEN 0 ELSE Older(memAge[p])]
    /\ metaAge' = IF meta = "none" THEN 0 ELSE Older(metaAge)
    /\ gotAge' = [t \in Thread |-> IF got[t] = None THEN 0 ELSE Older(gotAge[t])]
    /\ fetched' = {<<f[1], f[2] + 1>> : f \in {g \in fetched : Fresh(g[1], g[2] + 1)}}
    /\ heard' = {<<h[1], h[2], h[3] + 1>> : h \in {g \in heard : Fresh(g[2], g[3] + 1)}}
    /\ advice' = NoAdvice
    /\ UNCHANGED <<mem, body, meta, pc, got, url, hop, todo, crashes, basis>>

Step(t) ==
    \/ ReadBody(t) \/ ReadBodyFails(t) \/ FetchHop(t)
    \/ SaveFile(t) \/ SaveFails(t) \/ Finish(t)

Next ==
    \/ \E t \in Thread : Evaluate(t) \/ GetOrFetch(t) \/ Step(t)
    \/ \E p \in Proc : Crash(p)
    \/ Tick

Spec == Init /\ [][Next]_vars

-----------------------------------------------------------------------------
(* What a file fetched under this status can make of a URL: without one    *)
(* (404) every URL is allowed, its rules (200) decide, and anything else   *)
(* refuses all.                                                            *)
Verdicts(status) ==
    IF status = "404" THEN {TRUE} ELSE IF status = "200" THEN BOOLEAN ELSE {FALSE}

(* Fail closed, and open again in time: what an evaluate says is what it   *)
(* may say under the status of a fetch that was no older than its TTL when *)
(* the evaluate looked, or that it made itself.  An outage never turns     *)
(* into a permission, nor a permission outlives its TTL, whichever process *)
(* fetched, stopped or stalled before, between or after writing the files  *)
(* they share (_get_or_fetch, _read_disk_cache, _build_parser).            *)
AdviceInDate ==
    advice.given => \E status \in advice.basis : advice.allow \in Verdicts(status)

(* Fetch once per host: a thread asks the host again only when its process *)
(* is not asking already and every answer it has had since it started is   *)
(* too old (_get_or_fetch under the lock of the key).                      *)
FetchOnce ==
    [][\A t \in Thread : pc[t] /= "fetch" /\ pc'[t] = "fetch" =>
            /\ \A u \in Thread \ {t} : ProcOf[u] = ProcOf[t] => pc[u] \notin Inside
            /\ \A h \in heard : h[1] /= ProcOf[t]]_vars

(* How many steps of its own a thread is from giving the lock back.        *)
StepsLeft(t) ==
    IF pc[t] = "body" THEN 5 + MaxRedirects
    ELSE IF pc[t] = "fetch" THEN 4 + (MaxRedirects - hop[t])
    ELSE IF pc[t] = "save" THEN 1 + Len(todo[t]) ELSE 0

(* No thread keeps the lock of the key: each step it takes with the lock   *)
(* held brings its return nearer, by a measure that is never negative,     *)
(* whatever the host answers and redirects to and whichever writes fail    *)
(* (_get_or_fetch, the hop loop of make_httpx_robots_fetcher).             *)
LockGivenBack ==
    [][\A t \in Thread :
            /\ StepsLeft(t) \in Nat
            /\ pc[t] \in Inside => \/ UNCHANGED <<pc[t], url[t], hop[t], todo[t]>>
                                  \/ StepsLeft(t)' < StepsLeft(t)]_vars
=============================================================================
