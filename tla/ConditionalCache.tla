--------------------------- MODULE ConditionalCache ---------------------------
(***************************************************************************)
(* InMemoryConditionalCache (adapters/network/in_memory_conditional_cache  *)
(* .py): what one locked call does to a cache, the sequence of its entries *)
(* [run, url, etag, date, body, size, ref], least recently used first,     *)
(* together with the running total of their sizes that the code keeps      *)
(* beside them.  etag and date are 0 where the header was absent.          *)
(***************************************************************************)
EXTENDS Integers, Sequences, SequencesExt, Lists

CONSTANTS MaxEntries, MaxEntryBytes, MaxTotalBytes

Miss == [run |-> "none", url |-> "none", etag |-> 0, date |-> 0, body |-> 0, size |-> 0, ref |-> <<>>]
Empty == [entries |-> <<>>, total |-> 0]

Without(entries, run, url) ==
    Kept(entries, {e \in ToSet(entries) : ~(e.run = run /\ e.url = url)})

Get_AnyRun(cache, run, url) ==
    LET hits == {e \in ToSet(cache.entries) : e.url = url}
    IN  IF hits = {} THEN Miss ELSE CHOOSE e \in hits : TRUE

Get(cache, run, url) ==
    LET hits == {e \in ToSet(cache.entries) : e.run = run /\ e.url = url}
    IN  IF hits = {} THEN Miss ELSE CHOOSE e \in hits : TRUE

(* get moves the entry it returns to the recently used end.                *)
Touched(cache, run, url) ==
    IF Get(cache, run, url) = Miss THEN cache
    ELSE [entries |-> Append(Without(cache.entries, run, url), Get(cache, run, url)),
          total |-> cache.total]

SizeOf(entries) ==
    LET size[n \in 0 .. Len(entries)] ==
            IF n = 0 THEN 0 ELSE size[n - 1] + entries[n].size
    IN  size[Len(entries)]

(* The eviction loop drops from the least recently used end until both     *)
(* caps hold: as few entries as will do.                                   *)
Evict(entries, total) ==
    LET fits(n) == /\ Len(entries) - n <= MaxEntries
                   /\ total - SizeOf(SubSeq(entries, 1, n)) <= MaxTotalBytes
        n == CHOOSE n \in 0 .. Len(entries) : fits(n) /\ \A m \in 0 .. n - 1 : ~fits(m)
    IN  [entries |-> SubSeq(entries, n + 1, Len(entries)),
         total |-> total - SizeOf(SubSeq(entries, 1, n))]

Put(cache, e) ==
    IF e.size > MaxEntryBytes THEN cache
    ELSE Evict(Append(Without(cache.entries, e.run, e.url), e),
               cache.total - Get(cache, e.run, e.url).size + e.size)

ClearRun(cache, run) ==
    LET dropped == {e \in ToSet(cache.entries) : e.run = run}
    IN  [entries |-> Kept(cache.entries, ToSet(cache.entries) \ dropped),
         total |-> cache.total - SizeOf(Kept(cache.entries, dropped))]
=============================================================================
