----------------------------- MODULE TestcaseCache -----------------------------
(***************************************************************************)
(* The test case cache: queue_testcase_get(), queue_testcase_store_mem()   *)
(* and the two retake functions, as fuzz_one(), trim_case(),               *)
(* save_if_interesting() and recalculate_all_scores() call them.           *)
(*                                                                         *)
(* The content of a file is a version: trimming an entry makes a new one.  *)
(* A cached buffer has the version it holds and the bytes it was allocated *)
(* with, which after a trim are not the length of its entry.  The random   *)
(* victim of an eviction is any slot the code accepts.                     *)
(***************************************************************************)
EXTENDS Naturals, FiniteSets, FiniteSetsExt

CONSTANTS
    MaxItems,    \* bound on queued_items
    MaxTrimItems,\* the same, if test cases are trimmed
    MaxLight,    \* bound on the entries with a weight below 1.0
    Seeds,       \* the items the queue starts with
    Lens,        \* lengths of test cases
    MaxSize,     \* AFL_TESTCACHE_SIZE, in bytes
    MaxEntries,  \* AFL_TESTCACHE_ENTRIES
    SpliceLen,   \* 4: the length a test case must have for splicing
    Slack,       \* 1024: a shorter test case is reallocated only beyond it
    W            \* 2^32

\* afl-fuzz refuses a cache of less than two files of the maximal size.  It does
\* not refuse one of fewer than three entries, but that one has no victim for a
\* second test case while the first is being fuzzed.
ASSUME CacheAssumption ==
    /\ MaxItems \in Nat /\ MaxTrimItems \in 1..MaxItems /\ Seeds \in 1..MaxTrimItems
    /\ MaxLight \in Nat
    /\ Lens \subseteq Nat \ {0}
    /\ \A l \in Lens : 2 * l <= MaxSize /\ l < W
    /\ MaxSize \in Nat /\ MaxEntries \in Nat \ {0, 1, 2}
    /\ SpliceLen \in Nat /\ Slack \in Nat /\ W \in Nat

VARIABLES
    \* the queue: queued_items, and per entry len, the file, weight < 1.0, trim_done
    queued_items, len, file, light, trim_done,
    ready_for_splicing_count,
    disable_trim, \* AFL_DISABLE_TRIM
    \* per entry: testcase_buf (its version or NoBuf) and the bytes allocated for it
    buf, cap,
    \* the cache of afl_state_t
    cache, alloc, cache_size, cache_count, max_cache_count, max_cache_entries,
    smallest_free, do_once,
    \* the private buffers testcase_buf and splicecase_buf of afl_state_t
    own,
    \* the round: queue_cur, the splicing partner, the entry queue_testcase_get()
    \* is at, its tid, and where it returns to
    queue_cur, target, q, tid, pc, back

queueVars == <<queued_items, len, file, light, trim_done, ready_for_splicing_count,
               disable_trim>>
slotVars  == <<cache, alloc, cache_count, max_cache_count, max_cache_entries,
               smallest_free, do_once>>
cacheVars == <<buf, cap, cache_size, slotVars>>
callVars  == <<queue_cur, target, q, tid, pc, back>>
vars      == <<queueVars, cacheVars, own, callVars>>

Items    == 1..MaxItems
NoItem   == 0
NoBuf    == 99
Versions == 0..1
Slots    == 0..MaxEntries
Places   == {"testcase_buf", "splicecase_buf"}
Queue    == 1..queued_items
Weighings == {L \in SUBSET Queue : Cardinality(L) <= MaxLight}
Bound    == IF disable_trim THEN MaxItems ELSE MaxTrimItems
NoOwn    == [e |-> NoItem, ver |-> 0]

--------------------------------------------------------------------------------
(* queue_testcase_get()                                                     *)

\* Between two rounds nobody looks at the weights, and the private buffers are
\* out of use.
Forget(next) ==
    /\ light' = IF next = "idle" THEN {} ELSE light
    /\ UNCHANGED <<queued_items, len, file, trim_done, ready_for_splicing_count, disable_trim>>

Return ==
    /\ pc' = back /\ back' = "idle"
    /\ q' = NoItem /\ tid' = 0
    /\ target' = IF back = "fuzz" /\ q # queue_cur THEN q ELSE target
    /\ Forget(back)
    /\ UNCHANGED queue_cur

GetHit ==
    /\ pc = "get" /\ buf[q] # NoBuf
    /\ Return
    /\ UNCHANGED <<cacheVars, own>>

\* No cache, or a weight below average: the file is read into a private buffer.
Uncached(e) == e \in light \/ MaxSize = 0

PrivateFor == IF q = queue_cur THEN "testcase_buf" ELSE "splicecase_buf"

GetPrivate ==
    /\ pc = "get" /\ buf[q] = NoBuf /\ Uncached(q)
    /\ own' = IF back = "idle" THEN own
              ELSE [own EXCEPT ![PrivateFor] = [e |-> q, ver |-> file[q]]]
    /\ Return
    /\ UNCHANGED cacheVars

Overfull(l) == cache_size + l >= MaxSize

\* Fault: the last entry is evicted too.
MustEvictAll(l) == Overfull(l) \/ cache_count >= max_cache_entries - 1

\* Fault: two entries are left where one should be.
MustEvictLate(l) ==
    (Overfull(l) /\ cache_count > 2) \/ cache_count >= max_cache_entries - 1

\* The condition of the loop that makes room for l bytes.
MustEvict(l) ==
    (Overfull(l) /\ cache_count > 1) \/ cache_count >= max_cache_entries - 1

\* "once the cache is filled by size - that is the max."
Learn(l) ==
    IF /\ Overfull(l) /\ ~do_once
       /\ cache_count < max_cache_entries /\ max_cache_count < max_cache_entries
    THEN /\ max_cache_entries' =
              1 + IF max_cache_count > cache_count THEN max_cache_count ELSE cache_count
         /\ alloc' = max_cache_entries' + 1
         /\ do_once' = TRUE
    ELSE UNCHANGED <<max_cache_entries, alloc, do_once>>

\* Fault: the entry being fuzzed is not spared.
VictimsAny == {t \in 0..(max_cache_count - 1) : cache[t] # NoItem}

Victims == {t \in 0..(max_cache_count - 1) : cache[t] \notin {NoItem, queue_cur}}

\* Fault: the lowest free slot is not moved down.
EvictKeepsFree(t) == smallest_free

FreeAfterEvict(t) == IF t < smallest_free THEN t ELSE smallest_free

\* One turn of the loop that makes room.
Evict ==
    /\ pc = "get" /\ buf[q] = NoBuf /\ ~Uncached(q) /\ MustEvict(len[q])
    /\ Learn(len[q])
    /\ \E t \in Victims :
          LET old == cache[t] IN
          /\ tid' = t
          /\ buf' = [buf EXCEPT ![old] = NoBuf]
          /\ cap' = [cap EXCEPT ![old] = 0]
          /\ cache_size' = cache_size - len[old]
          /\ cache' = [cache EXCEPT ![t] = NoItem]
          /\ cache_count' = cache_count - 1
          /\ smallest_free' = FreeAfterEvict(t)
    /\ UNCHANGED <<queueVars, max_cache_count, own, queue_cur, target, q, pc, back>>

\* The first free slot from t on.
FreeFrom(t) == CHOOSE s \in Slots : /\ s >= t /\ cache[s] = NoItem
                                    /\ \A r \in t..(s - 1) : cache[r] # NoItem

\* "Register testcase as cached", at the first free slot from t on.
Register(e, t) ==
    LET s == FreeFrom(t) IN
    /\ cache' = [cache EXCEPT ![s] = e]
    /\ buf' = [buf EXCEPT ![e] = file'[e]]
    /\ cap' = [cap EXCEPT ![e] = len'[e]]
    /\ cache_size' = cache_size + len'[e]
    /\ cache_count' = cache_count + 1
    /\ max_cache_count' = IF s >= max_cache_count THEN s + 1 ELSE max_cache_count
    /\ smallest_free' =
          IF s < max_cache_count /\ s = smallest_free THEN s + 1 ELSE smallest_free
    /\ UNCHANGED <<alloc, max_cache_entries, do_once>>

SearchFrom(t) == IF t >= max_cache_entries THEN smallest_free ELSE t

Load ==
    /\ pc = "get" /\ buf[q] = NoBuf /\ ~Uncached(q) /\ ~MustEvict(len[q])
    /\ Return
    /\ Register(q, SearchFrom(tid))
    /\ UNCHANGED own

\* The call of queue_testcase_get() for e.
Call(e, from) ==
    /\ q' = e /\ pc' = "get" /\ back' = from
    /\ tid' = max_cache_count

--------------------------------------------------------------------------------
(* The callers                                                              *)

\* create_alias_table() gives new weights, and the next entry is selected and
\* fetched by fuzz_one().
Select ==
    /\ pc = "idle"
    /\ light' \in Weighings
    /\ queue_cur' \in Queue
    /\ target' = NoItem
    /\ Call(queue_cur', IF trim_done[queue_cur'] \/ disable_trim THEN "fuzz" ELSE "trim")
    /\ UNCHANGED <<queued_items, len, file, trim_done, ready_for_splicing_count,
                   disable_trim, cacheVars, own>>

\* recalculate_all_scores() fetches entries between two rounds, under whatever
\* weights they have.
Recalibrate ==
    /\ pc = "idle"
    /\ light' \in Weighings
    /\ \E e \in Queue : Call(e, "idle")
    /\ UNCHANGED <<queued_items, len, file, trim_done, ready_for_splicing_count,
                   disable_trim, cacheVars, own, queue_cur, target>>

\* Fault: an entry that has become too short stays in the count.
ReadyKept(l) == ready_for_splicing_count

ReadyAfterTrim(l) ==
    IF l <= SpliceLen /\ len[queue_cur] > SpliceLen THEN ready_for_splicing_count - 1
    ELSE ready_for_splicing_count

\* What every trim does to the entry: version v of l bytes is in the file, and
\* fuzz_one() fetches the entry again.
Trimmed(l, v) ==
    /\ len' = [len EXCEPT ![queue_cur] = l]
    /\ file' = [file EXCEPT ![queue_cur] = v]
    /\ trim_done' = [trim_done EXCEPT ![queue_cur] = TRUE]
    /\ ready_for_splicing_count' = ReadyAfterTrim(l)
    /\ Call(queue_cur, "fuzz")
    /\ UNCHANGED <<queued_items, light, disable_trim, slotVars, queue_cur, target>>

\* Fault: the trimmed bytes do not reach the buffer.
RetakenMemStale(l) == buf

\* queue_testcase_retake_mem(): trim_case() has worked in the cached buffer itself,
\* so that nothing is reallocated and cache_size stays.
RetakenMem(l) ==
    IF buf[queue_cur] # NoBuf /\ l # len[queue_cur]
    THEN [buf EXCEPT ![queue_cur] = 1] ELSE buf

\* trim_case(), in place: a private buffer is changed like the file.
TrimPlain ==
    /\ pc = "trim"
    /\ \E l \in Lens :
       /\ l <= len[queue_cur]
       /\ Trimmed(l, IF l = len[queue_cur] THEN 0 ELSE 1)
       /\ buf' = RetakenMem(l)
       /\ own' = IF buf[queue_cur] = NoBuf
                 THEN [own EXCEPT !["testcase_buf"].ver = file'[queue_cur]] ELSE own
       /\ UNCHANGED <<cap, cache_size>>

\* The difference of the u32 lengths is added to the u64 size.
SizeAfterRetake(l) == cache_size + ((W + l - len[queue_cur]) % W)

Realloc(l) == l > len[queue_cur] \/ l + Slack < len[queue_cur]

\* queue_testcase_retake() after a custom trim, which may make the entry longer.
TrimCustom ==
    /\ pc = "trim"
    /\ \E l \in Lens, v \in Versions :
       /\ v = 0 => l = len[queue_cur]
       /\ Trimmed(l, v)
       /\ IF buf[queue_cur] = NoBuf THEN UNCHANGED <<buf, cap, cache_size>>
          ELSE /\ buf' = [buf EXCEPT ![queue_cur] = file'[queue_cur]]
               /\ IF Realloc(l)
                  THEN /\ cap' = [cap EXCEPT ![queue_cur] = l]
                       /\ cache_size' = SizeAfterRetake(l)
                  ELSE UNCHANGED <<cap, cache_size>>
       /\ UNCHANGED own

StoreRoom(l) == ~Overfull(l) /\ cache_count < max_cache_entries - 1

\* add_to_queue() and queue_testcase_store_mem() for a find or an import.
Add ==
    /\ pc \in {"fuzz", "idle"} /\ queued_items < Bound
    /\ queued_items' = queued_items + 1
    /\ \E l \in Lens :
          /\ len' = [len EXCEPT ![queued_items'] = l]
          /\ ready_for_splicing_count' =
                ready_for_splicing_count + IF l > SpliceLen THEN 1 ELSE 0
          /\ UNCHANGED <<file, light, trim_done, disable_trim>>
          /\ IF StoreRoom(l)
             THEN Register(queued_items', SearchFrom(max_cache_count))
             ELSE UNCHANGED cacheVars
    /\ UNCHANGED <<own, callVars>>

\* The entries a splice can take: the loop that draws one ends only with them.
Partners == {e \in Queue \ {queue_cur} : len[e] >= SpliceLen}

Splice ==
    /\ pc = "fuzz" /\ ready_for_splicing_count > 1
    /\ \E e \in Partners : Call(e, "fuzz")
    /\ UNCHANGED <<queueVars, cacheVars, own, queue_cur, target>>

\* The pointers of the round go out of scope.
EndRound ==
    /\ pc = "fuzz"
    /\ pc' = "idle" /\ target' = NoItem
    /\ own' = [p \in Places |-> NoOwn]
    /\ Forget("idle")
    /\ UNCHANGED <<cacheVars, queue_cur, q, tid, back>>

--------------------------------------------------------------------------------
Init ==
    /\ queued_items = Seeds
    /\ len \in {f \in [Items -> Lens] : \A e \in Items \ Queue : f[e] = Min(Lens)}
    /\ file = [e \in Items |-> 0] /\ light = {} /\ disable_trim \in BOOLEAN
    /\ trim_done = [e \in Items |-> FALSE]
    /\ ready_for_splicing_count = Cardinality({e \in Queue : len[e] > SpliceLen})
    /\ buf = [e \in Items |-> NoBuf] /\ cap = [e \in Items |-> 0]
    /\ cache = [s \in Slots |-> NoItem] /\ alloc = MaxEntries
    /\ cache_size = 0 /\ cache_count = 0 /\ max_cache_count = 0
    /\ max_cache_entries = MaxEntries /\ smallest_free = 0 /\ do_once = FALSE
    /\ own = [p \in Places |-> NoOwn]
    /\ queue_cur = NoItem /\ target = NoItem /\ q = NoItem /\ tid = 0
    /\ pc = "idle" /\ back = "idle"

Next == \/ GetHit \/ GetPrivate \/ Evict \/ Load
        \/ Select \/ Recalibrate \/ TrimPlain \/ TrimCustom
        \/ Add \/ Splice \/ EndRound

Spec == Init /\ [][Next]_vars

--------------------------------------------------------------------------------
(* Properties                                                               *)

Cached == {e \in Items : buf[e] # NoBuf}
Use    == SumFunctionOnSet(cap, Cached)

\* Every variable keeps its type.
TypeOK ==
    /\ queued_items \in Items /\ len \in [Items -> Lens] /\ file \in [Items -> Versions]
    /\ light \subseteq Queue /\ disable_trim \in BOOLEAN /\ trim_done \in [Items -> BOOLEAN]
    /\ ready_for_splicing_count \in 0..MaxItems
    /\ buf \in [Items -> Versions \cup {NoBuf}] /\ cap \in [Items -> Lens \cup {0}]
    /\ cache \in [Slots -> Items \cup {NoItem}] /\ alloc \in Nat
    /\ cache_size \in Nat /\ cache_count \in Nat
    /\ max_cache_count \in Nat /\ max_cache_entries \in Nat
    /\ smallest_free \in Nat /\ do_once \in BOOLEAN
    /\ own \in [Places -> [e : Items \cup {NoItem}, ver : Versions]]
    /\ queue_cur \in Items \cup {NoItem} /\ target \in Items \cup {NoItem}
    /\ q \in Items \cup {NoItem} /\ tid \in Nat
    /\ pc \in {"idle", "get", "trim", "fuzz"} /\ back \in {"idle", "trim", "fuzz"}

\* The table agrees with the buffers: each cached entry has one slot, the count
\* is the number of slots in use, no slot lies beyond the limit or the memory
\* of the table, also after the limit was learned, and the search for a free
\* slot, which starts at smallest_free, cannot miss one below it.
SlotsSound ==
    LET used == {s \in Slots : cache[s] # NoItem} IN
    /\ {cache[s] : s \in used} = Cached
    /\ Cardinality(used) = cache_count /\ Cardinality(Cached) = cache_count
    /\ \A s \in used : s < max_cache_count
    /\ max_cache_count <= max_cache_entries /\ max_cache_entries <= alloc
    /\ \A s \in Slots : s < smallest_free => s \in used

\* A cached buffer holds what the file of its entry holds and has room for it,
\* after either trim, and whether the entry was loaded or stored.
BufferIsFile == pc # "trim" => \A e \in Cached : buf[e] = file[e] /\ cap[e] >= len[e]

\* The two buffers fuzz_one() works with are what it asked for, until it asks
\* for others: neither is evicted or overwritten by fetching the other.
HeldBuffers ==
    pc = "fuzz" =>
      /\ buf[queue_cur] # NoBuf
            \/ own["testcase_buf"] = [e |-> queue_cur, ver |-> file[queue_cur]]
      /\ target # NoItem =>
            \/ buf[target] # NoBuf
            \/ own["splicecase_buf"] = [e |-> target, ver |-> file[target]]

\* Whenever the cache must make room there is an entry to evict: the loop that
\* draws random slots until it meets one ends.
VictimExists == pc = "get" /\ buf[q] = NoBuf /\ ~Uncached(q) /\ MustEvict(len[q]) => Victims # {}

\* A splice has a partner: ready_for_splicing_count never promises one that
\* trimming has made too short, or draws would go on for ever.
SpliceHasPartner == pc = "fuzz" /\ ready_for_splicing_count > 1 => Partners # {}

\* The cache never uses more memory than cache_size admits, so that subtracting
\* an evicted entry never takes the unsigned size below zero.
SizeCovers == cache_size >= Use

\* The bookkeeping of the cache: typed, slots and size sound.
TableSound == TypeOK /\ SlotsSound /\ SizeCovers

\* Loading or storing an entry never takes the memory in use over the limit of
\* AFL_TESTCACHE_SIZE; only a custom trim that makes an entry longer can.
LoadFits == [][cache_count' > cache_count => Use' <= MaxSize]_vars

\* afl-fuzz.h: cache_size is "How much of the testcase cache is used so far".
SizeIsUse == cache_size = Use

================================================================================
