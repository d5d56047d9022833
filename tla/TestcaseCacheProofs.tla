-------------------------- MODULE TestcaseCacheProofs --------------------------
(***************************************************************************)
(* The bookkeeping of the test case cache, for every number of entries and *)
(* slots, all lengths and limits: the table, its counters and the size     *)
(* agree with the buffers, a cached buffer is its file, the buffers of the *)
(* round stay, and neither random search can go on for ever.               *)
(***************************************************************************)
EXTENDS TestcaseCache, SetLemmas

\* The slots in use.
Used == {s \in Slots : cache[s] # NoItem}

\* The slots hold the cached entries, each once, below the limits of the table.
SlotInv ==
    /\ \A s \in Used : cache[s] \in Cached /\ s < max_cache_count
    /\ \A e \in Cached : \E s \in Used : cache[s] = e
    /\ \A s, r \in Used : cache[s] = cache[r] => s = r
    /\ Cached \subseteq Queue
    /\ Cardinality(Used) = cache_count /\ Cardinality(Cached) = cache_count
    /\ \A s \in Slots : s < smallest_free => s \in Used

\* A limit that was learned still leaves room for the entry being fuzzed, the
\* one to load and a victim.
LimitInv ==
    /\ max_cache_count <= max_cache_entries
    /\ 3 <= max_cache_entries /\ max_cache_entries <= MaxEntries
    /\ max_cache_entries <= alloc

\* The call in progress: tid is beyond the slots in use or one that was freed,
\* and an entry is trimmed in the first round that reaches its trimming.
CallInv ==
    /\ pc = "get" => /\ q \in Queue
                     /\ tid = max_cache_count \/ (tid < max_cache_count /\ tid \notin Used)
    /\ pc \in {"trim", "fuzz"} \/ (pc = "get" /\ back # "idle") => queue_cur \in Queue
    /\ pc = "get" /\ back = "trim" => q = queue_cur
    /\ pc = "trim" \/ (pc = "get" /\ back = "trim") => ~trim_done[queue_cur] /\ target = NoItem
    /\ pc = "get" /\ back = "fuzz" /\ q = queue_cur => target = NoItem

\* Buffers and files; what was never trimmed is the first version.
ContentInv ==
    /\ \A e \in Cached : buf[e] = file[e] /\ cap[e] >= len[e] /\ cap[e] \in Lens
    /\ \A e \in Items : ~trim_done[e] => file[e] = 0

\* The buffer the round has for e is cached or the private one.
Has(e, place) == buf[e] # NoBuf \/ own[place] = [e |-> e, ver |-> file[e]]

\* The buffers of the round, also while the partner is being fetched.
RoundInv ==
    /\ pc = "fuzz" => /\ Has(queue_cur, "testcase_buf")
                      /\ target # NoItem => Has(target, "splicecase_buf")
    /\ pc = "get" /\ back = "fuzz" /\ q # queue_cur => Has(queue_cur, "testcase_buf")

\* The entries long enough for splicing, and those of them not trimmed yet.
Long      == {e \in Queue : len[e] > SpliceLen}
Untrimmed == {e \in Long : ~trim_done[e]}

\* ready_for_splicing_count may miss entries that a custom trim made longer, but
\* it counts all that can still be trimmed.
SpliceInv ==
    /\ ready_for_splicing_count <= Cardinality(Long)
    /\ ready_for_splicing_count >= Cardinality(Untrimmed)

CacheInv ==
    /\ TypeOK /\ SlotInv /\ LimitInv /\ CallInv /\ ContentInv /\ RoundInv /\ SpliceInv
    /\ SizeCovers


--------------------------------------------------------------------------------
(* The table                                                                *)

\* The types of the constants and the sets made of them.
LEMMA Constants ==
    /\ MaxItems \in Nat /\ MaxEntries \in Nat /\ MaxSize \in Nat /\ SpliceLen \in Nat
    /\ MaxTrimItems \in 1..MaxItems /\ Seeds \in 1..MaxTrimItems
    /\ W \in Nat /\ Slack \in Nat /\ MaxEntries >= 3
    /\ \A l \in Lens : l \in Nat /\ l > 0 /\ 2 * l <= MaxSize /\ l < W
    /\ NoItem \notin Items /\ NoBuf \notin Versions
<1>1. \A n \in Nat \ {0, 1, 2} : n >= 3
  OBVIOUS
<1> QED
  BY <1>1, CacheAssumption DEF NoItem, Items, NoBuf, Versions

\* Sets of slots and of entries are finite.
LEMMA FiniteParts ==
    /\ \A S \in SUBSET Slots : IsFiniteSet(S) /\ Cardinality(S) \in Nat
    /\ \A S \in SUBSET Items : IsFiniteSet(S) /\ Cardinality(S) \in 0..MaxItems
<1>1. IsFiniteSet(Slots) /\ IsFiniteSet(Items)
  BY Constants, FS_Interval DEF Slots, Items
<1>2. Cardinality(1..MaxItems) = IF 1 > MaxItems THEN 0 ELSE MaxItems - 1 + 1
  BY Constants, FS_Interval
<1>3. Cardinality(Items) = MaxItems
  BY <1>2, Constants DEF Items
<1>4. \A S \in SUBSET Items : /\ IsFiniteSet(S) /\ Cardinality(S) \in Nat
                             /\ Cardinality(S) <= Cardinality(Items)
  BY <1>1, FS_Subset, FS_CardinalityType
<1> QED
  BY <1>1, <1>3, <1>4, Constants, FS_Subset, FS_CardinalityType

\* The queue is made of entries.
LEMMA QueueIsItems == TypeOK => Queue \subseteq Items
  BY Constants DEF TypeOK, Queue, Items

\* The search for a free slot ends within the limit, if there is room.
LEMMA FreeSlot ==
    ASSUME TypeOK, SlotInv, LimitInv, cache_count < max_cache_entries - 1,
           NEW u \in Nat, u = max_cache_count \/ (u < max_cache_count /\ u \notin Used)
    PROVE  LET s == FreeFrom(SearchFrom(u))
           IN  s \in Slots /\ s \notin Used /\ s < max_cache_entries
<1> DEFINE t == SearchFrom(u)
<1>0. /\ max_cache_count \in Nat /\ max_cache_entries \in Nat /\ smallest_free \in Nat
      /\ cache_count \in Nat
      /\ max_cache_count <= max_cache_entries /\ max_cache_entries <= MaxEntries
      /\ MaxEntries \in Nat
  BY Constants DEF TypeOK, LimitInv
<1>1. t \in Nat
  BY <1>0 DEF SearchFrom
<1>2. \E m \in Slots : m >= t /\ m \notin Used /\ m < max_cache_entries
  <2>1. CASE u < max_cache_entries
    BY <1>0, <2>1 DEF SearchFrom, SlotInv, Slots
  <2>2. CASE u >= max_cache_entries
    <3> DEFINE all == 0..(max_cache_entries - 1)
    <3>1. all \subseteq Slots /\ Cardinality(all) = max_cache_entries /\ IsFiniteSet(Used)
      <4>1. max_cache_entries > 0
        BY DEF LimitInv, TypeOK
      <4>2. Cardinality(0..(max_cache_entries - 1)) = max_cache_entries - 1 - 0 + 1
        BY <1>0, <4>1, FS_Interval
      <4>3. IsFiniteSet(Used)
        BY FiniteParts DEF Used
      <4> QED
        BY <1>0, <4>2, <4>3 DEF Slots
    <3>2. ~(all \subseteq Used)
      <4>1. all \subseteq Used => Cardinality(all) <= Cardinality(Used)
        BY <3>1, FS_Subset
      <4> QED
        BY <1>0, <3>1, <4>1 DEF SlotInv
    <3>3. PICK m \in all : m \notin Used
      BY <3>2
    <3>4. m \in Slots /\ m < max_cache_entries
      BY <1>0, <3>1
    <3>5. m >= smallest_free
      BY <1>0, <3>3, <3>4 DEF SlotInv, Slots
    <3> QED
      BY <2>2, <3>3, <3>4, <3>5 DEF SearchFrom
  <2> QED
    BY <1>0, <2>1, <2>2
<1> DEFINE free == {m \in Slots : m >= t /\ m \notin Used}
<1>3. free \in SUBSET Nat /\ free # {}
  BY <1>2 DEF Slots
<1>4. PICK m \in free : \A n \in free : m <= n
  BY <1>3, LeastOf
<1>5. m < max_cache_entries /\ m \in Nat /\ MaxEntries \in Nat
  BY <1>0, <1>2, <1>4 DEF Slots
<1> DEFINE First(s) == s >= t /\ cache[s] = NoItem /\ \A r \in t..(s - 1) : cache[r] # NoItem
<1>6. First(m)
  BY <1>0, <1>1, <1>4, <1>5 DEF Used, Slots
<1>7. FreeFrom(t) \in Slots /\ First(FreeFrom(t))
  <2>1. FreeFrom(t) = CHOOSE s \in Slots : First(s)
    BY DEF FreeFrom
  <2> QED
    BY <1>4, <1>6, <2>1
<1>8. FreeFrom(t) \in Nat
  BY <1>7 DEF Slots
<1>9. ~(m < FreeFrom(t))
  BY <1>1, <1>4, <1>5, <1>7, <1>8 DEF Used
<1> QED
  BY <1>0, <1>5, <1>7, <1>8, <1>9 DEF Used

\* Registering an entry that is not cached, at whatever slot the search finds.
LEMMA RegisterKeepsTable ==
    ASSUME TypeOK, SlotInv, LimitInv, ContentInv, SizeCovers,
           cache_count < max_cache_entries - 1,
           NEW u \in Nat, u = max_cache_count \/ (u < max_cache_count /\ u \notin Used),
           NEW e \in Items, e \notin Cached, e \in Queue', Queue \subseteq Queue',
           file' \in [Items -> Versions], len' \in [Items -> Lens],
           Register(e, SearchFrom(u))
    PROVE  /\ SlotInv' /\ LimitInv' /\ SizeCovers'
           /\ Cached' = Cached \cup {e}
           /\ \A c \in Items : c # e => buf'[c] = buf[c] /\ cap'[c] = cap[c]
           /\ buf'[e] = file'[e] /\ cap'[e] = len'[e]
           /\ Use' = Use + len'[e] /\ Use \in Nat /\ cache_count' = cache_count + 1
           /\ buf' \in [Items -> Versions \cup {NoBuf}] /\ cap' \in [Items -> Lens \cup {0}]
           /\ cache' \in [Slots -> Items \cup {NoItem}] /\ cache_size' \in Nat
           /\ cache_count' \in Nat /\ max_cache_count' \in Nat /\ smallest_free' \in Nat
<1> DEFINE s == FreeFrom(SearchFrom(u))
<1>1. s \in Slots /\ s \notin Used /\ s < max_cache_entries /\ s \in Nat
  BY FreeSlot DEF Slots
<1>2. /\ cache' = [cache EXCEPT ![s] = e]
      /\ buf' = [buf EXCEPT ![e] = file'[e]]
      /\ cap' = [cap EXCEPT ![e] = len'[e]]
      /\ cache_size' = cache_size + len'[e]
      /\ cache_count' = cache_count + 1
      /\ max_cache_count' = IF s >= max_cache_count THEN s + 1 ELSE max_cache_count
      /\ smallest_free' = IF s < max_cache_count /\ s = smallest_free THEN s + 1 ELSE smallest_free
      /\ UNCHANGED <<alloc, max_cache_entries, do_once>>
  BY DEF Register
<1> HIDE DEF s
<1>3. /\ buf' \in [Items -> Versions \cup {NoBuf}] /\ cap' \in [Items -> Lens \cup {0}]
      /\ cache' \in [Slots -> Items \cup {NoItem}] /\ cache_size' \in Nat
      /\ cache_count' \in Nat /\ max_cache_count' \in Nat /\ smallest_free' \in Nat
      /\ len'[e] \in Nat /\ len'[e] \in Lens /\ file'[e] \in Versions
  BY <1>1, <1>2, Constants DEF TypeOK
<1>4. /\ \A c \in Items : c # e => buf'[c] = buf[c] /\ cap'[c] = cap[c]
      /\ buf'[e] = file'[e] /\ cap'[e] = len'[e]
  BY <1>2, <1>3 DEF TypeOK
<1>5. Cached' = Cached \cup {e}
  BY <1>3, <1>4, Constants DEF Cached
<1>6. Used' = Used \cup {s} /\ cache'[s] = e /\ \A r \in Used : cache'[r] = cache[r]
  BY <1>1, <1>2, Constants DEF Used, TypeOK
<1>7. /\ Cached \in SUBSET Items /\ Used \in SUBSET Slots
      /\ IsFiniteSet(Cached) /\ IsFiniteSet(Used)
  BY FiniteParts DEF Cached, Used
<1>8. Cardinality(Cached') = cache_count' /\ Cardinality(Used') = cache_count'
  BY <1>1, <1>2, <1>5, <1>6, <1>7, FS_AddElement DEF SlotInv
<1>9. SlotInv'
  <2>1. \A r \in Used' : cache'[r] \in Cached' /\ r < max_cache_count'
    BY <1>1, <1>2, <1>5, <1>6, <1>7 DEF SlotInv, TypeOK, Slots
  <2>2. \A c \in Cached' : \E r \in Used' : cache'[r] = c
    BY <1>5, <1>6 DEF SlotInv
  <2>3. \A r, t \in Used' : cache'[r] = cache'[t] => r = t
    BY <1>6 DEF SlotInv
  <2>4. \A r \in Slots : r < smallest_free' => r \in Used'
    BY <1>1, <1>2, <1>6 DEF SlotInv, TypeOK, Slots
  <2>5. Cached' \subseteq Queue'
    BY <1>5 DEF SlotInv
  <2> QED
    BY <1>8, <2>1, <2>2, <2>3, <2>4, <2>5 DEF SlotInv
<1>10. LimitInv'
  BY <1>1, <1>2 DEF LimitInv, TypeOK
<1>11. Use' = Use + len'[e] /\ Use \in Nat
  <2>1. cap \in [Items -> Nat] /\ cap' \in [Items -> Nat]
    BY <1>3, Constants DEF TypeOK
  <2>2. Cached \cup {e} \in SUBSET Items /\ IsFiniteSet(Cached \cup {e})
        /\ (Cached \cup {e}) \ {e} = Cached
    BY <1>7, FiniteParts
  <2>3. SumFunctionOnSet(cap', Cached \cup {e}) = cap'[e] + SumFunctionOnSet(cap', Cached)
    BY <2>1, <2>2, SumRemove
  <2>4. SumFunctionOnSet(cap', Cached) = SumFunctionOnSet(cap, Cached)
    BY <1>4, <1>7, SumSame
  <2>5. SumFunctionOnSet(cap, Cached) \in Nat
    BY <1>7, <2>1, SumNat
  <2> QED
    BY <1>3, <1>4, <1>5, <2>3, <2>4, <2>5 DEF Use
<1>12. SizeCovers'
  BY <1>2, <1>3, <1>11 DEF SizeCovers, TypeOK
<1> QED
  BY <1>2, <1>3, <1>4, <1>5, <1>9, <1>10, <1>11, <1>12


\* Evicting a victim.
LEMMA EvictKeepsTable ==
    ASSUME TypeOK, SlotInv, LimitInv, ContentInv, SizeCovers, Evict
    PROVE  /\ SlotInv' /\ LimitInv' /\ SizeCovers' /\ tid' < max_cache_count' /\ tid' \notin Used'
           /\ Cached' \subseteq Cached
           /\ \A c \in Cached' : buf'[c] = buf[c] /\ cap'[c] = cap[c]
           /\ queue_cur \in Cached => queue_cur \in Cached'
           /\ buf' \in [Items -> Versions \cup {NoBuf}] /\ cap' \in [Items -> Lens \cup {0}]
           /\ cache' \in [Slots -> Items \cup {NoItem}] /\ cache_size' \in Nat
           /\ cache_count' \in Nat /\ smallest_free' \in Nat /\ tid' \in Nat
           /\ max_cache_entries' \in Nat /\ alloc' \in Nat /\ do_once' \in BOOLEAN
<1>1. PICK t \in Victims :
        /\ tid' = t
        /\ buf' = [buf EXCEPT ![cache[t]] = NoBuf]
        /\ cap' = [cap EXCEPT ![cache[t]] = 0]
        /\ cache_size' = cache_size - len[cache[t]]
        /\ cache' = [cache EXCEPT ![t] = NoItem]
        /\ cache_count' = cache_count - 1
        /\ smallest_free' = FreeAfterEvict(t)
  BY DEF Evict
<1> DEFINE old == cache[t]
<1>2. /\ t \in Nat /\ t < max_cache_count /\ max_cache_count \in Nat /\ t \in Slots /\ t \in Used
      /\ old \in Cached /\ old \in Items /\ old # queue_cur
  <2>1. t \in Nat /\ t < max_cache_count /\ max_cache_count \in Nat
    BY DEF Victims, TypeOK
  <2>2. t \in Slots
    BY <2>1, Constants DEF LimitInv, TypeOK, Slots
  <2> QED
    BY <2>1, <2>2 DEF Victims, Used, SlotInv, Cached
<1>3. /\ old \in Items /\ len[old] \in Lens /\ cap[old] \in Lens /\ cap[old] >= len[old]
      /\ len[old] \in Nat /\ cap[old] \in Nat
  BY <1>2, Constants DEF ContentInv, TypeOK
<1>4. cap \in [Items -> Nat] /\ cache_size \in Nat /\ cache_count \in Nat
  BY Constants DEF TypeOK
<1>5. /\ Cached \in SUBSET Items /\ Used \in SUBSET Slots
      /\ IsFiniteSet(Cached) /\ IsFiniteSet(Used)
  BY FiniteParts DEF Cached, Used
<1> HIDE DEF old
<1>6. Cached' = Cached \ {old} /\ \A c \in Cached' : buf'[c] = buf[c] /\ cap'[c] = cap[c]
  BY <1>1, <1>2 DEF Cached, TypeOK, old
<1>7. Used' = Used \ {t} /\ \A r \in Used' : cache'[r] = cache[r]
  BY <1>1, <1>2 DEF Used, TypeOK
<1>8. /\ Cardinality(Cached') = cache_count' /\ Cardinality(Used') = cache_count'
      /\ cache_count' \in Nat
  <2>1. Cached # {} /\ cache_count # 0
    BY <1>2, <1>5, FS_EmptySet DEF SlotInv
  <2>2. /\ Cardinality(Cached \ {old}) = Cardinality(Cached) - 1
        /\ Cardinality(Used \ {t}) = Cardinality(Used) - 1
    BY <1>2, <1>5, FS_RemoveElement
  <2>3. Cardinality(Cached) = cache_count /\ Cardinality(Used) = cache_count
    BY DEF SlotInv
  <2> QED
    BY <1>1, <1>4, <1>6, <1>7, <2>1, <2>2, <2>3
<1>9. Use = cap[old] + Use' /\ Use' \in Nat
  <2>1. SumFunctionOnSet(cap, Cached) = cap[old] + SumFunctionOnSet(cap, Cached \ {old})
    BY <1>2, <1>4, <1>5, SumRemove
  <2>2. IsFiniteSet(Cached \ {old}) /\ Cached \ {old} \in SUBSET Items
    BY <1>5, FiniteParts
  <2>3. SumFunctionOnSet(cap', Cached \ {old}) = SumFunctionOnSet(cap, Cached \ {old})
    BY <1>6, <2>2, SumSame
  <2>4. SumFunctionOnSet(cap, Cached \ {old}) \in Nat
    BY <1>4, <2>2, SumNat
  <2> QED
    BY <1>6, <2>1, <2>3, <2>4 DEF Use
<1>10. cache_size' >= Use' /\ cache_size' \in Nat
  <2>1. cache_size' = cache_size - len[old] /\ cache_size >= Use
    BY <1>1 DEF SizeCovers, old
  <2> QED
    BY <1>3, <1>4, <1>9, <2>1
<1>11. /\ buf' \in [Items -> Versions \cup {NoBuf}] /\ cap' \in [Items -> Lens \cup {0}]
       /\ cache' \in [Slots -> Items \cup {NoItem}] /\ smallest_free' \in Nat /\ tid' \in Nat
  BY <1>1, <1>2, <1>3 DEF TypeOK, FreeAfterEvict
<1>12. /\ LimitInv' /\ max_cache_entries' \in Nat /\ alloc' \in Nat /\ do_once' \in BOOLEAN
       /\ max_cache_count' = max_cache_count
  <2>1. max_cache_count' = max_cache_count /\ Learn(len[q]) /\ MustEvict(len[q])
    BY DEF Evict
  <2>2. cache_count >= 2
    BY <2>1, <1>4 DEF MustEvict, LimitInv, TypeOK
  <2>3. CASE UNCHANGED <<max_cache_entries, alloc, do_once>>
    BY <2>1, <2>3 DEF LimitInv, TypeOK
  <2>4. CASE ~UNCHANGED <<max_cache_entries, alloc, do_once>>
    <3>1. /\ cache_count < max_cache_entries /\ max_cache_count < max_cache_entries
          /\ max_cache_entries' =
               1 + IF max_cache_count > cache_count THEN max_cache_count ELSE cache_count
          /\ alloc' = max_cache_entries' + 1 /\ do_once' = TRUE
      BY <2>1, <2>4 DEF Learn
    <3> QED
      BY <1>2, <1>4, <2>1, <2>2, <3>1, Constants DEF LimitInv, TypeOK
  <2> QED
    BY <2>3, <2>4
<1>13. SlotInv'
  <2>1. \A r \in Used' : cache'[r] \in Cached' /\ r < max_cache_count'
    BY <1>2, <1>6, <1>7, <1>12 DEF SlotInv, old
  <2>2. \A c \in Cached' : \E r \in Used' : cache'[r] = c
    BY <1>6, <1>7 DEF SlotInv, old
  <2>3. \A r, u \in Used' : cache'[r] = cache'[u] => r = u
    BY <1>7 DEF SlotInv
  <2>4. \A r \in Slots : r < smallest_free' => r \in Used'
    BY <1>1, <1>2, <1>7 DEF SlotInv, TypeOK, Slots, FreeAfterEvict
  <2>5. Cached' \subseteq Queue'
    BY <1>6 DEF SlotInv, Evict, queueVars, Queue
  <2> QED
    BY <1>8, <2>1, <2>2, <2>3, <2>4, <2>5 DEF SlotInv
<1>14. tid' < max_cache_count' /\ tid' \notin Used'
  BY <1>1, <1>2, <1>7, <1>12
<1> QED
  BY <1>2, <1>6, <1>8, <1>10, <1>11, <1>12, <1>13, <1>14 DEF SizeCovers


--------------------------------------------------------------------------------
(* The call                                                                 *)

\* Nothing happens to the table, and no entry is trimmed.
QuietTable == UNCHANGED <<buf, cap, cache_size, slotVars, queued_items, len, file, trim_done,
                          ready_for_splicing_count>>

\* Then everything that is about the table alone stays true.
LEMMA QuietKeepsTable ==
    ASSUME SlotInv, LimitInv, ContentInv, SpliceInv, SizeCovers, QuietTable
    PROVE  /\ SlotInv' /\ LimitInv' /\ ContentInv' /\ SpliceInv' /\ SizeCovers'
           /\ Cached' = Cached /\ Queue' = Queue /\ Used' = Used
<1>1. Cached' = Cached /\ Queue' = Queue /\ Used' = Used
  BY DEF QuietTable, slotVars, Cached, Queue, Used
<1>2. SlotInv' /\ LimitInv' /\ ContentInv'
  BY <1>1 DEF QuietTable, slotVars, SlotInv, LimitInv, ContentInv
<1>3. Long' = Long /\ Untrimmed' = Untrimmed
  BY <1>1 DEF QuietTable, Long, Untrimmed
<1>4. SpliceInv' /\ SizeCovers'
  BY <1>1, <1>3 DEF QuietTable, SpliceInv, SizeCovers, Use
<1> QED
  BY <1>1, <1>2, <1>4

\* queue_testcase_get() returns to its caller with what it was asked for.
LEMMA ReturnKeepsRound ==
    ASSUME TypeOK, CallInv, RoundInv, pc = "get", Return,
           buf'[q] # NoBuf \/ back = "idle" \/ own'[PrivateFor] = [e |-> q, ver |-> file[q]],
           q # queue_cur => own'["testcase_buf"] = own["testcase_buf"],
           \A c \in Cached : buf'[c] # NoBuf,
           own' \in [Places -> [e : Items \cup {NoItem}, ver : Versions]]
    PROVE  CallInv' /\ RoundInv'
<1>1. /\ pc' = back /\ back' = "idle" /\ queue_cur' = queue_cur /\ back \in {"idle", "trim", "fuzz"}
      /\ target' = IF back = "fuzz" /\ q # queue_cur THEN q ELSE target
      /\ UNCHANGED <<queued_items, file, trim_done>>
  BY DEF Return, Forget, TypeOK
<1>2. CallInv'
  BY <1>1 DEF CallInv, Queue
<1>3. CASE back = "fuzz" /\ q = queue_cur
  <2>1. target' = NoItem /\ Has(queue_cur, "testcase_buf")'
    BY <1>1, <1>3 DEF CallInv, Has, PrivateFor
  <2> QED
    BY <1>1, <1>2, <1>3, <2>1 DEF RoundInv
<1>4. CASE back = "fuzz" /\ q # queue_cur
  <2>1. Has(queue_cur, "testcase_buf") /\ queue_cur \in Items
    BY <1>4, <1>1, QueueIsItems DEF RoundInv, CallInv, TypeOK
  <2>2. Has(queue_cur, "testcase_buf")'
    BY <1>1, <1>4, <2>1 DEF Has, Cached
  <2>3. Has(target, "splicecase_buf")'
    BY <1>1, <1>4 DEF Has, PrivateFor
  <2> QED
    BY <1>1, <1>2, <2>2, <2>3 DEF RoundInv
<1>5. CASE back # "fuzz"
  BY <1>1, <1>2, <1>5 DEF RoundInv
<1> QED
  BY <1>2, <1>3, <1>4, <1>5

\* A hit, and a load into a private buffer.
LEMMA GetKeepsInv ==
    ASSUME CacheInv, GetHit \/ GetPrivate
    PROVE  CacheInv'
<1> USE DEF CacheInv
<1>1. /\ pc = "get" /\ Return /\ UNCHANGED cacheVars /\ q \in Items
  BY QueueIsItems DEF GetHit, GetPrivate, CallInv, TypeOK
<1>2. /\ own' \in [Places -> [e : Items \cup {NoItem}, ver : Versions]]
      /\ q # queue_cur => own'["testcase_buf"] = own["testcase_buf"]
      /\ buf'[q] # NoBuf \/ back = "idle" \/ own'[PrivateFor] = [e |-> q, ver |-> file[q]]
  <2>1. CASE GetHit
    BY <2>1, <1>1 DEF GetHit, TypeOK, cacheVars
  <2>2. CASE GetPrivate
    <3>1. PrivateFor \in Places /\ "testcase_buf" \in Places
          /\ (q # queue_cur => PrivateFor # "testcase_buf")
      BY DEF PrivateFor, Places
    <3> QED
      BY <2>2, <3>1, <1>1 DEF GetPrivate, TypeOK
  <2> QED
    BY <2>1, <2>2
<1>3. QuietTable
  BY <1>1 DEF Return, Forget, cacheVars, QuietTable
<1>4. CallInv' /\ RoundInv'
  BY <1>1, <1>2, ReturnKeepsRound DEF cacheVars, Cached
<1>5. TypeOK'
  BY <1>1, <1>2 DEF TypeOK, Return, Forget, cacheVars, slotVars, Queue
<1> QED
  BY <1>3, <1>4, <1>5, QuietKeepsTable

\* A load into the cache.
LEMMA LoadKeepsInv ==
    ASSUME CacheInv, Load
    PROVE  CacheInv'
<1> USE DEF CacheInv
<1>1. /\ pc = "get" /\ Return /\ buf[q] = NoBuf /\ q \in Queue /\ q \in Items /\ q \notin Cached
      /\ Register(q, SearchFrom(tid)) /\ UNCHANGED own /\ ~MustEvict(len[q])
  BY QueueIsItems DEF Load, CallInv, TypeOK, Cached
<1>2. UNCHANGED <<queued_items, len, file, trim_done, ready_for_splicing_count>> /\ Queue' = Queue
  BY <1>1 DEF Return, Forget, Queue
<1>3. cache_count < max_cache_entries - 1
  BY <1>1 DEF MustEvict, TypeOK
<1>4. tid \in Nat /\ (tid = max_cache_count \/ (tid < max_cache_count /\ tid \notin Used))
  BY <1>1 DEF CallInv, TypeOK
<1>5. file' \in [Items -> Versions] /\ len' \in [Items -> Lens]
  BY <1>2 DEF TypeOK
<1>6. /\ SlotInv' /\ LimitInv' /\ SizeCovers'
      /\ Cached' = Cached \cup {q}
      /\ \A c \in Items : c # q => buf'[c] = buf[c] /\ cap'[c] = cap[c]
      /\ buf'[q] = file'[q] /\ cap'[q] = len'[q]
      /\ buf' \in [Items -> Versions \cup {NoBuf}] /\ cap' \in [Items -> Lens \cup {0}]
      /\ cache' \in [Slots -> Items \cup {NoItem}] /\ cache_size' \in Nat
      /\ cache_count' \in Nat /\ max_cache_count' \in Nat /\ smallest_free' \in Nat
  BY <1>1, <1>2, <1>3, <1>4, <1>5, RegisterKeepsTable
<1>7. CallInv' /\ RoundInv'
  <2>1. \A c \in Cached' : buf'[c] # NoBuf
    BY DEF Cached
  <2> QED
    BY <1>1, <1>6, <2>1, ReturnKeepsRound DEF TypeOK
<1>8. ContentInv'
  BY <1>1, <1>2, <1>5, <1>6, Constants DEF ContentInv, Cached
<1>9. SpliceInv'
  BY <1>2 DEF SpliceInv, Long, Untrimmed
<1>10. TypeOK'
  BY <1>1, <1>2, <1>6 DEF TypeOK, Return, Forget, Register
<1> QED
  BY <1>6, <1>7, <1>8, <1>9, <1>10

\* One turn of the loop that makes room.
LEMMA EvictKeepsInv ==
    ASSUME CacheInv, Evict
    PROVE  CacheInv'
<1> USE DEF CacheInv
<1>1. /\ pc = "get" /\ UNCHANGED <<queueVars, max_cache_count, own, queue_cur, target, q, pc, back>>
      /\ Queue' = Queue
  BY DEF Evict, queueVars, Queue
<1>2. /\ SlotInv' /\ LimitInv' /\ SizeCovers' /\ tid' < max_cache_count' /\ tid' \notin Used'
      /\ Cached' \subseteq Cached
      /\ \A c \in Cached' : buf'[c] = buf[c] /\ cap'[c] = cap[c]
      /\ queue_cur \in Cached => queue_cur \in Cached'
      /\ buf' \in [Items -> Versions \cup {NoBuf}] /\ cap' \in [Items -> Lens \cup {0}]
      /\ cache' \in [Slots -> Items \cup {NoItem}] /\ cache_size' \in Nat
      /\ cache_count' \in Nat /\ smallest_free' \in Nat /\ tid' \in Nat
      /\ max_cache_entries' \in Nat /\ alloc' \in Nat /\ do_once' \in BOOLEAN
  BY EvictKeepsTable
<1>3. CallInv'
  BY <1>1, <1>2 DEF CallInv, queueVars
<1>4. RoundInv'
  <2>1. CASE back = "fuzz" /\ q # queue_cur
    <3>1. Has(queue_cur, "testcase_buf") /\ queue_cur \in Items
      BY <1>1, <2>1, QueueIsItems DEF RoundInv, CallInv, TypeOK
    <3>2. Has(queue_cur, "testcase_buf")'
      BY <1>1, <1>2, <3>1 DEF Has, Cached, queueVars
    <3> QED
      BY <1>1, <3>2 DEF RoundInv
  <2>2. CASE ~(back = "fuzz" /\ q # queue_cur)
    BY <1>1, <2>2 DEF RoundInv
  <2> QED
    BY <2>1, <2>2
<1>5. ContentInv'
  BY <1>1, <1>2 DEF ContentInv, queueVars
<1>6. SpliceInv'
  BY <1>1 DEF SpliceInv, Long, Untrimmed, queueVars
<1>7. TypeOK'
  BY <1>1, <1>2 DEF TypeOK, queueVars
<1> QED
  BY <1>2, <1>3, <1>4, <1>5, <1>6, <1>7


--------------------------------------------------------------------------------
(* The callers                                                              *)

\* The calls of queue_testcase_get(), and the end of a round.
LEMMA CallKeepsInv ==
    ASSUME CacheInv, Select \/ Recalibrate \/ Splice \/ EndRound
    PROVE  CacheInv'
<1> USE DEF CacheInv
<1>1. QuietTable
  BY DEF Select, Recalibrate, Splice, EndRound, Forget, QuietTable, cacheVars, queueVars
<1>2. Queue' = Queue /\ Used' = Used /\ Cached' = Cached /\ UNCHANGED <<file, trim_done, buf>>
  BY <1>1, QuietKeepsTable DEF QuietTable
<1>3. CASE Select
  <2>1. /\ queue_cur' \in Queue /\ target' = NoItem /\ q' = queue_cur' /\ pc' = "get"
        /\ back' \in {"trim", "fuzz"} /\ (back' = "trim" => ~trim_done[queue_cur'])
        /\ tid' = max_cache_count /\ max_cache_count' = max_cache_count
        /\ light' \subseteq Queue /\ UNCHANGED <<disable_trim, own>>
    BY <1>1, <1>3 DEF Select, Call, Weighings, QuietTable, slotVars
  <2>2. CallInv' /\ RoundInv'
    BY <1>2, <2>1 DEF CallInv, RoundInv
  <2>3. TypeOK'
    BY <1>1, <1>2, <2>1, QueueIsItems DEF TypeOK, QuietTable, slotVars
  <2> QED
    BY <1>1, <2>2, <2>3, QuietKeepsTable
<1>4. CASE Recalibrate
  <2>1. /\ q' \in Queue /\ pc' = "get" /\ back' = "idle"
        /\ tid' = max_cache_count /\ max_cache_count' = max_cache_count
        /\ light' \subseteq Queue /\ UNCHANGED <<disable_trim, own, queue_cur, target>>
    BY <1>1, <1>4 DEF Recalibrate, Call, Weighings, QuietTable, slotVars
  <2>2. CallInv' /\ RoundInv'
    BY <1>2, <2>1 DEF CallInv, RoundInv
  <2>3. TypeOK'
    BY <1>1, <1>2, <2>1, QueueIsItems DEF TypeOK, QuietTable, slotVars
  <2> QED
    BY <1>1, <2>2, <2>3, QuietKeepsTable
<1>5. CASE Splice
  <2>1. /\ q' \in Queue \ {queue_cur} /\ pc = "fuzz" /\ pc' = "get" /\ back' = "fuzz"
        /\ tid' = max_cache_count /\ max_cache_count' = max_cache_count
        /\ UNCHANGED <<disable_trim, light, own, queue_cur, target>>
    BY <1>1, <1>5 DEF Splice, Call, Partners, QuietTable, slotVars, queueVars
  <2>2. CallInv'
    BY <1>2, <2>1 DEF CallInv
  <2>3. RoundInv'
    BY <1>2, <2>1 DEF RoundInv, Has
  <2>4. TypeOK'
    BY <1>1, <1>2, <2>1, QueueIsItems DEF TypeOK, QuietTable, slotVars
  <2> QED
    BY <1>1, <2>2, <2>3, <2>4, QuietKeepsTable
<1>6. CASE EndRound
  <2>1. /\ pc' = "idle" /\ target' = NoItem /\ own' = [p \in Places |-> NoOwn] /\ light' = {}
        /\ UNCHANGED <<disable_trim, queue_cur, q, tid, back>>
    BY <1>6 DEF EndRound, Forget
  <2>2. CallInv' /\ RoundInv'
    BY <2>1 DEF CallInv, RoundInv
  <2>3. NoOwn \in [e : Items \cup {NoItem}, ver : Versions]
    BY DEF NoOwn, Versions
  <2>4. TypeOK'
    BY <1>1, <1>2, <2>1, <2>3 DEF TypeOK, QuietTable, slotVars
  <2> QED
    BY <1>1, <2>2, <2>4, QuietKeepsTable
<1> QED
  BY <1>3, <1>4, <1>5, <1>6

\* The counts of entries for splicing after a trim of queue_cur to l bytes.
LEMMA TrimKeepsSplice ==
    ASSUME CacheInv, pc = "trim", NEW l \in Lens, len' = [len EXCEPT ![queue_cur] = l],
           trim_done' = [trim_done EXCEPT ![queue_cur] = TRUE],
           ready_for_splicing_count' = ReadyAfterTrim(l), UNCHANGED queued_items
    PROVE  SpliceInv' /\ ready_for_splicing_count' \in 0..MaxItems
<1> USE DEF CacheInv
<1>1. queue_cur \in Queue /\ queue_cur \in Items /\ ~trim_done[queue_cur] /\ Queue' = Queue
  BY QueueIsItems DEF CallInv, Queue
<1>2. /\ \A c \in Items : c # queue_cur => len'[c] = len[c] /\ trim_done'[c] = trim_done[c]
      /\ len'[queue_cur] = l /\ trim_done'[queue_cur] = TRUE
  BY <1>1 DEF TypeOK
<1>3. \A c \in Items : len[c] \in Nat /\ len'[c] \in Nat
  BY <1>1, <1>2, Constants DEF TypeOK
<1>4. /\ Long \in SUBSET Items /\ Untrimmed \in SUBSET Items /\ Long' \in SUBSET Items
      /\ Untrimmed' \in SUBSET Items
  BY <1>1, QueueIsItems DEF Long, Untrimmed
<1>5. /\ IsFiniteSet(Long) /\ IsFiniteSet(Untrimmed) /\ IsFiniteSet(Long')
      /\ IsFiniteSet(Untrimmed') /\ Cardinality(Long) \in Nat /\ Cardinality(Untrimmed) \in Nat
      /\ Cardinality(Long') \in Nat /\ Cardinality(Untrimmed') \in Nat
  BY <1>4, FiniteParts
<1>6. Untrimmed' = Untrimmed \ {queue_cur}
  BY <1>1, <1>2, QueueIsItems DEF Untrimmed, Long
<1>7. CASE l <= SpliceLen /\ len[queue_cur] > SpliceLen
  <2>1. Long' = Long \ {queue_cur} /\ queue_cur \in Long /\ queue_cur \in Untrimmed
    BY <1>1, <1>2, <1>3, <1>7, Constants, QueueIsItems DEF Untrimmed, Long
  <2>2. /\ Cardinality(Long') = Cardinality(Long) - 1
        /\ Cardinality(Untrimmed') = Cardinality(Untrimmed) - 1
    BY <1>5, <1>6, <2>1, FS_RemoveElement
  <2>3. ready_for_splicing_count' = ready_for_splicing_count - 1
    BY <1>7 DEF ReadyAfterTrim
  <2> QED
    BY <1>5, <2>2, <2>3, Constants DEF SpliceInv, TypeOK
<1>8. CASE ~(l <= SpliceLen /\ len[queue_cur] > SpliceLen)
  <2>1. Long \subseteq Long' /\ Untrimmed' \subseteq Untrimmed
    BY <1>1, <1>2, <1>3, <1>6, <1>8, Constants, QueueIsItems DEF Untrimmed, Long
  <2>2. Cardinality(Long) <= Cardinality(Long') /\ Cardinality(Untrimmed') <= Cardinality(Untrimmed)
    BY <1>5, <2>1, FS_Subset
  <2>3. ready_for_splicing_count' = ready_for_splicing_count
    BY <1>8 DEF ReadyAfterTrim
  <2> QED
    BY <1>5, <2>2, <2>3 DEF SpliceInv, TypeOK
<1> QED
  BY <1>7, <1>8

\* Either trim: the entry keeps its slot, and fuzz_one() asks for it again.
LEMMA TrimmedKeepsInv ==
    ASSUME CacheInv, pc = "trim", NEW l \in Lens, NEW v \in Versions, Trimmed(l, v),
           buf' \in [Items -> Versions \cup {NoBuf}], cap' \in [Items -> Lens \cup {0}],
           cache_size' \in Nat, own' \in [Places -> [e : Items \cup {NoItem}, ver : Versions]],
           Cached' = Cached, SizeCovers',
           \A c \in Items : c # queue_cur => buf'[c] = buf[c] /\ cap'[c] = cap[c],
           queue_cur \in Cached =>
              buf'[queue_cur] = v /\ cap'[queue_cur] >= l /\ cap'[queue_cur] \in Lens
    PROVE  CacheInv'
<1> USE DEF CacheInv
<1>1. /\ len' = [len EXCEPT ![queue_cur] = l]
      /\ file' = [file EXCEPT ![queue_cur] = v]
      /\ trim_done' = [trim_done EXCEPT ![queue_cur] = TRUE]
      /\ ready_for_splicing_count' = ReadyAfterTrim(l)
      /\ q' = queue_cur /\ pc' = "get" /\ back' = "fuzz" /\ tid' = max_cache_count
      /\ UNCHANGED <<queued_items, light, disable_trim, slotVars, queue_cur, target>>
  BY DEF Trimmed, Call
<1>2. queue_cur \in Queue /\ queue_cur \in Items /\ target = NoItem /\ Queue' = Queue
  BY <1>1, QueueIsItems DEF CallInv, Queue
<1>3. SpliceInv' /\ ready_for_splicing_count' \in 0..MaxItems
  BY <1>1, TrimKeepsSplice
<1>4. SlotInv' /\ LimitInv'
  BY <1>1, <1>2 DEF SlotInv, LimitInv, slotVars, Used
<1>5. ContentInv'
  BY <1>1, <1>2 DEF ContentInv, TypeOK, Cached
<1>6. CallInv' /\ RoundInv'
  BY <1>1, <1>2 DEF CallInv, RoundInv, slotVars
<1>7. TypeOK'
  BY <1>1, <1>2, <1>3 DEF TypeOK, slotVars
<1> QED
  BY <1>3, <1>4, <1>5, <1>6, <1>7

\* trim_case(): what changes in the cached buffer changes in the file.
LEMMA TrimPlainKeepsInv ==
    ASSUME CacheInv, TrimPlain
    PROVE  CacheInv'
<1> USE DEF CacheInv
<1>1. PICK l \in Lens :
        /\ l <= len[queue_cur]
        /\ Trimmed(l, IF l = len[queue_cur] THEN 0 ELSE 1)
        /\ buf' = RetakenMem(l)
        /\ own' = IF buf[queue_cur] = NoBuf
                  THEN [own EXCEPT !["testcase_buf"].ver = file'[queue_cur]] ELSE own
        /\ UNCHANGED <<cap, cache_size>>
  BY DEF TrimPlain
<1> DEFINE v == IF l = len[queue_cur] THEN 0 ELSE 1
<1>2. pc = "trim" /\ v \in Versions /\ queue_cur \in Items /\ ~trim_done[queue_cur]
  BY QueueIsItems DEF TrimPlain, Versions, CallInv
<1>3. file[queue_cur] = 0 /\ file'[queue_cur] = v
  BY <1>1, <1>2 DEF ContentInv, Trimmed, TypeOK
<1>4. /\ buf' \in [Items -> Versions \cup {NoBuf}] /\ Cached' = Cached
      /\ \A c \in Items : c # queue_cur => buf'[c] = buf[c]
      /\ queue_cur \in Cached => buf'[queue_cur] = v
  <2>1. 1 \in Versions /\ 1 # NoBuf
    BY DEF Versions, NoBuf
  <2>2. CASE buf[queue_cur] # NoBuf /\ l # len[queue_cur]
    <3>1. buf' = [buf EXCEPT ![queue_cur] = 1] /\ v = 1
      BY <1>1, <2>2 DEF RetakenMem
    <3> QED
      BY <1>2, <2>1, <2>2, <3>1 DEF Cached, TypeOK
  <2>3. CASE ~(buf[queue_cur] # NoBuf /\ l # len[queue_cur])
    <3>1. buf' = buf
      BY <1>1, <2>3 DEF RetakenMem
    <3> QED
      BY <1>3, <2>3, <3>1 DEF Cached, TypeOK, ContentInv
  <2> QED
    BY <2>2, <2>3
<1>5. own' \in [Places -> [e : Items \cup {NoItem}, ver : Versions]]
  BY <1>1, <1>2, <1>3 DEF TypeOK
<1>6. SizeCovers'
  BY <1>1, <1>4 DEF SizeCovers, Use
<1>7. queue_cur \in Cached => cap'[queue_cur] >= l /\ cap'[queue_cur] \in Lens
  <2>1. len[queue_cur] \in Nat /\ l \in Nat /\ \A c \in Lens : c \in Nat
    BY <1>2, Constants DEF TypeOK
  <2> QED
    BY <1>1, <2>1 DEF ContentInv
<1> QED
  BY <1>1, <1>2, <1>4, <1>5, <1>6, <1>7, TrimmedKeepsInv DEF TypeOK

\* The u64 size grows by at least what the buffer does.
LEMMA SizeGrows ==
    ASSUME NEW size \in Nat, NEW l \in Lens, NEW old \in Lens
    PROVE  /\ size + ((W + l - old) % W) \in Nat
           /\ size + ((W + l - old) % W) >= size + l - old
<1>1. l \in Nat /\ old \in Nat /\ W \in Nat /\ l < W /\ old < W
  BY Constants
<1>2. CASE l >= old
  <2>1. (W + l - old) % W = l - old
    BY <1>1, <1>2
  <2> QED
    BY <1>1, <1>2, <2>1
<1>3. CASE l < old
  <2>1. (W + l - old) % W = W + l - old
    BY <1>1, <1>3
  <2> QED
    BY <1>1, <1>3, <2>1
<1> QED
  BY <1>1, <1>2, <1>3

\* A custom trim, after which the file is read into the buffer again.
LEMMA TrimCustomKeepsInv ==
    ASSUME CacheInv, TrimCustom
    PROVE  CacheInv'
<1> USE DEF CacheInv
<1>1. PICK l \in Lens, v \in Versions :
        /\ Trimmed(l, v)
        /\ IF buf[queue_cur] = NoBuf THEN UNCHANGED <<buf, cap, cache_size>>
           ELSE /\ buf' = [buf EXCEPT ![queue_cur] = file'[queue_cur]]
                /\ IF Realloc(l)
                   THEN /\ cap' = [cap EXCEPT ![queue_cur] = l]
                        /\ cache_size' = SizeAfterRetake(l)
                   ELSE UNCHANGED <<cap, cache_size>>
        /\ UNCHANGED own
  BY DEF TrimCustom
<1>2. pc = "trim" /\ queue_cur \in Items /\ len[queue_cur] \in Lens /\ file'[queue_cur] = v
  BY <1>1, QueueIsItems DEF TrimCustom, CallInv, TypeOK, Trimmed
<1>3. l \in Nat /\ len[queue_cur] \in Nat /\ \A c \in Lens : c \in Nat
  BY <1>2, Constants
<1>4. CASE buf[queue_cur] = NoBuf
  <2>1. UNCHANGED <<buf, cap, cache_size>> /\ Cached' = Cached /\ queue_cur \notin Cached
    BY <1>1, <1>4 DEF Cached
  <2>2. SizeCovers'
    BY <2>1 DEF SizeCovers, Use
  <2> QED
    BY <1>1, <1>2, <2>1, <2>2, TrimmedKeepsInv DEF TypeOK
<1>5. CASE buf[queue_cur] # NoBuf
  <2>1. buf' = [buf EXCEPT ![queue_cur] = v]
    BY <1>1, <1>2, <1>5
  <2>2. /\ buf' \in [Items -> Versions \cup {NoBuf}] /\ buf'[queue_cur] = v
        /\ \A c \in Items : c # queue_cur => buf'[c] = buf[c]
    BY <1>2, <2>1 DEF TypeOK
  <2>3. Cached' = Cached /\ queue_cur \in Cached
    BY <1>2, <1>5, <2>2, Constants DEF Cached
  <2>4. cap[queue_cur] \in Lens /\ cap[queue_cur] >= len[queue_cur]
    BY <2>3 DEF ContentInv
  <2>5. CASE Realloc(l)
    <3>1. cap' = [cap EXCEPT ![queue_cur] = l] /\ cache_size' = SizeAfterRetake(l)
      BY <1>1, <1>5, <2>5
    <3>2. /\ cap' \in [Items -> Lens \cup {0}] /\ cap'[queue_cur] = l
          /\ \A c \in Items : c # queue_cur => cap'[c] = cap[c]
      BY <1>2, <3>1 DEF TypeOK
    <3>3. cache_size' \in Nat /\ cache_size' >= cache_size + l - len[queue_cur]
      BY <1>2, <3>1, SizeGrows DEF SizeAfterRetake, TypeOK
    <3> DEFINE rest == Cached \ {queue_cur}
    <3>4. /\ Cached \in SUBSET Items /\ rest \in SUBSET Items
          /\ IsFiniteSet(Cached) /\ IsFiniteSet(rest)
      BY FiniteParts DEF Cached
    <3>5. cap \in [Items -> Nat] /\ cap' \in [Items -> Nat]
      BY <3>2, Constants DEF TypeOK
    <3>6. Use = cap[queue_cur] + SumFunctionOnSet(cap, rest)
      BY <2>3, <3>4, <3>5, SumRemove DEF Use
    <3>7. SumFunctionOnSet(cap', Cached) = cap'[queue_cur] + SumFunctionOnSet(cap', rest)
      BY <2>3, <3>4, <3>5, SumRemove
    <3>8. SumFunctionOnSet(cap', rest) = SumFunctionOnSet(cap, rest)
      BY <3>2, <3>4, SumSame
    <3>9. SumFunctionOnSet(cap, rest) \in Nat
      BY <3>4, <3>5, SumNat
    <3>10. Use' = l + SumFunctionOnSet(cap, rest)
      BY <2>3, <3>2, <3>7, <3>8 DEF Use
    <3> HIDE DEF rest
    <3>11. cap[queue_cur] \in Nat /\ cache_size \in Nat /\ cache_size >= Use
      BY <1>3, <2>4 DEF SizeCovers, TypeOK
    <3>12. cache_size' >= Use'
      BY <1>3, <2>4, <3>3, <3>6, <3>9, <3>10, <3>11
    <3>13. SizeCovers'
      BY <3>12 DEF SizeCovers
    <3> QED
      BY <1>1, <1>2, <1>3, <2>2, <2>3, <3>2, <3>3, <3>13, TrimmedKeepsInv DEF TypeOK
  <2>6. CASE ~Realloc(l)
    <3>1. UNCHANGED <<cap, cache_size>>
      BY <1>1, <1>5, <2>6
    <3>2. cap[queue_cur] \in Nat /\ Slack \in Nat
      BY <1>3, <2>4, Constants
    <3>3. cap[queue_cur] >= l
      BY <1>3, <2>4, <2>6, <3>2 DEF Realloc
    <3>4. SizeCovers'
      BY <2>3, <3>1 DEF SizeCovers, Use
    <3> QED
      BY <1>1, <1>2, <2>2, <2>3, <2>4, <3>1, <3>3, <3>4, TrimmedKeepsInv DEF TypeOK
  <2> QED
    BY <2>5, <2>6
<1> QED
  BY <1>4, <1>5

\* A new entry, stored if there is room.
LEMMA AddKeepsInv ==
    ASSUME CacheInv, Add
    PROVE  CacheInv'
<1> USE DEF CacheInv
<1> DEFINE new == queued_items + 1
<1>1. PICK l \in Lens :
        /\ len' = [len EXCEPT ![new] = l]
        /\ ready_for_splicing_count' = ready_for_splicing_count + IF l > SpliceLen THEN 1 ELSE 0
        /\ IF StoreRoom(l) THEN Register(new, SearchFrom(max_cache_count))
           ELSE UNCHANGED cacheVars
  BY DEF Add
<1>2. /\ queued_items' = new /\ UNCHANGED <<file, light, trim_done, disable_trim, own, callVars>>
      /\ pc \in {"fuzz", "idle"} /\ queued_items < MaxItems
  BY Constants DEF Add, Bound, TypeOK, Items
<1>3. new \in Items /\ Queue' = Queue \cup {new} /\ new \notin Queue /\ Queue \subseteq Items
  BY <1>2, Constants DEF TypeOK, Items, Queue
<1> HIDE DEF new
<1>4. /\ len' \in [Items -> Lens] /\ len'[new] = l /\ l \in Nat
      /\ \A c \in Items : c # new => len'[c] = len[c]
  BY <1>1, <1>3, Constants DEF TypeOK
<1>5. SpliceInv' /\ ready_for_splicing_count' \in 0..MaxItems
  <2>1. /\ Long \in SUBSET Items /\ Untrimmed \in SUBSET Items /\ Long' \in SUBSET Items
        /\ Untrimmed' \in SUBSET Items /\ new \notin Long /\ new \notin Untrimmed
    BY <1>3 DEF Long, Untrimmed
  <2>2. /\ IsFiniteSet(Long) /\ IsFiniteSet(Untrimmed) /\ IsFiniteSet(Long')
        /\ IsFiniteSet(Untrimmed') /\ Cardinality(Long) \in Nat /\ Cardinality(Untrimmed) \in Nat
        /\ Cardinality(Long') \in Nat /\ Cardinality(Untrimmed') \in Nat
    BY <2>1, FiniteParts
  <2>3. Cardinality(Long') <= MaxItems
    BY <2>1, FiniteParts
  <2>4. CASE l > SpliceLen
    <3>1. Long' = Long \cup {new} /\ Untrimmed' \subseteq Untrimmed \cup {new}
      BY <1>2, <1>3, <1>4, <2>4 DEF Long, Untrimmed
    <3>2. /\ Cardinality(Long \cup {new}) = Cardinality(Long) + 1
          /\ Cardinality(Untrimmed \cup {new}) = Cardinality(Untrimmed) + 1
          /\ IsFiniteSet(Untrimmed \cup {new})
      BY <2>1, <2>2, FS_AddElement
    <3>3. Cardinality(Untrimmed') <= Cardinality(Untrimmed \cup {new})
      BY <3>1, <3>2, FS_Subset
    <3>4. ready_for_splicing_count' = ready_for_splicing_count + 1
      BY <1>1, <2>4
    <3>5. Cardinality(Long') = Cardinality(Long) + 1
      BY <3>1, <3>2
    <3>6. Cardinality(Untrimmed') <= Cardinality(Untrimmed) + 1
      BY <3>2, <3>3
    <3> QED
      BY <2>2, <2>3, <3>4, <3>5, <3>6, Constants DEF SpliceInv, TypeOK
  <2>5. CASE ~(l > SpliceLen)
    <3>1. Long' = Long /\ Untrimmed' = Untrimmed
      BY <1>2, <1>3, <1>4, <2>5 DEF Long, Untrimmed
    <3>2. ready_for_splicing_count' = ready_for_splicing_count
      BY <1>1, <2>5 DEF TypeOK
    <3> QED
      BY <3>1, <3>2 DEF SpliceInv, TypeOK
  <2> QED
    BY <2>4, <2>5
<1>6. new \notin Cached
  BY <1>3 DEF SlotInv
<1>7. /\ SlotInv' /\ LimitInv' /\ SizeCovers' /\ Cached \subseteq Cached'
      /\ Cached' \subseteq Cached \cup {new}
      /\ \A c \in Items : c # new => buf'[c] = buf[c] /\ cap'[c] = cap[c]
      /\ new \in Cached' => buf'[new] = file[new] /\ cap'[new] = l
      /\ buf' \in [Items -> Versions \cup {NoBuf}] /\ cap' \in [Items -> Lens \cup {0}]
      /\ cache' \in [Slots -> Items \cup {NoItem}] /\ cache_size' \in Nat
      /\ cache_count' \in Nat /\ max_cache_count' \in Nat /\ smallest_free' \in Nat
      /\ UNCHANGED <<alloc, max_cache_entries, do_once>>
  <2>1. CASE StoreRoom(l)
    <3>1. Register(new, SearchFrom(max_cache_count)) /\ cache_count < max_cache_entries - 1
      BY <1>1, <2>1 DEF StoreRoom
    <3>2. new \in Queue' /\ Queue \subseteq Queue' /\ file' \in [Items -> Versions]
          /\ max_cache_count \in Nat
      BY <1>2, <1>3 DEF TypeOK
    <3>3. /\ SlotInv' /\ LimitInv' /\ SizeCovers'
          /\ Cached' = Cached \cup {new}
          /\ \A c \in Items : c # new => buf'[c] = buf[c] /\ cap'[c] = cap[c]
          /\ buf'[new] = file'[new] /\ cap'[new] = len'[new]
          /\ buf' \in [Items -> Versions \cup {NoBuf}] /\ cap' \in [Items -> Lens \cup {0}]
          /\ cache' \in [Slots -> Items \cup {NoItem}] /\ cache_size' \in Nat
          /\ cache_count' \in Nat /\ max_cache_count' \in Nat /\ smallest_free' \in Nat
      BY <1>3, <1>4, <1>6, <3>1, <3>2, RegisterKeepsTable
    <3> QED
      BY <1>2, <1>4, <3>1, <3>3 DEF Register
  <2>2. CASE ~StoreRoom(l)
    <3>1. UNCHANGED cacheVars
      BY <1>1, <2>2
    <3>2. Cached' = Cached /\ Used' = Used
      BY <3>1 DEF Cached, Used, cacheVars, slotVars
    <3>3. SlotInv' /\ LimitInv' /\ SizeCovers'
      BY <1>3, <3>1, <3>2 DEF SlotInv, LimitInv, SizeCovers, Use, cacheVars, slotVars
    <3> QED
      BY <1>6, <3>1, <3>2, <3>3 DEF cacheVars, slotVars, TypeOK
  <2> QED
    BY <2>1, <2>2
<1>8. ContentInv'
  <2>1. ASSUME NEW c \in Cached'
        PROVE  buf'[c] = file'[c] /\ cap'[c] >= len'[c] /\ cap'[c] \in Lens
    <3>1. c \in Items
      BY DEF Cached
    <3>2. CASE c = new
      BY <1>2, <1>4, <1>7, <3>2
    <3>3. CASE c # new
      BY <1>2, <1>4, <1>7, <3>1, <3>3 DEF ContentInv
    <3> QED
      BY <3>2, <3>3
  <2> QED
    BY <1>2, <2>1 DEF ContentInv
<1>9. CallInv'
  BY <1>2, <1>3 DEF CallInv, callVars
<1>10. RoundInv'
  <2>1. \A c \in Items : buf[c] # NoBuf => buf'[c] # NoBuf
    BY <1>7 DEF Cached
  <2>2. CASE pc = "fuzz"
    <3>1. queue_cur \in Items /\ (target # NoItem => target \in Items)
      BY <1>3, <2>2 DEF CallInv, TypeOK
    <3> QED
      BY <1>2, <2>1, <2>2, <3>1 DEF RoundInv, Has, callVars
  <2>3. CASE pc = "idle"
    BY <1>2, <2>3 DEF RoundInv, callVars
  <2> QED
    BY <1>2, <2>2, <2>3
<1>11. TypeOK'
  BY <1>2, <1>3, <1>4, <1>5, <1>7 DEF TypeOK, callVars
<1> QED
  BY <1>5, <1>7, <1>8, <1>9, <1>10, <1>11

--------------------------------------------------------------------------------
(* Theorems                                                                 *)

\* An empty cache is sound.
LEMMA InitCache == Init => CacheInv
<1> SUFFICES ASSUME Init PROVE CacheInv
  OBVIOUS
<1>1. Cached = {} /\ Used = {}
  BY DEF Init, Cached, Used
<1>2. /\ queued_items = Seeds /\ Seeds \in Items /\ len \in [Items -> Lens]
      /\ trim_done = [e \in Items |-> FALSE] /\ Queue \subseteq Items
  BY Constants DEF Init, Items, Queue
<1>3. Long = Untrimmed /\ Long = {e \in Queue : len[e] > SpliceLen}
  BY <1>2 DEF Long, Untrimmed
<1>4. Cardinality(Long) \in 0..MaxItems
  <2>1. Long \in SUBSET Items
    BY <1>2, <1>3
  <2> QED
    BY <2>1, FiniteParts
<1>5. ready_for_splicing_count = Cardinality(Long)
  BY <1>3 DEF Init
<1>6. SpliceInv
  BY <1>3, <1>4, <1>5 DEF SpliceInv
<1>7. SizeCovers
  <2>1. SumFunctionOnSet(cap, {}) = 0
    BY FS_EmptySet, SumUnfolds
  <2> QED
    BY <1>1, <2>1 DEF SizeCovers, Use, Init
<1>8. SlotInv /\ LimitInv
  BY <1>1, FS_EmptySet, Constants DEF SlotInv, LimitInv, Init, Slots
<1>9. CallInv /\ RoundInv /\ ContentInv
  BY <1>1 DEF CallInv, RoundInv, ContentInv, Init
<1>10. TypeOK
  <2>1. NoOwn \in [e : Items \cup {NoItem}, ver : Versions] /\ 0 \in Versions
    BY DEF NoOwn, Versions
  <2> QED
    BY <1>2, <1>4, <1>5, <2>1, Constants DEF Init, TypeOK
<1> QED
  BY <1>6, <1>7, <1>8, <1>9, <1>10 DEF CacheInv

\* CacheInv is an invariant.
THEOREM CacheHolds == Spec => []CacheInv
<1>1. CacheInv /\ [Next]_vars => CacheInv'
  <2> SUFFICES ASSUME CacheInv, [Next]_vars PROVE CacheInv'
    OBVIOUS
  <2>1. CASE UNCHANGED vars
    <3>1. /\ QuietTable
          /\ UNCHANGED <<light, disable_trim, own, queue_cur, target, q, tid, pc, back>>
      BY <2>1 DEF vars, queueVars, cacheVars, callVars, QuietTable
    <3>2. Queue' = Queue /\ Used' = Used /\ Cached' = Cached
      BY <3>1, QuietKeepsTable DEF CacheInv
    <3>3. CallInv' /\ RoundInv'
      BY <3>1, <3>2 DEF CacheInv, CallInv, RoundInv, Has, QuietTable, slotVars
    <3>4. TypeOK'
      BY <3>1, <3>2 DEF CacheInv, TypeOK, QuietTable, slotVars
    <3> QED
      BY <3>1, <3>3, <3>4, QuietKeepsTable DEF CacheInv
  <2> QED
    BY <2>1, GetKeepsInv, EvictKeepsInv, LoadKeepsInv, CallKeepsInv, TrimPlainKeepsInv,
       TrimCustomKeepsInv, AddKeepsInv DEF Next
<1> QED
  BY <1>1, InitCache, PTL DEF Spec

\* The table, its counters, limits and size agree with the buffers: the size
\* never goes below zero, and no slot lies beyond the memory of the table.
THEOREM TableCorrect == Spec => []TableSound
<1>1. CacheInv => TableSound
  <2> SUFFICES ASSUME CacheInv PROVE TableSound
    OBVIOUS
  <2>1. {cache[s] : s \in Used} = Cached
    BY DEF CacheInv, SlotInv
  <2> QED
    BY <2>1 DEF CacheInv, TableSound, SlotsSound, SlotInv, LimitInv, Used
<1> QED
  BY <1>1, CacheHolds, PTL

\* A cached buffer has room for its file and holds it.
THEOREM BuffersCorrect == Spec => []BufferIsFile
<1>1. CacheInv => BufferIsFile
  BY DEF CacheInv, ContentInv, BufferIsFile
<1> QED
  BY <1>1, CacheHolds, PTL

\* Fetching one of the two buffers of a round never costs the other.
THEOREM HeldCorrect == Spec => []HeldBuffers
<1>1. CacheInv => HeldBuffers
  BY DEF CacheInv, RoundInv, Has, HeldBuffers
<1> QED
  BY <1>1, CacheHolds, PTL

\* The loop that draws a random slot has something to draw: there are two slots
\* in use whenever it runs, and queue_cur has one of them at most.
THEOREM VictimCorrect == Spec => []VictimExists
<1>1. CacheInv => VictimExists
  <2> SUFFICES ASSUME CacheInv, MustEvict(len[q]) PROVE Victims # {}
    BY DEF VictimExists
  <2>1. cache_count >= 2 /\ cache_count \in Nat
    BY DEF CacheInv, MustEvict, LimitInv, TypeOK
  <2>2. Cardinality(Used) = cache_count /\ IsFiniteSet(Used)
    BY FiniteParts DEF CacheInv, SlotInv, Used
  <2>3. PICK s \in Used : TRUE
    BY <2>1, <2>2, FS_EmptySet
  <2>4. PICK r \in Used : r # s
    <3>1. Cardinality({s}) = 1
      BY FS_Singleton
    <3>2. Used # {s}
      BY <2>1, <2>2, <3>1
    <3> QED
      BY <2>3, <3>2
  <2>5. cache[s] # cache[r] /\ cache[s] # NoItem /\ cache[r] # NoItem
    BY <2>4 DEF CacheInv, SlotInv, Used
  <2>6. s \in 0..(max_cache_count - 1) /\ r \in 0..(max_cache_count - 1)
    BY DEF CacheInv, SlotInv, TypeOK, Used, Slots
  <2> QED
    BY <2>5, <2>6 DEF Victims
<1> QED
  BY <1>1, CacheHolds, PTL

\* The loop that draws a partner for splicing has one to draw: two entries are
\* longer than SpliceLen whenever it runs.
THEOREM PartnerCorrect == Spec => []SpliceHasPartner
<1>1. CacheInv => SpliceHasPartner
  <2> SUFFICES ASSUME CacheInv, ready_for_splicing_count > 1 PROVE Partners # {}
    BY DEF SpliceHasPartner
  <2>1. Long \in SUBSET Items /\ IsFiniteSet(Long) /\ Cardinality(Long) \in Nat
    BY QueueIsItems, FiniteParts DEF CacheInv, Long
  <2>2. Cardinality(Long) > 1
    BY <2>1 DEF CacheInv, SpliceInv, TypeOK
  <2>3. ~(Long \subseteq {queue_cur})
    <3>1. IsFiniteSet({queue_cur}) /\ Cardinality({queue_cur}) = 1
      BY FS_Singleton
    <3>2. Long \subseteq {queue_cur} => Cardinality(Long) <= Cardinality({queue_cur})
      BY <3>1, FS_Subset
    <3> QED
      BY <2>1, <2>2, <3>1, <3>2
  <2>4. PICK e \in Long : e # queue_cur
    BY <2>3
  <2>5. e \in Queue /\ len[e] \in Nat /\ len[e] > SpliceLen
    BY <2>1, Constants DEF CacheInv, TypeOK, Long
  <2> QED
    BY <2>4, <2>5, Constants DEF Partners
<1> QED
  BY <1>1, CacheHolds, PTL

\* There is room by cache_size, which covers the memory in use, or at most one
\* other entry is left.
LEMMA LoadStepFits ==
    ASSUME CacheInv, Next, cache_count' > cache_count
    PROVE  Use' <= MaxSize
<1> USE DEF CacheInv
<1>1. Load \/ Add
  BY DEF Next, GetHit, GetPrivate, Evict, Select, Recalibrate, TrimPlain, TrimCustom, Trimmed,
      Splice, EndRound, cacheVars, slotVars, TypeOK
<1>2. CASE Load
  <2>1. /\ pc = "get" /\ Return /\ q \in Queue /\ q \in Items /\ q \notin Cached
        /\ Register(q, SearchFrom(tid)) /\ ~MustEvict(len[q])
    BY <1>2, QueueIsItems DEF Load, CallInv, TypeOK, Cached
  <2>2. UNCHANGED <<queued_items, len, file>> /\ Queue' = Queue
    BY <2>1 DEF Return, Forget, Queue
  <2>3. cache_count < max_cache_entries - 1
    BY <2>1 DEF MustEvict, TypeOK
  <2>4. tid \in Nat /\ (tid = max_cache_count \/ (tid < max_cache_count /\ tid \notin Used))
    BY <2>1 DEF CallInv, TypeOK
  <2>5. file' \in [Items -> Versions] /\ len' \in [Items -> Lens]
    BY <2>2 DEF TypeOK
  <2>6. Use' = Use + len'[q] /\ Use \in Nat
    BY <2>1, <2>2, <2>3, <2>4, <2>5, RegisterKeepsTable
  <2>7. len[q] \in Nat /\ 2 * len[q] <= MaxSize /\ MaxSize \in Nat
    BY <2>1, Constants DEF TypeOK
  <2>8. CASE ~Overfull(len[q])
    BY <2>2, <2>6, <2>7, <2>8 DEF Overfull, SizeCovers, TypeOK
  <2>9. CASE cache_count <= 1
    <3>1. Cached \in SUBSET Items /\ IsFiniteSet(Cached) /\ Cardinality(Cached) <= 1
      BY <2>9, FiniteParts DEF Cached, SlotInv
    <3>2. cap \in [Items -> Nat]
      BY Constants DEF TypeOK
    <3>3. CASE Cached = {}
      <4>1. Use = 0
        BY <3>1, <3>3, SumUnfolds DEF Use
      <4> QED
        BY <2>2, <2>6, <2>7, <4>1
    <3>4. CASE Cached # {}
      <4>1. PICK c \in Cached : TRUE
        BY <3>4
      <4>2. Cached \ {c} = {}
        <5>1. Cardinality(Cached \ {c}) = Cardinality(Cached) - 1 /\ IsFiniteSet(Cached \ {c})
              /\ Cardinality(Cached) \in Nat /\ Cardinality(Cached \ {c}) \in Nat
          BY <3>1, FS_RemoveElement, FiniteParts
        <5>2. Cardinality(Cached \ {c}) = 0
          BY <3>1, <5>1
        <5> QED
          BY <5>1, <5>2, FS_EmptySet
      <4>3. Use = cap[c] + SumFunctionOnSet(cap, Cached \ {c})
        BY <3>1, <3>2, SumRemove DEF Use
      <4>4. SumFunctionOnSet(cap, {}) = 0
        BY FS_EmptySet, SumUnfolds
      <4>5. cap[c] \in Lens /\ cap[c] \in Nat /\ 2 * cap[c] <= MaxSize
        BY Constants DEF ContentInv
      <4>6. Use = cap[c]
        <5>1. SumFunctionOnSet(cap, Cached \ {c}) = 0
          BY <4>2, <4>4
        <5> QED
          BY <4>3, <4>5, <5>1
      <4> QED
        BY <2>2, <2>6, <2>7, <4>5, <4>6
    <3> QED
      BY <3>3, <3>4
  <2> QED
    BY <2>1, <2>8, <2>9 DEF MustEvict, TypeOK
<1>3. CASE Add
  <2> DEFINE new == queued_items + 1
  <2>1. PICK l \in Lens :
          /\ len' = [len EXCEPT ![new] = l]
          /\ IF StoreRoom(l) THEN Register(new, SearchFrom(max_cache_count))
             ELSE UNCHANGED cacheVars
    BY <1>3 DEF Add
  <2>2. queued_items' = new /\ UNCHANGED file /\ queued_items < MaxItems
    BY <1>3, Constants DEF Add, Bound, TypeOK, Items
  <2>3. new \in Items /\ Queue' = Queue \cup {new} /\ new \notin Queue
    BY <2>2, Constants DEF TypeOK, Items, Queue
  <2> HIDE DEF new
  <2>4. StoreRoom(l)
    BY <2>1 DEF cacheVars, slotVars, TypeOK
  <2>5. Register(new, SearchFrom(max_cache_count)) /\ cache_count < max_cache_entries - 1
    BY <2>1, <2>4 DEF StoreRoom
  <2>6. new \notin Cached /\ new \in Queue' /\ Queue \subseteq Queue' /\ len'[new] = l
        /\ max_cache_count \in Nat /\ file' \in [Items -> Versions] /\ len' \in [Items -> Lens]
    BY <2>1, <2>2, <2>3 DEF SlotInv, TypeOK
  <2>7. Use' = Use + len'[new] /\ Use \in Nat
    BY <2>3, <2>5, <2>6, RegisterKeepsTable
  <2>8. cache_size + l < MaxSize /\ l \in Nat /\ MaxSize \in Nat
    BY <2>4, Constants DEF StoreRoom, Overfull, TypeOK
  <2> QED
    BY <2>6, <2>7, <2>8 DEF SizeCovers, TypeOK
<1> QED
  BY <1>1, <1>2, <1>3

\* Loading and storing respect the limit on the memory of the cache.
THEOREM LoadsFit == Spec => LoadFits
<1>1. CacheInv /\ [Next]_vars => [cache_count' > cache_count => Use' <= MaxSize]_vars
  BY LoadStepFits
<1> QED
  BY <1>1, CacheHolds, PTL DEF Spec, LoadFits

================================================================================
