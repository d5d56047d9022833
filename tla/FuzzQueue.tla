------------------------------- MODULE FuzzQueue -------------------------------
(***************************************************************************)
(* The seed queue of afl-fuzz with GreenAFL's energy costs                 *)
(* (afl-fuzz-queue.c): who holds each byte of the coverage map             *)
(* (top_rated), how often an entry does (tc_ref), the traces kept for it   *)
(* (trace_mini), and the favored set that cull_queue() derives from them.  *)
(*                                                                         *)
(* The module declares the queue's state and the functions that change it. *)
(* FuzzLoop sequences them the way afl-fuzz calls them.                    *)
(*                                                                         *)
(* An entry is its index in queue_buf.  An execution trace is the set of   *)
(* map bytes it touches, and exec_cksum is that set itself ({} for the     *)
(* checksum 0).  An optional buffer is a set with at most one element:     *)
(* trace_mini[q] = {} is the NULL pointer, {bits} a kept trace.            *)
(***************************************************************************)
EXTENDS EnergyHeuristic, FiniteSets, Functions

CONSTANTS
    MaxItems,          \* bound on the queue: no input is found beyond it
    MapSize,           \* bytes in the coverage map
    Lens,              \* input lengths
    ExecTimes,         \* execution times a calibration can measure
    Domains,           \* energy domains: the CPU package and DRAM
    Readings,          \* values a run can leave in an energy map (0: none)
    MaxLevel,          \* fuzz_level saturates here
    MaxHits,           \* n_fuzz saturates here
    FixedSeed,         \* -s: timing must not influence the scores
    DisableRedundant   \* AFL_DISABLE_REDUNDANT

ASSUME QueueAssumption ==
    /\ MaxItems \in Nat \ {0}
    /\ MapSize \in Nat \ {0}
    /\ Lens \subseteq Nat \ {0}
    /\ ExecTimes \subseteq Nat \ {0}
    /\ Readings \subseteq Nat
    /\ IsFiniteSet(Domains)
    /\ MaxLevel \in Nat \ {0}
    /\ MaxHits \in Nat \ {0}
    /\ FixedSeed \in BOOLEAN
    /\ DisableRedundant \in BOOLEAN

Ids    == 0..(MaxItems - 1)
Bytes  == 0..(MapSize - 1)
Traces == (SUBSET Bytes) \ {{}}
None   == -1                      \* the NULL entry pointer, and "no id"

\* The power schedules in the order of their enum.
FAST_TO_QUAD == {"FAST", "COE", "LIN", "QUAD"}
AFLFast      == FAST_TO_QUAD \cup {"RARE"}
Schedules    == {"EXPLORE", "MMOPT", "EXPLOIT", "SEEK"} \cup AFLFast

VARIABLES
    schedule,                                  \* the power schedule in force
    queued_items, active_items, pending_not_fuzzed,
    len, exec_us, exec_cksum, n_fuzz_entry,    \* per entry: size, speed, trace
    cal_failed, trim_done, was_fuzzed, fuzz_level, disabled,
    cost,                                      \* [cpu|mem]_energy_cost
    favored, fs_redundant, queued_favored, pending_favored, smallest_favored,
    top_rated, tc_ref, trace_mini, score_changed,
    min_energy, max_energy,                    \* the range seen by calibrations
    n_fuzz                                     \* executions per trace

countVars   == <<queued_items, active_items, pending_not_fuzzed>>
inputVars   == <<len, exec_us, exec_cksum, n_fuzz_entry>>
historyVars == <<cal_failed, trim_done, was_fuzzed, fuzz_level, disabled>>
favorVars   == <<favored, fs_redundant, queued_favored, pending_favored,
                 smallest_favored>>
ownerVars   == <<top_rated, tc_ref, trace_mini, score_changed>>
rangeVars   == <<min_energy, max_energy>>
queueVars   == <<schedule, countVars, inputVars, historyVars, cost, favorVars,
                 ownerVars, rangeVars, n_fuzz>>

Items == 0..(queued_items - 1)    \* the entries in queue_buf

--------------------------------------------------------------------------------
(* Scores                                                                   *)

\* The smallest power of two that is at least n; 0 wraps to 0.
NextPow2(n) ==
    IF n = 0 THEN 0
    ELSE CHOOSE p \in {2^k : k \in 0..n} : p >= n /\ \A k \in 0..n : 2^k >= n => p <= 2^k

\* fuzz_p2: how much an entry has been fuzzed, as the schedule sees it.
FuzzP2(q) ==
    IF schedule \in FAST_TO_QUAD THEN 0
    ELSE IF schedule = "RARE" THEN NextPow2(n_fuzz[n_fuzz_entry[q]])
    ELSE fuzz_level[q]

\* Energy of an entry over all domains.
Energy(q) == SumFunction(cost[q])

\* fav_factor: speed times size, less for frugal entries.
FavFactor(q) ==
    LET factor == IF schedule \in {"RARE", "SEEK"} \/ FixedSeed
                  THEN 4 * len[q]
                  ELSE exec_us[q] * len[q]
    IN  IF \A d \in Domains : cost[q][d] = 0
        THEN factor
        ELSE DividedBy(factor, EnergyBonus(Energy(q), SumFunction(min_energy),
                                           SumFunction(max_energy)))

\* <<q, p>>: in a contest for a byte that p holds, q wins.
Beats == {qp \in Ids \X Ids :
             FuzzP2(qp[1]) <= FuzzP2(qp[2]) /\ FavFactor(qp[1]) <= FavFactor(qp[2])}

--------------------------------------------------------------------------------
(* Operations.  Each constrains only the variables it names.               *)

\* The bytes q takes of those it contends for.  "beats" tells who wins.
Won(q, bytes, beats) ==
    {b \in bytes : /\ ~disabled[q]
                   /\ top_rated[b] = None \/ <<q, top_rated[b]>> \in beats}

\* Fault: the previous holders keep their references.
RefAfterNoLoss(q, p, won) == tc_ref[p] + (IF p = q THEN Cardinality(won) ELSE 0)

\* p's reference count once q has taken the bytes won: each holder gives one
\* up per byte it loses, and q gets one per byte it takes.
RefAfter(q, p, won) ==
    tc_ref[p] - Cardinality({b \in won : top_rated[b] = p})
              + (IF p = q THEN Cardinality(won) ELSE 0)

\* The last reference of a loser frees its trace.
Frees(q, p, won) ==
    p # q /\ RefAfter(q, p, won) = 0 /\ \E b \in won : top_rated[b] = p

\* q needs a trace when it takes a byte without having one.  The loop visits
\* the bytes in order, so q drops its own trace on the way if the only byte
\* it holds is the first it takes.
Renews(q, won) ==
    /\ won # {}
    /\ \/ trace_mini[q] = {}
       \/ tc_ref[q] = 1 /\ \E b \in won : top_rated[b] = q /\ \A c \in won : b <= c

\* q contends for "bytes"; "bits" is what trace_bits holds meanwhile.
contend(q, bytes, bits, beats) ==
    LET won == Won(q, bytes, beats)
    IN  /\ top_rated' = [b \in Bytes |-> IF b \in won THEN q ELSE top_rated[b]]
        /\ tc_ref' = [p \in Ids |-> RefAfter(q, p, won)]
        /\ trace_mini' = [p \in Ids |->
               IF p = q /\ Renews(q, won) THEN {bits}
               ELSE IF Frees(q, p, won) THEN {} ELSE trace_mini[p]]
        /\ score_changed' = (score_changed \/ won # {})

\* Fault: trace_mini is filled from a map that other runs have touched.
update_bitmap_score_AnyMap(q, tr) == contend(q, tr, Bytes, Beats')

\* q has just been executed with trace tr, and its scores are the new ones.
update_bitmap_score(q, tr) == contend(q, tr, tr, Beats')

\* q contends for byte b alone, with whatever trace_bits holds.
update_bitmap_rescore(q, b, bits) == contend(q, {b}, bits, Beats)

\* One byte of cull_queue()'s walk: the holder of a byte that no taken trace
\* covers yet is taken, if its trace is kept.
ScanByte(s, b) ==
    IF b \in s.left /\ top_rated[b] # None /\ trace_mini[top_rated[b]] # {}
    THEN [picks |-> s.picks \cup {top_rated[b]},
          left  |-> s.left \ UNION trace_mini[top_rated[b]]]
    ELSE s

\* The holders cull_queue() takes when it walks the first n bytes.
PicksUpTo(n) ==
    LET scan[i \in 0..n] ==
            IF i = 0 THEN [picks |-> {}, left |-> Bytes] ELSE ScanByte(scan[i - 1], i - 1)
    IN  scan[n].picks

\* Fault: the walk stops one byte short.
TopPicksShort == PicksUpTo(MapSize - 1)

TopPicks == PicksUpTo(MapSize)

\* The entries of S that are still waiting for their first fuzzing round.
Pending(S) == {q \in S : ~was_fuzzed[q]}

\* Fault: the last favorite instead of the first.
SmallestLast(S) == IF S = {} THEN None ELSE CHOOSE q \in S : \A p \in S : q >= p

\* The least id of a set, -1 if there is none.
Smallest(S) == IF S = {} THEN None ELSE CHOOSE q \in S : \A p \in S : q <= p

\* cull_queue() with mark_as_redundant() on every entry that is not disabled.
cull_queue ==
    LET fav     == {q \in Items : ~disabled[q] /\ q \in TopPicks}
        dropped == {q \in Items : ~disabled[q] /\ q \notin fav /\ ~fs_redundant[q]}
    IN  IF ~score_changed
        THEN UNCHANGED <<favorVars, ownerVars, disabled>>
        ELSE /\ favored' = [q \in Ids |-> q \in fav]
             /\ queued_favored' = Cardinality(fav)
             /\ pending_favored' = Cardinality(Pending(fav))
             /\ smallest_favored' = Smallest(Pending(fav))
             /\ fs_redundant' = [q \in Ids |->
                    IF q \in Items /\ ~disabled[q] THEN q \notin fav ELSE fs_redundant[q]]
             /\ trace_mini' = [q \in Ids |-> IF q \in dropped THEN {} ELSE trace_mini[q]]
             /\ disabled' = [q \in Ids |-> disabled[q] \/ (DisableRedundant /\ q \in dropped)]
             /\ score_changed' = FALSE
             /\ UNCHANGED <<top_rated, tc_ref>>

\* A new entry of length l whose trace is tr, at the end of queue_buf.
add_to_queue(l, tr) ==
    /\ queued_items < MaxItems
    /\ queued_items' = queued_items + 1
    /\ active_items' = active_items + 1
    /\ pending_not_fuzzed' = pending_not_fuzzed + 1
    /\ len' = [len EXCEPT ![queued_items] = l]
    /\ exec_cksum' = [exec_cksum EXCEPT ![queued_items] = tr]
    /\ IF schedule \in AFLFast
       THEN /\ n_fuzz_entry' = [n_fuzz_entry EXCEPT ![queued_items] = tr]
            /\ n_fuzz' = [n_fuzz EXCEPT ![tr] = 1]
       ELSE UNCHANGED <<n_fuzz_entry, n_fuzz>>

\* Fault: the entries taken out still count as active.
disable_StillActive(D) ==
    /\ disabled' = [q \in Ids |-> disabled[q] \/ q \in D]
    /\ was_fuzzed' = [q \in Ids |-> was_fuzzed[q] \/ q \in D]
    /\ pending_not_fuzzed' = pending_not_fuzzed - Cardinality(Pending(D))
    /\ UNCHANGED active_items

\* Take the entries D out of the selection: they count as fuzzed from now on.
disable(D) ==
    LET unseen == Cardinality(Pending(D))
    IN  /\ disabled' = [q \in Ids |-> disabled[q] \/ q \in D]
        /\ was_fuzzed' = [q \in Ids |-> was_fuzzed[q] \/ q \in D]
        /\ pending_not_fuzzed' = pending_not_fuzzed - unseen
        /\ active_items' = active_items - unseen

\* An execution whose trace was tr, counted if the schedule needs the counts.
count_execution(tr) ==
    n_fuzz' = IF schedule \in AFLFast /\ n_fuzz[tr] < MaxHits
              THEN [n_fuzz EXCEPT ![tr] = @ + 1] ELSE n_fuzz

--------------------------------------------------------------------------------
\* The queue as main() finds it: seeds of any length, nothing executed yet.
InitQueue(seeds) ==
    /\ queued_items = seeds /\ active_items = seeds /\ pending_not_fuzzed = seeds
    /\ len \in {f \in [Ids -> Lens \cup {0}] : \A q \in Ids : f[q] = 0 <=> q >= seeds}
    /\ exec_us = [q \in Ids |-> 0]
    /\ exec_cksum = [q \in Ids |-> {}]
    /\ n_fuzz_entry = [q \in Ids |-> {}]
    /\ cal_failed = [q \in Ids |-> 0]
    /\ trim_done = [q \in Ids |-> FALSE]
    /\ was_fuzzed = [q \in Ids |-> FALSE]
    /\ fuzz_level = [q \in Ids |-> 0]
    /\ disabled = [q \in Ids |-> FALSE]
    /\ cost = [q \in Ids |-> [d \in Domains |-> 0]]
    /\ favored = [q \in Ids |-> FALSE]
    /\ fs_redundant = [q \in Ids |-> FALSE]
    /\ queued_favored = 0 /\ pending_favored = 0 /\ smallest_favored = None
    /\ top_rated = [b \in Bytes |-> None]
    /\ tc_ref = [q \in Ids |-> 0]
    /\ trace_mini = [q \in Ids |-> {}]
    /\ score_changed = FALSE
    /\ min_energy = [d \in Domains |-> 0]
    /\ max_energy = [d \in Domains |-> 0]
    /\ n_fuzz = [t \in SUBSET Bytes |-> 0]

================================================================================
