----------------------------- MODULE FuzzLoopProofs -----------------------------
(***************************************************************************)
(* Proofs about FuzzLoop for every value of its constants: any queue size, *)
(* map size, schedule, number of retries and set of readings.              *)
(*                                                                         *)
(* Energy: a sample is charged to queue_cur, whichever entry was run, and  *)
(* the range of the energy terms moves only where a calibration is retried *)
(* in fuzz_one().                                                          *)
(*                                                                         *)
(* Counters: cull_queue() recounts them, add_to_queue(), abandon_entry and *)
(* the dry run adjust them by hand, and they agree with the flags all the  *)
(* time.                                                                   *)
(*                                                                         *)
(* Owners: update_bitmap_score(), update_bitmap_rescore() and              *)
(* mark_as_redundant() keep tc_ref, which counts the bytes an entry holds, *)
(* and a trace is kept only by a holder; who wins a contest plays no part  *)
(* in the argument.  For a stable target the trace kept is the entry's     *)
(* own.                                                                    *)
(***************************************************************************)
EXTENDS FuzzLoop, SetLemmas, FiniteSetTheorems, TLAPS

--------------------------------------------------------------------------------
(* Finite sets of ids and bytes                                             *)

\* Ids and Bytes are finite, so every set of entries or bytes has a size.
LEMMA FiniteIds ==
    /\ IsFiniteSet(Ids) /\ IsFiniteSet(Bytes)
    /\ \A S \in SUBSET Ids : IsFiniteSet(S) /\ Cardinality(S) \in Nat
    /\ \A S \in SUBSET Bytes : IsFiniteSet(S) /\ Cardinality(S) \in Nat
<1>1. MaxItems - 1 \in Int /\ MapSize - 1 \in Int
  BY QueueAssumption
<1>2. IsFiniteSet(Ids) /\ IsFiniteSet(Bytes)
  BY <1>1, FS_Interval DEF Ids, Bytes
<1>3. ASSUME NEW S, IsFiniteSet(S), NEW T \in SUBSET S
      PROVE  IsFiniteSet(T) /\ Cardinality(T) \in Nat
  BY <1>3, FS_Subset, FS_CardinalityType
<1> QED
  BY <1>2, <1>3

\* The queue's ids are ids of the model.
LEMMA ItemsAreIds ==
    ASSUME queued_items \in 1..MaxItems
    PROVE  Items \subseteq Ids
BY QueueAssumption DEF Items, Ids

\* NULL is no id.
LEMMA NoneIsNoId == None \notin Ids /\ None \in Int
BY DEF None, Ids

\* cull_queue() finds the first of a set of entries, or none.
LEMMA SmallestType ==
    ASSUME NEW S \in SUBSET Ids
    PROVE  /\ S = {} => Smallest(S) = None
           /\ S # {} => Smallest(S) \in S /\ \A q \in S : Smallest(S) <= q
<1>1. S \in SUBSET Nat
  BY DEF Ids
<1>2. S # {} => \E x \in S : \A y \in S : x <= y
  BY <1>1, LeastOf
<1> QED
  BY <1>2 DEF Smallest

--------------------------------------------------------------------------------
(* Types of the operations                                                  *)

\* A contest for bytes, of either kind, keeps the types of what it changes.
LEMMA ContendType ==
    ASSUME TypeOK, NEW q \in Ids, NEW bytes \in SUBSET Bytes, NEW bits \in SUBSET Bytes,
           NEW beats, contend(q, bytes, bits, beats)
    PROVE  /\ top_rated' \in [Bytes -> Ids \cup {None}]
           /\ tc_ref' \in [Ids -> Int]
           /\ trace_mini' \in [Ids -> SUBSET SUBSET Bytes]
           /\ score_changed' \in BOOLEAN
<1> DEFINE won == Won(q, bytes, beats)
<1>1. won \in SUBSET Bytes
  BY DEF Won
<1>2. \A p \in Ids : RefAfter(q, p, won) \in Int
  <2> SUFFICES ASSUME NEW p \in Ids PROVE RefAfter(q, p, won) \in Int
    OBVIOUS
  <2>1. {b \in won : top_rated[b] = p} \in SUBSET Bytes
    BY <1>1
  <2>2. Cardinality(won) \in Nat /\ Cardinality({b \in won : top_rated[b] = p}) \in Nat
    BY <1>1, <2>1, FiniteIds
  <2> QED
    BY <2>2 DEF RefAfter, TypeOK
<1>3. top_rated' = [b \in Bytes |-> IF b \in won THEN q ELSE top_rated[b]]
  BY DEF contend
<1>4. tc_ref' = [p \in Ids |-> RefAfter(q, p, won)]
  BY DEF contend
<1>5. trace_mini' = [p \in Ids |->
               IF p = q /\ Renews(q, won) THEN {bits}
               ELSE IF Frees(q, p, won) THEN {} ELSE trace_mini[p]]
  BY DEF contend
<1>6. score_changed' = (score_changed \/ won # {})
  BY DEF contend
<1> HIDE DEF won
<1>7. top_rated' \in [Bytes -> Ids \cup {None}]
  BY <1>3 DEF TypeOK
<1>8. tc_ref' \in [Ids -> Int]
  BY <1>2, <1>4
<1>9. trace_mini' \in [Ids -> SUBSET SUBSET Bytes]
  BY <1>5 DEF TypeOK
<1>10. score_changed' \in BOOLEAN
  BY <1>6
<1> QED
  BY <1>7, <1>8, <1>9, <1>10

\* A stored sample is a reading.
LEMMA EnergyHookType ==
    ASSUME TypeOK, NEW r \in Samples, EnergyHook(r)
    PROVE  cost' \in [Ids -> [Domains -> Readings \cup {0}]]
<1>1. CASE queue_cur = None
  BY <1>1 DEF EnergyHook, TypeOK
<1>2. CASE queue_cur # None
  <2>1. queue_cur \in Ids /\ cost[queue_cur] \in [Domains -> Readings \cup {0}]
    BY <1>2 DEF TypeOK
  <2>2. [d \in Domains |-> IF r[d] > 0 THEN r[d] ELSE cost[queue_cur][d]]
            \in [Domains -> Readings \cup {0}]
    BY <2>1 DEF Samples
  <2>3. cost' = [cost EXCEPT ![queue_cur] =
                   [d \in Domains |-> IF r[d] > 0 THEN r[d] ELSE cost[queue_cur][d]]]
    BY <1>2, <2>1 DEF EnergyHook, TypeOK
  <2> QED
    BY <2>2, <2>3 DEF TypeOK
<1> QED
  BY <1>1, <1>2

\* The ends of the range are costs.
LEMMA UpdateRangeType ==
    ASSUME TypeOK, NEW q \in Ids, UpdateRange(q),
           cost' \in [Ids -> [Domains -> Readings \cup {0}]]
    PROVE  /\ min_energy' \in [Domains -> Readings \cup {0}]
           /\ max_energy' \in [Domains -> Readings \cup {0}]
BY DEF UpdateRange, TypeOK

\* What the dry run takes out is counted.
LEMMA DisableType ==
    ASSUME TypeOK, NEW D \in SUBSET Ids, disable(D)
    PROVE  /\ disabled' \in [Ids -> BOOLEAN] /\ was_fuzzed' \in [Ids -> BOOLEAN]
           /\ active_items' \in Int /\ pending_not_fuzzed' \in Int
<1>1. Pending(D) \in SUBSET Ids
  BY DEF Pending
<1>2. Cardinality(Pending(D)) \in Nat
  BY <1>1, FiniteIds
<1> QED
  BY <1>2 DEF disable, TypeOK

\* cull_queue() chooses favorites among the entries, and the first pending one
\* is an entry of the queue.
LEMMA CullType ==
    ASSUME TypeOK, EntryAtHand, cull_queue
    PROVE  /\ favored' \in [Ids -> BOOLEAN] /\ fs_redundant' \in [Ids -> BOOLEAN]
           /\ queued_favored' \in Nat /\ pending_favored' \in Int
           /\ smallest_favored' \in Items \cup {None}
           /\ top_rated' = top_rated /\ tc_ref' = tc_ref
           /\ trace_mini' \in [Ids -> SUBSET SUBSET Bytes]
           /\ score_changed' \in BOOLEAN /\ disabled' \in [Ids -> BOOLEAN]
<1>1. CASE ~score_changed
  BY <1>1 DEF cull_queue, TypeOK, EntryAtHand, favorVars, ownerVars
<1>2. CASE score_changed
  <2> DEFINE fav     == {q \in Items : ~disabled[q] /\ q \in TopPicks}
             dropped == {q \in Items : ~disabled[q] /\ q \notin fav /\ ~fs_redundant[q]}
  <2>1. fav \in SUBSET Items /\ Pending(fav) \in SUBSET Items /\ Items \subseteq Ids
    BY ItemsAreIds DEF Pending, TypeOK
  <2>2. Cardinality(fav) \in Nat /\ Cardinality(Pending(fav)) \in Nat
    BY <2>1, FiniteIds
  <2>3. Smallest(Pending(fav)) \in Items \cup {None}
    BY <2>1, SmallestType
  <2>4. /\ favored' = [q \in Ids |-> q \in fav]
        /\ queued_favored' = Cardinality(fav)
        /\ pending_favored' = Cardinality(Pending(fav))
        /\ smallest_favored' = Smallest(Pending(fav))
        /\ fs_redundant' = [q \in Ids |->
               IF q \in Items /\ ~disabled[q] THEN q \notin fav ELSE fs_redundant[q]]
        /\ trace_mini' = [q \in Ids |-> IF q \in dropped THEN {} ELSE trace_mini[q]]
        /\ disabled' = [q \in Ids |-> disabled[q] \/ (DisableRedundant /\ q \in dropped)]
        /\ score_changed' = FALSE
        /\ UNCHANGED <<top_rated, tc_ref>>
    BY <1>2 DEF cull_queue
  <2> HIDE DEF fav, dropped
  <2>5. favored' \in [Ids -> BOOLEAN]
    BY <2>4
  <2>6. fs_redundant' \in [Ids -> BOOLEAN]
    BY <2>4, Zenon DEF TypeOK
  <2>7. disabled' \in [Ids -> BOOLEAN]
    BY <2>4, Zenon DEF TypeOK
  <2>8. trace_mini' \in [Ids -> SUBSET SUBSET Bytes]
    BY <2>4 DEF TypeOK
  <2>9. /\ queued_favored' \in Nat /\ pending_favored' \in Int
        /\ smallest_favored' \in Items \cup {None}
        /\ top_rated' = top_rated /\ tc_ref' = tc_ref /\ score_changed' \in BOOLEAN
    <3>1. /\ queued_favored' = Cardinality(fav)
          /\ pending_favored' = Cardinality(Pending(fav))
          /\ smallest_favored' = Smallest(Pending(fav))
          /\ score_changed' = FALSE /\ top_rated' = top_rated /\ tc_ref' = tc_ref
      BY <2>4, Zenon
    <3>2. queued_favored' \in Nat /\ pending_favored' \in Int
      BY <2>2, <3>1
    <3>3. smallest_favored' \in Items \cup {None}
      BY <2>3, <3>1, Zenon
    <3> QED
      BY <3>1, <3>2, <3>3
  <2> QED
    BY <2>5, <2>6, <2>7, <2>8, <2>9
<1> QED
  BY <1>1, <1>2

--------------------------------------------------------------------------------
(* TypeOK /\ EntryAtHand is inductive                                        *)

\* The campaign starts well typed, with no entry at hand.
LEMMA InitTyped == Init => TypeOK /\ EntryAtHand
<1> SUFFICES ASSUME Init PROVE TypeOK /\ EntryAtHand
  OBVIOUS
<1>1. PICK n \in 1..MaxSeeds : InitQueue(n)
  BY DEF Init
<1>2. n \in 1..MaxItems /\ n \in Int
  BY LoopAssumption, QueueAssumption
<1>3. schedule \in Schedules
  BY LoopAssumption DEF Init
<1>4. TypeOK
  <2>1. /\ queued_items \in 1..MaxItems
        /\ active_items \in Int /\ pending_not_fuzzed \in Int
        /\ len \in [Ids -> Lens \cup {0}]
    BY <1>1, <1>2 DEF InitQueue
  <2>2. /\ exec_us \in [Ids -> ExecTimes \cup {0}]
        /\ exec_cksum \in [Ids -> SUBSET Bytes]
        /\ n_fuzz_entry \in [Ids -> SUBSET Bytes]
        /\ cal_failed \in [Ids -> Nat]
        /\ fuzz_level \in [Ids -> 0..MaxLevel]
    BY <1>1, QueueAssumption DEF InitQueue
  <2>3. /\ trim_done \in [Ids -> BOOLEAN] /\ was_fuzzed \in [Ids -> BOOLEAN]
        /\ disabled \in [Ids -> BOOLEAN] /\ favored \in [Ids -> BOOLEAN]
        /\ fs_redundant \in [Ids -> BOOLEAN] /\ score_changed \in BOOLEAN
    BY <1>1 DEF InitQueue
  <2>4. /\ cost \in [Ids -> [Domains -> Readings \cup {0}]]
        /\ min_energy \in [Domains -> Readings \cup {0}]
        /\ max_energy \in [Domains -> Readings \cup {0}]
    BY <1>1 DEF InitQueue
  <2>5. /\ top_rated \in [Bytes -> Ids \cup {None}] /\ tc_ref \in [Ids -> Int]
        /\ trace_mini \in [Ids -> SUBSET SUBSET Bytes]
        /\ n_fuzz \in [SUBSET Bytes -> 0..MaxHits]
        /\ queued_favored \in Nat /\ pending_favored \in Int
        /\ smallest_favored \in Ids \cup {None}
    BY <1>1, QueueAssumption DEF InitQueue
  <2>6. /\ pc \in Places /\ ret \in Places
        /\ queue_cur \in Ids \cup {None} /\ cal_q \in Ids \cup {None}
        /\ dry_idx \in 0..MaxItems /\ last_scored_idx \in Ids \cup {None}
        /\ candidates \in [Bytes -> SUBSET Ids] /\ rescore \subseteq Bytes \X Ids
        /\ trace_bits \subseteq Bytes /\ sampled \subseteq Ids
    BY QueueAssumption DEF Init, Places, Interruptible, None
  <2> QED
    BY <1>3, <2>1, <2>2, <2>3, <2>4, <2>5, <2>6 DEF TypeOK
<1>5. EntryAtHand
  BY <1>1, <1>2 DEF Init, InitQueue, EntryAtHand, Interruptible, Items
<1> QED
  BY <1>4, <1>5

\* A calibration, whether it succeeds or not.
LEMMA CalibrateTyped ==
    ASSUME TypeOK, EntryAtHand, Calibrate
    PROVE  TypeOK' /\ EntryAtHand'
<1>1. pc = "calibrate" /\ cal_q \in Items /\ cal_q \in Ids
  BY ItemsAreIds DEF Calibrate, CalibrateOk, CalibrateFail, EntryAtHand, TypeOK
<1>2. TracesOf(cal_q) \subseteq SUBSET Bytes
  BY <1>1 DEF TracesOf, Traces, TypeOK
<1>3. CASE CalibrateOk
  <2>1. PICK tr \in TracesOf(cal_q), us \in ExecTimes, r \in Samples :
          /\ EnergyHook(r)
          /\ UpdateRange(cal_q)
          /\ exec_us' = [exec_us EXCEPT ![cal_q] = us]
          /\ exec_cksum' = [exec_cksum EXCEPT ![cal_q] = IF @ = {} THEN tr ELSE @]
          /\ n_fuzz_entry' = IF ret = "dry_run" /\ schedule \in AFLFast
                             THEN [n_fuzz_entry EXCEPT ![cal_q] = exec_cksum'[cal_q]]
                             ELSE n_fuzz_entry
          /\ cal_failed' = [cal_failed EXCEPT ![cal_q] = 0]
          /\ sampled' = IF \E d \in Domains : r[d] > 0
                        THEN sampled \cup {cal_q} ELSE sampled
          /\ UNCHANGED <<schedule, countVars, len, trim_done, was_fuzzed, fuzz_level,
                         disabled, favorVars, n_fuzz, scoreVars, queue_cur, dry_idx>>
          /\ update_bitmap_score(cal_q, tr)
    BY <1>3 DEF CalibrateOk
  <2>2. cost' \in [Ids -> [Domains -> Readings \cup {0}]]
    BY <2>1, EnergyHookType
  <2>3. /\ min_energy' \in [Domains -> Readings \cup {0}]
        /\ max_energy' \in [Domains -> Readings \cup {0}]
    BY <1>1, <2>1, <2>2, UpdateRangeType
  <2>4. tr \in SUBSET Bytes
    BY <1>2, <2>1
  <2>5. contend(cal_q, tr, tr, Beats')
    BY <2>1 DEF update_bitmap_score
  <2>6. /\ top_rated' \in [Bytes -> Ids \cup {None}]
        /\ tc_ref' \in [Ids -> Int]
        /\ trace_mini' \in [Ids -> SUBSET SUBSET Bytes]
        /\ score_changed' \in BOOLEAN
    BY <1>1, <2>4, <2>5, ContendType
  <2>7. /\ exec_us' \in [Ids -> ExecTimes \cup {0}]
        /\ exec_cksum' \in [Ids -> SUBSET Bytes]
        /\ cal_failed' \in [Ids -> Nat]
        /\ sampled' \subseteq Ids
    BY <1>1, <2>1, <2>4 DEF TypeOK
  <2>8. n_fuzz_entry' \in [Ids -> SUBSET Bytes]
    BY <1>1, <2>1, <2>7 DEF TypeOK
  <2>9. cal_q' = None /\ ret' = "main" /\ pc' = ret
    BY <1>3 DEF CalibrateOk
  <2>10. TypeOK'
    BY <2>1, <2>2, <2>3, <2>6, <2>7, <2>8, <2>9
    DEF TypeOK, countVars, favorVars, scoreVars, Places, Interruptible
  <2>11. EntryAtHand'
    BY <1>1, <2>1, <2>9
    DEF EntryAtHand, countVars, favorVars, scoreVars, Items, Interruptible
  <2> QED
    BY <2>10, <2>11
<1>4. CASE CalibrateFail
  <2>1. PICK r \in Samples, tr \in {exec_cksum[cal_q]} \cup TracesOf(cal_q) :
          /\ EnergyHook(r)
          /\ exec_cksum' = [exec_cksum EXCEPT ![cal_q] = IF @ = {} THEN tr ELSE @]
    BY <1>4 DEF CalibrateFail
  <2>2. cost' \in [Ids -> [Domains -> Readings \cup {0}]]
    BY <2>1, EnergyHookType
  <2>3. exec_cksum' \in [Ids -> SUBSET Bytes]
    BY <1>1, <1>2, <2>1 DEF TypeOK
  <2>4. cal_failed' \in [Ids -> Nat]
    <3>1. CalChances \in Nat /\ cal_failed[cal_q] + 1 \in Nat
      BY <1>1, LoopAssumption DEF TypeOK
    <3>2. \E n \in Nat : cal_failed' = [cal_failed EXCEPT ![cal_q] = n]
      BY <1>4, <3>1 DEF CalibrateFail
    <3> QED
      BY <3>2 DEF TypeOK
  <2>4a. n_fuzz_entry' \in [Ids -> SUBSET Bytes]
    BY <1>1, <1>4, <2>3 DEF CalibrateFail, TypeOK
  <2>5. /\ disabled' \in [Ids -> BOOLEAN] /\ was_fuzzed' \in [Ids -> BOOLEAN]
        /\ active_items' \in Int /\ pending_not_fuzzed' \in Int
        /\ queued_items' = queued_items
    <3>1. CASE ret = "dry_run"
      BY <1>1, <1>4, <3>1, DisableType DEF CalibrateFail
    <3>2. CASE ret # "dry_run"
      BY <1>4, <3>2 DEF CalibrateFail, TypeOK, countVars
    <3> QED
      BY <3>1, <3>2
  <2>6. TypeOK'
    BY <1>4, <2>2, <2>3, <2>4, <2>4a, <2>5
    DEF CalibrateFail, TypeOK, favorVars, ownerVars, rangeVars, scoreVars, Places,
        Interruptible, None
  <2>7. EntryAtHand'
    BY <1>1, <1>4, <2>5
    DEF CalibrateFail, EntryAtHand, favorVars, scoreVars, Items, Interruptible
  <2> QED
    BY <2>6, <2>7
<1> QED
  BY <1>3, <1>4 DEF Calibrate

\* The dry run.
LEMMA StartUpTyped ==
    ASSUME TypeOK, EntryAtHand, StartUp
    PROVE  TypeOK' /\ EntryAtHand'
<1>1. CASE DryRunSeed
  <2>1. dry_idx \in Items /\ dry_idx \in Ids /\ dry_idx' \in 0..MaxItems
    BY <1>1, QueueAssumption DEF DryRunSeed, TypeOK, Items, Ids
  <2>2. TypeOK'
    BY <1>1, <2>1
    DEF DryRunSeed, Call, TypeOK, queueVars, countVars, inputVars, historyVars, favorVars,
        ownerVars, rangeVars, scoreVars, Places, Interruptible
  <2>3. EntryAtHand'
    BY <1>1, <2>1
    DEF DryRunSeed, Call, EntryAtHand, TypeOK, queueVars, countVars, favorVars, scoreVars,
        Items, Interruptible
  <2> QED
    BY <2>2, <2>3
<1>2. CASE RemoveDuplicates
  <2>1. Duplicates \in SUBSET Ids
    BY ItemsAreIds DEF Duplicates, TypeOK
  <2>2. /\ disabled' \in [Ids -> BOOLEAN] /\ was_fuzzed' \in [Ids -> BOOLEAN]
        /\ active_items' \in Int /\ pending_not_fuzzed' \in Int
    BY <1>2, <2>1, DisableType DEF RemoveDuplicates
  <2>3. pc' = "main"
    BY <1>2 DEF RemoveDuplicates
  <2>4. TypeOK'
    BY <1>2, <2>2, <2>3
    DEF RemoveDuplicates, TypeOK, inputVars, favorVars, ownerVars, rangeVars, scoreVars,
        Places, Interruptible
  <2>5. EntryAtHand'
    BY <1>2, <2>3
    DEF RemoveDuplicates, EntryAtHand, favorVars, scoreVars, Items, Interruptible
  <2> QED
    BY <2>4, <2>5
<1> QED
  BY <1>1, <1>2 DEF StartUp

\* The main loop.
LEMMA MainLoopTyped ==
    ASSUME TypeOK, EntryAtHand, MainLoop
    PROVE  TypeOK' /\ EntryAtHand'
<1> USE DEF queueVars, countVars, inputVars, historyVars, favorVars, ownerVars, rangeVars,
            scoreVars, loopVars
<1>1. CASE CullQueue
  <2>1. /\ favored' \in [Ids -> BOOLEAN] /\ fs_redundant' \in [Ids -> BOOLEAN]
        /\ queued_favored' \in Nat /\ pending_favored' \in Int
        /\ smallest_favored' \in Items \cup {None}
        /\ top_rated' = top_rated /\ tc_ref' = tc_ref
        /\ trace_mini' \in [Ids -> SUBSET SUBSET Bytes]
        /\ score_changed' \in BOOLEAN /\ disabled' \in [Ids -> BOOLEAN]
    BY <1>1, CullType DEF CullQueue
  <2>2. smallest_favored' \in Ids \cup {None}
    BY <2>1, ItemsAreIds DEF TypeOK
  <2>3. TypeOK'
    BY <1>1, <2>1, <2>2 DEF CullQueue, TypeOK, Places, Interruptible
  <2>4. EntryAtHand'
    BY <1>1, <2>1 DEF CullQueue, EntryAtHand, Items, Interruptible
  <2> QED
    BY <2>3, <2>4
<1>2. CASE StayInCycle
  BY <1>2 DEF StayInCycle, TypeOK, EntryAtHand, Items, Places, Interruptible
<1>3. CASE EnterCycle
  BY <1>3 DEF EnterCycle, TypeOK, EntryAtHand, Items, Places, Interruptible
<1>4. CASE EndSync
  BY <1>4 DEF EndSync, TypeOK, EntryAtHand, Items, Places, Interruptible
<1>5. CASE CycleSchedule
  <2>1. PICK run \in [{q \in Items : q > last_scored_idx /\ ~disabled[q]} -> Traces],
             bits \in SUBSET Bytes, r \in Samples :
          LET new == DOMAIN run
          IN  /\ candidates' = [b \in Bytes |->
                                   candidates[b] \cup {q \in new : b \in run[q]}]
              /\ trace_bits' = bits
              /\ IF new = {} THEN cost' = cost ELSE EnergyHook(r)
    BY <1>5 DEF CycleSchedule
  <2>2. cost' \in [Ids -> [Domains -> Readings \cup {0}]]
    BY <2>1, EnergyHookType DEF TypeOK
  <2>3. DOMAIN run \subseteq Items /\ Items \subseteq Ids
    BY ItemsAreIds DEF TypeOK
  <2>4. /\ candidates' \in [Bytes -> SUBSET Ids]
        /\ \A b \in Bytes : candidates'[b] \subseteq Items
    BY <2>1, <2>3 DEF TypeOK, EntryAtHand
  <2>5. schedule' \in Schedules
    <3>1. schedule' = NextSchedule[schedule] /\ schedule \in Schedules
      BY <1>5 DEF CycleSchedule, TypeOK
    <3>2. ASSUME NEW s \in Schedules PROVE NextSchedule[s] \in Schedules
      BY DEF NextSchedule, Schedules, AFLFast, FAST_TO_QUAD
    <3> QED
      BY <3>1, <3>2
  <2>6. last_scored_idx' \in Ids
    BY <1>5, QueueAssumption DEF CycleSchedule, TypeOK, Ids
  <2>7. rescore' \subseteq Bytes \X Ids
    BY <1>5 DEF CycleSchedule
  <2>8. TypeOK'
    BY <1>5, <2>1, <2>2, <2>4, <2>5, <2>6, <2>7
    DEF CycleSchedule, TypeOK, Places, Interruptible
  <2>9. EntryAtHand'
    BY <1>5, <2>4 DEF CycleSchedule, EntryAtHand, Items, Interruptible
  <2> QED
    BY <2>8, <2>9
<1>6. CASE RescoreCandidate
  <2>1. PICK b \in Bytes, q \in Ids :
          contend(q, {b}, trace_bits, Beats) /\ rescore' = rescore \ {<<b, q>>}
    BY <1>6 DEF RescoreCandidate, update_bitmap_rescore
  <2>2. /\ top_rated' \in [Bytes -> Ids \cup {None}]
        /\ tc_ref' \in [Ids -> Int]
        /\ trace_mini' \in [Ids -> SUBSET SUBSET Bytes]
        /\ score_changed' \in BOOLEAN
    <3>1. {b} \in SUBSET Bytes /\ trace_bits \in SUBSET Bytes
      BY DEF TypeOK
    <3> QED
      BY <2>1, <3>1, ContendType
  <2>3. TypeOK'
    BY <1>6, <2>1, <2>2 DEF RescoreCandidate, TypeOK
  <2>4. EntryAtHand'
    BY <1>6 DEF RescoreCandidate, EntryAtHand, Items, Interruptible
  <2> QED
    BY <2>3, <2>4
<1>7. CASE EndRescore
  BY <1>7 DEF EndRescore, TypeOK, EntryAtHand, Items, Places, Interruptible
<1>8. CASE Select
  <2>1. queue_cur' \in Items /\ queue_cur' \in Ids
    BY <1>8, ItemsAreIds DEF Select, AliasDraws, TypeOK, EntryAtHand
  <2> QED
    BY <1>8, <2>1 DEF Select, TypeOK, EntryAtHand, Items, Places, Interruptible
<1> QED
  BY <1>1, <1>2, <1>3, <1>4, <1>5, <1>6, <1>7, <1>8 DEF MainLoop

\* fuzz_one().
LEMMA FuzzOneTyped ==
    ASSUME TypeOK, EntryAtHand, FuzzOne
    PROVE  TypeOK' /\ EntryAtHand'
<1> USE DEF queueVars, countVars, inputVars, historyVars, favorVars, ownerVars, rangeVars,
            scoreVars, loopVars
<1>0. queue_cur \in Items /\ queue_cur \in Ids
  BY ItemsAreIds
  DEF TypeOK, EntryAtHand, FuzzOne, SkipEntry, BeginEntry, AfterRetry, Trim, trim_case, RunMutant,
      AbandonEntry
<1>1. CASE SkipEntry
  BY <1>1 DEF SkipEntry, TypeOK, EntryAtHand, Items, Places, Interruptible
<1>2. CASE BeginEntry
  <2>1. exec_cksum' \in [Ids -> SUBSET Bytes]
    BY <1>0, <1>2 DEF BeginEntry, TypeOK
  <2>2. TypeOK'
    BY <1>0, <1>2, <2>1 DEF BeginEntry, Call, TypeOK, Places, Interruptible
  <2>3. EntryAtHand'
    BY <1>0, <1>2 DEF BeginEntry, Call, EntryAtHand, Items, Interruptible
  <2> QED
    BY <2>2, <2>3
<1>3. CASE AfterRetry
  BY <1>3 DEF AfterRetry, TypeOK, EntryAtHand, Items, Places, Interruptible
<1>4. CASE Trim
  <2>1. cost' \in [Ids -> [Domains -> Readings \cup {0}]]
    <3>1. cost' = cost \/ \E r \in Samples : EnergyHook(r)
      BY <1>4 DEF Trim, trim_case
    <3> QED
      BY <3>1, EnergyHookType DEF TypeOK
  <2>2. /\ len' \in [Ids -> Lens \cup {0}]
        /\ top_rated' \in [Bytes -> Ids \cup {None}]
        /\ tc_ref' \in [Ids -> Int]
        /\ trace_mini' \in [Ids -> SUBSET SUBSET Bytes]
        /\ score_changed' \in BOOLEAN
    <3>1. CASE UNCHANGED <<len, ownerVars>>
      BY <3>1 DEF TypeOK
    <3>2. CASE /\ \E l \in Lens : len' = [len EXCEPT ![queue_cur] = l]
               /\ update_bitmap_score(queue_cur, exec_cksum[queue_cur])
      <4>1. contend(queue_cur, exec_cksum[queue_cur], exec_cksum[queue_cur], Beats')
        BY <3>2 DEF update_bitmap_score
      <4>2. exec_cksum[queue_cur] \in SUBSET Bytes
        BY <1>0 DEF TypeOK
      <4>3. len' \in [Ids -> Lens \cup {0}]
        BY <1>0, <3>2 DEF TypeOK
      <4>4. /\ top_rated' \in [Bytes -> Ids \cup {None}]
            /\ tc_ref' \in [Ids -> Int]
            /\ trace_mini' \in [Ids -> SUBSET SUBSET Bytes]
            /\ score_changed' \in BOOLEAN
        BY <1>0, <4>1, <4>2, ContendType
      <4> QED
        BY <4>3, <4>4
    <3> QED
      BY <1>4, <3>1, <3>2 DEF Trim, trim_case
  <2>3. trim_done' \in [Ids -> BOOLEAN]
    BY <1>4 DEF Trim, trim_case, TypeOK
  <2>4. TypeOK'
    BY <1>4, <2>1, <2>2, <2>3 DEF Trim, trim_case, TypeOK, Places, Interruptible
  <2>5. EntryAtHand'
    BY <1>0, <1>4 DEF Trim, trim_case, EntryAtHand, Items, Interruptible
  <2> QED
    BY <2>4, <2>5
<1>5. CASE RunMutant
  <2>1. PICK r \in Samples, tr \in Traces : EnergyHook(r) /\ count_execution(tr)
    BY <1>5 DEF RunMutant
  <2>2. cost' \in [Ids -> [Domains -> Readings \cup {0}]]
    BY <2>1, EnergyHookType
  <2>3. n_fuzz' \in [SUBSET Bytes -> 0..MaxHits]
    <3>1. tr \in SUBSET Bytes /\ n_fuzz[tr] \in 0..MaxHits
      BY <2>1 DEF Traces, TypeOK
    <3>2. n_fuzz' = n_fuzz \/ (n_fuzz[tr] < MaxHits
                                /\ n_fuzz' = [n_fuzz EXCEPT ![tr] = n_fuzz[tr] + 1])
      BY <2>1, <3>1 DEF count_execution, TypeOK
    <3>3. n_fuzz[tr] < MaxHits => n_fuzz[tr] + 1 \in 0..MaxHits
      BY <3>1, QueueAssumption
    <3> QED
      BY <3>1, <3>2, <3>3 DEF TypeOK
  <2>4. TypeOK'
    BY <1>5, <2>2, <2>3 DEF RunMutant, TypeOK
  <2>5. EntryAtHand'
    BY <1>5 DEF RunMutant, EntryAtHand, Items, Interruptible
  <2> QED
    BY <2>4, <2>5
<1>6. CASE AbandonEntry
  <2>1. fuzz_level' \in [Ids -> 0..MaxLevel]
    BY <1>0, <1>6, QueueAssumption DEF AbandonEntry, TypeOK
  <2>2. was_fuzzed' \in [Ids -> BOOLEAN]
    BY <1>6 DEF AbandonEntry, TypeOK
  <2>3. /\ pending_not_fuzzed' \in Int /\ pending_favored' \in Int
        /\ smallest_favored' \in {smallest_favored, None}
    BY <1>6 DEF AbandonEntry, serve_favorite, TypeOK
  <2>4. pc' \in {"main", "select"}
    BY <1>6 DEF AbandonEntry
  <2>5. TypeOK'
    BY <1>6, <2>1, <2>2, <2>3, <2>4 DEF AbandonEntry, TypeOK, Places, Interruptible
  <2>6. EntryAtHand'
    BY <1>6, <2>3, <2>4 DEF AbandonEntry, EntryAtHand, Items, Interruptible
  <2> QED
    BY <2>5, <2>6
<1> QED
  BY <1>1, <1>2, <1>3, <1>4, <1>5, <1>6 DEF FuzzOne

\* A find, or a case of another fuzzer.
LEMMA SaveTyped ==
    ASSUME TypeOK, EntryAtHand, SaveInteresting
    PROVE  TypeOK' /\ EntryAtHand'
<1> USE DEF queueVars, countVars, inputVars, historyVars, favorVars, ownerVars, rangeVars,
            scoreVars, loopVars
<1>1. PICK l \in Lens, tr \in Traces : add_to_queue(l, tr)
  BY DEF SaveInteresting
<1>2. /\ queued_items \in Ids /\ queued_items' \in 1..MaxItems
      /\ Items' = Items \cup {queued_items}
  <2>1. /\ queued_items' = queued_items + 1 /\ queued_items < MaxItems
        /\ queued_items \in 1..MaxItems
    BY <1>1 DEF add_to_queue, TypeOK
  <2>2. MaxItems \in Nat /\ queued_items \in Nat
    BY <2>1, QueueAssumption
  <2>3. Items' = 0..(queued_items' - 1)
    BY DEF Items
  <2> HIDE DEF queueVars, countVars, inputVars, historyVars, favorVars, ownerVars,
               rangeVars, scoreVars, loopVars
  <2> QED
    BY <2>1, <2>2, <2>3 DEF Ids, Items
<1>3. /\ len' \in [Ids -> Lens \cup {0}] /\ exec_cksum' \in [Ids -> SUBSET Bytes]
      /\ n_fuzz_entry' \in [Ids -> SUBSET Bytes]
      /\ n_fuzz' \in [SUBSET Bytes -> 0..MaxHits]
  BY <1>1, <1>2, QueueAssumption DEF add_to_queue, TypeOK, Traces
<1>4. active_items' \in Int /\ pending_not_fuzzed' \in Int
  BY <1>1 DEF add_to_queue, TypeOK
<1>cost. cost' \in [Ids -> [Domains -> Readings \cup {0}]]
  BY EnergyHookType DEF SaveInteresting
<1>5. TypeOK'
  BY <1>2, <1>3, <1>4, <1>cost DEF SaveInteresting, Call, TypeOK, Places, Interruptible
<1>6. EntryAtHand'
  <2>1. dry_idx' <= queued_items'
    BY <1>1 DEF SaveInteresting, add_to_queue, TypeOK, EntryAtHand
  <2> QED
    BY <1>2, <2>1 DEF SaveInteresting, Call, EntryAtHand, Interruptible
<1> QED
  BY <1>5, <1>6

\* Every variable keeps its type, and wherever afl-fuzz dereferences an entry it
\* has one that is in the queue.
THEOREM TypeCorrect == Spec => [](TypeOK /\ EntryAtHand)
<1>1. Init => TypeOK /\ EntryAtHand
  BY InitTyped
<1>2. TypeOK /\ EntryAtHand /\ [Next]_vars => TypeOK' /\ EntryAtHand'
  <2> SUFFICES ASSUME TypeOK, EntryAtHand, [Next]_vars
               PROVE  TypeOK' /\ EntryAtHand'
    OBVIOUS
  <2>1. CASE Next
    <3>1. CASE Exited
      BY <3>1
      DEF Exited, vars, TypeOK, EntryAtHand, Items, queueVars, countVars, inputVars,
          historyVars, favorVars, ownerVars, rangeVars, scoreVars, loopVars
    <3> QED
      BY <2>1, <3>1, StartUpTyped, CalibrateTyped, MainLoopTyped, FuzzOneTyped, SaveTyped
      DEF Next
  <2>2. CASE UNCHANGED vars
    BY <2>2
    DEF vars, TypeOK, EntryAtHand, Items, queueVars, countVars, inputVars, historyVars,
        favorVars, ownerVars, rangeVars, scoreVars, loopVars
  <2> QED
    BY <2>1, <2>2
<1> QED
  BY <1>1, <1>2, PTL DEF Spec

--------------------------------------------------------------------------------
(* Where an energy sample ends up, and when the range of the energy terms moves. *)
(* The entry that pays is always queue_cur, and calibrate_case() runs mostly on  *)
(* other entries; the invariant below follows queue_cur through the loop to say  *)
(* which entries can have a cost by then.                                        *)

HasCost(q) == \E d \in Domains : cost[q][d] # 0

\* The places between two rounds of fuzzing.
BetweenRounds ==
    pc \in {"main", "cycle", "sync", "rescore"} \/ (pc = "calibrate" /\ ret \in {"main", "sync"})

DryRunning == pc = "dry_run" \/ (pc = "calibrate" /\ ret = "dry_run")

\* Every sample goes to the entry being fuzzed: only entries that have had a
\* round of fuzzing, and the one having it, have a cost.
CostNeedsFuzzing ==
    \A q \in Ids : (\E d \in Domains : cost[q][d] # 0) => q = queue_cur \/ fuzz_level[q] > 0

\* The strengthening of CostNeedsFuzzing: an entry that is left behind has had a
\* round, and an entry that is calibrated for the first time has not.
CostInv ==
    /\ CostNeedsFuzzing
    /\ BetweenRounds => queue_cur = None \/ fuzz_level[queue_cur] > 0
    /\ pc \in {"select", "fuzz_one"} => \A q \in Ids : HasCost(q) => fuzz_level[q] > 0
    /\ DryRunning => queue_cur = None /\ \A q \in Ids : fuzz_level[q] = 0
    /\ \A q \in Ids \ Items : fuzz_level[q] = 0
    /\ pc = "calibrate" /\ ret # "retried" => fuzz_level[cal_q] = 0 /\ cal_q # queue_cur

\* A sample touches the entry being fuzzed and no other.
LEMMA HookIsLocal ==
    ASSUME TypeOK, NEW r \in Samples, EnergyHook(r)
    PROVE  \A q \in Ids : q # queue_cur => cost'[q] = cost[q]
BY DEF EnergyHook, TypeOK

\* A step that leaves queue_cur and the levels alone, and costs of other entries.
LEMMA LocalCostStep ==
    ASSUME CostNeedsFuzzing, queue_cur' = queue_cur, fuzz_level' = fuzz_level,
           \A q \in Ids : q # queue_cur => cost'[q] = cost[q]
    PROVE  CostNeedsFuzzing'
BY DEF CostNeedsFuzzing

\* Before its first calibration an entry has no cost, whoever asks for it.
LEMMA FirstCalibrationSeesNoCost ==
    ASSUME TypeOK, EntryAtHand, CostInv, pc = "calibrate", ret # "retried"
    PROVE  cal_q \in Ids /\ cal_q # queue_cur /\ \A d \in Domains : cost[cal_q][d] = 0
<1>1. cal_q \in Ids
  BY ItemsAreIds DEF EntryAtHand, TypeOK
<1>2. fuzz_level[cal_q] = 0 /\ cal_q # queue_cur
  BY DEF CostInv
<1> QED
  BY <1>1, <1>2 DEF CostInv, CostNeedsFuzzing

\* No other step writes the range.
LEMMA OnlyCalibrationMovesRange ==
    ASSUME [Next]_vars, ~CalibrateOk
    PROVE  min_energy' = min_energy /\ max_energy' = max_energy
BY DEF Next, StartUp, DryRunSeed, RemoveDuplicates, Calibrate, CalibrateFail, MainLoop,
       CullQueue, StayInCycle, EnterCycle, EndSync, CycleSchedule, RescoreCandidate,
       EndRescore, Select, FuzzOne, SkipEntry, BeginEntry, AfterRetry, Trim, trim_case, RunMutant,
       AbandonEntry, SaveInteresting, Exited, vars, queueVars, rangeVars

\* The invariant holds before the dry run.
LEMMA CostInvInit == Init => CostInv
<1> SUFFICES ASSUME Init PROVE CostInv
  OBVIOUS
<1>1. /\ fuzz_level = [q \in Ids |-> 0] /\ cost = [q \in Ids |-> [d \in Domains |-> 0]]
      /\ pc = "dry_run" /\ queue_cur = None
  BY DEF Init, InitQueue
<1> QED
  BY <1>1 DEF CostInv, CostNeedsFuzzing, BetweenRounds, DryRunning, HasCost

\* Every step keeps it.
LEMMA CostInvStep ==
    ASSUME TypeOK, EntryAtHand, CostInv, [Next]_vars
    PROVE  CostInv'
<1> USE DEF queueVars, countVars, inputVars, historyVars, favorVars, ownerVars, rangeVars,
            scoreVars, loopVars
<1>1. CASE Calibrate
  <2>1. PICK r \in Samples : EnergyHook(r)
    BY <1>1 DEF Calibrate, CalibrateOk, CalibrateFail
  <2>2. /\ pc = "calibrate" /\ queue_cur' = queue_cur /\ fuzz_level' = fuzz_level
        /\ queued_items' = queued_items
        /\ pc' = ret \/ (ret = "retried" /\ pc' = "abandon")
    BY <1>1 DEF Calibrate, CalibrateOk, CalibrateFail
  <2>3. CostNeedsFuzzing'
    BY <2>1, <2>2, HookIsLocal, LocalCostStep DEF CostInv
  <2>4. ret \in {"main", "sync", "fuzzing", "dry_run", "retried"}
    BY DEF EntryAtHand, Interruptible
  <2> QED
    BY <2>2, <2>3, <2>4 DEF CostInv, BetweenRounds, DryRunning, Items
<1>2. CASE DryRunSeed
  <2>1. dry_idx \in Ids /\ dry_idx # None
    BY <1>2, QueueAssumption DEF DryRunSeed, TypeOK, Ids, None
  <2> QED
    BY <1>2, <2>1
    DEF DryRunSeed, Call, CostInv, CostNeedsFuzzing, BetweenRounds, DryRunning, Items
<1>3. CASE RemoveDuplicates
  <2>1. pc' = "main"
    BY <1>3 DEF RemoveDuplicates
  <2> QED
    BY <1>3, <2>1
    DEF RemoveDuplicates, CostInv, CostNeedsFuzzing, BetweenRounds, DryRunning, Items
<1>4. CASE CullQueue \/ EnterCycle \/ RescoreCandidate
  BY <1>4
  DEF CullQueue, EnterCycle, RescoreCandidate, CostInv, CostNeedsFuzzing,
      BetweenRounds, DryRunning, Items
<1>5. CASE StayInCycle \/ EndSync \/ EndRescore
  BY <1>5, NoneIsNoId
  DEF StayInCycle, EndSync, EndRescore, CostInv, CostNeedsFuzzing, HasCost,
      BetweenRounds, DryRunning, Items
<1>6. CASE CycleSchedule
  <2>1. \A q \in Ids : q # queue_cur => cost'[q] = cost[q]
    BY <1>6, HookIsLocal DEF CycleSchedule
  <2>2. /\ pc = "sync" /\ pc' = "rescore" /\ queue_cur' = queue_cur
        /\ fuzz_level' = fuzz_level /\ queued_items' = queued_items
    BY <1>6 DEF CycleSchedule
  <2>3. CostNeedsFuzzing'
    BY <2>1, <2>2, LocalCostStep DEF CostInv
  <2> QED
    BY <2>2, <2>3 DEF CostInv, BetweenRounds, DryRunning, Items
<1>7. CASE Select
  BY <1>7 DEF Select, CostInv, CostNeedsFuzzing, HasCost, BetweenRounds, DryRunning, Items
<1>8. CASE SkipEntry \/ AfterRetry
  BY <1>8
  DEF SkipEntry, AfterRetry, CostInv, CostNeedsFuzzing, HasCost, BetweenRounds, DryRunning,
      Items
<1>9. CASE BeginEntry
  BY <1>9 DEF BeginEntry, Call, CostInv, CostNeedsFuzzing, BetweenRounds, DryRunning, Items
<1>10. CASE Trim \/ RunMutant
  <2>1. \A q \in Ids : q # queue_cur => cost'[q] = cost[q]
    BY <1>10, HookIsLocal DEF Trim, trim_case, RunMutant
  <2>2. /\ pc' = "fuzzing" /\ queue_cur' = queue_cur
        /\ fuzz_level' = fuzz_level /\ queued_items' = queued_items
    BY <1>10 DEF Trim, trim_case, RunMutant
  <2>3. CostNeedsFuzzing'
    BY <2>1, <2>2, LocalCostStep DEF CostInv
  <2> QED
    BY <2>2, <2>3 DEF CostInv, BetweenRounds, DryRunning, Items
<1>11. CASE AbandonEntry
  <2>1. queue_cur \in Items /\ queue_cur \in Ids
    BY <1>11, ItemsAreIds DEF AbandonEntry, EntryAtHand, TypeOK
  <2>2. /\ fuzz_level'[queue_cur] > 0
        /\ \A q \in Ids : q # queue_cur => fuzz_level'[q] = fuzz_level[q]
    BY <1>11, <2>1, QueueAssumption DEF AbandonEntry, TypeOK
  <2>3. /\ pc' \in {"main", "select"} /\ queue_cur' = queue_cur /\ cost' = cost
        /\ queued_items' = queued_items
    BY <1>11 DEF AbandonEntry
  <2>4. \A q \in Ids : HasCost(q)' => fuzz_level'[q] > 0
    BY <2>2, <2>3 DEF CostInv, CostNeedsFuzzing, HasCost
  <2> QED
    BY <2>1, <2>2, <2>3, <2>4
    DEF CostInv, CostNeedsFuzzing, HasCost, BetweenRounds, DryRunning, Items
<1>12. CASE SaveInteresting
  <2>1. /\ pc \in {"main", "sync", "fuzzing"} /\ queue_cur' = queue_cur
        /\ fuzz_level' = fuzz_level
        /\ pc' = "calibrate" /\ ret' = pc /\ cal_q' = queued_items
        /\ queued_items' = queued_items + 1 /\ queued_items < MaxItems
    BY <1>12 DEF SaveInteresting, Call, add_to_queue, Interruptible
  <2>2. queued_items \in Ids \ Items /\ queued_items # queue_cur
    BY <2>1, QueueAssumption DEF TypeOK, EntryAtHand, Items, Ids, None
  <2>3. Items \subseteq Items'
    BY <2>1 DEF TypeOK, Items
  <2>4. \A q \in Ids : q # queue_cur => cost'[q] = cost[q]
    BY <1>12, HookIsLocal DEF SaveInteresting
  <2>5. CostNeedsFuzzing'
    BY <2>1, <2>4, LocalCostStep DEF CostInv
  <2> QED
    BY <2>1, <2>2, <2>3, <2>4, <2>5 DEF CostInv, CostNeedsFuzzing, BetweenRounds, DryRunning
<1>13. CASE Exited \/ UNCHANGED vars
  BY <1>13
  DEF Exited, vars, CostInv, CostNeedsFuzzing, HasCost, BetweenRounds, DryRunning, Items
<1> QED
  BY <1>1, <1>2, <1>3, <1>4, <1>5, <1>6, <1>7, <1>8, <1>9, <1>10, <1>11, <1>12, <1>13
  DEF Next, StartUp, MainLoop, FuzzOne

\* min/max_[cpu|mem]_energy move only when fuzz_one() calibrates its own entry
\* again; every other calibration looks at a cost of 0.
THEOREM RangeMoves == Spec => RangeMovesOnRetryOnly
<1> DEFINE Move == <<min_energy', max_energy'>> # <<min_energy, max_energy>> =>
                      pc = "calibrate" /\ ret = "retried" /\ cal_q = queue_cur
<1>1. TypeOK /\ EntryAtHand /\ CostInv /\ [Next]_vars => [Move]_vars
  <2> SUFFICES ASSUME TypeOK, EntryAtHand, CostInv, Next
               PROVE  Move
    OBVIOUS
  <2>1. CASE CalibrateOk
    <3>1. pc = "calibrate"
      BY <2>1 DEF CalibrateOk
    <3>2. CASE ret = "retried"
      BY <3>1, <3>2 DEF EntryAtHand
    <3>3. CASE ret # "retried"
      <4>1. PICK r \in Samples : EnergyHook(r) /\ UpdateRange(cal_q)
        BY <2>1 DEF CalibrateOk
      <4>2. \A d \in Domains : cost'[cal_q][d] = 0
        BY <3>1, <3>3, <4>1, HookIsLocal, FirstCalibrationSeesNoCost
      <4>3. /\ min_energy' = [d \in Domains |-> min_energy[d]]
            /\ max_energy' = [d \in Domains |-> max_energy[d]]
        BY <4>1, <4>2 DEF UpdateRange
      <4>4. min_energy' = min_energy /\ max_energy' = max_energy
        BY <4>3 DEF TypeOK
      <4> QED
        BY <4>4
    <3> QED
      BY <3>2, <3>3
  <2>2. CASE ~CalibrateOk
    BY <2>2, OnlyCalibrationMovesRange
  <2> QED
    BY <2>1, <2>2
<1>2. TypeOK /\ EntryAtHand /\ CostInv /\ [Next]_vars => CostInv'
  BY CostInvStep
<1> QED
  BY <1>1, <1>2, CostInvInit, TypeCorrect, PTL DEF Spec, RangeMovesOnRetryOnly

\* The range is ordered in every domain, and its ends are set together.
THEOREM RangeCorrect == Spec => []RangeOrdered
<1>1. Init => RangeOrdered
  BY DEF Init, InitQueue, RangeOrdered
<1>2. TypeOK /\ EntryAtHand /\ RangeOrdered /\ [Next]_vars => RangeOrdered'
  <2> SUFFICES ASSUME TypeOK, EntryAtHand, RangeOrdered, [Next]_vars
               PROVE  RangeOrdered'
    OBVIOUS
  <2>1. CASE CalibrateOk
    <3>1. PICK r \in Samples : EnergyHook(r) /\ UpdateRange(cal_q)
      BY <2>1 DEF CalibrateOk
    <3>2. cal_q \in Ids
      BY <2>1, ItemsAreIds DEF CalibrateOk, EntryAtHand, TypeOK
    <3> SUFFICES ASSUME NEW d \in Domains
                 PROVE  /\ min_energy'[d] <= max_energy'[d]
                        /\ min_energy'[d] = 0 <=> max_energy'[d] = 0
      BY DEF RangeOrdered
    <3>3. cost'[cal_q][d] \in Nat /\ min_energy[d] \in Nat /\ max_energy[d] \in Nat
      <4>1. cost' \in [Ids -> [Domains -> Readings \cup {0}]]
        BY <3>1, EnergyHookType
      <4>2. /\ cost'[cal_q][d] \in Readings \cup {0}
            /\ min_energy[d] \in Readings \cup {0} /\ max_energy[d] \in Readings \cup {0}
        BY <3>2, <4>1 DEF TypeOK
      <4>3. Readings \cup {0} \subseteq Nat
        BY QueueAssumption
      <4> QED
        BY <4>2, <4>3
    <3> QED
      BY <3>1, <3>3 DEF UpdateRange, RangeOrdered
  <2>2. CASE ~CalibrateOk
    BY <2>2, OnlyCalibrationMovesRange DEF RangeOrdered
  <2> QED
    BY <2>1, <2>2
<1> QED
  BY <1>1, <1>2, TypeCorrect, PTL DEF Spec

--------------------------------------------------------------------------------
(* The counters: the inductive invariant                                    *)

\* perform_dry_run() is under way.
InDryRun == pc = "dry_run" \/ (pc = "calibrate" /\ ret = "dry_run")

\* What add_to_queue() will hand out has no flag set.
SpareEntriesClean == \A q \in Ids \ Items : ~was_fuzzed[q] /\ ~favored[q] /\ ~disabled[q]

\* Before the first cull there is no favorite, and the seeds that count as
\* fuzzed are the ones the dry run took out.
DryRunClean ==
    InDryRun => /\ smallest_favored = None
                /\ \A q \in Ids : ~favored[q] /\ (was_fuzzed[q] <=> disabled[q])

CountInv == CountersExact /\ SmallestIsPending /\ SpareEntriesClean /\ DryRunClean

\* The variables the counters are about.
countedVars == <<queued_items, pending_not_fuzzed, queued_favored, pending_favored,
                 smallest_favored, was_fuzzed, favored, disabled, active_items>>

--------------------------------------------------------------------------------
(* Sizes of sets of entries                                                 *)

\* Sets of entries shrink and grow by what is taken out or added.
LEMMA CountFacts ==
    ASSUME NEW S \in SUBSET Ids
    PROVE  /\ Cardinality(S) \in Nat
           /\ \A T \in SUBSET S : Cardinality(S \ T) = Cardinality(S) - Cardinality(T)
           /\ \A x \in S : Cardinality(S \ {x}) = Cardinality(S) - 1
           /\ \A x \in Ids \ S : Cardinality(S \cup {x}) = Cardinality(S) + 1
<1>1. IsFiniteSet(S) /\ Cardinality(S) \in Nat
  BY FiniteIds
<1>2. ASSUME NEW T \in SUBSET S PROVE Cardinality(S \ T) = Cardinality(S) - Cardinality(T)
  <2>1. S \cap T = T
    OBVIOUS
  <2> QED
    BY <1>1, <2>1, FS_Difference
<1>3. \A x \in S : Cardinality(S \ {x}) = Cardinality(S) - 1
  BY <1>1, FS_RemoveElement
<1>4. \A x \in Ids \ S : Cardinality(S \cup {x}) = Cardinality(S) + 1
  BY <1>1, FS_AddElement
<1> QED
  BY <1>1, <1>2, <1>3, <1>4

\* The sets that are counted are sets of entries.
LEMMA CountedSets ==
    ASSUME TypeOK
    PROVE  /\ Items \subseteq Ids
           /\ Pending(Items) \in SUBSET Ids
           /\ {q \in Items : favored[q]} \in SUBSET Ids
           /\ Pending({q \in Items : favored[q]}) \in SUBSET Ids
           /\ {q \in Items : ~disabled[q]} \in SUBSET Ids
BY ItemsAreIds DEF TypeOK, Pending

--------------------------------------------------------------------------------
(* Every step keeps the invariant                                           *)

\* A step that leaves flags and counters alone, and does not go back to the
\* dry run.
LEMMA QuietKeepsCounts ==
    ASSUME CountInv, UNCHANGED countedVars, InDryRun' => InDryRun
    PROVE  CountInv'
<1>1. Items' = Items /\ \A S : Pending(S)' = Pending(S)
  BY DEF countedVars, Items, Pending
<1>2. CountersExact' /\ SmallestIsPending'
  BY <1>1 DEF CountInv, CountersExact, SmallestIsPending, Pending, countedVars
<1>3. SpareEntriesClean' /\ DryRunClean'
  BY <1>1 DEF CountInv, SpareEntriesClean, DryRunClean, countedVars
<1> QED
  BY <1>2, <1>3 DEF CountInv

\* The dry run takes entries out: there are no favorites yet.
LEMMA DisableKeepsCounts ==
    ASSUME TypeOK, CountInv, InDryRun, NEW D \in SUBSET Items, disable(D),
           UNCHANGED <<queued_items, favorVars>>
    PROVE  CountInv'
<1>1. Items' = Items /\ Items \subseteq Ids
  BY CountedSets DEF Items
<1>2. /\ smallest_favored = None /\ smallest_favored' = None /\ favored' = favored
      /\ queued_favored' = queued_favored /\ pending_favored' = pending_favored
      /\ \A q \in Ids : ~favored[q] /\ (was_fuzzed[q] <=> disabled[q])
  BY DEF CountInv, DryRunClean, favorVars
<1>3. /\ disabled' = [q \in Ids |-> disabled[q] \/ q \in D]
      /\ was_fuzzed' = [q \in Ids |-> was_fuzzed[q] \/ q \in D]
      /\ pending_not_fuzzed' = pending_not_fuzzed - Cardinality(Pending(D))
  BY DEF disable
<1>4. {q \in Items : ~was_fuzzed'[q]} = Pending(Items) \ Pending(D)
  BY <1>1, <1>3 DEF Pending
<1>5. Cardinality(Pending(Items) \ Pending(D))
        = Cardinality(Pending(Items)) - Cardinality(Pending(D))
  <2>1. Pending(D) \in SUBSET Pending(Items)
    BY DEF Pending
  <2> QED
    BY <2>1, CountedSets, CountFacts
<1>6. {q \in Items : favored[q]} = {} /\ {q \in {p \in Items : favored[p]} : ~was_fuzzed[q]} = {}
      /\ {q \in {p \in Items : favored[p]} : ~was_fuzzed'[q]} = {}
  BY <1>1, <1>2
<1>7. CountersExact'
  <2>1. pending_not_fuzzed' = Cardinality({q \in Items' : ~was_fuzzed'[q]})
    BY <1>1, <1>3, <1>4, <1>5 DEF CountInv, CountersExact
  <2>2. queued_favored' = Cardinality({q \in Items' : favored'[q]})
    BY <1>1, <1>2 DEF CountInv, CountersExact
  <2>3. pending_favored' = Cardinality({q \in {p \in Items' : favored'[p]} : ~was_fuzzed'[q]})
    BY <1>1, <1>2, <1>6 DEF CountInv, CountersExact, Pending
  <2> QED
    BY <2>1, <2>2, <2>3 DEF CountersExact, Pending
<1>8. SmallestIsPending'
  BY <1>2 DEF SmallestIsPending
<1>9. SpareEntriesClean'
  BY <1>1, <1>2, <1>3 DEF SpareEntriesClean, CountInv
<1>10. DryRunClean'
  BY <1>2, <1>3 DEF DryRunClean
<1> QED
  BY <1>7, <1>8, <1>9, <1>10 DEF CountInv

\* A recount by cull_queue().
LEMMA CullKeepsCounts ==
    ASSUME TypeOK, CountInv, cull_queue, ~InDryRun',
           UNCHANGED <<queued_items, pending_not_fuzzed, was_fuzzed>>
    PROVE  CountInv'
<1>1. Items' = Items /\ Items \subseteq Ids
  BY CountedSets DEF Items
<1>2. CASE ~score_changed
  <2>1. UNCHANGED <<favored, queued_favored, pending_favored, smallest_favored, disabled>>
    BY <1>2 DEF cull_queue, favorVars
  <2>2. CountersExact' /\ SmallestIsPending' /\ SpareEntriesClean'
    BY <1>1, <2>1
    DEF CountInv, CountersExact, SmallestIsPending, SpareEntriesClean, Pending
  <2> QED
    BY <2>2 DEF CountInv, DryRunClean
<1>3. CASE score_changed
  <2> DEFINE fav     == {q \in Items : ~disabled[q] /\ q \in TopPicks}
             dropped == {q \in Items : ~disabled[q] /\ q \notin fav /\ ~fs_redundant[q]}
  <2>1. /\ favored' = [q \in Ids |-> q \in fav]
        /\ queued_favored' = Cardinality(fav)
        /\ pending_favored' = Cardinality(Pending(fav))
        /\ smallest_favored' = Smallest(Pending(fav))
        /\ disabled' = [q \in Ids |-> disabled[q] \/ (DisableRedundant /\ q \in dropped)]
    BY <1>3 DEF cull_queue
  <2>2. fav \subseteq Items /\ \A q \in fav : ~disabled[q] /\ q \notin dropped
    OBVIOUS
  <2>2a. dropped \subseteq Items
    OBVIOUS
  <2> HIDE DEF fav, dropped
  <2>3. {q \in Items : favored'[q]} = fav
    BY <1>1, <2>1, <2>2
  <2>4. /\ {q \in Items' : ~was_fuzzed'[q]} = Pending(Items)
        /\ {q \in {p \in Items' : favored'[p]} : ~was_fuzzed'[q]} = Pending(fav)
    BY <1>1, <2>3 DEF Pending
  <2>5. CountersExact'
    BY <1>1, <2>1, <2>3, <2>4 DEF CountInv, CountersExact, Pending
  <2>6. SmallestIsPending'
    <3>1. Pending(fav) \in SUBSET Ids
      BY <1>1, <2>2 DEF Pending
    <3>2. smallest_favored' # None =>
             smallest_favored' \in Pending(fav) /\ \A q \in Pending(fav) : smallest_favored' <= q
      BY <2>1, <3>1, SmallestType
    <3>3. {q \in Items : favored'[q] /\ ~disabled'[q]} = fav
      BY <1>1, <2>1, <2>2, <2>3
    <3> QED
      BY <1>1, <2>3, <3>2, <3>3 DEF SmallestIsPending, Pending
  <2>7. SpareEntriesClean'
    BY <1>1, <2>1, <2>2, <2>2a DEF SpareEntriesClean, CountInv
  <2> QED
    BY <2>5, <2>6, <2>7 DEF CountInv, DryRunClean
<1> QED
  BY <1>2, <1>3

\* A new entry is pending, and no favorite.
LEMMA SaveKeepsCounts ==
    ASSUME TypeOK, EntryAtHand, CountInv, SaveInteresting
    PROVE  CountInv'
<1>1. PICK l \in Lens, tr \in Traces : add_to_queue(l, tr)
  BY DEF SaveInteresting
<1>2. /\ queued_items \in Ids /\ queued_items \notin Items
      /\ Items' = Items \cup {queued_items} /\ Items \subseteq Ids
  <2>1. queued_items \in Ids /\ queued_items \notin Items /\ Items' = Items \cup {queued_items}
    BY <1>1, QueueAssumption DEF add_to_queue, TypeOK, Ids, Items
  <2> QED
    BY <2>1, CountedSets
<1>3. UNCHANGED <<was_fuzzed, disabled, favored, queued_favored, pending_favored,
                  smallest_favored>>
  BY DEF SaveInteresting, historyVars, favorVars
<1>4. ~was_fuzzed[queued_items] /\ ~favored[queued_items]
  BY <1>2 DEF CountInv, SpareEntriesClean
<1>5. {q \in Items' : ~was_fuzzed'[q]} = Pending(Items) \cup {queued_items}
  BY <1>2, <1>3, <1>4 DEF Pending
<1>6. Cardinality(Pending(Items) \cup {queued_items}) = Cardinality(Pending(Items)) + 1
  <2>1. queued_items \in Ids \ Pending(Items)
    BY <1>2 DEF Pending
  <2> QED
    BY <2>1, CountedSets, CountFacts
<1>7. /\ {q \in Items' : favored'[q]} = {q \in Items : favored[q]}
      /\ {q \in Items' : favored'[q] /\ ~disabled'[q]} = {q \in Items : favored[q] /\ ~disabled[q]}
  BY <1>2, <1>3, <1>4
<1>8. pending_not_fuzzed' = pending_not_fuzzed + 1
  BY <1>1 DEF add_to_queue
<1>9. CountersExact'
  BY <1>3, <1>5, <1>6, <1>7, <1>8 DEF CountInv, CountersExact, Pending
<1>10. SmallestIsPending'
  BY <1>3, <1>7 DEF CountInv, SmallestIsPending, Pending
<1>11. SpareEntriesClean'
  BY <1>2, <1>3 DEF CountInv, SpareEntriesClean
<1>12. DryRunClean'
  BY DEF SaveInteresting, Call, Interruptible, DryRunClean, InDryRun
<1> QED
  BY <1>9, <1>10, <1>11, <1>12 DEF CountInv

\* The first completed round of an entry, and any other.
LEMMA AbandonKeepsCounts ==
    ASSUME TypeOK, EntryAtHand, CountInv, AbandonEntry
    PROVE  CountInv'
<1>1. /\ Items' = Items /\ Items \subseteq Ids /\ queue_cur \in Items
      /\ UNCHANGED <<favored, disabled, queued_favored, queued_items>>
  BY CountedSets DEF AbandonEntry, EntryAtHand, Items
<1>2. ~InDryRun'
  BY DEF AbandonEntry, InDryRun
<1>3. CASE ~FirstRound(queue_cur)
  <2>1. UNCHANGED <<pending_not_fuzzed, was_fuzzed, pending_favored, smallest_favored>>
    BY <1>3 DEF AbandonEntry
  <2>2. CountersExact' /\ SmallestIsPending' /\ SpareEntriesClean'
    BY <1>1, <2>1
    DEF CountInv, CountersExact, SmallestIsPending, SpareEntriesClean, Pending
  <2> QED
    BY <1>2, <2>2 DEF CountInv, DryRunClean
<1>4. CASE FirstRound(queue_cur)
  <2> DEFINE fav == {q \in Items : favored[q]}
  <2>1. /\ pending_not_fuzzed' = pending_not_fuzzed - 1
        /\ was_fuzzed' = [was_fuzzed EXCEPT ![queue_cur] = TRUE]
        /\ serve_favorite(queue_cur) /\ ~was_fuzzed[queue_cur]
    BY <1>4 DEF AbandonEntry, FirstRound
  <2>2. /\ {q \in Items : ~was_fuzzed'[q]} = Pending(Items) \ {queue_cur}
        /\ {q \in fav : ~was_fuzzed'[q]} = Pending(fav) \ {queue_cur}
    BY <1>1, <2>1 DEF Pending, TypeOK
  <2>3. queue_cur \in Pending(Items)
    BY <1>1, <2>1 DEF Pending
  <2>4. Cardinality(Pending(Items) \ {queue_cur}) = Cardinality(Pending(Items)) - 1
    BY <2>3, CountedSets, CountFacts
  <2>5. pending_favored' = Cardinality(Pending(fav) \ {queue_cur})
    <3>1. CASE favored[queue_cur]
      <4>1. queue_cur \in Pending(fav) /\ Pending(fav) \in SUBSET Ids
        BY <1>1, <2>1, <3>1 DEF Pending
      <4> QED
        BY <2>1, <3>1, <4>1, CountFacts DEF serve_favorite, CountInv, CountersExact
    <3>2. CASE ~favored[queue_cur]
      <4>1. Pending(fav) \ {queue_cur} = Pending(fav)
        BY <3>2 DEF Pending
      <4> QED
        BY <2>1, <3>2, <4>1 DEF serve_favorite, CountInv, CountersExact
    <3> QED
      BY <3>1, <3>2
  <2>6. CountersExact'
    <3>1. pending_not_fuzzed' = Cardinality({q \in Items : ~was_fuzzed'[q]})
      BY <2>1, <2>2, <2>4 DEF CountInv, CountersExact
    <3>2. pending_favored' = Cardinality({q \in fav : ~was_fuzzed'[q]})
      BY <2>2, <2>5
    <3>3. queued_favored' = Cardinality(fav)
      BY <1>1 DEF CountInv, CountersExact
    <3> QED
      BY <1>1, <3>1, <3>2, <3>3 DEF CountersExact, Pending
  <2>7. SmallestIsPending'
    <3>1. smallest_favored' = None \/ (smallest_favored' = smallest_favored /\ ~favored[queue_cur])
      BY <2>1 DEF serve_favorite
    <3>2. {q \in {p \in Items : favored[p]} : ~was_fuzzed'[q]}
              \subseteq {q \in {p \in Items : favored[p]} : ~was_fuzzed[q]}
      BY <2>2 DEF Pending
    <3>3. ~favored[queue_cur] /\ smallest_favored # None =>
             /\ smallest_favored # queue_cur
             /\ smallest_favored \in Items /\ favored[smallest_favored]
             /\ ~disabled[smallest_favored] /\ ~was_fuzzed[smallest_favored]
      BY DEF CountInv, SmallestIsPending, Pending
    <3>4. ~favored[queue_cur] /\ smallest_favored # None => ~was_fuzzed'[smallest_favored]
      BY <1>1, <2>1, <3>3 DEF TypeOK
    <3> QED
      BY <1>1, <3>1, <3>2, <3>3, <3>4 DEF CountInv, SmallestIsPending, Pending
  <2>8. SpareEntriesClean'
    BY <1>1, <2>1 DEF CountInv, SpareEntriesClean, TypeOK
  <2> QED
    BY <1>2, <2>6, <2>7, <2>8 DEF CountInv, DryRunClean
<1> QED
  BY <1>3, <1>4

\* The seeds are all pending, and there is no favorite.
LEMMA InitCounts == Init => CountInv
<1> SUFFICES ASSUME Init PROVE CountInv
  OBVIOUS
<1>1. PICK n \in 1..MaxSeeds : InitQueue(n)
  BY DEF Init
<1>2. n \in Nat /\ n >= 1 /\ n <= MaxItems
  BY LoopAssumption, QueueAssumption
<1>3. /\ queued_items = n /\ pending_not_fuzzed = n /\ queued_favored = 0 /\ pending_favored = 0
      /\ smallest_favored = None
      /\ \A q \in Ids : ~was_fuzzed[q] /\ ~favored[q] /\ ~disabled[q]
  BY <1>1 DEF InitQueue
<1>4. Items \subseteq Ids /\ Items = 0..(n - 1)
  BY <1>2, <1>3, QueueAssumption DEF Items, Ids
<1>5. Pending(Items) = 0..(n - 1)
  BY <1>3, <1>4 DEF Pending
<1>6. Cardinality(0..(n - 1)) = n
  BY <1>2, FS_Interval
<1>7. {q \in Items : favored[q]} = {} /\ Pending({}) = {}
  BY <1>3, <1>4 DEF Pending
<1>8. CountersExact
  BY <1>3, <1>5, <1>6, <1>7, FS_EmptySet DEF CountersExact
<1> QED
  BY <1>3, <1>8 DEF CountInv, SmallestIsPending, SpareEntriesClean, DryRunClean

\* A calibration disables an entry only in the dry run.
LEMMA CalibrateKeepsCounts ==
    ASSUME TypeOK, EntryAtHand, CountInv, Calibrate
    PROVE  CountInv'
<1>1. pc = "calibrate" /\ cal_q \in Items
  BY DEF Calibrate, CalibrateOk, CalibrateFail, EntryAtHand
<1>2. CASE CalibrateOk
  <2>1. UNCHANGED countedVars
    BY <1>2 DEF CalibrateOk, countedVars, countVars, favorVars
  <2>2. InDryRun' => InDryRun
    BY <1>1, <1>2 DEF CalibrateOk, InDryRun, EntryAtHand, Interruptible
  <2> QED
    BY <2>1, <2>2, QuietKeepsCounts
<1>3. CASE CalibrateFail /\ ret = "dry_run"
  <2>1. disable({cal_q}) /\ UNCHANGED <<queued_items, favorVars>>
    BY <1>3 DEF CalibrateFail
  <2>2. InDryRun /\ {cal_q} \in SUBSET Items
    BY <1>1, <1>3 DEF InDryRun
  <2> QED
    BY <2>1, <2>2, DisableKeepsCounts
<1>4. CASE CalibrateFail /\ ret # "dry_run"
  <2>1. UNCHANGED countedVars
    BY <1>4 DEF CalibrateFail, countedVars, countVars, favorVars
  <2>2. InDryRun' => InDryRun
    BY <1>4 DEF CalibrateFail, InDryRun, EntryAtHand, Interruptible
  <2> QED
    BY <2>1, <2>2, QuietKeepsCounts
<1> QED
  BY <1>2, <1>3, <1>4 DEF Calibrate

\* The steps that touch neither flags nor counters.
LEMMA OthersAreQuiet ==
    ASSUME \/ DryRunSeed \/ StayInCycle \/ EnterCycle \/ EndSync \/ CycleSchedule
           \/ RescoreCandidate \/ EndRescore \/ Select \/ SkipEntry \/ BeginEntry \/ AfterRetry
           \/ Trim \/ RunMutant \/ Exited \/ UNCHANGED vars
    PROVE  UNCHANGED countedVars /\ (InDryRun' => InDryRun)
<1> USE DEF queueVars, countVars, historyVars, favorVars, loopVars, countedVars
<1>1. CASE \/ DryRunSeed \/ StayInCycle \/ EnterCycle \/ EndSync \/ EndRescore \/ Select
           \/ SkipEntry \/ AfterRetry \/ Exited \/ UNCHANGED vars
  BY <1>1 DEF DryRunSeed, Call, StayInCycle, EnterCycle, EndSync, EndRescore, Select, SkipEntry,
              AfterRetry, Exited, vars, InDryRun
<1>2. CASE CycleSchedule \/ RescoreCandidate \/ RunMutant
  BY <1>2 DEF CycleSchedule, RescoreCandidate, RunMutant, InDryRun
<1>3. CASE BeginEntry \/ Trim
  BY <1>3 DEF BeginEntry, Call, Trim, InDryRun
<1> QED
  BY <1>1, <1>2, <1>3

\* No step of the campaign breaks the agreement.
LEMMA NextKeepsCounts ==
    ASSUME TypeOK, EntryAtHand, CountInv, [Next]_vars
    PROVE  CountInv'
<1>1. CASE RemoveDuplicates
  <2>1. InDryRun /\ Duplicates \in SUBSET Items /\ disable(Duplicates)
    BY <1>1 DEF RemoveDuplicates, InDryRun, Duplicates
  <2>2. UNCHANGED <<queued_items, favorVars>>
    BY <1>1 DEF RemoveDuplicates
  <2> QED
    BY <2>1, <2>2, DisableKeepsCounts
<1>2. CASE CullQueue
  <2>1. cull_queue /\ ~InDryRun' /\ UNCHANGED <<queued_items, pending_not_fuzzed, was_fuzzed>>
    BY <1>2 DEF CullQueue, InDryRun, countVars
  <2> QED
    BY <2>1, CullKeepsCounts
<1> QED
  BY <1>1, <1>2, CalibrateKeepsCounts, SaveKeepsCounts, AbandonKeepsCounts, OthersAreQuiet,
     QuietKeepsCounts
  DEF Next, StartUp, MainLoop, FuzzOne

\* The counters and the flags agree, and the spare entries are clean, always.
LEMMA CountsHold == Spec => []CountInv
<1>1. TypeOK /\ EntryAtHand /\ CountInv /\ [Next]_vars => CountInv'
  BY NextKeepsCounts
<1> QED
  BY <1>1, InitCounts, TypeCorrect, PTL DEF Spec

\* pending_not_fuzzed, queued_favored and pending_favored say what the flags of
\* the queue say, for any number of entries and any order of finds, failures,
\* rounds and culls: the skip dice of fuzz_one() are thrown for what is there.
THEOREM CountersCorrect == Spec => []CountersExact
<1>1. CountInv => CountersExact
  BY DEF CountInv
<1> QED
  BY <1>1, CountsHold, PTL

\* The entry the main loop jumps to is an enabled favorite that waits for its
\* first round, and the first of them.
THEOREM SmallestCorrect == Spec => []SmallestIsPending
<1>1. CountInv => SmallestIsPending
  BY DEF CountInv
<1> QED
  BY <1>1, CountsHold, PTL

--------------------------------------------------------------------------------
(* active_items                                                             *)

\* The entries that count as active.
Enabled == {q \in Items : ~disabled[q]}

\* What the dry run disables is what it subtracts.
LEMMA DisableKeepsActive ==
    ASSUME TypeOK, CountInv, ActiveExact, InDryRun, NEW D \in SUBSET Items, disable(D),
           UNCHANGED queued_items
    PROVE  ActiveExact'
<1>1. Items' = Items /\ Items \subseteq Ids
  BY CountedSets DEF Items
<1>2. \A q \in Ids : was_fuzzed[q] <=> disabled[q]
  BY DEF CountInv, DryRunClean
<1>3. /\ disabled' = [q \in Ids |-> disabled[q] \/ q \in D]
      /\ active_items' = active_items - Cardinality(Pending(D))
  BY DEF disable
<1>4. {q \in Items' : ~disabled'[q]} = Enabled \ Pending(D)
  BY <1>1, <1>2, <1>3 DEF Pending, Enabled
<1>5. Cardinality(Enabled \ Pending(D)) = Cardinality(Enabled) - Cardinality(Pending(D))
  <2>1. Pending(D) \in SUBSET Enabled /\ Enabled \in SUBSET Ids
    BY <1>1, <1>2 DEF Pending, Enabled
  <2> QED
    BY <2>1, CountFacts
<1> QED
  BY <1>3, <1>4, <1>5 DEF ActiveExact, Enabled

\* active_items counts the enabled entries: the dry run is the only one to
\* disable any, as long as cull_queue() does not (AFL_DISABLE_REDUNDANT, which
\* leaves the counter behind).
THEOREM ActiveCorrect ==
    ASSUME ~DisableRedundant
    PROVE  Spec => []ActiveExact
<1>1. Init => ActiveExact
  <2> SUFFICES ASSUME Init PROVE ActiveExact
    OBVIOUS
  <2>1. PICK n \in 1..MaxSeeds : InitQueue(n)
    BY DEF Init
  <2>2. n \in Nat /\ n >= 1 /\ n <= MaxItems
    BY LoopAssumption, QueueAssumption
  <2>3. queued_items = n /\ active_items = n /\ \A q \in Ids : ~disabled[q]
    BY <2>1 DEF InitQueue
  <2>4. {q \in Items : ~disabled[q]} = 0..(n - 1)
    BY <2>2, <2>3, QueueAssumption DEF Items, Ids
  <2>5. Cardinality(0..(n - 1)) = n
    BY <2>2, FS_Interval
  <2> QED
    BY <2>3, <2>4, <2>5 DEF ActiveExact
<1>2. TypeOK /\ EntryAtHand /\ CountInv /\ ActiveExact /\ [Next]_vars => ActiveExact'
  <2> SUFFICES ASSUME TypeOK, EntryAtHand, CountInv, ActiveExact, [Next]_vars
               PROVE  ActiveExact'
    OBVIOUS
  <2>1. ASSUME UNCHANGED <<queued_items, active_items, disabled>> PROVE ActiveExact'
    BY <2>1 DEF ActiveExact, Items
  <2>2. CASE Calibrate
    <3>1. CASE CalibrateFail /\ ret = "dry_run"
      <4>1. disable({cal_q}) /\ InDryRun /\ {cal_q} \in SUBSET Items /\ UNCHANGED queued_items
        BY <3>1 DEF CalibrateFail, InDryRun, EntryAtHand
      <4> QED
        BY <4>1, DisableKeepsActive
    <3>2. CASE CalibrateOk \/ (CalibrateFail /\ ret # "dry_run")
      BY <3>2, <2>1 DEF CalibrateOk, CalibrateFail, countVars
    <3> QED
      BY <2>2, <3>1, <3>2 DEF Calibrate
  <2>3. CASE RemoveDuplicates
    <3>1. InDryRun /\ Duplicates \in SUBSET Items /\ disable(Duplicates) /\ UNCHANGED queued_items
      BY <2>3 DEF RemoveDuplicates, InDryRun, Duplicates
    <3> QED
      BY <3>1, DisableKeepsActive
  <2>4. CASE CullQueue
    <3>1. disabled' = disabled
      <4>1. CASE score_changed
        <5>1. \A q \in Ids : disabled'[q] = disabled[q]
          BY <2>4, <4>1 DEF CullQueue, cull_queue, TypeOK
        <5>2. disabled' \in [Ids -> BOOLEAN]
          BY <2>4, CullType DEF CullQueue
        <5> QED
          BY <5>1, <5>2 DEF TypeOK
      <4> QED
        BY <2>4, <4>1 DEF CullQueue, cull_queue
    <3> QED
      BY <2>1, <2>4, <3>1 DEF CullQueue, countVars
  <2>5. CASE SaveInteresting
    <3>1. PICK l \in Lens, tr \in Traces : add_to_queue(l, tr)
      BY <2>5 DEF SaveInteresting
    <3>2. /\ queued_items \in Ids /\ queued_items \notin Items
          /\ Items' = Items \cup {queued_items}
      <4>1. /\ queued_items \in 1..MaxItems /\ queued_items < MaxItems
            /\ queued_items' = queued_items + 1 /\ MaxItems \in Nat
        BY <3>1, QueueAssumption DEF add_to_queue, TypeOK
      <4>2. Items = 0..(queued_items - 1) /\ Items' = 0..(queued_items' - 1)
        BY DEF Items
      <4> QED
        BY <4>1, <4>2 DEF Ids
    <3>3. ~disabled[queued_items] /\ disabled' = disabled
      BY <2>5, <3>2 DEF SaveInteresting, historyVars, CountInv, SpareEntriesClean
    <3>4. {q \in Items' : ~disabled'[q]} = Enabled \cup {queued_items}
      BY <3>2, <3>3 DEF Enabled
    <3>5. Enabled \in SUBSET Ids /\ queued_items \in Ids \ Enabled
      BY <3>2, CountedSets DEF Enabled
    <3>6. Cardinality(Enabled \cup {queued_items}) = Cardinality(Enabled) + 1
      BY <3>5, CountFacts
    <3> QED
      BY <3>1, <3>4, <3>6 DEF add_to_queue, ActiveExact, Enabled
  <2>6. CASE AbandonEntry
    BY <2>1, <2>6 DEF AbandonEntry
  <2> QED
    BY <2>1, <2>2, <2>3, <2>4, <2>5, <2>6, OthersAreQuiet
    DEF Next, StartUp, MainLoop, FuzzOne, countedVars
<1> QED
  BY <1>1, <1>2, CountsHold, TypeCorrect, PTL DEF Spec

--------------------------------------------------------------------------------
(* The seeds that are left after the dry run                                *)

\* The dry run has not calibrated q to the end yet.
Uncalibrated(q) == q >= dry_idx \/ (pc = "calibrate" /\ q = cal_q)

\* A seed is taken out only for a failure, and one that made it has a trace.
\* When the main loop calls calibrate_case() it has an entry at hand.
SeedInv ==
    /\ OneSeedPerTrace
    /\ pc = "calibrate" /\ ret = "main" => queue_cur # None
    /\ InDryRun =>
          /\ pc = "calibrate" => cal_q < dry_idx
          /\ \A q \in Items : /\ disabled[q] => cal_failed[q] # 0
                              /\ Uncalibrated(q) => cal_failed[q] = 0
                              /\ ~Uncalibrated(q) /\ cal_failed[q] = 0 => exec_cksum[q] # {}

\* Of the valid seeds with one trace the pairwise comparison leaves exactly
\* one, the first of the shortest.
LEMMA DuplicatesLeaveOne ==
    ASSUME TypeOK, SeedInv, RemoveDuplicates
    PROVE  OneSeedPerTrace'
<1> DEFINE valid == {q \in Items : ~disabled[q] /\ cal_failed[q] = 0 /\ exec_cksum[q] # {}}
<1>1. Items' = Items /\ Items \subseteq Ids /\ Items \subseteq Nat
  BY CountedSets DEF RemoveDuplicates, Items, Ids
<1>2. UNCHANGED <<len, exec_cksum, cal_failed>>
  BY DEF RemoveDuplicates, inputVars
<1>3. valid = {q \in Items : cal_failed[q] = 0}
  <2>1. \A q \in Items : ~Uncalibrated(q)
    BY DEF RemoveDuplicates, Uncalibrated, Items, TypeOK
  <2> QED
    BY <2>1 DEF SeedInv, RemoveDuplicates, InDryRun
<1>4. \A q \in valid : ~disabled[q] /\ q \in Ids
  BY <1>1
<1>5. Duplicates =
        {q \in valid : \E p \in valid : exec_cksum[p] = exec_cksum[q] /\ Supersedes(p, q)}
  BY DEF Duplicates
<1> HIDE DEF valid
<1>6. \A q \in valid : disabled'[q] <=> q \in Duplicates
  BY <1>4 DEF RemoveDuplicates, disable
<1>7. \A q \in valid : len[q] \in Nat /\ q \in Nat
  BY <1>1, <1>3, QueueAssumption DEF TypeOK
<1>8. ASSUME NEW q \in valid
      PROVE  \E p \in valid :
                p \notin Duplicates /\ exec_cksum[p] = exec_cksum[q] /\ len[p] <= len[q]
  <2> DEFINE class    == {p \in valid : exec_cksum[p] = exec_cksum[q]}
             lengths  == {len[p] : p \in class}
  <2>1. lengths \in SUBSET Nat /\ lengths # {} /\ q \in class
    BY <1>7
  <2>2. PICK m \in lengths : \A n \in lengths : m <= n
    BY <2>1, LeastOf
  <2> DEFINE shortest == {p \in class : len[p] = m}
  <2>3. shortest \in SUBSET Nat /\ shortest # {}
    BY <1>7
  <2>4. PICK p \in shortest : \A r \in shortest : p <= r
    BY <2>3, LeastOf
  <2>5. p \in class /\ len[p] = m /\ \A r \in class : len[r] \in lengths
    OBVIOUS
  <2>6. \A r \in class : ~Supersedes(r, p)
    <3> SUFFICES ASSUME NEW r \in class PROVE ~Supersedes(r, p)
      OBVIOUS
    <3>1. m <= len[r] /\ len[r] \in Nat /\ m \in Nat /\ p \in Nat /\ r \in Nat
      BY <1>7, <2>1, <2>2, <2>5
    <3>2. len[r] = m => p <= r
      BY <2>4
    <3> QED
      BY <2>5, <3>1, <3>2 DEF Supersedes
  <2>7. p \notin Duplicates
    BY <1>5, <2>5, <2>6
  <2> QED
    BY <2>1, <2>2, <2>5, <2>7
<1>9. ASSUME NEW q \in valid, NEW p \in valid, q # p, exec_cksum[p] = exec_cksum[q]
      PROVE  p \in Duplicates \/ q \in Duplicates
  <2>1. Supersedes(p, q) \/ Supersedes(q, p)
    BY <1>7, <1>9 DEF Supersedes
  <2> QED
    BY <1>5, <1>9, <2>1
<1> QED
  BY <1>1, <1>2, <1>3, <1>6, <1>8, <1>9 DEF OneSeedPerTrace

\* The main loop starts with exactly one enabled seed for each trace the valid
\* seeds have, and none of the seeds dropped for it is shorter: the pairwise
\* loop over equal checksums neither keeps two nor drops all of them.
THEOREM SeedsCorrect == Spec => []OneSeedPerTrace
<1>1. Init => SeedInv
  <2> SUFFICES ASSUME Init PROVE SeedInv
    OBVIOUS
  <2>1. PICK n \in 1..MaxSeeds : InitQueue(n)
    BY DEF Init
  <2>2. n \in Nat /\ n >= 1 /\ n <= MaxItems
    BY LoopAssumption, QueueAssumption
  <2>3. Items \subseteq Ids /\ \A q \in Items : q >= 0
    BY <2>1, <2>2, QueueAssumption DEF InitQueue, Items, Ids
  <2> QED
    BY <2>1, <2>3 DEF Init, InitQueue, SeedInv, OneSeedPerTrace, InDryRun, Uncalibrated
<1>2. TypeOK /\ EntryAtHand /\ SeedInv /\ [Next]_vars => SeedInv'
  <2> SUFFICES ASSUME TypeOK, EntryAtHand, SeedInv, [Next]_vars
               PROVE  SeedInv'
    OBVIOUS
  <2> USE DEF queueVars, countVars, inputVars, historyVars, loopVars
  <2>1. CASE DryRunSeed
    <3>1. /\ pc = "dry_run" /\ pc' = "calibrate" /\ ret' = "dry_run" /\ cal_q' = dry_idx
          /\ dry_idx' = dry_idx + 1 /\ dry_idx \in Nat
          /\ UNCHANGED <<queued_items, disabled, cal_failed, exec_cksum>>
      BY <2>1 DEF DryRunSeed, Call, TypeOK
    <3>2. Items' = Items /\ \A q \in Items : q \in Nat /\ (Uncalibrated(q)' <=> Uncalibrated(q))
      BY <3>1 DEF Items, Uncalibrated
    <3> QED
      BY <3>1, <3>2 DEF SeedInv, InDryRun, OneSeedPerTrace
  <2>2. CASE RemoveDuplicates
    BY <2>2, DuplicatesLeaveOne DEF SeedInv, RemoveDuplicates, InDryRun
  <2>3. CASE Calibrate /\ ret = "dry_run"
    <3>1. /\ pc = "calibrate" /\ pc' = "dry_run" /\ cal_q \in Items /\ cal_q \in Ids /\ InDryRun
          /\ UNCHANGED <<queued_items, dry_idx>>
      BY <2>3, ItemsAreIds
      DEF Calibrate, CalibrateOk, CalibrateFail, EntryAtHand, TypeOK, InDryRun
    <3>2. /\ Items' = Items /\ Items \subseteq Ids
          /\ \A q \in Items : Uncalibrated(q)' <=> Uncalibrated(q) /\ q # cal_q
      BY <3>1, ItemsAreIds DEF Items, Uncalibrated, SeedInv, TypeOK
    <3>3. \A q \in Items : q # cal_q =>
             /\ cal_failed'[q] = cal_failed[q] /\ disabled'[q] = disabled[q]
             /\ exec_cksum'[q] = exec_cksum[q]
      <4>1. CASE CalibrateOk
        BY <3>2, <4>1 DEF CalibrateOk, TypeOK
      <4>2. CASE CalibrateFail
        <5>1. /\ \E tr : exec_cksum' = [exec_cksum EXCEPT ![cal_q] = tr]
              /\ \E n : cal_failed' = [cal_failed EXCEPT ![cal_q] = n]
          BY <4>2 DEF CalibrateFail
        <5>2. disabled' = [q \in Ids |-> disabled[q] \/ q \in {cal_q}]
          BY <2>3, <4>2 DEF CalibrateFail, disable
        <5> QED
          BY <3>2, <5>1, <5>2 DEF TypeOK
      <4> QED
        BY <2>3, <4>1, <4>2 DEF Calibrate
    <3>4. cal_failed[cal_q] = 0 /\ ~disabled[cal_q]
      BY <3>1 DEF SeedInv, Uncalibrated
    <3>5. /\ disabled'[cal_q] => cal_failed'[cal_q] # 0
          /\ cal_failed'[cal_q] = 0 => exec_cksum'[cal_q] # {}
      <4>1. CASE CalibrateOk
        <5>1. PICK tr \in TracesOf(cal_q) :
                exec_cksum' = [exec_cksum EXCEPT ![cal_q] = IF @ = {} THEN tr ELSE @]
          BY <4>1 DEF CalibrateOk
        <5>2. exec_cksum'[cal_q] # {}
          BY <3>1, <5>1 DEF TracesOf, Traces, TypeOK
        <5>3. disabled' = disabled
          BY <4>1 DEF CalibrateOk
        <5> QED
          BY <3>4, <5>2, <5>3
      <4>2. CASE CalibrateFail
        <5>1. \E n \in {1, CalChances} : cal_failed' = [cal_failed EXCEPT ![cal_q] = n]
          BY <2>3, <4>2 DEF CalibrateFail
        <5>2. cal_failed'[cal_q] # 0
          BY <3>1, <5>1, LoopAssumption DEF TypeOK
        <5> QED
          BY <5>2
      <4> QED
        BY <2>3, <4>1, <4>2 DEF Calibrate
    <3> QED
      BY <3>1, <3>2, <3>3, <3>4, <3>5 DEF SeedInv, InDryRun, OneSeedPerTrace
  <2>4. CASE Calibrate /\ ret # "dry_run"
    <3>1. pc = "calibrate" /\ pc' \in {ret, "abandon"} /\ queue_cur' = queue_cur
      BY <2>4 DEF Calibrate, CalibrateOk, CalibrateFail
    <3>2. ~InDryRun' /\ pc' # "calibrate"
      BY <2>4, <3>1 DEF InDryRun, EntryAtHand, Interruptible
    <3> QED
      BY <3>1, <3>2 DEF SeedInv, OneSeedPerTrace
  <2>5. CASE CullQueue \/ SaveInteresting \/ AbandonEntry
    <3>1. pc' = "main" => queue_cur' \in Items
      BY <2>5 DEF CullQueue, SaveInteresting, Call, AbandonEntry, EntryAtHand
    <3>2. ~InDryRun' /\ (pc' = "calibrate" /\ ret' = "main" => queue_cur' # None)
      BY <2>5 DEF CullQueue, SaveInteresting, Call, AbandonEntry, InDryRun, Interruptible
    <3>3. None \notin Items
      BY ItemsAreIds, NoneIsNoId DEF TypeOK
    <3> QED
      BY <3>1, <3>2, <3>3 DEF SeedInv, OneSeedPerTrace
  <2>6. CASE \/ StayInCycle \/ EnterCycle \/ EndSync \/ CycleSchedule \/ RescoreCandidate
             \/ EndRescore \/ Select \/ SkipEntry \/ BeginEntry \/ AfterRetry \/ Trim \/ RunMutant
    <3>1. pc' # "main" /\ ~InDryRun' /\ (pc' = "calibrate" => ret' # "main")
      BY <2>6
      DEF StayInCycle, EnterCycle, EndSync, CycleSchedule, RescoreCandidate, EndRescore, Select,
          SkipEntry, BeginEntry, AfterRetry, Trim, RunMutant, Call, InDryRun
    <3> QED
      BY <3>1 DEF SeedInv, OneSeedPerTrace
  <2>7. CASE Exited \/ UNCHANGED vars
    BY <2>7
    DEF Exited, vars, SeedInv, OneSeedPerTrace, InDryRun, Uncalibrated, Items
  <2> QED
    BY <2>1, <2>2, <2>3, <2>4, <2>5, <2>6, <2>7 DEF Next, StartUp, MainLoop, FuzzOne
<1>3. SeedInv => OneSeedPerTrace
  BY DEF SeedInv
<1> QED
  BY <1>1, <1>2, <1>3, TypeCorrect, PTL DEF Spec

--------------------------------------------------------------------------------
(* Who owns which byte                                                      *)

\* The two facts support each other: a trace is freed when tc_ref says that the
\* last byte is gone.
OwnersExact == RefCountExact /\ KeptTraceIsReferenced

\* One contest, for any set of bytes and any rule of who wins.
LEMMA ContendKeepsOwners ==
    ASSUME TypeOK, OwnersExact, NEW q \in Ids, NEW bytes \in SUBSET Bytes, NEW bits,
           NEW beats, contend(q, bytes, bits, beats)
    PROVE  OwnersExact'
<1> DEFINE won     == Won(q, bytes, beats)
           lost(p) == {b \in won : top_rated[b] = p}
<1>1. won \in SUBSET Bytes /\ \A p : lost(p) \in SUBSET Bytes /\ lost(p) \subseteq Held(p)
  BY DEF Won, Held
<1>2. /\ top_rated' = [b \in Bytes |-> IF b \in won THEN q ELSE top_rated[b]]
      /\ tc_ref' = [p \in Ids |-> RefAfter(q, p, won)]
      /\ trace_mini' = [p \in Ids |->
               IF p = q /\ Renews(q, won) THEN {bits}
               ELSE IF Frees(q, p, won) THEN {} ELSE trace_mini[p]]
  BY DEF contend
<1>3. \A p \in Ids : RefAfter(q, p, won) =
          tc_ref[p] - Cardinality(lost(p)) + (IF p = q THEN Cardinality(won) ELSE 0)
  BY DEF RefAfter
<1>4. \A p \in Ids : Held(p) \in SUBSET Bytes
  BY DEF Held
<1>5. \A p \in Ids : Frees(q, p, won) <=> p # q /\ RefAfter(q, p, won) = 0 /\ lost(p) # {}
  BY DEF Frees
<1>6. Renews(q, won) => won # {}
  BY DEF Renews
<1> HIDE DEF won
<1>7. \A p \in Ids : Held(p)' = IF p = q THEN (Held(p) \ lost(p)) \cup won
                                ELSE Held(p) \ lost(p)
  BY <1>1, <1>2 DEF Held, TypeOK
<1> HIDE DEF lost
<1>8. ASSUME NEW p \in Ids
      PROVE  RefAfter(q, p, won) = Cardinality(Held(p)')
  <2>1. /\ IsFiniteSet(won) /\ IsFiniteSet(lost(p)) /\ IsFiniteSet(Held(p))
        /\ Cardinality(won) \in Nat /\ Cardinality(lost(p)) \in Nat
        /\ Cardinality(Held(p)) \in Nat
    BY <1>1, <1>4, FiniteIds
  <2>2. Held(p) \cap lost(p) = lost(p)
    BY <1>1
  <2>3. /\ IsFiniteSet(Held(p) \ lost(p))
        /\ Cardinality(Held(p) \ lost(p)) = Cardinality(Held(p)) - Cardinality(lost(p))
    BY <2>1, <2>2, FS_Difference
  <2>4. tc_ref[p] = Cardinality(Held(p))
    BY DEF OwnersExact, RefCountExact
  <2>5. CASE p # q
    <3>1. Held(p)' = Held(p) \ lost(p)
      BY <1>7, <2>5
    <3>2. RefAfter(q, p, won) = Cardinality(Held(p)) - Cardinality(lost(p))
      BY <1>3, <2>1, <2>4, <2>5
    <3> QED
      BY <2>3, <3>1, <3>2
  <2>6. CASE p = q
    <3>1. (Held(p) \ lost(p)) \cap won = {}
      BY <1>1 DEF Held, lost
    <3>2. Cardinality((Held(p) \ lost(p)) \cup won)
            = Cardinality(Held(p)) - Cardinality(lost(p)) + Cardinality(won)
      <4> DEFINE rest == Held(p) \ lost(p)
      <4>1. Cardinality(rest \cup won)
              = Cardinality(rest) + Cardinality(won) - Cardinality(rest \cap won)
        BY <2>1, <2>3, FS_Union
      <4>2. Cardinality(rest \cap won) = 0
        BY <3>1, FS_EmptySet
      <4> QED
        BY <2>1, <2>3, <4>1, <4>2
    <3>3. Held(p)' = (Held(p) \ lost(p)) \cup won
      BY <1>7, <2>6
    <3>4. RefAfter(q, p, won) = Cardinality(Held(p)) - Cardinality(lost(p)) + Cardinality(won)
      BY <1>3, <2>4, <2>6
    <3> QED
      BY <3>2, <3>3, <3>4
  <2> QED
    BY <2>5, <2>6
<1>9. RefCountExact'
  BY <1>2, <1>8 DEF RefCountExact
<1>10. KeptTraceIsReferenced'
  <2> SUFFICES ASSUME NEW p \in Ids, trace_mini'[p] # {}
               PROVE  Held(p)' # {}
    BY DEF KeptTraceIsReferenced
  <2>1. CASE p = q /\ won # {}
    BY <1>7, <2>1
  <2>2. CASE p = q /\ won = {}
    <3>1. trace_mini[p] # {} /\ lost(p) = {}
      BY <1>2, <1>5, <1>6, <2>2 DEF lost
    <3> QED
      BY <1>7, <2>2, <3>1 DEF OwnersExact, KeptTraceIsReferenced
  <2>3. CASE p # q
    <3>1. trace_mini[p] # {} /\ ~Frees(q, p, won)
      BY <1>2, <2>3
    <3>2. CASE lost(p) = {}
      BY <1>7, <2>3, <3>1, <3>2 DEF OwnersExact, KeptTraceIsReferenced
    <3>3. CASE RefAfter(q, p, won) # 0
      BY <1>8, <3>3, FS_EmptySet
    <3> QED
      BY <1>5, <2>3, <3>1, <3>2, <3>3
  <2> QED
    BY <2>1, <2>2, <2>3
<1> QED
  BY <1>9, <1>10 DEF OwnersExact

\* cull_queue() frees traces and leaves the holders alone.
LEMMA CullKeepsOwners ==
    ASSUME TypeOK, OwnersExact, cull_queue
    PROVE  OwnersExact'
<1>1. top_rated' = top_rated /\ tc_ref' = tc_ref
  BY DEF cull_queue, ownerVars
<1>2. \A q \in Ids : trace_mini'[q] \in {trace_mini[q], {}}
  BY DEF cull_queue, ownerVars
<1> QED
  BY <1>1, <1>2 DEF OwnersExact, RefCountExact, KeptTraceIsReferenced, Held

\* Steps that leave the bookkeeping alone.
LEMMA UnchangedKeepsOwners ==
    ASSUME OwnersExact, UNCHANGED <<top_rated, tc_ref, trace_mini>>
    PROVE  OwnersExact'
BY DEF OwnersExact, RefCountExact, KeptTraceIsReferenced, Held

\* At all times tc_ref counts exactly the bytes an entry holds in top_rated, and
\* only an entry that holds a byte keeps a trace: update_bitmap_score() and
\* update_bitmap_rescore() neither wrap the count nor leak or lose a trace.
THEOREM OwnersCorrect == Spec => [](RefCountExact /\ KeptTraceIsReferenced)
<1>1. Init => OwnersExact
  <2> SUFFICES ASSUME Init PROVE OwnersExact
    OBVIOUS
  <2>1. /\ top_rated = [b \in Bytes |-> None] /\ tc_ref = [q \in Ids |-> 0]
        /\ trace_mini = [q \in Ids |-> {}]
    BY DEF Init, InitQueue
  <2>2. \A q \in Ids : Held(q) = {}
    BY <2>1, NoneIsNoId DEF Held
  <2> QED
    BY <2>1, <2>2, FS_EmptySet DEF OwnersExact, RefCountExact, KeptTraceIsReferenced
<1>2. TypeOK /\ EntryAtHand /\ OwnersExact /\ [Next]_vars => OwnersExact'
  <2> SUFFICES ASSUME TypeOK, EntryAtHand, OwnersExact, [Next]_vars
               PROVE  OwnersExact'
    OBVIOUS
  <2> USE DEF ownerVars, queueVars
  <2>1. CASE CalibrateOk
    <3>1. PICK tr \in TracesOf(cal_q) : contend(cal_q, tr, tr, Beats')
      BY <2>1 DEF CalibrateOk, update_bitmap_score
    <3>2. cal_q \in Ids
      BY <2>1, ItemsAreIds DEF CalibrateOk, EntryAtHand, TypeOK
    <3>3. tr \in SUBSET Bytes
      BY <3>1, <3>2 DEF TracesOf, Traces, TypeOK
    <3> QED
      BY <3>1, <3>2, <3>3, ContendKeepsOwners
  <2>2. CASE CalibrateFail
    BY <2>2, UnchangedKeepsOwners DEF CalibrateFail
  <2>3. CASE StartUp
    BY <2>3, UnchangedKeepsOwners DEF StartUp, DryRunSeed, RemoveDuplicates
  <2>4. CASE CullQueue
    BY <2>4, CullKeepsOwners DEF CullQueue
  <2>5. CASE StayInCycle \/ EnterCycle \/ EndSync \/ CycleSchedule \/ EndRescore \/ Select
    BY <2>5, UnchangedKeepsOwners
    DEF StayInCycle, EnterCycle, EndSync, CycleSchedule, EndRescore, Select
  <2>6. CASE RescoreCandidate
    <3>1. PICK b \in Bytes, q \in Ids : contend(q, {b}, trace_bits, Beats)
      BY <2>6 DEF RescoreCandidate, update_bitmap_rescore
    <3>2. {b} \in SUBSET Bytes
      OBVIOUS
    <3> QED
      BY <3>1, <3>2, ContendKeepsOwners
  <2>7. CASE SkipEntry \/ BeginEntry \/ AfterRetry \/ RunMutant \/ AbandonEntry
    BY <2>7, UnchangedKeepsOwners
    DEF SkipEntry, BeginEntry, AfterRetry, RunMutant, AbandonEntry
  <2>8. CASE Trim
    <3>1. CASE UNCHANGED ownerVars
      BY <3>1, UnchangedKeepsOwners
    <3>2. CASE update_bitmap_score(queue_cur, exec_cksum[queue_cur])
      <4>1. contend(queue_cur, exec_cksum[queue_cur], exec_cksum[queue_cur], Beats')
        BY <3>2 DEF update_bitmap_score
      <4>2. queue_cur \in Ids /\ exec_cksum[queue_cur] \in SUBSET Bytes
        BY <2>8, ItemsAreIds DEF Trim, trim_case, EntryAtHand, TypeOK
      <4> QED
        BY <4>1, <4>2, ContendKeepsOwners
    <3> QED
      BY <2>8, <3>1, <3>2 DEF Trim, trim_case
  <2>9. CASE SaveInteresting \/ Exited \/ UNCHANGED vars
    BY <2>9, UnchangedKeepsOwners DEF SaveInteresting, Exited, vars
  <2> QED
    BY <2>1, <2>2, <2>3, <2>4, <2>5, <2>6, <2>7, <2>8, <2>9
    DEF Next, Calibrate, MainLoop, FuzzOne
<1>3. OwnersExact => RefCountExact /\ KeptTraceIsReferenced
  BY DEF OwnersExact
<1> QED
  BY <1>1, <1>2, <1>3, TypeCorrect, PTL DEF Spec

--------------------------------------------------------------------------------
(* Whose trace is kept                                                      *)

\* A byte lies in the trace of its holder.
HeldIsOwn == \A b \in Bytes : top_rated[b] # None => b \in exec_cksum[top_rated[b]]

\* q has no byte, and no trace.
Blank(q) == Held(q) = {} /\ trace_mini[q] = {}

\* calibrate_case() overwrites a checksum only as long as the entry is blank: an
\* entry is calibrated again only if no calibration of it has succeeded, and
\* only then does it contend for bytes.
TraceInv ==
    /\ KeptTraceIsOwn /\ HeldIsOwn
    /\ pc # "rescore"
    /\ \A q \in Ids : cal_failed[q] # 0 \/ q \notin Items => Blank(q)
    /\ pc = "calibrate" => Blank(cal_q)
    /\ pc \in {"retried", "trim"} => cal_failed[queue_cur] = 0
    /\ pc = "calibrate" /\ ret = "dry_run" => cal_q < dry_idx
    /\ pc = "dry_run" \/ (pc = "calibrate" /\ ret = "dry_run") =>
          \A q \in Ids : q >= dry_idx => Blank(q)

\* The winner of a contest keeps the trace it ran with, or what it had; the
\* others keep what they had, or nothing, and get no byte.
LEMMA ContendTraces ==
    ASSUME TypeOK, NEW q \in Ids, NEW tr, contend(q, tr, tr, Beats')
    PROVE  /\ trace_mini'[q] = {tr} \/ trace_mini'[q] = trace_mini[q]
           /\ \A p \in Ids : p # q => trace_mini'[p] = {} \/ trace_mini'[p] = trace_mini[p]
           /\ \A b \in Bytes : top_rated'[b] = top_rated[b] \/ (top_rated'[b] = q /\ b \in tr)
           /\ \A p \in Ids : p # q /\ Blank(p) => Blank(p)'
<1>1. /\ trace_mini'[q] = {tr} \/ trace_mini'[q] = trace_mini[q]
      /\ \A p \in Ids : p # q => trace_mini'[p] = {} \/ trace_mini'[p] = trace_mini[p]
  BY DEF contend, Frees
<1>2. \A b \in Bytes : top_rated'[b] = top_rated[b] \/ (top_rated'[b] = q /\ b \in tr)
  BY DEF contend, Won
<1>3. \A p \in Ids : p # q /\ Blank(p) => Blank(p)'
  BY <1>1, <1>2 DEF Blank, Held
<1> QED
  BY <1>1, <1>2, <1>3

\* A calibration that succeeds leaves the entry with its own trace.
LEMMA CalibrateOkTraces ==
    ASSUME ~Unstable, TypeOK, EntryAtHand, TraceInv, CalibrateOk
    PROVE  TraceInv'
<1>1. PICK tr \in TracesOf(cal_q) :
        /\ exec_cksum' = [exec_cksum EXCEPT ![cal_q] = IF @ = {} THEN tr ELSE @]
        /\ update_bitmap_score(cal_q, tr)
  BY DEF CalibrateOk
<1>2. /\ pc = "calibrate" /\ cal_q \in Items /\ cal_q \in Ids /\ Items' = Items
      /\ UNCHANGED <<queue_cur, dry_idx>> /\ pc' = ret
      /\ cal_failed' = [cal_failed EXCEPT ![cal_q] = 0]
  BY ItemsAreIds DEF CalibrateOk, EntryAtHand, TypeOK, Items, countVars
<1>3. exec_cksum'[cal_q] = tr /\ \A p \in Ids : p # cal_q => exec_cksum'[p] = exec_cksum[p]
  BY <1>1, <1>2 DEF TracesOf, TypeOK
<1>4. /\ trace_mini'[cal_q] = {tr} \/ trace_mini'[cal_q] = {}
      /\ \A p \in Ids : p # cal_q => trace_mini'[p] = {} \/ trace_mini'[p] = trace_mini[p]
      /\ \A b \in Bytes : top_rated'[b] = top_rated[b] \/ (top_rated'[b] = cal_q /\ b \in tr)
      /\ \A p \in Ids : p # cal_q /\ Blank(p) => Blank(p)'
  BY <1>1, <1>2, ContendTraces DEF update_bitmap_score, TraceInv, Blank
<1>5. cal_failed'[cal_q] = 0 /\ \A p \in Ids : p # cal_q => cal_failed'[p] = cal_failed[p]
  BY <1>2 DEF TypeOK
<1>6. KeptTraceIsOwn'
  BY <1>3, <1>4 DEF TraceInv, KeptTraceIsOwn
<1>7. HeldIsOwn'
  <2>1. \A b \in Bytes : top_rated[b] # cal_q
    BY <1>2 DEF TraceInv, Blank, Held
  <2> SUFFICES ASSUME NEW b \in Bytes, top_rated'[b] # None PROVE b \in exec_cksum'[top_rated'[b]]
    BY DEF HeldIsOwn
  <2>2. CASE top_rated'[b] = cal_q /\ b \in tr
    BY <1>3, <2>2
  <2>3. CASE top_rated'[b] = top_rated[b]
    <3>1. top_rated[b] \in Ids /\ top_rated[b] # cal_q
      BY <2>1, <2>3 DEF TypeOK
    <3> QED
      BY <1>3, <2>3, <3>1 DEF TraceInv, HeldIsOwn
  <2> QED
    BY <1>4, <2>2, <2>3
<1>8. \A q \in Ids : cal_failed'[q] # 0 \/ q \notin Items' => Blank(q)'
  BY <1>2, <1>4, <1>5 DEF TraceInv
<1>9. ret \in Interruptible \cup {"dry_run", "retried"} /\ (ret = "retried" => queue_cur = cal_q)
  BY <1>2 DEF EntryAtHand
<1>10. ret = "dry_run" => \A q \in Ids : q >= dry_idx => q # cal_q /\ Blank(q)
  BY <1>2 DEF TraceInv, TypeOK, Ids
<1> QED
  BY <1>2, <1>4, <1>5, <1>6, <1>7, <1>8, <1>9, <1>10 DEF TraceInv, Interruptible

\* One that fails touches only the checksum of an entry without a trace.
LEMMA CalibrateFailTraces ==
    ASSUME TypeOK, EntryAtHand, TraceInv, CalibrateFail
    PROVE  TraceInv'
<1>1. /\ pc = "calibrate" /\ cal_q \in Items /\ cal_q \in Ids
      /\ UNCHANGED <<queue_cur, dry_idx, trace_mini, top_rated>>
      /\ pc' = IF ret = "retried" THEN "abandon" ELSE ret
  BY ItemsAreIds DEF CalibrateFail, EntryAtHand, TypeOK, ownerVars
<1>2. Items' = Items
  BY DEF CalibrateFail, Items, countVars
<1>3. /\ \A p \in Ids : p # cal_q => exec_cksum'[p] = exec_cksum[p]
      /\ \A p \in Ids : p # cal_q => cal_failed'[p] = cal_failed[p]
  BY DEF CalibrateFail, TypeOK
<1>4. Blank(cal_q) /\ \A q \in Ids : Blank(q)' <=> Blank(q)
  BY <1>1 DEF TraceInv, Blank, Held
<1>5. ret \in Interruptible \cup {"dry_run", "retried"}
  BY DEF EntryAtHand
<1>6. KeptTraceIsOwn' /\ HeldIsOwn'
  BY <1>1, <1>3, <1>4 DEF TraceInv, KeptTraceIsOwn, HeldIsOwn, Blank, Held, TypeOK
<1> QED
  BY <1>1, <1>2, <1>3, <1>4, <1>5, <1>6 DEF TraceInv, Interruptible

\* fuzz_one() clears the checksum of an entry whose calibrations all failed, and
\* trims one whose calibration succeeded.
LEMMA FuzzOneTraces ==
    ASSUME TypeOK, EntryAtHand, TraceInv, BeginEntry \/ Trim
    PROVE  TraceInv'
<1>1. queue_cur \in Ids /\ queue_cur \in Items
  BY ItemsAreIds DEF BeginEntry, Trim, EntryAtHand, TypeOK
<1>2. CASE BeginEntry
  <2>1. /\ UNCHANGED <<queue_cur, trace_mini, top_rated, cal_failed, queued_items>>
        /\ pc' \in {"calibrate", "trim", "abandon"}
        /\ pc' = "trim" => cal_failed[queue_cur] = 0
        /\ pc' = "calibrate" =>
              cal_q' = queue_cur /\ ret' = "retried" /\ cal_failed[queue_cur] # 0
        /\ \A p \in Ids : exec_cksum'[p] = exec_cksum[p] \/ (p = queue_cur /\ cal_failed[p] # 0)
    BY <1>1, <1>2 DEF BeginEntry, Call, TypeOK, ownerVars, historyVars, countVars
  <2>2. \A q \in Ids : Blank(q)' <=> Blank(q)
    BY <2>1 DEF Blank, Held
  <2>3. KeptTraceIsOwn' /\ HeldIsOwn'
    BY <2>1 DEF TraceInv, KeptTraceIsOwn, HeldIsOwn, Blank, Held, TypeOK
  <2> QED
    BY <1>1, <2>1, <2>2, <2>3 DEF TraceInv, Items
<1>3. CASE Trim
  <2>1. UNCHANGED <<queue_cur, exec_cksum, cal_failed, queued_items>> /\ pc' = "fuzzing"
        /\ cal_failed[queue_cur] = 0
    BY <1>3 DEF Trim, countVars, TraceInv
  <2>2. /\ trace_mini'[queue_cur] \in {{exec_cksum[queue_cur]}, trace_mini[queue_cur]}
        /\ \A p \in Ids : p # queue_cur => trace_mini'[p] \in {{}, trace_mini[p]}
        /\ \A b \in Bytes : \/ top_rated'[b] = top_rated[b]
                            \/ top_rated'[b] = queue_cur /\ b \in exec_cksum[queue_cur]
        /\ \A p \in Ids : p # queue_cur /\ Blank(p) => Blank(p)'
    <3>1. CASE UNCHANGED ownerVars
      BY <3>1 DEF ownerVars, Blank, Held
    <3>2. CASE update_bitmap_score(queue_cur, exec_cksum[queue_cur])
      BY <1>1, <3>2, ContendTraces DEF update_bitmap_score
    <3> QED
      BY <1>3, <3>1, <3>2 DEF Trim, trim_case
  <2>3. KeptTraceIsOwn' /\ HeldIsOwn'
    BY <1>1, <2>1, <2>2 DEF TraceInv, KeptTraceIsOwn, HeldIsOwn
  <2> QED
    BY <1>1, <2>1, <2>2, <2>3 DEF TraceInv, Items
<1> QED
  BY <1>2, <1>3

\* A step after which nobody holds or keeps anything new.
LEMMA QuietKeepsTraces ==
    ASSUME TypeOK, TraceInv, UNCHANGED <<top_rated, queued_items, cal_failed, exec_cksum>>,
           \A q \in Ids : trace_mini'[q] \in {trace_mini[q], {}},
           pc' \notin {"rescore", "calibrate", "retried", "trim", "dry_run"}
    PROVE  TraceInv'
<1>1. \A q \in Ids : Blank(q) => Blank(q)'
  BY DEF Blank, Held
<1>2. KeptTraceIsOwn' /\ HeldIsOwn'
  BY DEF TraceInv, KeptTraceIsOwn, HeldIsOwn
<1> QED
  BY <1>1, <1>2 DEF TraceInv, Items

\* For a stable target and a fixed schedule, calibrations happen to blank
\* entries only, and everyone holds bytes of his own trace.
LEMMA TracesHold ==
    ASSUME ~Unstable, ~CycleSchedules
    PROVE  Spec => []TraceInv
<1>1. Init => TraceInv
  <2> SUFFICES ASSUME Init PROVE TraceInv
    OBVIOUS
  <2>1. /\ \A q \in Ids : trace_mini[q] = {} /\ cal_failed[q] = 0
        /\ \A b \in Bytes : top_rated[b] = None
        /\ pc = "dry_run"
    BY DEF Init, InitQueue
  <2>2. \A q \in Ids : Blank(q)
    BY <2>1, NoneIsNoId DEF Blank, Held
  <2> QED
    BY <2>1, <2>2 DEF TraceInv, KeptTraceIsOwn, HeldIsOwn
<1>2. TypeOK /\ EntryAtHand /\ TraceInv /\ [Next]_vars => TraceInv'
  <2> SUFFICES ASSUME TypeOK, EntryAtHand, TraceInv, [Next]_vars
               PROVE  TraceInv'
    OBVIOUS
  <2> USE DEF queueVars, countVars, inputVars, historyVars, ownerVars, loopVars
  <2>1. CASE DryRunSeed
    <3>1. /\ UNCHANGED <<queued_items, cal_failed, trace_mini, top_rated, exec_cksum, queue_cur>>
          /\ pc = "dry_run" /\ pc' = "calibrate" /\ cal_q' = dry_idx /\ dry_idx' = dry_idx + 1
          /\ dry_idx \in Ids /\ dry_idx \in Nat
      BY <2>1, QueueAssumption DEF DryRunSeed, Call, TypeOK, Ids
    <3>2. \A q \in Ids : q >= dry_idx' => q >= dry_idx
      BY <3>1 DEF Ids
    <3>3. \A q \in Ids : Blank(q)' <=> Blank(q)
      BY <3>1 DEF Blank, Held
    <3>4. KeptTraceIsOwn' /\ HeldIsOwn'
      BY <3>1 DEF TraceInv, KeptTraceIsOwn, HeldIsOwn
    <3> QED
      BY <3>1, <3>2, <3>3, <3>4 DEF TraceInv, Items
  <2>2. CASE CullQueue
    <3>1. \A q \in Ids : trace_mini'[q] \in {trace_mini[q], {}}
      BY <2>2 DEF CullQueue, cull_queue
    <3>2. /\ UNCHANGED <<queued_items, cal_failed, exec_cksum, top_rated>>
          /\ pc' \in {"exit", "cycle"}
      BY <2>2 DEF CullQueue, cull_queue
    <3> QED
      BY <3>1, <3>2, QuietKeepsTraces
  <2>3. CASE SaveInteresting
    <3>1. PICK l \in Lens, tr \in Traces : add_to_queue(l, tr)
      BY <2>3 DEF SaveInteresting
    <3>2. queued_items \in Ids /\ queued_items \notin Items /\ Items \subseteq Items'
      BY <3>1, QueueAssumption DEF add_to_queue, TypeOK, Ids, Items
    <3>3. /\ UNCHANGED <<trace_mini, top_rated, cal_failed>>
          /\ pc' = "calibrate" /\ cal_q' = queued_items /\ ret' # "dry_run"
          /\ \A p \in Ids : p # queued_items => exec_cksum'[p] = exec_cksum[p]
      BY <2>3, <3>1 DEF SaveInteresting, Call, Interruptible, add_to_queue, TypeOK
    <3>4. Blank(queued_items) /\ \A q \in Ids : Blank(q)' <=> Blank(q)
      BY <3>2, <3>3 DEF TraceInv, Blank, Held
    <3>5. KeptTraceIsOwn'
      BY <3>2, <3>3, <3>4 DEF TraceInv, KeptTraceIsOwn, Blank
    <3>6. \A b \in Bytes : top_rated[b] # None => top_rated[b] \in Ids \ {queued_items}
      BY <3>4 DEF Blank, Held, TypeOK
    <3>7. HeldIsOwn'
      BY <3>3, <3>6 DEF TraceInv, HeldIsOwn
    <3> QED
      BY <3>2, <3>3, <3>4, <3>5, <3>7 DEF TraceInv
  <2>4. CASE \/ RemoveDuplicates \/ StayInCycle \/ EnterCycle \/ EndSync \/ Select \/ SkipEntry
             \/ RunMutant \/ AbandonEntry
    <3>1. /\ UNCHANGED <<queued_items, trace_mini, top_rated, cal_failed, exec_cksum>>
          /\ pc' \in {"main", "select", "sync", "fuzz_one", "fuzzing"}
      BY <2>4
      DEF RemoveDuplicates, StayInCycle, EnterCycle, EndSync, Select, SkipEntry, RunMutant,
          AbandonEntry
    <3> QED
      BY <3>1, QuietKeepsTraces
  <2>5. CASE AfterRetry \/ Exited \/ UNCHANGED vars
    <3>1. UNCHANGED <<queued_items, trace_mini, top_rated, cal_failed, exec_cksum, queue_cur,
                      dry_idx, cal_q, ret>>
      BY <2>5 DEF AfterRetry, Exited, vars
    <3>2. \A q \in Ids : Blank(q)' <=> Blank(q)
      BY <3>1 DEF Blank, Held
    <3>3. pc' = pc \/ (pc = "retried" /\ pc' \in {"trim", "abandon"})
      BY <2>5 DEF AfterRetry, Exited, vars
    <3>4. KeptTraceIsOwn' /\ HeldIsOwn'
      BY <3>1 DEF TraceInv, KeptTraceIsOwn, HeldIsOwn
    <3>5. pc = "calibrate" => cal_q \in Ids
      BY ItemsAreIds DEF EntryAtHand, TypeOK
    <3> QED
      BY <3>1, <3>2, <3>3, <3>4, <3>5 DEF TraceInv, Items
  <2>6. ~(CycleSchedule \/ RescoreCandidate \/ EndRescore)
    BY DEF CycleSchedule, RescoreCandidate, EndRescore, TraceInv
  <2> QED
    BY <2>1, <2>2, <2>3, <2>4, <2>5, <2>6, CalibrateOkTraces, CalibrateFailTraces, FuzzOneTraces
    DEF Next, StartUp, Calibrate, MainLoop, FuzzOne
<1> QED
  BY <1>1, <1>2, TypeCorrect, PTL DEF Spec

\* With a stable target and a fixed schedule, the trace an entry keeps is the
\* one its own calibration saw, so cull_queue() strikes out the bytes that the
\* entry really covers.
THEOREM TracesCorrect ==
    ASSUME ~Unstable, ~CycleSchedules
    PROVE  Spec => []KeptTraceIsOwn
<1>1. TraceInv => KeptTraceIsOwn
  BY DEF TraceInv
<1> QED
  BY <1>1, TracesHold, PTL

--------------------------------------------------------------------------------
(* What cull_queue() covers                                                 *)

\* The walk as a function of the number of bytes visited.
IsScan(f, n) ==
    f = [i \in 0..n |-> IF i = 0 THEN [picks |-> {}, left |-> Bytes] ELSE ScanByte(f[i - 1], i - 1)]

\* There is such a function for every length of the map.
LEMMA ScanExists ==
    ASSUME NEW n \in Nat
    PROVE  \E f : IsScan(f, n)
<1> DEFINE bad == {k \in Nat : ~ \E f : IsScan(f, k)}
<1>1. SUFFICES ASSUME bad # {} PROVE FALSE
  OBVIOUS
<1>2. PICK k \in bad : \A m \in bad : k <= m
  BY <1>1, LeastOf
<1>3. CASE k = 0
  <2> DEFINE f == [i \in 0..0 |-> [picks |-> {}, left |-> Bytes]]
  <2>1. IsScan(f, 0)
    BY DEF IsScan
  <2> QED
    BY <1>2, <1>3, <2>1
<1>4. CASE k # 0
  <2>1. k - 1 \in Nat /\ k - 1 \notin bad
    BY <1>2, <1>4
  <2>2. PICK g : IsScan(g, k - 1)
    BY <2>1
  <2> DEFINE f == [i \in 0..k |-> IF i = k THEN ScanByte(g[k - 1], k - 1) ELSE g[i]]
  <2>3. ASSUME NEW i \in 0..k
        PROVE  f[i] = IF i = 0 THEN [picks |-> {}, left |-> Bytes] ELSE ScanByte(f[i - 1], i - 1)
    <3>1. CASE i = k
      BY <1>4, <2>1, <3>1
    <3>2. CASE i # k
      <4>1. i \in 0..(k - 1) /\ (i # 0 => i - 1 \in 0..(k - 1) /\ i - 1 # k)
        BY <3>2, <2>1
      <4>2. g[i] = IF i = 0 THEN [picks |-> {}, left |-> Bytes] ELSE ScanByte(g[i - 1], i - 1)
        BY <2>2, <4>1 DEF IsScan
      <4> QED
        BY <4>1, <4>2, <3>2
    <3> QED
      BY <3>1, <3>2
  <2>4. IsScan(f, k)
    BY <2>3 DEF IsScan
  <2> QED
    BY <1>2, <2>4
<1> QED
  BY <1>3, <1>4

\* TopPicks is what such a function says after the last byte.
LEMMA ScanIs ==
    ASSUME NEW n \in Nat
    PROVE  \E f : IsScan(f, n) /\ PicksUpTo(n) = f[n].picks
<1> DEFINE scan == CHOOSE f : IsScan(f, n)
<1>1. IsScan(scan, n)
  BY ScanExists
<1>2. PicksUpTo(n) = scan[n].picks
  BY DEF PicksUpTo, IsScan
<1> QED
  BY <1>1, <1>2

\* The holder of b has kept its trace.
Kept(b) == top_rated[b] # None /\ trace_mini[top_rated[b]] # {}

\* What the walk has done after i bytes: it took entries with a trace, struck
\* out only what they cover, and the kept bytes it has passed are struck out.
ScanSound(s, i) ==
    /\ s.picks \subseteq {p \in Ids : trace_mini[p] # {}}
    /\ \A b \in Bytes : b \in s.left \/ \E p \in s.picks : b \in UNION trace_mini[p]
    /\ \A b \in Bytes : b < i /\ Kept(b) => b \notin s.left

\* The walk over the whole map takes, for each kept byte, an entry whose trace
\* has it.
LEMMA PicksCover ==
    ASSUME TypeOK, KeptTraceIsOwn, HeldIsOwn, NEW b \in Bytes, Kept(b)
    PROVE  \E p \in TopPicks : p \in Ids /\ trace_mini[p] # {} /\ b \in UNION trace_mini[p]
<1>1. MapSize \in Nat /\ \A c \in Bytes : c \in Nat /\ c < MapSize
  BY QueueAssumption DEF Bytes
<1>2. PICK f : IsScan(f, MapSize) /\ TopPicks = f[MapSize].picks
  BY <1>1, ScanIs DEF TopPicks
<1>3. ASSUME NEW c \in Bytes, Kept(c)
      PROVE  top_rated[c] \in Ids /\ c \in UNION trace_mini[top_rated[c]]
  <2>1. top_rated[c] \in Ids /\ trace_mini[top_rated[c]] # {}
    BY <1>3 DEF Kept, TypeOK
  <2>2. c \in exec_cksum[top_rated[c]] /\ trace_mini[top_rated[c]] = {exec_cksum[top_rated[c]]}
    BY <1>3, <2>1 DEF KeptTraceIsOwn, HeldIsOwn, Kept
  <2> QED
    BY <2>1, <2>2
<1> DEFINE bad == {i \in 0..MapSize : ~ScanSound(f[i], i)}
<1>4. bad = {}
  <2>1. SUFFICES ASSUME bad # {} PROVE FALSE
    OBVIOUS
  <2>2. PICK i \in bad : \A j \in bad : i <= j
    <3>1. bad \in SUBSET Nat
      BY <1>1
    <3> HIDE DEF bad
    <3> QED
      BY <2>1, <3>1, LeastOf
  <2>3. CASE i = 0
    <3>1. f[0] = [picks |-> {}, left |-> Bytes]
      BY <1>1, <1>2 DEF IsScan
    <3>2. ScanSound(f[0], 0)
      BY <1>1, <3>1 DEF ScanSound
    <3> QED
      BY <2>2, <2>3, <3>2
  <2>4. CASE i # 0
    <3>1. i - 1 \in 0..MapSize /\ i - 1 \in Bytes /\ i \in 0..MapSize
      BY <1>1, <2>2, <2>4 DEF Bytes
    <3>2. ScanSound(f[i - 1], i - 1)
      BY <2>2, <3>1
    <3>3. f[i] = ScanByte(f[i - 1], i - 1)
      BY <1>2, <2>4, <3>1 DEF IsScan
    <3> DEFINE h == top_rated[i - 1]
    <3>4. \A c \in Bytes : c < i => c < i - 1 \/ c = i - 1
      BY <1>1, <3>1
    <3>5. CASE Kept(i - 1) /\ i - 1 \in f[i - 1].left
      <4>1. f[i] = [picks |-> f[i - 1].picks \cup {h}, left |-> f[i - 1].left \ UNION trace_mini[h]]
        BY <3>3, <3>5 DEF ScanByte, Kept
      <4>2. h \in Ids /\ trace_mini[h] # {} /\ i - 1 \in UNION trace_mini[h]
        BY <1>3, <3>1, <3>5 DEF Kept
      <4>3. f[i].picks = f[i - 1].picks \cup {h} /\ f[i].left = f[i - 1].left \ UNION trace_mini[h]
        BY <4>1
      <4> HIDE DEF h
      <4>4. ScanSound(f[i], i)
        BY <3>2, <3>4, <4>2, <4>3 DEF ScanSound
      <4> QED
        BY <2>2, <4>4
    <3>6. CASE ~(Kept(i - 1) /\ i - 1 \in f[i - 1].left)
      <4>1. f[i] = f[i - 1]
        BY <3>3, <3>6 DEF ScanByte, Kept
      <4>2. ScanSound(f[i], i)
        BY <3>1, <3>2, <3>4, <3>6, <4>1 DEF ScanSound
      <4> QED
        BY <2>2, <4>2
    <3> QED
      BY <3>5, <3>6
  <2> QED
    BY <2>3, <2>4
<1>5. ScanSound(f[MapSize], MapSize)
  BY <1>1, <1>4
<1> QED
  BY <1>1, <1>2, <1>5 DEF ScanSound

\* Every kept byte lies in the trace of a favorite or of a disabled entry.
Covered ==
    \A b \in Bytes : Kept(b) =>
        \E q \in Items : (favored[q] \/ disabled[q]) /\ b \in UNION trace_mini[q]

\* The favorites cover what is kept as long as score_changed says that they are
\* up to date, which they are when cull_queue() has just run.
CoverInv == (~score_changed => Covered) /\ (pc = "cycle" => ~score_changed)

\* Nobody's trace and nobody's favor changes.
LEMMA QuietKeepsCover ==
    ASSUME TypeOK, CoverInv, UNCHANGED <<top_rated, trace_mini, favored, score_changed>>,
           Items \subseteq Items', \A q \in Items : disabled[q] => disabled'[q],
           pc' # "cycle"
    PROVE  CoverInv'
  BY DEF CoverInv, Covered, Kept

\* A contest that is lost on every byte changes nothing, and one that is not
\* sets score_changed.
LEMMA ContendKeepsCover ==
    ASSUME TypeOK, CoverInv, NEW q \in Ids, NEW tr, contend(q, tr, tr, Beats'),
           UNCHANGED <<favored, disabled, queued_items>>, pc' # "cycle"
    PROVE  CoverInv'
<1>1. SUFFICES ASSUME ~score_changed' PROVE CoverInv'
  BY DEF CoverInv
<1>2. ~score_changed /\ Won(q, tr, Beats') = {}
  BY <1>1 DEF contend
<1>3. \A b \in Bytes : top_rated'[b] = top_rated[b]
  BY <1>2 DEF contend
<1>4. \A p \in Ids : trace_mini'[p] = trace_mini[p]
  BY <1>2 DEF contend, Renews, Frees
<1>5. UNCHANGED <<top_rated, trace_mini, score_changed>>
  <2>1. top_rated' = top_rated
    BY <1>3 DEF contend, TypeOK
  <2>2. trace_mini' = trace_mini
    BY <1>4 DEF contend, TypeOK
  <2> QED
    BY <1>1, <1>2, <2>1, <2>2 DEF TypeOK, contend
<1> QED
  BY <1>5, QuietKeepsCover DEF Items

\* cull_queue() makes favorites of the enabled entries it takes, and drops the
\* traces of others only.
LEMMA CullCovers ==
    ASSUME TypeOK, TraceInv, CoverInv, CullQueue
    PROVE  CoverInv'
<1>1. CASE ~score_changed
  BY <1>1 DEF CullQueue, cull_queue, favorVars, ownerVars, countVars, CoverInv, Covered, Kept,
              Items
<1>2. CASE score_changed
  <2> DEFINE fav     == {q \in Items : ~disabled[q] /\ q \in TopPicks}
             dropped == {q \in Items : ~disabled[q] /\ q \notin fav /\ ~fs_redundant[q]}
  <2>1. /\ favored' = [q \in Ids |-> q \in fav]
        /\ trace_mini' = [q \in Ids |-> IF q \in dropped THEN {} ELSE trace_mini[q]]
        /\ disabled' = [q \in Ids |-> disabled[q] \/ (DisableRedundant /\ q \in dropped)]
        /\ score_changed' = FALSE
        /\ UNCHANGED <<top_rated, queued_items>>
    BY <1>2 DEF CullQueue, cull_queue, countVars
  <2>2. SUFFICES ASSUME NEW b \in Bytes, Kept(b)'
                 PROVE  \E q \in Items : (favored'[q] \/ disabled'[q]) /\ b \in UNION trace_mini'[q]
    BY <2>1 DEF CoverInv, Covered, Items
  <2>3. Kept(b)
    BY <2>1, <2>2 DEF Kept, TypeOK
  <2>4. PICK q \in TopPicks : q \in Ids /\ trace_mini[q] # {} /\ b \in UNION trace_mini[q]
    BY <2>3, PicksCover DEF TraceInv
  <2>5. q \in Items
    BY <2>4 DEF TraceInv, Blank
  <2>6. q \in fav \/ disabled[q]
    BY <2>4, <2>5
  <2>7. favored'[q] \/ disabled'[q]
    BY <2>1, <2>4, <2>6
  <2>8. trace_mini'[q] = trace_mini[q]
    BY <2>1, <2>4, <2>6
  <2> QED
    BY <2>4, <2>5, <2>7, <2>8
<1> QED
  BY <1>1, <1>2 DEF TypeOK

\* Right after cull_queue() the favorites, with the holders disabled before,
\* cover every byte whose holder keeps its trace: for a stable target and a
\* fixed schedule, and for every size of the map.
THEOREM CullCorrect ==
    ASSUME ~Unstable, ~CycleSchedules
    PROVE  Spec => []CullCoversKept
<1>1. Init => CoverInv
  BY DEF Init, InitQueue, CoverInv, Covered, Kept
<1>2. TypeOK /\ EntryAtHand /\ TraceInv /\ CoverInv /\ [Next]_vars => CoverInv'
  <2> SUFFICES ASSUME TypeOK, EntryAtHand, TraceInv, CoverInv, [Next]_vars
               PROVE  CoverInv'
    OBVIOUS
  <2> USE DEF queueVars, countVars, inputVars, historyVars, ownerVars, favorVars, loopVars
  <2>1. CASE CalibrateOk
    <3>1. PICK tr \in TracesOf(cal_q) : update_bitmap_score(cal_q, tr)
      BY <2>1 DEF CalibrateOk
    <3>2. cal_q \in Ids /\ pc' # "cycle" /\ UNCHANGED <<favored, disabled, queued_items>>
      BY <2>1, ItemsAreIds DEF CalibrateOk, EntryAtHand, Interruptible, TypeOK
    <3> QED
      BY <3>1, <3>2, ContendKeepsCover DEF update_bitmap_score
  <2>2. CASE CalibrateFail
    <3>1. /\ UNCHANGED <<top_rated, trace_mini, favored, score_changed, queued_items>>
          /\ pc' # "cycle"
      BY <2>2 DEF CalibrateFail, EntryAtHand, Interruptible
    <3>2. \A q \in Items : disabled[q] => disabled'[q]
      BY <2>2, ItemsAreIds DEF CalibrateFail, disable, TypeOK
    <3> QED
      BY <3>1, <3>2, QuietKeepsCover DEF Items
  <2>3. CASE RemoveDuplicates
    <3>1. /\ UNCHANGED <<top_rated, trace_mini, favored, score_changed, queued_items>>
          /\ pc' # "cycle"
      BY <2>3 DEF RemoveDuplicates
    <3>2. \A q \in Items : disabled[q] => disabled'[q]
      BY <2>3, ItemsAreIds DEF RemoveDuplicates, disable, TypeOK
    <3> QED
      BY <3>1, <3>2, QuietKeepsCover DEF Items
  <2>4. CASE SaveInteresting
    <3>1. PICK l \in Lens, tr \in Traces : add_to_queue(l, tr)
      BY <2>4 DEF SaveInteresting
    <3>2. Items \subseteq Items'
      BY <3>1 DEF add_to_queue, TypeOK, Items
    <3>3. /\ UNCHANGED <<top_rated, trace_mini, favored, score_changed, disabled>>
          /\ pc' # "cycle"
      BY <2>4 DEF SaveInteresting, Call
    <3> QED
      BY <3>2, <3>3, QuietKeepsCover
  <2>5. CASE Trim
    <3>1. queue_cur \in Ids /\ pc' # "cycle" /\ UNCHANGED <<favored, disabled, queued_items>>
      BY <2>5, ItemsAreIds DEF Trim, EntryAtHand, TypeOK
    <3>2. CASE UNCHANGED ownerVars
      BY <3>1, <3>2, QuietKeepsCover DEF Items
    <3>3. CASE update_bitmap_score(queue_cur, exec_cksum[queue_cur])
      BY <3>1, <3>3, ContendKeepsCover DEF update_bitmap_score
    <3> QED
      BY <2>5, <3>2, <3>3 DEF Trim, trim_case
  <2>6. CASE \/ DryRunSeed \/ StayInCycle \/ EnterCycle \/ EndSync \/ Select \/ SkipEntry
             \/ BeginEntry \/ AfterRetry \/ RunMutant \/ AbandonEntry
    <3>1. UNCHANGED <<top_rated, trace_mini, favored, score_changed, disabled, queued_items>>
      BY <2>6
      DEF DryRunSeed, StayInCycle, EnterCycle, EndSync, Select, SkipEntry, BeginEntry,
          AfterRetry, RunMutant, AbandonEntry
    <3>2. pc' # "cycle"
      BY <2>6
      DEF DryRunSeed, Call, StayInCycle, EnterCycle, EndSync, Select, SkipEntry, BeginEntry,
          AfterRetry, RunMutant, AbandonEntry
    <3> QED
      BY <3>1, <3>2, QuietKeepsCover DEF Items
  <2>7. CASE Exited \/ UNCHANGED vars
    BY <2>7 DEF Exited, vars, CoverInv, Covered, Kept, Items
  <2>8. ~(CycleSchedule \/ RescoreCandidate \/ EndRescore)
    BY DEF CycleSchedule, RescoreCandidate, EndRescore, TraceInv
  <2> QED
    BY <2>1, <2>2, <2>3, <2>4, <2>5, <2>6, <2>7, <2>8, CullCovers
    DEF Next, StartUp, Calibrate, MainLoop, FuzzOne
<1>3. CoverInv => CullCoversKept
  BY DEF CoverInv, Covered, Kept, CullCoversKept
<1> QED
  BY <1>1, <1>2, <1>3, TypeCorrect, TracesHold, PTL DEF Spec

================================================================================
