-------------------------------- MODULE FuzzLoop --------------------------------
(***************************************************************************)
(* The life of a GreenAFL campaign around its queue: the dry run over the  *)
(* seeds, the main loop of afl-fuzz.c, fuzz_one(), calibrate_case() and    *)
(* the energy hook of fuzz_run_target().  afl-fuzz is one thread; pc is    *)
(* the place it has reached.  What varies is the target: the traces, times *)
(* and energy readings of its runs, which runs fail, and what the mutations*)
(* and the other fuzzers of a sync directory turn up.                      *)
(***************************************************************************)
EXTENDS FuzzQueue

CONSTANTS
    MaxSeeds,         \* bound on the seeds in the input directory
    StartSchedules,   \* -p: the schedules a campaign may start with
    CycleSchedules,   \* AFL_CYCLE_SCHEDULES
    CalChances,       \* CAL_CHANCES
    SkipItems,        \* queues up to this size never skip for lack of favorites
    Unstable          \* the target may answer one input with different traces

ASSUME LoopAssumption ==
    /\ MaxSeeds \in 1..MaxItems
    /\ StartSchedules \subseteq Schedules
    /\ CycleSchedules \in BOOLEAN
    /\ CalChances \in Nat \ {0}
    /\ SkipItems \in Nat
    /\ Unstable \in BOOLEAN

VARIABLES
    pc,
    queue_cur,         \* the entry being fuzzed, None before the first
    dry_idx,           \* next seed of the dry run
    cal_q, ret,        \* the entry calibrate_case() works on, and its caller
    last_scored_idx, candidates,   \* top_rated_candidates
    rescore,           \* contests recalculate_all_scores() has left
    trace_bits,        \* the trace those contests find in the map
    sampled            \* history: entries with a reading during calibration

loopVars  == <<pc, queue_cur, dry_idx, cal_q, ret>>
scoreVars == <<last_scored_idx, candidates, rescore, trace_bits>>
vars      == <<queueVars, loopVars, scoreVars, sampled>>

\* The places where a find or an imported case may interrupt the loop.
Interruptible == {"main", "sync", "fuzzing"}
Places == Interruptible \cup
          {"dry_run", "calibrate", "cycle", "rescore", "select", "fuzz_one",
           "retried", "trim", "abandon", "exit"}

--------------------------------------------------------------------------------
(* Executing the target                                                     *)

\* What a run, or several in a row, left in the energy maps, per domain.
Samples == [Domains -> Readings]

\* fuzz_run_target() stores a sample in the entry being fuzzed, whichever
\* input it ran, and only if there is such an entry and such a sample.
EnergyHook(r) ==
    cost' = IF queue_cur = None THEN cost
            ELSE [cost EXCEPT ![queue_cur] =
                     [d \in Domains |-> IF r[d] > 0 THEN r[d] ELSE @[d]]]

\* The traces a run of q may leave.
TracesOf(q) == IF Unstable \/ exec_cksum[q] = {} THEN Traces ELSE {exec_cksum[q]}

--------------------------------------------------------------------------------
(* calibrate_case()                                                         *)

\* Call calibrate_case(q) and come back to "place".
Call(q, place) == pc' = "calibrate" /\ cal_q' = q /\ ret' = place

\* Fault: "else if": a cost that lowers the minimum is not tried as a maximum.
UpdateRangeElse(q) ==
    LET c(d)     == cost'[q][d]
        lower(d) == c(d) # 0 /\ (min_energy[d] = 0 \/ c(d) < min_energy[d])
    IN  /\ min_energy' = [d \in Domains |-> IF lower(d) THEN c(d) ELSE min_energy[d]]
        /\ max_energy' = [d \in Domains |->
               IF ~lower(d) /\ c(d) > max_energy[d] THEN c(d) ELSE max_energy[d]]

\* Fault: the cost of the entry being fuzzed is taken for that of q.
UpdateRangeCurrent(q) ==
    LET c(d) == IF queue_cur = None THEN 0 ELSE cost'[queue_cur][d]
    IN  /\ min_energy' = [d \in Domains |->
               IF c(d) # 0 /\ (min_energy[d] = 0 \/ c(d) < min_energy[d])
               THEN c(d) ELSE min_energy[d]]
        /\ max_energy' = [d \in Domains |->
               IF c(d) # 0 /\ (max_energy[d] = 0 \/ c(d) > max_energy[d])
               THEN c(d) ELSE max_energy[d]]

\* The energy range after a calibration of q, which looks at the cost q has.
UpdateRange(q) ==
    LET c(d) == cost'[q][d]
    IN  /\ min_energy' = [d \in Domains |->
               IF c(d) # 0 /\ (min_energy[d] = 0 \/ c(d) < min_energy[d])
               THEN c(d) ELSE min_energy[d]]
        /\ max_energy' = [d \in Domains |->
               IF c(d) # 0 /\ (max_energy[d] = 0 \/ c(d) > max_energy[d])
               THEN c(d) ELSE max_energy[d]]

\* All runs succeed; tr is the trace of the last one.
CalibrateOk ==
    /\ pc = "calibrate"
    /\ \E tr \in TracesOf(cal_q), us \in ExecTimes, r \in Samples :
          /\ EnergyHook(r)
          /\ UpdateRange(cal_q)
          /\ exec_us' = [exec_us EXCEPT ![cal_q] = us]
          /\ exec_cksum' = [exec_cksum EXCEPT ![cal_q] = IF @ = {} THEN tr ELSE @]
          /\ n_fuzz_entry' = IF ret = "dry_run" /\ schedule \in AFLFast
                             THEN [n_fuzz_entry EXCEPT ![cal_q] = exec_cksum'[cal_q]]
                             ELSE n_fuzz_entry
          /\ cal_failed' = [cal_failed EXCEPT ![cal_q] = 0]
          /\ sampled' = IF \E d \in Domains : r[d] > 0
                        THEN sampled \cup {cal_q} ELSE sampled
          /\ UNCHANGED <<schedule, countVars, len, trim_done, was_fuzzed, fuzz_level,
                         disabled, favorVars, n_fuzz, scoreVars, queue_cur, dry_idx>>
          /\ update_bitmap_score(cal_q, tr)
    /\ cal_q' = None /\ ret' = "main"
    /\ pc' = ret

\* Some run times out or crashes; the ones before it may have set the checksum.
\* The dry run then disables the seed, and a timeout uses up its chances.
CalibrateFail ==
    /\ pc = "calibrate"
    /\ \E r \in Samples, tr \in {exec_cksum[cal_q]} \cup TracesOf(cal_q) :
          /\ EnergyHook(r)
          /\ exec_cksum' = [exec_cksum EXCEPT ![cal_q] = IF @ = {} THEN tr ELSE @]
    /\ \E n \in IF ret = "dry_run" THEN {1, CalChances} ELSE {cal_failed[cal_q] + 1} :
          cal_failed' = [cal_failed EXCEPT ![cal_q] = n]
    /\ n_fuzz_entry' = IF ret = "dry_run" /\ schedule \in AFLFast /\ exec_cksum'[cal_q] # {}
                       THEN [n_fuzz_entry EXCEPT ![cal_q] = exec_cksum'[cal_q]]
                       ELSE n_fuzz_entry
    /\ IF ret = "dry_run"
       THEN disable({cal_q}) /\ UNCHANGED queued_items
       ELSE UNCHANGED <<countVars, disabled, was_fuzzed>>
    /\ pc' = IF ret = "retried" THEN "abandon" ELSE ret
    /\ cal_q' = None /\ ret' = "main"
    /\ UNCHANGED <<schedule, len, exec_us, trim_done, fuzz_level, favorVars, ownerVars,
                   rangeVars, n_fuzz, scoreVars, queue_cur, dry_idx, sampled>>

--------------------------------------------------------------------------------
(* Start-up: perform_dry_run()                                              *)

DryRunSeed ==
    /\ pc = "dry_run" /\ dry_idx < queued_items
    /\ Call(dry_idx, "dry_run")
    /\ dry_idx' = dry_idx + 1
    /\ UNCHANGED <<queueVars, scoreVars, queue_cur, sampled>>

\* Fault: two seeds of one length remove each other.
SupersedesEqual(p, q) == p # q /\ len[p] <= len[q]

\* "we keep the shorter file", and the first of several.
Supersedes(p, q) == len[p] < len[q] \/ (len[p] = len[q] /\ p < q)

\* The seeds the pairwise comparison of equal checksums removes.
Duplicates ==
    LET valid == {q \in Items : ~disabled[q] /\ cal_failed[q] = 0 /\ exec_cksum[q] # {}}
    IN  {q \in valid : \E p \in valid : exec_cksum[p] = exec_cksum[q] /\ Supersedes(p, q)}

\* The end of the dry run.
RemoveDuplicates ==
    /\ pc = "dry_run" /\ dry_idx = queued_items
    /\ disable(Duplicates)
    /\ pc' = "main"
    /\ UNCHANGED <<schedule, queued_items, inputVars, cal_failed, trim_done, fuzz_level,
                   cost, favorVars, ownerVars, rangeVars, n_fuzz, scoreVars,
                   queue_cur, dry_idx, cal_q, ret, sampled>>

--------------------------------------------------------------------------------
(* The main loop                                                            *)

\* main() culls once before the loop and then counts the enabled seeds: without
\* one it gives up.
CullQueue ==
    /\ pc = "main"
    /\ cull_queue
    /\ pc' = IF queue_cur = None /\ \A q \in Items : disabled'[q] THEN "exit" ELSE "cycle"
    /\ UNCHANGED <<schedule, countVars, inputVars, cal_failed, trim_done, was_fuzzed,
                   fuzz_level, cost, rangeVars, n_fuzz, scoreVars, queue_cur, dry_idx,
                   cal_q, ret, sampled>>

\* The current cycle goes on, or (always the first time) a new one begins.
StayInCycle ==
    /\ pc = "cycle" /\ queue_cur # None
    /\ pc' = "select"
    /\ UNCHANGED <<queueVars, scoreVars, queue_cur, dry_idx, cal_q, ret, sampled>>

EnterCycle ==
    /\ pc = "cycle"
    /\ pc' = "sync"
    /\ UNCHANGED <<queueVars, scoreVars, queue_cur, dry_idx, cal_q, ret, sampled>>

\* An input is run, and save_if_interesting() keeps it for its new coverage: a
\* mutant, or a case sync_fuzzers() read.  It is calibrated while queue_cur is
\* what it was.
SaveInteresting ==
    /\ pc \in Interruptible
    /\ pc = "main" => queue_cur # None
    /\ \E r \in Samples : EnergyHook(r)
    /\ \E l \in Lens, tr \in Traces : add_to_queue(l, tr)
    /\ Call(queued_items, pc)
    /\ UNCHANGED <<schedule, exec_us, historyVars, favorVars, ownerVars, rangeVars,
                   scoreVars, queue_cur, dry_idx, sampled>>

\* The AFL_CYCLE_SCHEDULES rotation.
NextSchedule ==
    [EXPLORE |-> "EXPLOIT", EXPLOIT |-> "MMOPT", MMOPT |-> "SEEK", SEEK |-> "EXPLORE",
     FAST |-> "COE", COE |-> "LIN", LIN |-> "QUAD", QUAD |-> "RARE", RARE |-> "FAST"]

\* Without schedule cycling the loop goes on to pick an entry.
EndSync ==
    /\ pc = "sync" /\ ~CycleSchedules
    /\ pc' = "select"
    /\ UNCHANGED <<queueVars, scoreVars, queue_cur, dry_idx, cal_q, ret, sampled>>

\* The first half of recalculate_all_scores(): run the entries that came since
\* the last time and enroll each as a candidate for the bytes of its trace.
\* trace_bits is left as the last of these runs left it.
CycleSchedule ==
    /\ pc = "sync" /\ CycleSchedules
    /\ schedule' = NextSchedule[schedule]
    /\ \E run \in [{q \in Items : q > last_scored_idx /\ ~disabled[q]} -> Traces],
          bits \in SUBSET Bytes, r \in Samples :
          LET new == DOMAIN run
          IN  /\ \A q \in new : run[q] \in TracesOf(q)
              /\ \A q \in new : (\A p \in new : p <= q) => bits = run[q]
              /\ candidates' = [b \in Bytes |->
                                   candidates[b] \cup {q \in new : b \in run[q]}]
              /\ trace_bits' = bits
              /\ IF new = {} THEN cost' = cost ELSE EnergyHook(r)
    /\ rescore' = {bq \in Bytes \X Ids : bq[2] \in candidates'[bq[1]]}
    /\ last_scored_idx' = queued_items - 1
    /\ pc' = "rescore"
    /\ UNCHANGED <<countVars, inputVars, historyVars, favorVars, ownerVars, rangeVars,
                   n_fuzz, queue_cur, dry_idx, cal_q, ret, sampled>>

\* The second half: byte by byte, each candidate in turn.
RescoreCandidate ==
    /\ pc = "rescore"
    /\ \E b \in Bytes, q \in Ids :
          /\ <<b, q>> \in rescore
          /\ \A c \in Bytes, p \in Ids :
                <<c, p>> \in rescore => b < c \/ (b = c /\ q <= p)
          /\ update_bitmap_rescore(q, b, trace_bits)
          /\ rescore' = rescore \ {<<b, q>>}
    /\ UNCHANGED <<schedule, countVars, inputVars, historyVars, cost, favorVars, rangeVars,
                   n_fuzz, last_scored_idx, candidates, trace_bits, loopVars, sampled>>

EndRescore ==
    /\ pc = "rescore" /\ rescore = {}
    /\ trace_bits' = {}
    /\ pc' = "select"
    /\ UNCHANGED <<queueVars, last_scored_idx, candidates, rescore, queue_cur, dry_idx,
                   cal_q, ret, sampled>>

\* Fault: the table is as large as the buffer, not as the queue.
AliasDrawsStale == {q \in Ids : ~disabled[q]}

\* What the alias table may draw: the entries with a weight, which are the
\* enabled ones, and any entry when no weight is left.
AliasDraws ==
    LET enabled == {q \in Items : ~disabled[q]}
    IN  IF enabled = {} THEN Items ELSE enabled

\* The smallest pending favorite, else a draw from the alias table.
Select ==
    /\ pc = "select"
    /\ queue_cur' \in IF pending_favored # 0 /\ smallest_favored # None
                      THEN {smallest_favored} ELSE AliasDraws
    /\ pc' = "fuzz_one"
    /\ UNCHANGED <<queueVars, scoreVars, dry_idx, cal_q, ret, sampled>>

--------------------------------------------------------------------------------
(* fuzz_one()                                                               *)

\* The dice decide that something else deserves the time.
SkipEntry ==
    /\ pc = "fuzz_one"
    /\ IF pending_favored # 0
       THEN fuzz_level[queue_cur] # 0 \/ ~favored[queue_cur]
       ELSE ~favored[queue_cur] /\ queued_items > SkipItems
    /\ pc' = "select"
    /\ UNCHANGED <<queueVars, scoreVars, queue_cur, dry_idx, cal_q, ret, sampled>>

\* An entry whose calibration failed is calibrated again, CAL_CHANCES times.
BeginEntry ==
    /\ pc = "fuzz_one"
    /\ IF cal_failed[queue_cur] # 0 /\ cal_failed[queue_cur] < CalChances
       THEN /\ exec_cksum' = [exec_cksum EXCEPT ![queue_cur] = {}]
            /\ Call(queue_cur, "retried")
       ELSE /\ pc' = IF cal_failed[queue_cur] = 0 THEN "trim" ELSE "abandon"
            /\ UNCHANGED <<exec_cksum, cal_q, ret>>
    /\ UNCHANGED <<schedule, countVars, len, exec_us, n_fuzz_entry, historyVars, cost,
                   favorVars, ownerVars, rangeVars, n_fuzz, scoreVars, queue_cur, dry_idx,
                   sampled>>

\* The retry succeeded; without new bits it still answers FSRV_RUN_NOBITS,
\* which is not crash_mode, and the entry is abandoned all the same.
AfterRetry ==
    /\ pc = "retried"
    /\ pc' \in {"trim", "abandon"}
    /\ UNCHANGED <<queueVars, scoreVars, queue_cur, dry_idx, cal_q, ret, sampled>>

\* trim_case(): its runs may not shorten the input; if they can, leaving the
\* checksum alone, the entry contends again with its new length.
trim_case(q) ==
    /\ \E r \in Samples : EnergyHook(r)
    /\ \/ UNCHANGED <<len, ownerVars>>
       \/ /\ exec_cksum[q] # {}
          /\ \E l \in Lens : l < len[q] /\ len' = [len EXCEPT ![q] = l]
          /\ update_bitmap_score(q, exec_cksum[q])

\* An entry is trimmed once.
Trim ==
    /\ pc = "trim"
    /\ pc' = "fuzzing"
    /\ trim_done' = [trim_done EXCEPT ![queue_cur] = TRUE]
    /\ UNCHANGED <<schedule, countVars, exec_us, exec_cksum, n_fuzz_entry, cal_failed,
                   was_fuzzed, fuzz_level, disabled, favorVars, rangeVars, n_fuzz,
                   scoreVars, queue_cur, dry_idx, cal_q, ret, sampled>>
    /\ IF trim_done[queue_cur] THEN UNCHANGED <<len, ownerVars, cost>>
       ELSE trim_case(queue_cur)

\* A mutant runs and shows nothing new.
RunMutant ==
    /\ pc = "fuzzing"
    /\ \E r \in Samples, tr \in Traces : EnergyHook(r) /\ count_execution(tr)
    /\ UNCHANGED <<schedule, countVars, inputVars, historyVars, favorVars, ownerVars,
                   rangeVars, loopVars, scoreVars, sampled>>

\* Fault: an entry fuzzed before counts again.
FirstRoundAgain(q) == cal_failed[q] = 0 /\ ~disabled[q]

\* The entry made it through calibration and is seen for the first time.
FirstRound(q) == cal_failed[q] = 0 /\ ~was_fuzzed[q] /\ ~disabled[q]

\* Fault: smallest_favored keeps pointing at it.
serve_favorite_Sticky(q) ==
    /\ pending_favored' = pending_favored - (IF favored[q] THEN 1 ELSE 0)
    /\ UNCHANGED smallest_favored

\* A favorite that has had its round no longer waits for one.
serve_favorite(q) ==
    IF favored[q]
    THEN pending_favored' = pending_favored - 1 /\ smallest_favored' = None
    ELSE UNCHANGED <<pending_favored, smallest_favored>>

\* abandon_entry.  A round that ran to its end (or none at all) returns to
\* the top of the main loop; one that was cut short picks the next entry at
\* once, without culling.
AbandonEntry ==
    /\ pc \in {"fuzzing", "abandon"}
    /\ pc' \in IF pc = "fuzzing" THEN {"main", "select"} ELSE {"select"}
    /\ fuzz_level' = [fuzz_level EXCEPT ![queue_cur] = IF @ < MaxLevel THEN @ + 1 ELSE @]
    /\ IF FirstRound(queue_cur)
       THEN /\ pending_not_fuzzed' = pending_not_fuzzed - 1
            /\ was_fuzzed' = [was_fuzzed EXCEPT ![queue_cur] = TRUE]
            /\ serve_favorite(queue_cur)
       ELSE UNCHANGED <<pending_not_fuzzed, was_fuzzed, pending_favored, smallest_favored>>
    /\ UNCHANGED <<schedule, queued_items, active_items, inputVars, cal_failed, trim_done,
                   disabled, cost, favored, fs_redundant, queued_favored, ownerVars,
                   rangeVars, n_fuzz, scoreVars, queue_cur, dry_idx, cal_q, ret, sampled>>

\* FATAL("We need at least one valid input seed ..."): afl-fuzz is gone.
Exited == pc = "exit" /\ UNCHANGED vars

--------------------------------------------------------------------------------
Init ==
    /\ \E n \in 1..MaxSeeds : InitQueue(n)
    /\ schedule \in StartSchedules
    /\ pc = "dry_run" /\ queue_cur = None /\ dry_idx = 0
    /\ cal_q = None /\ ret = "main"
    /\ last_scored_idx = -1
    /\ candidates = [b \in Bytes |-> {}]
    /\ rescore = {} /\ trace_bits = {}
    /\ sampled = {}

Calibrate == CalibrateOk \/ CalibrateFail

StartUp == DryRunSeed \/ RemoveDuplicates

MainLoop == \/ CullQueue \/ StayInCycle \/ EnterCycle \/ EndSync \/ CycleSchedule
            \/ RescoreCandidate \/ EndRescore \/ Select

FuzzOne == \/ SkipEntry \/ BeginEntry \/ AfterRetry \/ Trim \/ RunMutant \/ AbandonEntry

Next == StartUp \/ Calibrate \/ MainLoop \/ FuzzOne \/ SaveInteresting \/ Exited

Spec == Init /\ [][Next]_vars

\* afl-fuzz keeps running; every stage of fuzz_one() has finitely many mutants,
\* so the entry is abandoned in the end; and the dice of SkipEntry are thrown
\* anew each time (99 : 1 at worst), so an entry is not skipped for ever.
Fairness == WF_vars(Next) /\ WF_vars(AbandonEntry) /\ SF_vars(BeginEntry)

FairSpec == Spec /\ Fairness

--------------------------------------------------------------------------------
(* Properties                                                               *)

\* Every variable keeps its type.
TypeOK ==
    /\ schedule \in Schedules
    /\ queued_items \in 1..MaxItems
    /\ active_items \in Int /\ pending_not_fuzzed \in Int
    /\ len \in [Ids -> Lens \cup {0}]
    /\ exec_us \in [Ids -> ExecTimes \cup {0}]
    /\ exec_cksum \in [Ids -> SUBSET Bytes]
    /\ n_fuzz_entry \in [Ids -> SUBSET Bytes]
    /\ cal_failed \in [Ids -> Nat]
    /\ trim_done \in [Ids -> BOOLEAN]
    /\ was_fuzzed \in [Ids -> BOOLEAN]
    /\ fuzz_level \in [Ids -> 0..MaxLevel]
    /\ disabled \in [Ids -> BOOLEAN]
    /\ cost \in [Ids -> [Domains -> Readings \cup {0}]]
    /\ favored \in [Ids -> BOOLEAN]
    /\ fs_redundant \in [Ids -> BOOLEAN]
    /\ queued_favored \in Nat /\ pending_favored \in Int
    /\ smallest_favored \in Ids \cup {None}
    /\ top_rated \in [Bytes -> Ids \cup {None}]
    /\ tc_ref \in [Ids -> Int]
    /\ trace_mini \in [Ids -> SUBSET SUBSET Bytes]
    /\ score_changed \in BOOLEAN
    /\ min_energy \in [Domains -> Readings \cup {0}]
    /\ max_energy \in [Domains -> Readings \cup {0}]
    /\ n_fuzz \in [SUBSET Bytes -> 0..MaxHits]
    /\ pc \in Places /\ ret \in Places
    /\ queue_cur \in Ids \cup {None} /\ cal_q \in Ids \cup {None}
    /\ dry_idx \in 0..MaxItems
    /\ last_scored_idx \in Ids \cup {None}
    /\ candidates \in [Bytes -> SUBSET Ids]
    /\ rescore \subseteq Bytes \X Ids
    /\ trace_bits \subseteq Bytes
    /\ sampled \subseteq Ids

\* An entry is at hand wherever the code dereferences one, and it is in the
\* queue: queue_cur in fuzz_one(), q in calibrate_case() and its return to the
\* caller, the entries recalculate_all_scores() has enrolled.
EntryAtHand ==
    /\ queue_cur \in Items \cup {None} /\ smallest_favored \in Items \cup {None}
    /\ dry_idx <= queued_items
    /\ pc \in {"fuzz_one", "retried", "trim", "fuzzing", "abandon"} => queue_cur \in Items
    /\ ret \in Interruptible \cup {"dry_run", "retried"}
    /\ pc = "calibrate" =>
          /\ cal_q \in Items
          /\ ret = "fuzzing" => queue_cur \in Items
          /\ ret = "retried" => queue_cur = cal_q
    /\ \A b \in Bytes : candidates[b] \subseteq Items

\* The bytes q holds.
Held(q) == {b \in Bytes : top_rated[b] = q}

\* tc_ref counts exactly the bytes an entry holds, through every contest of
\* update_bitmap_score() and update_bitmap_rescore().  One too few and a live
\* trace is freed (or the u32 wraps); one too many and it is never freed.
RefCountExact == \A q \in Ids : tc_ref[q] = Cardinality(Held(q))

\* A kept trace belongs to an entry that still holds a byte: when the last
\* byte is lost the trace is freed, so the queue does not leak a map per seed.
KeptTraceIsReferenced == \A q \in Ids : trace_mini[q] # {} => Held(q) # {}

\* The counters that steer fuzz_one() and the skip dice say what the flags of
\* the entries say: cull_queue() recounts them, abandon_entry and the dry run
\* adjust them by hand, and calibration failures stand in between.
CountersExact ==
    /\ pending_not_fuzzed = Cardinality(Pending(Items))
    /\ queued_favored = Cardinality({q \in Items : favored[q]})
    /\ pending_favored = Cardinality(Pending({q \in Items : favored[q]}))

\* smallest_favored, the entry the main loop jumps to, is a favorite that still
\* waits, is enabled, and is the first of them.
SmallestIsPending ==
    smallest_favored # None =>
        /\ smallest_favored \in Pending({q \in Items : favored[q] /\ ~disabled[q]})
        /\ \A q \in Pending({p \in Items : favored[p]}) : smallest_favored <= q

\* "enabled entries in the queue" (afl-fuzz.h), which fuzz_one() consults before
\* it drops an entry whose score is 0.
ActiveExact == active_items = Cardinality({q \in Items : ~disabled[q]})

\* A kept trace is the trace of its own entry (of a target that is stable).
KeptTraceIsOwn == \A q \in Ids : trace_mini[q] \subseteq {exec_cksum[q]}

\* Right after cull_queue(): each byte whose holder still has its trace lies in
\* the trace of a favorite (or of a holder disabled as a duplicate).
CullCoversKept ==
    pc = "cycle" => \A b \in Bytes :
        top_rated[b] # None /\ trace_mini[top_rated[b]] # {} =>
            \E q \in Items : (favored[q] \/ disabled[q]) /\ b \in UNION trace_mini[q]

\* What the comment on update_bitmap_score() says of the favorites: "a minimal
\* set of paths that trigger all the bits seen in the bitmap so far".
FavoritesCoverAllBits ==
    pc = "cycle" => \A b \in Bytes :
        top_rated[b] # None => \E q \in Items : favored[q] /\ b \in exec_cksum[q]

\* The energy range is ordered, and a domain has both ends or neither.
RangeOrdered ==
    \A d \in Domains : /\ min_energy[d] <= max_energy[d]
                       /\ min_energy[d] = 0 <=> max_energy[d] = 0

\* The range the energy terms are normalised over moves only when fuzz_one()
\* calibrates its own entry again after a failure; no other calibration sees
\* a cost.
RangeMovesOnRetryOnly ==
    [][<<min_energy', max_energy'>> # <<min_energy, max_energy>> =>
          pc = "calibrate" /\ ret = "retried" /\ cal_q = queue_cur]_vars

\* When the main loop starts, each trace of the valid seeds has exactly one
\* enabled seed, and none of its duplicates is shorter.
OneSeedPerTrace ==
    pc = "main" /\ queue_cur = None =>
        \A q \in Items : cal_failed[q] = 0 =>
            /\ \E p \in Items : /\ ~disabled[p] /\ cal_failed[p] = 0
                                /\ exec_cksum[p] = exec_cksum[q] /\ len[p] <= len[q]
            /\ ~disabled[q] => \A p \in Items \ {q} :
                   disabled[p] \/ cal_failed[p] # 0 \/ exec_cksum[p] # exec_cksum[q]

\* afl-fuzz gives up ("We need at least one valid input seed that does not
\* crash!") only if no seed made it through its calibration.
GivesUpWithoutSeeds == pc = "exit" => \A q \in Items : cal_failed[q] # 0

\* README: the fuzzer reads the maps "after each execution, and store[s] it in
\* the fuzzing queue entry".  An entry whose own runs left a sample has a cost.
SampledHasCost == \A q \in sampled : \E d \in Domains : cost[q][d] # 0

\* Whatever entry the main loop must serve first gets served: smallest_favored
\* does not stay on one entry for ever.
SmallestIsServed ==
    \A q \in Ids : smallest_favored = q ~> smallest_favored # q

================================================================================
