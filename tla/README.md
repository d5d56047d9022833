# A TLA+ model of GreenAFL

GreenAFL is AFL++ with energy guidance: a preload library measures what the
target consumes, afl-fuzz stores the readings in its queue entries, and the
favorites and the air time of an entry depend on them. This directory models
the parts that carry that logic, checks them with TLC on small instances, and
proves the central invariants with TLAPS for every instance.

Paths below are relative to the repository; `A/` is `AFLPlusPlus/src/`.

## The system

| Component | State | Operations | Hard because |
|---|---|---|---|
| Energy scoring (`A/afl-fuzz-queue.c`) | none | `energy_bonus()`, energy part of `calculate_score()` | empty ranges, costs outside of the range, integer truncation |
| Seed queue (`A/afl-fuzz-queue.c`) | entries, `top_rated`, `tc_ref`, `trace_mini`, favorites, counters | `update_bitmap_score`, `update_bitmap_rescore`, `cull_queue`, `mark_as_redundant`, `add_to_queue` | reference counts and counters kept by hand; traces taken from a map every run overwrites |
| Fuzzing loop (`A/afl-fuzz.c`, `-one.c`, `-run.c`, `-init.c`, `-bitmap.c`) | `queue_cur`, `smallest_favored`, schedule, energy range | dry run, deduplication, cycles, selection, calibration, trimming, finds, `abandon_entry` | failed calibrations, state computed in one round and used in a later one |
| Fork server (`A/afl-forkserver.c`, `AFLPlusPlus/instrumentation/afl-compiler-rt.o.c`) | two pipes, `child_pid`, `child_stopped`, `last_run_timed_out` | one execution; persistent mode | three processes; a kill races the end of a run |
| Energy channel (`src/preload/energy_preload.cpp`, hook in `A/afl-fuzz-run.c`) | two shared words, the tracker | publish on the way out; read and clear | kill between the two writes; a tracker started before the fork |
| Verdict on a run (`A/afl-fuzz-bitmap.c`) | three virgin maps, the trace in place, what was kept | `save_if_interesting()` and its helpers | one trace, changed in place and overwritten by a second run; flags and gotos |
| Test case cache (`A/afl-fuzz-queue.c`) | cached buffers, slots, total size, a learned limit | get, store, retake after either trim, evict | pointers held across evictions, unsigned differences, unbounded searches |
| Synchronisation (`A/afl-fuzz-run.c`) | `.synced/` cursors, `is_main_node` files | import, election of a main node, start, exit | several fuzzers on one directory, no locks, kills and restarts |
| Seed minimiser (`AFLPlusPlus/afl-cmin.py`, `A/afl-showmap.c`) | per-worker best candidates, trace packs | dispatch, batches, merge, two saving passes | results in any order, names and positions as keys, pipes |
| Mutations, UI, compilers, other tools, scripts | | | not modelled, see the end |

afl-fuzz is one thread. It calls the fork server through pipes for each
execution (`fuzz_run_target()`), reads coverage and energy from shared memory
afterwards, judges the run (`save_if_interesting()`), and updates the queue with
what it has read. Inputs come from the test case cache. Every so often it imports
what other instances have put into their queue directories. afl-cmin is a tool of
its own, used on a corpus before or after a campaign: a dispatcher, workers that
run afl-showmap, and a main process, connected by queues.

## Modules

* **EnergyHeuristic**: `energy_bonus()`, the division of the favourability
  factor by it, and the energy multipliers of `calculate_score()`. Doubles are
  exact rationals; `log1p()` is any strictly increasing table, a constant.
* **FuzzQueue** (extends EnergyHeuristic): state of the queue and the functions
  on it. A trace is the set of map bytes it touches and also serves as its
  checksum (`{}` is checksum 0). A `trace_mini` is `{}` for NULL or the
  singleton of the trace kept. `contend` is the loop over the bytes that
  `update_bitmap_score()` and `update_bitmap_rescore()` share.
* **FuzzLoop** (extends FuzzQueue): `pc` is where afl-fuzz is. One action per
  step: `DryRunSeed`, `RemoveDuplicates`, `CalibrateOk`, `CalibrateFail`,
  `CullQueue`, `StayInCycle`, `EnterCycle`, `EndSync`, `CycleSchedule`,
  `RescoreCandidate`, `EndRescore`, `Select`, `SkipEntry`, `BeginEntry`,
  `AfterRetry`, `Trim`, `RunMutant`, `SaveInteresting`, `AbandonEntry`. The
  environment chooses traces, times, energy readings, which runs fail and which
  inputs are worth keeping. `calibrate_case()` is called from four places;
  `cal_q` and `ret` are its argument and its caller.
* **TargetRun**: what a call of `fuzz_run_target()` promises: one verdict, and
  with it a sample published during that call, in some of the domains. Exactly
  these are stored in the entry being fuzzed; the others keep the cost they had.
  This is what FuzzLoop's `EnergyHook` relies on.
* **ForkServer**: the same call as three processes carry it out, with the pipes,
  the energy maps, persistent mode, crashes, hangs and the timeout. It is shown
  to implement TargetRun (`RunsAsPromised`). A SIGKILL takes effect some time
  after it was sent, and the child may go on until then. `Publish` writes a
  reading, or 0 when the tracker prints no line for the domain or it rounds to 0,
  or nothing when the map could not be attached.
* **SaveIfInteresting**: one call of `save_if_interesting()` in the steps between
  which the trace is changed. A byte of the trace is a hit count, so classifying
  it twice differs from once; the flags `classified`, `bits_counted`, `cksumed`
  are locals as in the code. It opens up what FuzzLoop takes as one step,
  `SaveInteresting`. The calibration of a new entry is a set of further runs: what
  they show comes off `virgin_bits`, and a byte in which one of them differs from
  the first trace enters `var_bytes` and counts as fully discovered.
* **TestcaseCache**: `queue_testcase_get()` turn by turn of its eviction loop, the
  store and the retakes, with the rounds of `fuzz_one()` around them. A buffer is
  a version of the file's content and a number of bytes allocated; the cache size
  is an integer to which the u32 difference is added modulo `W`.
* **SyncFuzzers**: several instances and their directories. A queue file is
  complete or in flux: created and not yet written, or unlinked by `trim_case()`
  (`gone`) and then absent from a listing. `Scan` takes the names listed from the
  cursor's file on, or none if that file is not listed; `Import` counts them,
  whatever their numbers, and the count becomes the cursor. Times have a
  resolution of a second (`fresh`). Instances exit, are killed at any point, and
  start again on their directory.
* **Cmin**: the processes of `afl-cmin.py` and its three queues. What
  afl-showmap gives back for one input and for a batch follows the two ways the
  script reads it: exit status and pipe, or files and positions. The `-Z` output
  is the set of tuples. Without `--energy-first` energies are ignored, which is
  what a corpus without readings shows.
* **MCEnergyHeuristic**, **MCFuzzLoop**, **MCSaveIfInteresting**,
  **MCSyncFuzzers**, **MCCmin**: values for model checking.
* **FuzzLoopProofs**, **EnergyHeuristicProofs**, **ForkServerProofs**,
  **SaveIfInterestingProofs**, **TestcaseCacheProofs**, **SyncFuzzersProofs**,
  **CminProofs**: the theorems about each of them. **SetLemmas** has what
  several of them need: least elements, and sums over finite sets.

Definitions named `...NoLoss`, `...Sticky` and so on with a comment `Fault:`
are variants with a plausible bug. They are used nowhere; putting one in the
place of the definition it precedes makes the property it aims at fail.

## Runs

| Run | Shows |
|---|---|
| `heuristic` | frugal entries never do worse, neither in the factor nor in the score |
| `core` | reference counts, traces, counters, favorites, deduplication with up to 2 seeds, 3 entries, 2 map bytes, failing calibrations, trims and finds; with a fixed schedule, `smallest_favored` never stays on one entry for ever |
| `energy` | counters under `AFL_CYCLE_SCHEDULES` and `AFL_DISABLE_REDUNDANT` with both schedule families; the energy range is ordered, and when it moves |
| `forkserver` | pipes in step, real crashes only, one child at a time, fresh samples, every run ends, TargetRun implemented; 4 runs, 3 rounds per persistent child |
| `save` | coverage and crashes marked as seen are kept (or lie in a byte that varies), checksums belong to the run kept, nothing is saved or fed twice, the call returns; 3 calls under 26 configurations |
| `cache` | slots, count, limit and size agree; buffers agree with files; no buffer in use is freed; victims and splicing partners exist; loads fit the limit |
| `sync` | cursors pass over nothing unseen, also when a file is missing from the middle of a listing, finds reach everyone, temporary main nodes give way to a real one, and an election brings a main node about unless a file in the directory of a dead instance or of a secondary misleads |
| `cmin` | the output covers the corpus, the most frugal input is chosen for each tuple whatever the order of results, each saved input adds something, the tool ends |
| `livelock`, `energy_doc`, `cumulative`, `names` | disagreements of the code with its comments and documents, below |

Bounds. Two map bytes let an entry lose one byte and keep the other, and let
one trace contain or miss another; three entries let a third take over what the
first two shared. Two lengths and a trim make factors change after the contest.
`CalChances` 2 or 3 gives a failed entry one or two retries. `fuzz_level` and
`n_fuzz` saturate (`MaxLevel`, `MaxHits`): the scores only compare them. Four
runs are one more than the rounds of a persistent child, so a child is also
replaced at the end of its rounds; the kill of one run meets the next.

One map byte with the counts 0, 1 and 3 is enough for `save`: 3 becomes 4 and
then 8 when classified again, and 1 and 3 differ before they are simplified and
not after. Two kept hangs and crashes let the third meet the limit. In `cache`
the limits of size and of entries both bind (6 bytes, entries of 1 and 3 bytes, 4
slots, 4 entries); `W` = 16 stands for 2^32 and `Slack` = 1 for 1024. `sync`
explores five fleets: two secondaries that exchange a test case through a main
node, two instances with two test cases each, a file rewritten while it is listed
and read, an end and restart with a test case, and two ends among three instances
without one. A missing file is only passed over if one listed lies before it and
one after it, so the fleet with rewrites has three test cases. `cmin` takes every
corpus of three inputs over two tuples with energies up to 2 (0 is none), crashes
and time-outs, for five command lines; three inputs let one be replaced by two
others.

Fairness. `core` assumes that afl-fuzz keeps running, that a round of
`fuzz_one()` ends (its stages are finite), and strong fairness of `BeginEntry`,
since an entry is skipped by a throw of the dice with probability at most 0.99.
`forkserver` assumes that afl-fuzz and the fork server are scheduled, that
`poll()` returns when its time is up and that a SIGKILL is delivered. It assumes
nothing of the target. `save` assumes that the call keeps running; its runs end
by `forkserver`. `sync` assumes that a running instance comes back to
`sync_fuzzers()` again and again (the main loop does so every few rounds; strong
fairness, since finds come in between), finishes it and the file it writes, and
that seconds pass; nobody has to find anything, exit or start. `cmin` assumes
that all processes are scheduled and runs are bounded by afl-showmap's timeout.

## What the violations show

* `livelock`: with `AFL_CYCLE_SCHEDULES` an entry whose calibrations all failed
  takes part in the re-scoring, wins with an execution time of 0, and as
  `smallest_favored` it is selected for ever.
* `energy_doc`: the sample of a run goes to `queue_cur`, so what a calibration
  measures is not stored in the entry calibrated.
* `cumulative`: the tracker is started in the fork server, before it forks, so
  a reading covers all runs since then.
* `names`: afl-cmin takes inputs from directories of any depth, but in a batch
  the trace of an input has its base name only. The second of two inputs of one
  name overwrites the first one's trace; the first is credited with it and saved,
  the second counts as crashed, and a tuple that only the second one reaches is
  lost.

Other statements TLC refutes; they are defined in the modules, with the values
that show it, and have no run of their own:

* `CostsOfOneRun`: a child killed between its two writes, or a tracker without a
  DRAM line, replaces one of the two costs of an entry, and its energy is then the
  sum of the parts of two runs.
* `FavoritesCoverAllBits` (comment `A/afl-fuzz-queue.c:819`): an entry marked
  redundant loses its trace but keeps its bytes; once the favorite that covered
  them loses, `cull_queue()` passes over them. `CullCoversKept` holds.
* `KeptTraceIsOwn` with `CycleSchedules = TRUE`: `update_bitmap_rescore()` fills a
  missing `trace_mini` from `trace_bits`, which holds another entry's trace.
* `GivesUpWithoutSeeds` with `DisableRedundant = TRUE` and two seeds of one trace:
  deduplication and the start-up cull disable one each, and afl-fuzz ends with
  "We need at least one valid input seed". `ActiveExact` fails with the same
  option, since `mark_as_redundant()` does not count entries out.
* `SizeIsUse` (`include/afl-fuzz.h:871`): a custom trim that shortens a cached
  entry adds nearly 2^32 to the size, and trims within 1024 bytes make it drift
  upwards. `SizeCovers`, the safe direction, holds.
* `KeptReachesNew` (`docs/env_variables.md:418`): with `AFL_KEEP_TIMEOUTS` a slow
  input is queued whether or not it reaches anything new, and possibly twice.
* `FedOnce` with `Configs <- MCSand` (`docs/SAND.md:67`: unique_trace "filters
  inputs having a _unique coverage map_"; `A/afl-fuzz-bitmap.c:617` says it
  "should also work with other scedules"): an input is looked up under `cksum`,
  which only the schedules FAST to RARE have computed, and marked under
  `cksum_unique`. With any other schedule, the default included, every input that
  runs normally is fed to the sanitizers. `NothingTwice` leaves that case out and
  holds with the others.
* `SomeoneLeads` with `Fleets <- MCElections` (`docs/Changelog.md:946`: "If no main
  node is present at a sync one secondary node automatically becomes a temporary
  main node"): `check_sync_fuzzers()` prints the path of its `is_main_node` file to
  `qd_path` but opens `qd_main_path`, in the directory of the peer it read last. A
  secondary that is elected when the main node has left, and is then killed and
  started twice, marks another secondary and then defers to that mark: both are
  alive, each sees the other's file, and nobody is ever elected. `ElectionWorks`,
  which excepts misleading files, holds.
* `RestartIsNoticed` with `Fleets <- MCRestart`: `sync_fuzzers()` truncates
  `.last` before it reads its time, so it notices a peer's restart only within
  the same second; the cursor may then point past new files.
* `Ends` with `PipeCap = 1` (the child's pipe is not read before it has ended),
  and with `-A --crash-dir --no-batch` (tuples of crashes are counted but no
  input is on record for them, and main() raises an exception).
* `FrugalChosen` for batches with `AFL_DEBUG_CHILD`: energies are paired with
  inputs by position, and one run that prints none shifts the others. Without
  that variable a batch yields no energies at all.
* `CoverageKept` with `--no-dedup` and equal base names even without batches: the
  saved files overwrite each other.

Excluded by an assumption: a cache of 1 or 2 entries, which afl-fuzz accepts. Its
search for a victim never ends.

## What is proved

All theorems are about the specifications above, for every value of the
constants allowed by their `ASSUME`s: positive bounds, finite sets of domains,
instances and test cases, readings and times in Nat, `Log1p` strictly increasing
with `Log1p[0] = 0`, at least three cache entries, two of which always fit. Every
safety property that a passing run checks is proved. Where a theorem has a
hypothesis beyond the `ASSUME`s, it excludes an option that is off by default or,
for Cmin, two inputs of one base name; TLC refutes the property without the
hypothesis (see above).

**The queue and the loop** (FuzzLoopProofs).

* `TypeCorrect`: types, and `EntryAtHand`, that `queue_cur` and `cal_q` are in the
  queue wherever they are used. The types need it: a function updated outside of
  its domain would keep none.
* `OwnersCorrect`: `tc_ref` counts the bytes held, and kept traces are referenced.
  The contest is the only step that matters; lemmas on cardinalities show that
  what the holders lose, the winner gains. Holds with schedule cycling and
  unstable targets too.
* `CountersCorrect`, `SmallestCorrect`: the counters agree with the flags and
  `smallest_favored` still waits. Invariant `CountInv`: what `add_to_queue()` hands
  out next has no flag set, and before the first cull there is no favorite, which
  is why the dry run may adjust only one of the counters. `ActiveCorrect` adds
  `active_items`, without `AFL_DISABLE_REDUNDANT`.
* `SeedsCorrect`: one enabled seed per trace when the main loop starts. `SeedInv`
  tells the calibrated from the uncalibrated seeds; the pairwise loop leaves the
  first of the shortest of each class.
* `TracesCorrect`, for a stable target without schedule cycling: the trace kept is
  the entry's own. `TraceInv` says that entries that failed or are being
  calibrated hold nothing. `CullCorrect`, under the same hypotheses: after
  `cull_queue()` the favorites cover every byte whose holder has its trace. The walk
  over the map is a recursive function; its invariant `ScanSound` is carried
  from byte to byte, and `CoverInv` ties the result to `score_changed`.
* `RangeMoves`, `RangeCorrect`: the range moves only at a retried calibration, and
  it is ordered. `CostInv` says why: only entries that were or are being fuzzed
  have a cost (`CostNeedsFuzzing`, which is what the code does and not what its
  documents say, see `energy_doc`), and it adds that between rounds the last entry has been fuzzed, that
  nothing is fuzzed in the dry run, and that an entry calibrated for the first
  time is not the one being fuzzed.

**Energy scoring** (EnergyHeuristicProofs). `BonusBand`: the bonus lies in
[7/8, 9/8], hence the clamps in the code never act. `FrugalWins`, `FrugalScores`:
factor and score are monotone in the energy, integer division and limits
included. `FactorCorrect` and `ScoreCorrect` carry this over to the specification
of the run, whose cases are then any numbers.

**The fork server** (ForkServerProofs). `ProtocolHolds` proves the invariant
`ProtocolInv`: the seven stages of a run (`Stage`, where both programs are and what
is in the pipes), what has become of the children (`ChildState`), which kills are
still under way (`KillState`), and what this means for crashes (`CrashState`) and
the maps (`MapState`). None of the properties is inductive without the others: a
late kill must be known to have hit a child that is reaped before the next run
begins. From it follow `PipesStayInStep`, `NeverTwoChildren`, `CrashesAreReal` and
`SamplesAreFresh`. `RunsImplementTarget` is the refinement: the phase of a call is
read off afl-fuzz's program counter, the sample is what lies in the maps between
the verdict and the hook, and the reading still to be taken from the second map
counts as stored, so that the domains of the sample are stored at once. Every step
is then a step of TargetRun or none.

**The test case cache** (TestcaseCacheProofs). `CacheHolds` proves `CacheInv`, from
which `TableCorrect`, `BuffersCorrect`, `HeldCorrect`, `VictimCorrect` and
`PartnerCorrect` follow. `SlotInv` and `LimitInv` make the searches for a slot and
for a victim end; `RoundInv` follows a buffer through the fetch of its partner;
`SizeCovers` needs that lengths are below 2^32 and sums over the cached entries.
`SpliceInv` is worth noting: `ready_for_splicing_count` may miss entries that a
custom trim has made longer, but it counts every one that can still be trimmed, and
that is enough. `LoadsFit` is an action property.

**The verdict on a run** (SaveIfInterestingProofs). `VerdictHolds` proves
`VerdictInv`: at each place of the function what is in the trace map according to
the flags (`FlagsInv`); which bits are off `virgin_bits` without being in the queue,
namely those of the trace at hand and only between `has_new_bits()` and
`add_to_queue()`, and those of bytes in which the runs of an entry differ
(`CoverInv`); what the other maps and hash tables remember. From it
follow `EntriesCorrect`, `SeenCorrect` and `NoveltyCorrect`.

**Several instances** (SyncFuzzersProofs). `FleetHolds` proves `FleetInv`, for any
number of instances, test cases, trims and restarts. The names of a listing are
files of the peer's queue unless the peer has started anew, which the number of
its life tells; where the count will end (`EndOf`) is known from the start, and
each file before that place is dealt with or still on the list (`ListingOK`). A
missing file makes the count end one earlier, so that only a file in the middle
can be passed over, never the last one. A file that bears the name of an instance holds a test case which
that instance knows (`FromOK`), so that passing it over by its name is right; the
bound on ends is a sum over the instances. `CursorsCorrect` follows.

**The seed minimiser** (CminProofs). `Invariant` proves `IInv`, from which
`ChoiceIsSound`, `CoverageIsKept`, `EverySavePays` and `NoException` follow, for any
number of inputs, tuples and workers.

* Which inputs a worker has handled is not in the state: its table has only the
  winners. `IInv` therefore says that *there are* an assignment `own` of inputs to
  workers and a set `H` of inputs handled with which everything agrees, and a step
  that hands out a job or a result names the next ones.
* `Book`: the progress items, the counters and the tables are those of `H`, so
  that when main has as many items as there are inputs, every one is in the table
  of some worker. What the counters add up to is shown in `CountBounds`, with the
  sums of SetLemmas.
* `Learnt`, `Queued`: jobs are consecutive runs of inputs (`BatchBounds`, `JobIs`), so
  a worker meets its inputs in increasing order. An unmeasured input then never
  displaces another one (`LearnIs`), and a table holds the least (energy, index) of
  the worker's inputs. The merge takes the least over the tables (`BestIs`).
* `Located`, `Reports`: a trace is in the pack, and at the place, that its index says.
* `Saves`: each tuple is either still on the list or covered by what is saved.

All need distinct base names (`DistinctNames`, see the run `names`). `FrugalChosen`
needs `EnergiesKnown` too: with `AFL_DEBUG_CHILD` every run of a batch prints an
energy. It and `NoException` need `CrashesUsed`: `-A` and `--crash-dir` are not
combined where inputs are run on their own. `CoverageKept` and `EachSavePays` hold
with any options.

Where a proof needs an induction over numbers or finite sets it looks at the least
counterexample (`LeastOf` in SetLemmas), since the library's induction theorems have
an operator as a parameter, which the provers cannot instantiate.

Only model-checked: the liveness properties `SmallestIsServed`, `RunEnds`,
`CallReturns`, `Converges`, `MainRules`, `ElectionWorks` and `Ends`, which are outside
of the prover's reach. Conversely the type invariant of FuzzLoop,
`KeptTraceIsReferenced`, the band of the bonus and `NoException` are proved and have
no run.

## Abstractions

Modelled by their effect only: the alias table (any enabled entry may be drawn,
any entry if none is enabled), the mutations (any trace), `has_new_bits()` (the
environment decides what is kept), `sync_fuzzers()` (finds at its call sites);
SaveIfInteresting and SyncFuzzers open up the last two.
`AFL_CRASHING_SEEDS_AS_NEW_CRASH`, in-place resume, fast resume, custom mutators
and crash mode are off. Files, logs and statistics are left out. The trace of a
stable target is a function of the entry; `Unstable` lifts this. A reading is
the number of runs its tracker has seen. In ForkServer only SIGKILL is used on
the child, and neither pipe nor `fork()` fails (both sides give up then).

SaveIfInteresting: a checksum is the trace it was made of, without collisions; the
runs of a calibration are a set, of any size and in any order, and the cmplog run
after them is left out. TestcaseCache: memory never runs out; in a plain
trim the bytes are changed in place, as without a custom post-processor; the
three copies of the splicing code are one action. SyncFuzzers: a test case has
coverage of its own, or it would not be found again; a restart empties the
directory (`-i` without resume). A directory listing is taken at once, as
`scandir()` returns it. Cmin: inputs have different contents and are numbered by
size; the queues are unbounded, and what the feeder threads may reorder is
handled alike in any order; an exception ends the tool.

## Plan

1. *Done*: all modules above and the theorems about them.
2. Other kill signals in ForkServer (a stopped child keeps SIGTERM pending), and
   start-up without calibration (division by `total_cal_cycles`).

## Not modelled

Mutation stages, extras, cmplog, redqueen and skipdet generate bytes; their
control flow ends in `common_fuzz_stuff()`, which is `RunMutant`, and their
results are any input with any trace. Compilers, linkers, instrumentation passes
and the QEMU, Frida, Unicorn and Nyx modes build or host the target. The custom
mutators under `AFLPlusPlus/custom_mutators/` and the allocator and hashing code
are vendored or third-party libraries; they make up most of the repository's
lines. User interface and statistics are output. afl-tmin, afl-analyze and
afl-gotcpu are sequential tools around the same fork server, and the scripts and
the test program keep no state.
