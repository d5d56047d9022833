------------------------------- MODULE ForkServer -------------------------------
(***************************************************************************)
(* One execution of the target, as three processes see it: afl-fuzz        *)
(* (afl_fsrv_run_target() and the energy hook after it), the fork server   *)
(* in the target (__afl_start_forkserver()), and the child that runs the   *)
(* input with the energy preload library in it.  afl-fuzz and the fork     *)
(* server talk through two pipes; the child publishes its energy in two    *)
(* shared maps on its way out.  A run may hang, crash, or in persistent    *)
(* mode stop and wait for the next input, and afl-fuzz kills what takes    *)
(* too long, without knowing how far the others have come.                 *)
(*                                                                         *)
(* A run is its number.  An energy reading is the number of runs its       *)
(* tracker has seen; the history component "run" says when it was written. *)
(***************************************************************************)
EXTENDS Naturals, Sequences, FiniteSets

CONSTANTS
    Entries,     \* queue entries
    NoEntry,     \* queue_cur of the dry run
    MaxRuns,     \* bound on the runs afl-fuzz asks for
    MaxCnt       \* max_cnt of __afl_persistent_loop()

ASSUME ForkServerAssumption ==
    /\ NoEntry \notin Entries
    /\ MaxRuns \in Nat \ {0}
    /\ MaxCnt \in Nat \ {0}

VARIABLES
    \* afl-fuzz
    apc, run, queue_cur, child_pid, last_run_timed_out, result, cost,
    \* the pipes FORKSRV_FD and FORKSRV_FD + 1
    ctl, st,
    \* the fork server
    fpc, is_persistent, was_killed, child_stopped, fs_child, status,
    \* the children and the energy maps
    proc, doomed, cycle_cnt, map,
    \* history: the runs in which a child crashed of itself
    crashed

aflVars  == <<apc, run, queue_cur, child_pid, last_run_timed_out, result, cost>>
fsrvVars == <<fpc, is_persistent, was_killed, child_stopped, fs_child, status>>
procVars == <<proc, doomed, cycle_cnt, map, crashed>>
vars     == <<aflVars, ctl, st, fsrvVars, procVars>>

Domains  == {"cpu", "mem"}
Pids     == 1..MaxRuns              \* every run forks one child at most
NoPid    == 0
Statuses == {"exited", "crash_exit", "signaled", "stopped"}
Dead     == {"exited", "crash_exit", "signaled"}
Live     == {"running", "half", "full", "stopped"}
Nothing  == [val |-> 0, run |-> 0]  \* an energy map, or a cost, without a reading
Readings == [val : 0..MaxRuns, run : 0..MaxRuns]
Messages == [pid : Pids] \cup [status : Statuses]

--------------------------------------------------------------------------------
(* afl-fuzz                                                                 *)

\* Ask for a run, and tell the fork server how the last one ended.
StartRun ==
    /\ apc = "idle" /\ run < MaxRuns
    /\ queue_cur' \in Entries \cup {NoEntry}
    /\ run' = run + 1
    /\ ctl' = Append(ctl, last_run_timed_out)
    /\ last_run_timed_out' = FALSE
    /\ apc' = "pid"
    /\ UNCHANGED <<child_pid, result, cost, st, fsrvVars, procVars>>

ReadPid ==
    /\ apc = "pid" /\ st # <<>>
    /\ child_pid' = Head(st).pid
    /\ st' = Tail(st)
    /\ apc' = "wait"
    /\ UNCHANGED <<run, queue_cur, last_run_timed_out, result, cost, ctl, fsrvVars,
                   procVars>>

\* read_s32_timed(): poll() may give up as long as there is nothing to read.
PollExpires == st = <<>>

\* The verdict on child_status.
Verdict(s, timedOut) ==
    IF timedOut THEN "timeout"
    ELSE IF s \in {"signaled", "crash_exit"} THEN "crash" ELSE "ok"

\* The status arrives, in time or after the kill.
ReadStatus ==
    /\ apc \in {"wait", "killed"} /\ st # <<>>
    /\ result' = Verdict(Head(st).status, last_run_timed_out)
    /\ st' = Tail(st)
    /\ child_pid' = IF Head(st).status = "stopped" THEN child_pid ELSE NoPid
    /\ apc' = "cpu"
    /\ UNCHANGED <<run, queue_cur, last_run_timed_out, cost, ctl, fsrvVars, procVars>>

\* Fault: afl-fuzz only takes note, and waits for the child to end.
TimeoutNoKill ==
    /\ apc = "wait" /\ PollExpires
    /\ last_run_timed_out' = TRUE
    /\ apc' = "killed"
    /\ UNCHANGED <<run, queue_cur, child_pid, result, cost, ctl, st, fsrvVars, procVars>>

\* Fault: afl-fuzz does not wait for the fork server to confirm the death.
TimeoutNoWait ==
    /\ apc = "wait" /\ PollExpires
    /\ doomed' = doomed \cup {child_pid}
    /\ last_run_timed_out' = TRUE
    /\ result' = "timeout"
    /\ apc' = "cpu"
    /\ UNCHANGED <<run, queue_cur, child_pid, cost, ctl, st, fsrvVars, proc, cycle_cnt, map,
                   crashed>>

\* Nothing to read within the time limit: SIGKILL, and then wait for the status.
Timeout ==
    /\ apc = "wait" /\ PollExpires
    /\ doomed' = doomed \cup {child_pid}
    /\ child_pid' = NoPid
    /\ last_run_timed_out' = TRUE
    /\ apc' = "killed"
    /\ UNCHANGED <<run, queue_cur, result, cost, ctl, st, fsrvVars, proc, cycle_cnt, map,
                   crashed>>

\* Fault: an empty map overwrites the cost.
HookedAlways(d) ==
    IF queue_cur # NoEntry THEN [cost EXCEPT ![queue_cur][d] = map[d]] ELSE cost

\* The costs after the hook has looked at domain d.
Hooked(d) ==
    IF queue_cur # NoEntry /\ map[d].val > 0
    THEN [cost EXCEPT ![queue_cur][d] = map[d]] ELSE cost

\* Fault: the map is cleared only if its reading was stored.
ClearedIfStored(d) ==
    IF queue_cur # NoEntry THEN [map EXCEPT ![d] = Nothing] ELSE map

\* The maps after the hook has looked at domain d.
Cleared(d) == [map EXCEPT ![d] = Nothing]

\* The energy hook of fuzz_run_target(), one domain after the other.
Hook(d, next) ==
    /\ apc = d
    /\ cost' = Hooked(d)
    /\ map' = Cleared(d)
    /\ apc' = next
    /\ UNCHANGED <<run, queue_cur, child_pid, last_run_timed_out, result, ctl, st, fsrvVars,
                   proc, doomed, cycle_cnt, crashed>>

--------------------------------------------------------------------------------
(* The fork server                                                          *)

\* Fault: the race of the kill with the stop is overlooked.
WriteOffNever == FALSE

\* A child that stopped, but that afl-fuzz killed before it heard of it.
WriteOff == child_stopped /\ was_killed'

ReadCtl ==
    /\ fpc = "idle" /\ ctl # <<>>
    /\ was_killed' = Head(ctl)
    /\ ctl' = Tail(ctl)
    /\ fpc' = IF WriteOff THEN "reap" ELSE "start"
    /\ UNCHANGED <<aflVars, st, is_persistent, child_stopped, fs_child, status, procVars>>

\* Fault: the old child is written off without waiting for its death.
ReapAtOnce ==
    /\ fpc = "reap"
    /\ child_stopped' = FALSE
    /\ fpc' = "start"
    /\ UNCHANGED <<aflVars, ctl, st, is_persistent, was_killed, fs_child, status, procVars>>

\* waitpid(child_pid, &status, 0) on the child written off.
Reap ==
    /\ fpc = "reap" /\ proc[fs_child] \in Dead
    /\ proc' = [proc EXCEPT ![fs_child] = "reaped"]
    /\ child_stopped' = FALSE
    /\ fpc' = "start"
    /\ UNCHANGED <<aflVars, ctl, st, is_persistent, was_killed, fs_child, status, doomed,
                   cycle_cnt, map, crashed>>

Fork ==
    /\ fpc = "start" /\ ~child_stopped
    /\ \E p \in Pids :
          /\ proc[p] = "none" /\ \A o \in 1..(p - 1) : proc[o] # "none"
          /\ fs_child' = p
          /\ proc' = [proc EXCEPT ![p] = "running"]
    /\ cycle_cnt' = MaxCnt
    /\ fpc' = "announce"
    /\ UNCHANGED <<aflVars, ctl, st, is_persistent, was_killed, child_stopped, status,
                   doomed, map, crashed>>

\* SIGCONT to the child that waits for its next input.
Continue ==
    /\ fpc = "start" /\ child_stopped
    /\ proc' = [proc EXCEPT ![fs_child] = IF @ = "stopped" THEN "running" ELSE @]
    /\ child_stopped' = FALSE
    /\ fpc' = "announce"
    /\ UNCHANGED <<aflVars, ctl, st, is_persistent, was_killed, fs_child, status, doomed,
                   cycle_cnt, map, crashed>>

Announce ==
    /\ fpc = "announce"
    /\ st' = Append(st, [pid |-> fs_child])
    /\ fpc' = "wait"
    /\ UNCHANGED <<aflVars, ctl, is_persistent, was_killed, child_stopped, fs_child, status,
                   procVars>>

\* waitpid(), with WUNTRACED in persistent mode.
WaitChild ==
    /\ fpc = "wait"
    /\ proc[fs_child] \in Dead \/ (is_persistent /\ proc[fs_child] = "stopped")
    /\ status' = proc[fs_child]
    /\ child_stopped' = (proc[fs_child] = "stopped")
    /\ proc' = [proc EXCEPT ![fs_child] = IF @ = "stopped" THEN @ ELSE "reaped"]
    /\ fpc' = "relay"
    /\ UNCHANGED <<aflVars, ctl, st, is_persistent, was_killed, fs_child, doomed, cycle_cnt,
                   map, crashed>>

Relay ==
    /\ fpc = "relay"
    /\ st' = Append(st, [status |-> status])
    /\ fpc' = "idle"
    /\ UNCHANGED <<aflVars, ctl, is_persistent, was_killed, child_stopped, fs_child, status,
                   procVars>>

--------------------------------------------------------------------------------
(* A child p.  It can take any of these steps until a SIGKILL takes effect. *)

\* __afl_persistent_loop(): done with this input, and there are rounds left.
ChildStops(p) ==
    /\ proc[p] = "running" /\ is_persistent /\ cycle_cnt > 1
    /\ proc' = [proc EXCEPT ![p] = "stopped"]
    /\ cycle_cnt' = cycle_cnt - 1
    /\ UNCHANGED <<doomed, map, crashed>>

ChildCrashes(p) ==
    /\ proc[p] = "running"
    /\ proc' = [proc EXCEPT ![p] = "signaled"]
    /\ crashed' = crashed \cup {run}
    /\ UNCHANGED <<doomed, cycle_cnt, map>>

\* preload_init() starts the tracker when the target is loaded.  That is the fork
\* server, before its first fork; the children inherit the running tracker.
TrackerStart == 0

\* afl_set_energy_score() on one map: all that was used since the start; 0 if the
\* tracker has no line for the domain or it rounds to 0; or nothing at all if
\* init_energy_map() could not attach the map.
Publish(d) ==
    \/ map' = [map EXCEPT ![d] = [val |-> run - TrackerStart, run |-> run]]
    \/ map' = [map EXCEPT ![d] = Nothing]
    \/ UNCHANGED map

\* run_cleanup(), on the way out by return or exit().
ChildPublishesCpu(p) ==
    /\ proc[p] = "running"
    /\ proc' = [proc EXCEPT ![p] = "half"]
    /\ Publish("cpu")
    /\ UNCHANGED <<doomed, cycle_cnt, crashed>>

ChildPublishesMem(p) ==
    /\ proc[p] = "half"
    /\ proc' = [proc EXCEPT ![p] = "full"]
    /\ Publish("mem")
    /\ UNCHANGED <<doomed, cycle_cnt, crashed>>

\* The exit code may be one that counts as a crash.
ChildExits(p) ==
    /\ proc[p] = "full"
    /\ \E s \in {"exited", "crash_exit"} :
          /\ proc' = [proc EXCEPT ![p] = s]
          /\ crashed' = IF s = "crash_exit" THEN crashed \cup {run} ELSE crashed
    /\ UNCHANGED <<doomed, cycle_cnt, map>>

ChildDies(p) ==
    /\ p \in doomed /\ proc[p] \in Live
    /\ proc' = [proc EXCEPT ![p] = "signaled"]
    /\ UNCHANGED <<doomed, cycle_cnt, map, crashed>>

--------------------------------------------------------------------------------
Init ==
    /\ apc = "idle" /\ run = 0 /\ queue_cur = NoEntry /\ child_pid = NoPid
    /\ last_run_timed_out = FALSE /\ result = "ok"
    /\ cost = [e \in Entries |-> [d \in Domains |-> Nothing]]
    /\ ctl = <<>> /\ st = <<>>
    /\ fpc = "idle" /\ is_persistent \in BOOLEAN /\ was_killed = FALSE
    /\ child_stopped = FALSE /\ fs_child = NoPid /\ status = "exited"
    /\ proc = [p \in Pids |-> "none"] /\ doomed = {} /\ cycle_cnt = 0
    /\ map = [d \in Domains |-> Nothing]
    /\ crashed = {}

AflFuzz == \/ StartRun \/ ReadPid \/ ReadStatus \/ Timeout
           \/ Hook("cpu", "mem") \/ Hook("mem", "idle")

Server == \/ ReadCtl \/ Reap \/ Fork \/ Continue \/ Announce \/ WaitChild \/ Relay

Child(p) == /\ \/ ChildStops(p) \/ ChildCrashes(p) \/ ChildPublishesCpu(p)
               \/ ChildPublishesMem(p) \/ ChildExits(p) \/ ChildDies(p)
            /\ UNCHANGED <<aflVars, ctl, st, fsrvVars>>

\* The bound on the runs is reached.
Done == apc = "idle" /\ run = MaxRuns /\ UNCHANGED vars

Next == AflFuzz \/ Server \/ (\E p \in Pids : Child(p)) \/ Done

Spec == Init /\ [][Next]_vars

\* afl-fuzz and the fork server are scheduled, poll() returns when its time is
\* up, and a SIGKILL is delivered.  Nothing makes the target itself move on.
Fairness ==
    /\ WF_vars(ReadPid) /\ WF_vars(ReadStatus) /\ WF_vars(Timeout)
    /\ WF_vars(Hook("cpu", "mem")) /\ WF_vars(Hook("mem", "idle"))
    /\ WF_vars(Server)
    /\ \A p \in Pids : WF_vars(ChildDies(p) /\ UNCHANGED <<aflVars, ctl, st, fsrvVars>>)

FairSpec == Spec /\ Fairness

--------------------------------------------------------------------------------
(* Properties                                                               *)

\* Every variable keeps its type.
TypeOK ==
    /\ apc \in {"idle", "pid", "wait", "killed", "cpu", "mem"}
    /\ run \in 0..MaxRuns /\ queue_cur \in Entries \cup {NoEntry}
    /\ child_pid \in Pids \cup {NoPid} /\ last_run_timed_out \in BOOLEAN
    /\ result \in {"ok", "crash", "timeout"}
    /\ cost \in [Entries -> [Domains -> Readings]]
    /\ ctl \in Seq(BOOLEAN) /\ st \in Seq(Messages)
    /\ fpc \in {"idle", "reap", "start", "announce", "wait", "relay"}
    /\ is_persistent \in BOOLEAN /\ was_killed \in BOOLEAN /\ child_stopped \in BOOLEAN
    /\ fs_child \in Pids \cup {NoPid} /\ status \in Statuses
    /\ proc \in [Pids -> Live \cup Dead \cup {"none", "reaped"}]
    /\ doomed \subseteq Pids /\ cycle_cnt \in 0..MaxCnt
    /\ map \in [Domains -> Readings]
    /\ crashed \subseteq 1..MaxRuns

\* The two sides of the pipes never get out of step: what afl-fuzz takes for a
\* pid is the pid of the child that serves this run, and what it takes for a
\* status is one, whatever was killed before.  One stray word would shift every
\* later answer by one.
PipesInStep ==
    /\ Len(ctl) <= 1 /\ Len(st) <= 2
    /\ apc = "pid" /\ st # <<>> => Head(st) = [pid |-> fs_child]
    /\ apc \in {"wait", "killed"} /\ st # <<>> => "status" \in DOMAIN Head(st)
    /\ apc \in {"idle", "cpu", "mem"} => ctl = <<>> /\ st = <<>> /\ fpc = "idle"

\* The state of the protocol: typed, and the pipes in step.
InStep == TypeOK /\ PipesInStep

\* An input is reported as a crash only if it made its child crash: a child
\* killed for the timeout of one run never becomes the crash of the next.
CrashIsReal == apc = "cpu" /\ result = "crash" => run \in crashed

\* There is one child at a time: a child that is killed, even while it is
\* stopped, is gone and reaped before the next one is forked.
OneChild == \A p, o \in Pids :
    proc[p] \notin {"none", "reaped"} /\ proc[o] \notin {"none", "reaped"} => p = o

\* What lies in the energy maps was published during the current run, so the
\* hook never credits the reading of one input to the entry of another.
SampleIsFresh ==
    \A d \in Domains : map[d].val > 0 => map[d].run = run /\ apc # "idle"

\* Every run that is asked for ends: hanging, stopped and crashing targets, and
\* kills that come too late, included.
RunEnds == apc = "pid" ~> apc = "idle"

\* README: GreenAFL measures "energy consumption of target programs, either
\* directly or during fuzzing".  The reading of a run is that of one run.
ReadingIsOneRun == \A e \in Entries, d \in Domains : cost[e][d].val <= 1

\* The two costs of an entry are of one run.  Refuted: a child killed between its
\* two writes, or one without a reading for a domain, replaces one cost only, and
\* update_bitmap_score() adds up the parts of two runs.
CostsOfOneRun == \A e \in Entries :
    cost[e]["cpu"].val > 0 /\ cost[e]["mem"].val > 0 => cost[e]["cpu"].run = cost[e]["mem"].run

\* How far a call of fuzz_run_target() has come, as its caller sees it.
CallPhase == CASE apc \in {"idle", "mem"} -> "idle"
               [] apc = "cpu" -> "judged"
               [] OTHER -> "running"

\* The run each stored reading is from.  For the caller the sample is taken when
\* the hook starts to read the maps: nothing can come in between.
CallCost == [e \in Entries |-> [d \in Domains |->
                (IF apc = "mem" THEN Hooked("mem") ELSE cost)[e][d].run]]

\* The domains with a reading for the caller, between the verdict and the hook.
CallSample == IF apc = "cpu" THEN {d \in Domains : map[d].val > 0} ELSE {}

Target == INSTANCE TargetRun
            WITH phase <- CallPhase, cost <- CallCost, sample <- CallSample

\* fuzz_run_target() does what the loop around it takes for granted.
RunsAsPromised == Target!Spec

================================================================================
