---------------------------- MODULE ForkServerProofs ----------------------------
(***************************************************************************)
(* Proofs about ForkServer, for any number of runs, entries and rounds of  *)
(* a persistent child: the pipes stay in step, there is one child at a     *)
(* time, a crash is one, an energy sample is of the current run, and       *)
(* fuzz_run_target() is as TargetRun promises.                             *)
(*                                                                         *)
(* All of it rests on one inductive invariant, ProtocolInv.  None of the   *)
(* properties is inductive: that the pipes are in step depends on where    *)
(* the fork server is, this on what became of its child, and this on the   *)
(* kills that are still under way.                                         *)
(***************************************************************************)
EXTENDS ForkServer, TLAPS

--------------------------------------------------------------------------------
(* The inductive invariant                                                  *)

\* The two answers to a request, as the fork server writes them.
PidWord == [pid |-> fs_child]
StatusWord == [status |-> status]

\* afl-fuzz has its answer and has asked for nothing.
AtRest == apc \in {"idle", "cpu", "mem"} /\ ctl = <<>> /\ st = <<>> /\ fpc = "idle"

\* A run is asked for, and the fork server has not read this yet.
Asked == apc = "pid" /\ (ctl = <<TRUE>> \/ ctl = <<FALSE>>) /\ st = <<>> /\ fpc = "idle"

\* The fork server gets a child ready.
Preparing == apc = "pid" /\ ctl = <<>> /\ st = <<>> /\ fpc \in {"reap", "start", "announce"}

\* The pid is in the pipe, and not read yet.
PidSent == apc = "pid" /\ ctl = <<>> /\ st = <<PidWord>> /\ fpc \in {"wait", "relay"}

\* So is the status.
BothSent ==
    /\ apc = "pid" /\ ctl = <<>> /\ fpc = "idle"
    /\ st = <<PidWord, StatusWord>>

\* afl-fuzz waits for the status.
Awaited == apc \in {"wait", "killed"} /\ ctl = <<>> /\ st = <<>> /\ fpc \in {"wait", "relay"}

\* The status is in the pipe, and not read yet.
StatusSent ==
    apc \in {"wait", "killed"} /\ ctl = <<>> /\ st = <<StatusWord>> /\ fpc = "idle"

\* How far a run has come, on both sides of the pipes.
Stage == \/ AtRest \/ Asked \/ Preparing \/ PidSent \/ BothSent \/ Awaited \/ StatusSent

\* All children but the fork server's current one are gone.  That one is at
\* work, or it has stopped and may have been killed since, or it is gone too.
ChildState ==
    /\ \A p \in Pids : p # fs_child => proc[p] \in {"none", "reaped"}
    /\ fpc \in {"announce", "wait"} =>
          fs_child \in Pids /\ ~child_stopped /\ proc[fs_child] \in Live \cup Dead
    /\ fpc = "relay" => fs_child \in Pids
    /\ st # <<>> => fs_child \in Pids
    /\ fpc = "reap" => child_stopped
    /\ child_stopped => fs_child \in Pids /\ proc[fs_child] \in {"stopped", "signaled"}
    /\ fpc \notin {"announce", "wait"} /\ ~child_stopped /\ fs_child \in Pids =>
          proc[fs_child] = "reaped"

\* A kill is under way only for a run that timed out, until the fork server has
\* heard of it and has reaped the child.
KillState ==
    /\ apc = "wait" => child_pid = fs_child
    /\ apc \in {"pid", "wait"} => ~last_run_timed_out
    /\ apc = "killed" => last_run_timed_out
    /\ \A p \in doomed : proc[p] # "none"
    /\ fs_child \in doomed /\ proc[fs_child] # "reaped" =>
          \/ apc \notin {"pid", "wait"} /\ last_run_timed_out
          \/ ctl = <<TRUE>>
          \/ fpc = "reap"
    /\ child_stopped /\ proc[fs_child] = "signaled" => fs_child \in doomed

\* As long as the run has not timed out, a child that crashed did so by itself.
CrashState ==
    /\ apc # "idle" => run > 0
    /\ apc \in {"pid", "wait"} =>
          /\ fpc \in {"announce", "wait"} /\ proc[fs_child] \in {"signaled", "crash_exit"} =>
                run \in crashed
          /\ fpc = "relay" \/ st # <<>> =>
                fpc = "wait" \/ status \notin {"signaled", "crash_exit"} \/ run \in crashed
    /\ apc = "cpu" /\ result = "crash" => run \in crashed

\* The maps hold readings of this run only, and the hook has emptied the first
\* before it looks at the second.
MapState ==
    /\ \A d \in Domains : map[d].val > 0 => map[d].run = run /\ apc # "idle"
    /\ apc = "mem" => map["cpu"].val = 0

ProtocolInv == TypeOK /\ Stage /\ ChildState /\ KillState /\ CrashState /\ MapState

--------------------------------------------------------------------------------
(* The words in the pipes                                                   *)

\* What a pipe with at most two words in it becomes when one is written or read.
LEMMA PipeFacts ==
    ASSUME NEW x, NEW y
    PROVE  /\ Append(<< >>, x) = <<x>> /\ Append(<<x>>, y) = <<x, y>>
           /\ Head(<<x>>) = x /\ Head(<<x, y>>) = x
           /\ Tail(<<x>>) = << >> /\ Tail(<<x, y>>) = <<y>>
           /\ <<x>> # << >> /\ <<x, y>> # << >>
           /\ Len(<< >>) = 0 /\ Len(<<x>>) = 1 /\ Len(<<x, y>>) = 2
  <1>1. Append(<< >>, x) = <<x>>
    OBVIOUS
  <1>2. Append(<<x>>, y) = [i \in 1..2 |-> IF i = 2 THEN y ELSE x]
    OBVIOUS
  <1>3. <<x, y>> = [i \in 1..2 |-> IF i = 2 THEN y ELSE x]
    OBVIOUS
  <1>4. Head(<<x>>) = x /\ Head(<<x, y>>) = x
    OBVIOUS
  <1>5. Tail(<<x>>) = << >>
    OBVIOUS
  <1>6. Tail(<<x, y>>) = <<y>>
    OBVIOUS
  <1>7. <<x>> # << >> /\ <<x, y>> # << >>
    OBVIOUS
  <1>8. Len(<< >>) = 0 /\ Len(<<x>>) = 1 /\ Len(<<x, y>>) = 2
    OBVIOUS
  <1> QED
    BY <1>1, <1>2, <1>3, <1>4, <1>5, <1>6

\* A word of the pipes is a pid or a status, and reads as what was written.
LEMMA WordFacts ==
    ASSUME TypeOK
    PROVE  /\ fs_child \in Pids => PidWord \in Messages /\ PidWord.pid = fs_child
           /\ StatusWord \in Messages /\ StatusWord.status = status
           /\ "status" \in DOMAIN StatusWord
  BY DEF Messages, PidWord, StatusWord, TypeOK

\* A process is live, dead, not there yet or not there any more.
LEMMA PidFacts == NoPid \notin Pids /\ Pids \subseteq Nat
  BY DEF Pids, NoPid

--------------------------------------------------------------------------------
(* Every step keeps the invariant: afl-fuzz                                 *)

\* A run is asked for: it is one more, and the pipes are still empty.
LEMMA StartRunStep ==
    ASSUME ProtocolInv, StartRun
    PROVE  ProtocolInv'
  <1> USE ForkServerAssumption DEF ProtocolInv
  <1>1. AtRest
    BY DEF StartRun, Stage, Asked, Preparing, PidSent, BothSent, Awaited, StatusSent
  <1>2. ctl' = <<last_run_timed_out>> /\ ctl' # << >>
    BY <1>1 DEF StartRun, AtRest
  <1>3. ctl' \in Seq(BOOLEAN) /\ run' \in 0..MaxRuns
    BY DEF StartRun, TypeOK
  <1>4. UNCHANGED <<child_pid, result, cost, st, fpc, is_persistent, was_killed, child_stopped,
                    fs_child, status, proc, doomed, cycle_cnt, map, crashed>>
    BY DEF StartRun, fsrvVars, procVars
  <1>5. TypeOK'
    BY <1>3, <1>4 DEF StartRun, TypeOK
  <1>6. Stage'
    BY <1>1, <1>2, <1>4 DEF StartRun, AtRest, Stage, TypeOK, Asked
  <1>7. ChildState'
    BY <1>4 DEF ChildState
  <1>8. KillState'
    BY <1>1, <1>2, <1>4 DEF StartRun, AtRest, KillState
  <1>9. CrashState'
    BY <1>1, <1>4 DEF StartRun, AtRest, CrashState, TypeOK
  <1>10. MapState'
    BY <1>4 DEF StartRun, MapState, Domains
  <1> QED
    BY <1>5, <1>6, <1>7, <1>8, <1>9, <1>10

\* The pid that afl-fuzz reads is that of the child that serves the run.
LEMMA ReadPidStep ==
    ASSUME ProtocolInv, ReadPid
    PROVE  ProtocolInv'
  <1> USE ForkServerAssumption DEF ProtocolInv
  <1>1. (PidSent \/ BothSent) /\ fs_child \in Pids /\ st # << >>
    BY DEF ReadPid, ChildState, Stage, AtRest, Asked, Preparing, Awaited, StatusSent
  <1>2. child_pid' = fs_child
    BY <1>1, WordFacts DEF ReadPid, PidSent, BothSent
  <1>3. PidSent => st' = << >>
    BY DEF ReadPid, PidSent
  <1>4. BothSent => st' = <<StatusWord>>
    BY DEF ReadPid, BothSent
  <1>5. StatusWord' = StatusWord
    BY DEF ReadPid, fsrvVars, StatusWord
  <1>6. st' \in Seq(Messages)
    BY DEF ReadPid, TypeOK
  <1>7. TypeOK'
    BY <1>2 DEF ReadPid, fsrvVars, procVars, TypeOK
  <1>8. Stage'
    BY <1>1, <1>3, <1>4, <1>5 DEF ReadPid, fsrvVars, Stage, PidSent, BothSent, Awaited,
       StatusSent
  <1>9. ChildState'
    BY DEF ReadPid, fsrvVars, procVars, ChildState
  <1>10. KillState'
    BY <1>2 DEF ReadPid, fsrvVars, procVars, KillState
  <1>11. CrashState'
    BY DEF ReadPid, fsrvVars, procVars, CrashState
  <1>12. MapState'
    BY DEF ReadPid, fsrvVars, procVars, MapState
  <1> QED
    BY <1>7, <1>8, <1>9, <1>10, <1>11, <1>12

\* The status that afl-fuzz reads is that of the run it asked for.
LEMMA ReadStatusStep ==
    ASSUME ProtocolInv, ReadStatus
    PROVE  ProtocolInv'
  <1> USE ForkServerAssumption DEF ProtocolInv
  <1>1. StatusSent
    BY DEF ReadStatus, Stage, AtRest, Asked, Preparing, PidSent, BothSent, Awaited
  <1>2. st' = << >> /\ st # << >> /\ Head(st).status = status
    BY <1>1, WordFacts DEF ReadStatus, StatusSent
  <1>3. result' = Verdict(status, last_run_timed_out) /\ result' \in {"ok", "crash", "timeout"}
    BY <1>2 DEF ReadStatus, Verdict
  <1>4. child_pid' \in Pids \cup {NoPid}
    BY DEF ReadStatus, TypeOK
  <1>5. TypeOK'
    BY <1>3 DEF ReadStatus, fsrvVars, procVars, TypeOK
  <1>6. Stage'
    BY <1>1 DEF ReadStatus, StatusSent, fsrvVars, Stage, AtRest
  <1>7. ChildState'
    BY DEF ReadStatus, fsrvVars, procVars, ChildState
  <1>8. KillState'
    BY DEF ReadStatus, fsrvVars, procVars, KillState
  <1>9. CrashState'
    BY <1>1, <1>2 DEF ReadStatus, StatusSent, Verdict, procVars, CrashState, KillState
  <1>10. MapState'
    BY DEF ReadStatus, Verdict, fsrvVars, procVars, MapState
  <1> QED
    BY <1>5, <1>6, <1>7, <1>8, <1>9, <1>10

\* What times out is killed, and it is the child that serves the run.
LEMMA TimeoutStep ==
    ASSUME ProtocolInv, Timeout
    PROVE  ProtocolInv'
  <1> USE ForkServerAssumption DEF ProtocolInv
  <1>1. Awaited /\ apc = "wait"
    BY DEF Timeout, PollExpires, Stage, AtRest, Asked, Preparing, PidSent, BothSent, StatusSent
  <1>2. fs_child \in Pids /\ proc[fs_child] # "none" /\ doomed' = doomed \cup {fs_child}
    BY <1>1 DEF Timeout, KillState, ChildState, Awaited, Live, Dead
  <1>3. TypeOK'
    BY <1>2 DEF Timeout, fsrvVars, TypeOK
  <1>4. Stage'
    BY <1>1 DEF Timeout, Awaited, fsrvVars, Stage
  <1>5. ChildState'
    BY DEF Timeout, fsrvVars, ChildState
  <1>6. KillState'
    BY <1>2 DEF Timeout, fsrvVars, KillState
  <1>7. CrashState'
    BY DEF Timeout, CrashState
  <1>8. MapState'
    BY DEF Timeout, fsrvVars, MapState
  <1> QED
    BY <1>3, <1>4, <1>5, <1>6, <1>7, <1>8

\* The hook on the cpu map takes nothing away but its reading.
LEMMA HookCpuStep ==
    ASSUME ProtocolInv, Hook("cpu", "mem")
    PROVE  ProtocolInv'
  <1> USE ForkServerAssumption DEF ProtocolInv
  <1>1. AtRest
    BY DEF Hook, Stage, Asked, Preparing, PidSent, BothSent, Awaited, StatusSent
  <1>2. map' = Cleared("cpu") /\ map' \in [Domains -> Readings]
    BY DEF Hook, Cleared, TypeOK, Domains, Readings, Nothing
  <1>3. \A d \in Domains : map'[d].val = IF d = "cpu" THEN 0 ELSE map[d].val
    BY <1>2 DEF Cleared, Nothing
  <1>4. \A d \in Domains : d # "cpu" => map'[d] = map[d]
    BY <1>2 DEF Cleared
  <1>5. cost' \in [Entries -> [Domains -> Readings]]
    BY DEF Hook, Hooked, TypeOK
  <1>6. TypeOK'
    BY <1>2, <1>5 DEF Hook, fsrvVars, TypeOK
  <1>7. Stage'
    BY <1>1 DEF Hook, AtRest, fsrvVars, Stage
  <1>8. ChildState'
    BY DEF Hook, fsrvVars, ChildState
  <1>9. KillState'
    BY DEF Hook, fsrvVars, KillState
  <1>10. CrashState'
    BY DEF Hook, CrashState
  <1>11. MapState'
    BY <1>1, <1>3, <1>4 DEF Hook, AtRest, MapState, Domains, ChildState
  <1> QED
    BY <1>6, <1>7, <1>8, <1>9, <1>10, <1>11

\* The hook on the mem map takes nothing away but its reading.
LEMMA HookMemStep ==
    ASSUME ProtocolInv, Hook("mem", "idle")
    PROVE  ProtocolInv'
  <1> USE ForkServerAssumption DEF ProtocolInv
  <1>1. AtRest
    BY DEF Hook, Stage, Asked, Preparing, PidSent, BothSent, Awaited, StatusSent
  <1>2. map' = Cleared("mem") /\ map' \in [Domains -> Readings]
    BY DEF Hook, Cleared, TypeOK, Domains, Readings, Nothing
  <1>3. \A d \in Domains : map'[d].val = IF d = "mem" THEN 0 ELSE map[d].val
    BY <1>2 DEF Cleared, Nothing
  <1>4. \A d \in Domains : d # "mem" => map'[d] = map[d]
    BY <1>2 DEF Cleared
  <1>5. cost' \in [Entries -> [Domains -> Readings]]
    BY DEF Hook, Hooked, TypeOK
  <1>6. TypeOK'
    BY <1>2, <1>5 DEF Hook, fsrvVars, TypeOK
  <1>7. Stage'
    BY <1>1 DEF Hook, AtRest, fsrvVars, Stage
  <1>8. ChildState'
    BY DEF Hook, fsrvVars, ChildState
  <1>9. KillState'
    BY DEF Hook, fsrvVars, KillState
  <1>10. CrashState'
    BY DEF Hook, CrashState
  <1>11. MapState'
    BY <1>3 DEF Hook, fsrvVars, MapState, Domains
  <1> QED
    BY <1>6, <1>7, <1>8, <1>9, <1>10, <1>11

--------------------------------------------------------------------------------
(* The fork server                                                          *)

\* The fork server reads how the last run ended: only a child it knows to be
\* killed is written off.
LEMMA ReadCtlStep ==
    ASSUME ProtocolInv, ReadCtl
    PROVE  ProtocolInv'
  <1> USE ForkServerAssumption DEF ProtocolInv
  <1>1. Asked
    BY DEF ReadCtl, Stage, AtRest, Preparing, PidSent, BothSent, Awaited, StatusSent
  <1>2. ctl # << >> /\ ctl' = << >> /\ was_killed' \in BOOLEAN /\ (was_killed' <=> ctl = <<TRUE>>)
    BY <1>1, PipeFacts DEF ReadCtl, Asked
  <1>3. fpc' = IF child_stopped /\ was_killed' THEN "reap" ELSE "start"
    BY DEF ReadCtl, WriteOff
  <1>4. TypeOK'
    BY DEF ReadCtl, aflVars, procVars, TypeOK
  <1>5. Stage'
    BY <1>1, <1>2 DEF ReadCtl, Asked, aflVars, Stage, Preparing
  <1>6. ChildState'
    BY <1>3 DEF ReadCtl, procVars, ChildState
  <1>7. KillState'
    BY <1>2, <1>3 DEF ReadCtl, aflVars, procVars, KillState, TypeOK, ChildState
  <1>8. CrashState'
    BY <1>1 DEF ReadCtl, Asked, aflVars, CrashState
  <1>9. MapState'
    BY DEF ReadCtl, aflVars, procVars, MapState
  <1> QED
    BY <1>4, <1>5, <1>6, <1>7, <1>8, <1>9

\* The child that was written off is reaped.
LEMMA ReapStep ==
    ASSUME ProtocolInv, Reap
    PROVE  ProtocolInv'
  <1> USE ForkServerAssumption DEF ProtocolInv
  <1>1. Preparing
    BY DEF Reap, Stage, AtRest, Asked, PidSent, BothSent, Awaited, StatusSent
  <1>2. fs_child \in Pids /\ proc' = [proc EXCEPT ![fs_child] = "reaped"]
    BY DEF Reap, ChildState
  <1>3. TypeOK'
    BY <1>2 DEF Reap, aflVars, TypeOK
  <1>4. Stage'
    BY <1>1 DEF Reap, Preparing, aflVars, Stage
  <1>5. ChildState'
    BY DEF Reap, ChildState, TypeOK
  <1>6. KillState'
    BY DEF Reap, aflVars, KillState, TypeOK
  <1>7. CrashState'
    BY DEF Reap, aflVars, CrashState
  <1>8. MapState'
    BY DEF Reap, aflVars, MapState, Dead
  <1> QED
    BY <1>3, <1>4, <1>5, <1>6, <1>7, <1>8

\* A new child is forked when the last one is gone.
LEMMA ForkStep ==
    ASSUME ProtocolInv, Fork
    PROVE  ProtocolInv'
  <1> USE ForkServerAssumption DEF ProtocolInv
  <1>1. Preparing
    BY DEF Fork, Stage, AtRest, Asked, PidSent, BothSent, Awaited, StatusSent
  <1>2. PICK p \in Pids : proc[p] = "none" /\ fs_child' = p /\ proc' = [proc EXCEPT ![p] = "running"]
    BY DEF Fork
  <1>3. \A o \in Pids : proc[o] \in {"none", "reaped"}
    BY DEF Fork, ChildState
  <1>4. TypeOK'
    BY DEF Fork, aflVars, Live, TypeOK
  <1>5. Stage'
    BY <1>1 DEF Fork, Preparing, aflVars, Stage
  <1>6. ChildState'
    BY DEF Fork, Live, ChildState, TypeOK
  <1>7. KillState'
    BY <1>1 DEF Fork, Preparing, aflVars, KillState
  <1>8. CrashState'
    BY DEF Fork, aflVars, CrashState
  <1>9. MapState'
    BY <1>3 DEF Fork, aflVars, MapState
  <1> QED
    BY <1>4, <1>5, <1>6, <1>7, <1>8, <1>9

\* A child that is sent on its way was not killed.
LEMMA ContinueStep ==
    ASSUME ProtocolInv, Continue
    PROVE  ProtocolInv'
  <1> USE ForkServerAssumption DEF ProtocolInv
  <1>1. Preparing
    BY DEF Continue, Stage, AtRest, Asked, PidSent, BothSent, Awaited, StatusSent
  <1>2. fs_child \in Pids /\ fs_child \notin doomed /\ proc[fs_child] = "stopped"
    BY <1>1 DEF Continue, Preparing, ChildState, KillState
  <1>3. proc' = [proc EXCEPT ![fs_child] = "running"]
    BY <1>2 DEF Continue
  <1>4. TypeOK'
    BY <1>2 DEF Continue, aflVars, Live, TypeOK
  <1>5. Stage'
    BY <1>1 DEF Continue, Preparing, aflVars, Stage
  <1>6. ChildState'
    BY <1>2 DEF Continue, Live, ChildState
  <1>7. KillState'
    BY <1>1 DEF Continue, Preparing, aflVars, KillState
  <1>8. CrashState'
    BY <1>2 DEF Continue, aflVars, CrashState
  <1>9. MapState'
    BY DEF Continue, aflVars, MapState
  <1> QED
    BY <1>4, <1>5, <1>6, <1>7, <1>8, <1>9

\* The pid is the first answer to a request.
LEMMA AnnounceStep ==
    ASSUME ProtocolInv, Announce
    PROVE  ProtocolInv'
  <1> USE ForkServerAssumption DEF ProtocolInv
  <1>1. Preparing
    BY DEF Announce, Stage, AtRest, Asked, PidSent, BothSent, Awaited, StatusSent
  <1>2. st' = <<PidWord>> /\ st' # << >> /\ PidWord' = PidWord
    BY <1>1 DEF Announce, Preparing, PidWord
  <1>3. fs_child \in Pids /\ st' \in Seq(Messages)
    BY WordFacts DEF Announce, ChildState, TypeOK, PidWord
  <1>4. TypeOK'
    BY <1>3 DEF Announce, aflVars, procVars, TypeOK
  <1>5. Stage'
    BY <1>1, <1>2 DEF Announce, Preparing, aflVars, Stage, PidSent
  <1>6. ChildState'
    BY DEF Announce, procVars, ChildState
  <1>7. KillState'
    BY DEF Announce, aflVars, procVars, KillState
  <1>8. CrashState'
    BY DEF Announce, aflVars, procVars, CrashState
  <1>9. MapState'
    BY DEF Announce, aflVars, procVars, MapState
  <1> QED
    BY <1>4, <1>5, <1>6, <1>7, <1>8, <1>9

\* waitpid() returns the end of the child, or its stop.
LEMMA WaitChildStep ==
    ASSUME ProtocolInv, WaitChild
    PROVE  ProtocolInv'
  <1> USE ForkServerAssumption DEF ProtocolInv
  <1>1. PidSent \/ Awaited
    BY DEF WaitChild, Stage, AtRest, Asked, Preparing, BothSent, StatusSent
  <1>2. fs_child \in Pids /\ PidWord' = PidWord
    BY DEF WaitChild, ChildState, PidWord
  <1>3. status' \in Statuses
    BY DEF WaitChild, Dead, Statuses
  <1>4. proc' = [proc EXCEPT ![fs_child] = IF proc[fs_child] = "stopped" THEN "stopped" ELSE "reaped"]
    BY DEF WaitChild
  <1>5. TypeOK'
    BY <1>2, <1>3 DEF WaitChild, aflVars, TypeOK
  <1>6. Stage'
    BY <1>1, <1>2 DEF WaitChild, aflVars, Stage, PidSent, Awaited
  <1>7. ChildState'
    BY DEF WaitChild, ChildState, TypeOK
  <1>8. KillState'
    BY DEF WaitChild, aflVars, KillState, TypeOK
  <1>9. CrashState'
    BY DEF WaitChild, aflVars, CrashState
  <1>10. MapState'
    BY DEF WaitChild, aflVars, Dead, MapState
  <1> QED
    BY <1>5, <1>6, <1>7, <1>8, <1>9, <1>10

\* The status is the second answer.
LEMMA RelayStep ==
    ASSUME ProtocolInv, Relay
    PROVE  ProtocolInv'
  <1> USE ForkServerAssumption DEF ProtocolInv
  <1>1. fs_child \in Pids /\ (PidSent \/ Awaited)
    BY DEF Relay, ChildState, Stage, AtRest, Asked, Preparing, BothSent, StatusSent
  <1>2. PidWord' = PidWord /\ StatusWord' = StatusWord
    BY DEF Relay, PidWord, StatusWord
  <1>3. st' = Append(st, StatusWord)
    BY DEF Relay, StatusWord
  <1>4. PidSent => st' = <<PidWord, StatusWord>>
    BY <1>3, PipeFacts DEF PidSent
  <1>5. Awaited => st' = <<StatusWord>>
    BY <1>3 DEF Awaited
  <1>6. st' \in Seq(Messages)
    BY <1>3, WordFacts DEF TypeOK
  <1>7. TypeOK'
    BY <1>6 DEF Relay, aflVars, procVars, TypeOK
  <1>8. Stage'
    BY <1>1, <1>2, <1>4, <1>5 DEF Relay, PidSent, Awaited, aflVars, Stage, BothSent, StatusSent
  <1>9. ChildState'
    BY DEF Relay, procVars, ChildState
  <1>10. KillState'
    BY DEF Relay, aflVars, procVars, KillState
  <1>11. CrashState'
    BY DEF Relay, aflVars, procVars, CrashState
  <1>12. MapState'
    BY DEF Relay, aflVars, procVars, MapState
  <1> QED
    BY <1>7, <1>8, <1>9, <1>10, <1>11, <1>12

--------------------------------------------------------------------------------
(* The children                                                             *)

\* Only the fork server's current child can take a step; if it is at work, the
\* run is under way.
LEMMA OnlyOneMoves ==
    ASSUME ProtocolInv, NEW p \in Pids, proc[p] \in Live
    PROVE  /\ p = fs_child
           /\ proc[p] # "stopped" => fpc \in {"announce", "wait"} /\ apc \in {"pid", "wait", "killed"}
  <1>1. p = fs_child
    BY DEF ProtocolInv, ChildState, Live
  <1>2. ASSUME proc[p] # "stopped" PROVE fpc \in {"announce", "wait"}
    BY <1>2 DEF ProtocolInv, ChildState, Live
  <1>3. fpc \in {"announce", "wait"} => apc \in {"pid", "wait", "killed"}
    BY DEF ProtocolInv, Stage, AtRest, Asked, Preparing, PidSent, BothSent, Awaited, StatusSent
  <1> QED
    BY <1>1, <1>2, <1>3

\* A child that stops was at work.
LEMMA ChildStopsStep ==
    ASSUME NEW p \in Pids, ProtocolInv, ChildStops(p), UNCHANGED <<aflVars, ctl, st, fsrvVars>>
    PROVE  ProtocolInv'
  <1> USE ForkServerAssumption DEF ProtocolInv
  <1>1. p = fs_child /\ fpc \in {"announce", "wait"} /\ apc \in {"pid", "wait", "killed"}
    BY OnlyOneMoves DEF ChildStops, Live
  <1>2. cycle_cnt' \in 0..MaxCnt
    BY DEF ChildStops, TypeOK
  <1>3. TypeOK'
    BY DEF ChildStops, aflVars, fsrvVars, Live, TypeOK
  <1>4. Stage'
    BY <1>1 DEF aflVars, fsrvVars, Stage, AtRest, Asked, Preparing, PidSent, BothSent,
       Awaited, StatusSent, PidWord
  <1>5. ChildState'
    BY DEF ChildStops, fsrvVars, Live, ChildState
  <1>6. KillState'
    BY <1>1 DEF ChildStops, aflVars, fsrvVars, KillState, TypeOK
  <1>7. CrashState'
    BY DEF ChildStops, aflVars, fsrvVars, CrashState
  <1>8. MapState'
    BY DEF ChildStops, aflVars, fsrvVars, MapState
  <1> QED
    BY <1>3, <1>4, <1>5, <1>6, <1>7, <1>8

\* A child that crashes does it in the current run.
LEMMA ChildCrashesStep ==
    ASSUME NEW p \in Pids, ProtocolInv, ChildCrashes(p), UNCHANGED <<aflVars, ctl, st, fsrvVars>>
    PROVE  ProtocolInv'
  <1> USE ForkServerAssumption DEF ProtocolInv
  <1>1. p = fs_child /\ fpc \in {"announce", "wait"} /\ apc \in {"pid", "wait", "killed"}
    BY OnlyOneMoves DEF ChildCrashes, Live
  <1>2. crashed' \subseteq 1..MaxRuns
    BY <1>1 DEF ChildCrashes, TypeOK, CrashState
  <1>3. TypeOK'
    BY <1>2 DEF ChildCrashes, aflVars, fsrvVars, Dead, TypeOK
  <1>4. Stage'
    BY <1>1 DEF aflVars, fsrvVars, Stage, AtRest, Asked, Preparing, PidSent, BothSent,
       Awaited, StatusSent, PidWord
  <1>5. ChildState'
    BY DEF ChildCrashes, fsrvVars, Dead, ChildState
  <1>6. KillState'
    BY DEF ChildCrashes, aflVars, fsrvVars, KillState, TypeOK, ChildState
  <1>7. CrashState'
    BY DEF ChildCrashes, aflVars, CrashState
  <1>8. MapState'
    BY DEF ChildCrashes, aflVars, fsrvVars, MapState
  <1> QED
    BY <1>3, <1>4, <1>5, <1>6, <1>7, <1>8

\* What a child writes into a map, if anything, is of the current run.
LEMMA PublishFacts ==
    ASSUME ProtocolInv, NEW d \in Domains, Publish(d), run > 0
    PROVE  /\ map' \in [Domains -> Readings]
           /\ \A o \in Domains : map'[o] = map[o] \/ map'[o].val = 0 \/ map'[o].run = run
  <1>1. map \in [Domains -> Readings] /\ run \in 0..MaxRuns
    BY DEF ProtocolInv, TypeOK
  <1>2. CASE map' = [map EXCEPT ![d] = [val |-> run - TrackerStart, run |-> run]]
    <2>1. [val |-> run - TrackerStart, run |-> run] \in Readings
      BY <1>1 DEF TrackerStart, Readings
    <2> QED
      BY <1>1, <1>2, <2>1
  <1>3. CASE map' = [map EXCEPT ![d] = Nothing]
    <2>1. Nothing \in Readings /\ Nothing.val = 0
      BY ForkServerAssumption DEF Nothing, Readings
    <2> QED
      BY <1>1, <1>3, <2>1
  <1>4. CASE UNCHANGED map
    BY <1>1, <1>4
  <1> QED
    BY <1>2, <1>3, <1>4 DEF Publish

\* The child publishes its cpu reading in the current run.
LEMMA ChildPublishesCpuStep ==
    ASSUME NEW p \in Pids, ProtocolInv, ChildPublishesCpu(p), UNCHANGED <<aflVars, ctl, st, fsrvVars>>
    PROVE  ProtocolInv'
  <1> USE ForkServerAssumption DEF ProtocolInv
  <1>1. p = fs_child /\ fpc \in {"announce", "wait"} /\ apc \in {"pid", "wait", "killed"}
    BY OnlyOneMoves DEF ChildPublishesCpu, Live
  <1>2. run > 0 /\ run' = run /\ apc' = apc
    BY <1>1 DEF CrashState, aflVars
  <1>3. /\ map' \in [Domains -> Readings]
        /\ \A o \in Domains : map'[o] = map[o] \/ map'[o].val = 0 \/ map'[o].run = run
    BY <1>2, PublishFacts DEF ChildPublishesCpu, Domains
  <1>4. TypeOK'
    BY <1>3 DEF ChildPublishesCpu, aflVars, fsrvVars, Live, TypeOK
  <1>5. Stage'
    BY <1>1 DEF aflVars, fsrvVars, Stage, AtRest, Asked, Preparing, PidSent, BothSent,
       Awaited, StatusSent, PidWord
  <1>6. ChildState'
    BY DEF ChildPublishesCpu, fsrvVars, Live, ChildState
  <1>7. KillState'
    BY <1>1 DEF ChildPublishesCpu, aflVars, fsrvVars, KillState, TypeOK
  <1>8. CrashState'
    BY DEF ChildPublishesCpu, aflVars, fsrvVars, CrashState
  <1>9. MapState'
    BY <1>1, <1>2, <1>3 DEF MapState
  <1> QED
    BY <1>4, <1>5, <1>6, <1>7, <1>8, <1>9

\* The child publishes its memory reading, in the current run too.
LEMMA ChildPublishesMemStep ==
    ASSUME NEW p \in Pids, ProtocolInv, ChildPublishesMem(p), UNCHANGED <<aflVars, ctl, st, fsrvVars>>
    PROVE  ProtocolInv'
  <1> USE ForkServerAssumption DEF ProtocolInv
  <1>1. p = fs_child /\ fpc \in {"announce", "wait"} /\ apc \in {"pid", "wait", "killed"}
    BY OnlyOneMoves DEF ChildPublishesMem, Live
  <1>2. run > 0 /\ run' = run /\ apc' = apc
    BY <1>1 DEF CrashState, aflVars
  <1>3. /\ map' \in [Domains -> Readings]
        /\ \A o \in Domains : map'[o] = map[o] \/ map'[o].val = 0 \/ map'[o].run = run
    BY <1>2, PublishFacts DEF ChildPublishesMem, Domains
  <1>4. TypeOK'
    BY <1>3 DEF ChildPublishesMem, aflVars, fsrvVars, Live, TypeOK
  <1>5. Stage'
    BY <1>1 DEF aflVars, fsrvVars, Stage, AtRest, Asked, Preparing, PidSent, BothSent,
       Awaited, StatusSent, PidWord
  <1>6. ChildState'
    BY DEF ChildPublishesMem, fsrvVars, Live, ChildState
  <1>7. KillState'
    BY <1>1 DEF ChildPublishesMem, aflVars, fsrvVars, KillState, TypeOK
  <1>8. CrashState'
    BY DEF ChildPublishesMem, aflVars, fsrvVars, CrashState
  <1>9. MapState'
    BY <1>1, <1>2, <1>3 DEF MapState
  <1> QED
    BY <1>4, <1>5, <1>6, <1>7, <1>8, <1>9

\* A child that exits leaves the maps alone.
LEMMA ChildExitsStep ==
    ASSUME NEW p \in Pids, ProtocolInv, ChildExits(p), UNCHANGED <<aflVars, ctl, st, fsrvVars>>
    PROVE  ProtocolInv'
  <1> USE ForkServerAssumption DEF ProtocolInv
  <1>1. p = fs_child /\ fpc \in {"announce", "wait"} /\ apc \in {"pid", "wait", "killed"}
    BY OnlyOneMoves DEF ChildExits, Live
  <1>2. crashed' \subseteq 1..MaxRuns /\ crashed \subseteq crashed'
    BY <1>1 DEF ChildExits, TypeOK, CrashState
  <1>3. PICK s \in {"exited", "crash_exit"} : /\ proc' = [proc EXCEPT ![p] = s]
                                          /\ s = "crash_exit" => run \in crashed'
    OBVIOUS
  <1>4. TypeOK'
    BY <1>2 DEF ChildExits, aflVars, fsrvVars, Dead, TypeOK
  <1>5. Stage'
    BY <1>1 DEF aflVars, fsrvVars, Stage, AtRest, Asked, Preparing, PidSent, BothSent,
       Awaited, StatusSent, PidWord
  <1>6. ChildState'
    BY DEF ChildExits, fsrvVars, Dead, ChildState
  <1>7. KillState'
    BY <1>1 DEF ChildExits, aflVars, fsrvVars, KillState, TypeOK
  <1>8. CrashState'
    BY DEF ChildExits, aflVars, fsrvVars, CrashState
  <1>9. MapState'
    BY DEF ChildExits, aflVars, fsrvVars, MapState
  <1> QED
    BY <1>4, <1>5, <1>6, <1>7, <1>8, <1>9

\* A child that is killed belongs to a run that timed out.
LEMMA ChildDiesStep ==
    ASSUME NEW p \in Pids, ProtocolInv, ChildDies(p), UNCHANGED <<aflVars, ctl, st, fsrvVars>>
    PROVE  ProtocolInv'
  <1> USE ForkServerAssumption DEF ProtocolInv
  <1>1. /\ p = fs_child
        /\ proc[p] # "stopped" => fpc \in {"announce", "wait"} /\ apc \in {"pid", "wait", "killed"}
    BY OnlyOneMoves DEF ChildDies
  <1>2. ~(apc \in {"pid", "wait"} /\ fpc \in {"announce", "wait"})
    BY <1>1, PipeFacts DEF ChildDies, KillState, Live, Stage, AtRest, Asked, Preparing,
       PidSent, BothSent, Awaited, StatusSent
  <1>3. TypeOK'
    BY DEF ChildDies, aflVars, fsrvVars, Dead, TypeOK
  <1>4. Stage'
    BY DEF aflVars, fsrvVars, Stage, AtRest, Asked, Preparing, PidSent, BothSent, Awaited,
       StatusSent, PidWord, StatusWord
  <1>5. ChildState'
    BY <1>1 DEF ChildDies, fsrvVars, Dead, ChildState
  <1>6. KillState'
    BY <1>1, <1>2 DEF ChildDies, aflVars, fsrvVars, KillState, TypeOK
  <1>7. CrashState'
    BY <1>2 DEF ChildDies, aflVars, fsrvVars, CrashState
  <1>8. MapState'
    BY <1>3 DEF ChildDies, aflVars, fsrvVars, MapState
  <1> QED
    BY <1>3, <1>4, <1>5, <1>6, <1>7, <1>8

--------------------------------------------------------------------------------
(* The theorems                                                             *)

\* ProtocolInv says enough: it implies what the run checks.
LEMMA ProtocolInvSuffices == ProtocolInv => InStep /\ OneChild /\ CrashIsReal /\ SampleIsFresh
  <1> SUFFICES ASSUME ProtocolInv PROVE InStep /\ OneChild /\ CrashIsReal /\ SampleIsFresh
    OBVIOUS
  <1> USE DEF ProtocolInv
  <1>1. Len(ctl) <= 1 /\ Len(st) <= 2
    <2>1. ctl = <<>> \/ ctl = <<TRUE>> \/ ctl = <<FALSE>>
      BY DEF Stage, AtRest, Asked, Preparing, PidSent, BothSent, Awaited, StatusSent
    <2>2. st = <<>> \/ st = <<PidWord>> \/ st = <<StatusWord>> \/ st = <<PidWord, StatusWord>>
      BY DEF Stage, AtRest, Asked, Preparing, PidSent, BothSent, Awaited, StatusSent
    <2>3. Len(<<>>) = 0 /\ Len(<<TRUE>>) = 1 /\ Len(<<FALSE>>) = 1
      OBVIOUS
    <2>4. /\ Len(<<PidWord>>) = 1 /\ Len(<<StatusWord>>) = 1
          /\ Len(<<PidWord, StatusWord>>) = 2
      OBVIOUS
    <2>5. Len(ctl) \in {0, 1} /\ Len(st) \in {0, 1, 2}
      BY <2>1, <2>2
    <2>6. \A n \in {0, 1} : n <= 1
      OBVIOUS
    <2>7. \A n \in {0, 1, 2} : n <= 2
      OBVIOUS
    <2> QED
      BY <2>5, <2>6, <2>7
  <1>2. apc = "pid" /\ st # <<>> => Head(st) = [pid |-> fs_child]
    <2>1. apc = "pid" /\ st # <<>> => st = <<PidWord>> \/ st = <<PidWord, StatusWord>>
      BY DEF Stage, AtRest, Asked, Preparing, PidSent, BothSent, Awaited, StatusSent
    <2> QED
      BY <2>1 DEF PidWord
  <1>3. apc \in {"wait", "killed"} /\ st # <<>> => "status" \in DOMAIN Head(st)
    <2>1. apc \in {"wait", "killed"} /\ st # <<>> => st = <<StatusWord>>
      BY DEF Stage, AtRest, Asked, Preparing, PidSent, BothSent, Awaited, StatusSent
    <2> QED
      BY <2>1, WordFacts
  <1>4. apc \in {"idle", "cpu", "mem"} => ctl = <<>> /\ st = <<>> /\ fpc = "idle"
    BY DEF Stage, AtRest, Asked, Preparing, PidSent, BothSent, Awaited, StatusSent
  <1>5. OneChild
    BY DEF ChildState, OneChild
  <1> QED
    BY <1>1, <1>2, <1>3, <1>4, <1>5 DEF InStep, PipesInStep, CrashIsReal, CrashState,
       SampleIsFresh, MapState

\* Nothing has happened yet.
LEMMA InitProtocol == Init => ProtocolInv
  <1> SUFFICES ASSUME Init PROVE ProtocolInv
    OBVIOUS
  <1> USE ForkServerAssumption DEF Init
  <1>1. Nothing \in Readings /\ Nothing.val = 0
    BY DEF Nothing, Readings
  <1>2. NoPid \notin Pids
    BY DEF NoPid, Pids
  <1>3. TypeOK
    <2>1. ctl \in Seq(BOOLEAN) /\ st \in Seq(Messages)
      OBVIOUS
    <2>2. cost \in [Entries -> [Domains -> Readings]] /\ map \in [Domains -> Readings]
      BY <1>1
    <2>3. proc \in [Pids -> Live \cup Dead \cup {"none", "reaped"}]
      OBVIOUS
    <2>4. run \in 0..MaxRuns /\ cycle_cnt \in 0..MaxCnt /\ doomed \subseteq Pids
      OBVIOUS
    <2> QED
      BY <2>1, <2>2, <2>4 DEF TypeOK, Statuses
  <1>4. Stage /\ ChildState /\ KillState /\ CrashState
    BY <1>2 DEF Stage, AtRest, ChildState, KillState, CrashState
  <1>5. MapState
    BY <1>1 DEF MapState, Domains
  <1> QED
    BY <1>3, <1>4, <1>5 DEF ProtocolInv

\* Every step of afl-fuzz, of the fork server and of a child keeps it.
LEMMA NextProtocol == ProtocolInv /\ [Next]_vars => ProtocolInv'
  <1> SUFFICES ASSUME ProtocolInv, [Next]_vars PROVE ProtocolInv'
    OBVIOUS
  <1>1. CASE AflFuzz
    BY <1>1, StartRunStep, ReadPidStep, ReadStatusStep, TimeoutStep, HookCpuStep,
       HookMemStep DEF AflFuzz
  <1>2. CASE Server
    BY <1>2, ReadCtlStep, ReapStep, ForkStep, ContinueStep, AnnounceStep, WaitChildStep,
       RelayStep DEF Server
  <1>3. ASSUME NEW p \in Pids, Child(p) PROVE ProtocolInv'
    BY <1>3, ChildStopsStep, ChildCrashesStep, ChildPublishesCpuStep, ChildPublishesMemStep,
       ChildExitsStep, ChildDiesStep DEF Child
  <1>4. CASE UNCHANGED vars
    <2> USE <1>4 DEF vars, aflVars, fsrvVars, procVars, ProtocolInv
    <2>1. TypeOK'
      BY DEF TypeOK
    <2>2. Stage'
      BY DEF Stage, AtRest, Asked, Preparing, PidSent, BothSent, Awaited, StatusSent,
         PidWord, StatusWord
    <2>3. ChildState' /\ KillState'
      BY DEF ChildState, KillState
    <2>4. CrashState' /\ MapState'
      BY DEF CrashState, MapState
    <2> QED
      BY <2>1, <2>2, <2>3, <2>4
  <1> QED
    BY <1>1, <1>2, <1>3, <1>4 DEF Next, Done

\* The inductive invariant holds, whatever times out, crashes, stops or is killed.
THEOREM ProtocolHolds == Spec => []ProtocolInv
  BY InitProtocol, NextProtocol, PTL DEF Spec

\* afl-fuzz and the fork server never lose step: for any number of runs, what
\* afl_fsrv_run_target() reads as a pid is the pid of the child that serves the
\* run, and what it reads as a status is one.
THEOREM PipesStayInStep == Spec => []InStep
  BY ProtocolHolds, ProtocolInvSuffices, PTL

\* A child that is killed, even while it is stopped, is reaped before the next
\* one is forked: the fork server never has two.
THEOREM NeverTwoChildren == Spec => []OneChild
  BY ProtocolHolds, ProtocolInvSuffices, PTL

\* What afl_fsrv_run_target() reports as a crash is one: the SIGKILL of a
\* timeout never becomes the crash of the next input.
THEOREM CrashesAreReal == Spec => []CrashIsReal
  BY ProtocolHolds, ProtocolInvSuffices, PTL

\* The energy hook of fuzz_run_target() never finds the reading of another run.
THEOREM SamplesAreFresh == Spec => []SampleIsFresh
  BY ProtocolHolds, ProtocolInvSuffices, PTL
--------------------------------------------------------------------------------
(* The refinement                                                           *)

\* What afl-fuzz does not take part in, its caller does not see.
LEMMA QuietStep ==
    ASSUME aflVars' = aflVars, apc \notin {"cpu", "mem"} \/ map' = map
    PROVE  UNCHANGED Target!vars
  <1>1. CallPhase' = CallPhase
    BY DEF CallPhase, aflVars
  <1>2. CallCost' = CallCost
    BY DEF CallCost, Hooked, aflVars
  <1>3. CallSample' = CallSample
    BY DEF CallSample, aflVars
  <1> QED
    BY <1>1, <1>2, <1>3 DEF Target!vars, aflVars

\* The hook stores the sample as it was at the verdict, all of it of this run.
LEMMA HookFinishes ==
    ASSUME ProtocolInv, Hook("cpu", "mem")
    PROVE  Target!Finish
  <1> USE ForkServerAssumption DEF ProtocolInv
  <1>1. CallPhase = "judged" /\ CallPhase' = "idle"
    BY DEF Hook, CallPhase
  <1>2. CallSample = {d \in Domains : map[d].val > 0} /\ CallSample' = {}
    BY DEF Hook, CallSample
  <1>3. ASSUME NEW e \in Entries, NEW d \in Domains
        PROVE  Hooked("mem")'[e][d].run =
                  IF e = queue_cur /\ d \in CallSample THEN run ELSE cost[e][d].run
    <2>1. d = "cpu" \/ d = "mem"
      BY DEF Domains
    <2>2. map'["mem"] = map["mem"] /\ queue_cur' = queue_cur
      BY DEF Hook, Cleared
    <2>3. cost' \in [Entries -> [Domains -> Readings]]
      BY DEF Hook, Hooked, TypeOK
    <2>4. cost'[e][d] = IF e = queue_cur /\ d = "cpu" /\ map[d].val > 0 THEN map[d] ELSE cost[e][d]
      BY DEF Hook, Hooked, TypeOK
    <2>5. Hooked("mem")'[e][d] =
            IF e = queue_cur /\ d = "mem" /\ map[d].val > 0 THEN map[d] ELSE cost'[e][d]
      BY <2>2, <2>3 DEF Hooked
    <2>6. map[d].val > 0 => map[d].run = run
      BY DEF MapState
    <2> QED
      BY <1>2, <2>1, <2>4, <2>5, <2>6
  <1>4. CallCost' = [e \in Entries |-> [d \in Domains |->
                       IF e = queue_cur /\ d \in CallSample THEN run ELSE CallCost[e][d]]]
    <2>1. \A e \in Entries, d \in Domains : CallCost[e][d] = cost[e][d].run
      BY DEF Hook, CallCost
    <2>2. CallCost' = [e \in Entries |-> [d \in Domains |-> Hooked("mem")'[e][d].run]]
      BY DEF Hook, CallCost
    <2> QED
      BY <1>3, <2>1, <2>2
  <1> QED
    BY <1>1, <1>2, <1>4 DEF Target!Finish, Hook

\* Every step is one of TargetRun, or none that it can see.
LEMMA StepIsPromised == ProtocolInv /\ [Next]_vars => [Target!Next]_(Target!vars)
  <1> SUFFICES ASSUME ProtocolInv, [Next]_vars PROVE [Target!Next]_(Target!vars)
    OBVIOUS
  <1>1. CASE StartRun
    <2>1. CallPhase = "idle" /\ CallPhase' = "running"
      BY <1>1 DEF StartRun, CallPhase
    <2>2. CallCost' = CallCost
      BY <1>1 DEF StartRun, CallCost
    <2>3. CallSample' = CallSample
      BY <1>1 DEF StartRun, CallSample
    <2> QED
      BY <1>1, <2>1, <2>2, <2>3 DEF StartRun, Target!Next, Target!Start
  <1>2. CASE ReadPid \/ Timeout
    <2>1. CallPhase' = CallPhase /\ CallCost' = CallCost /\ CallSample' = CallSample
      BY <1>2 DEF ReadPid, Timeout, CallPhase, CallCost, CallSample
    <2> QED
      BY <1>2, <2>1 DEF ReadPid, Timeout, Target!vars
  <1>3. CASE ReadStatus
    <2>1. CallPhase = "running" /\ CallPhase' = "judged"
      BY <1>3 DEF ReadStatus, CallPhase
    <2>2. CallCost' = CallCost
      BY <1>3 DEF ReadStatus, CallCost
    <2>3. result' \in Target!Verdicts
      BY <1>3 DEF ReadStatus, Verdict, Target!Verdicts
    <2>4. CallSample' \in SUBSET Domains
      BY DEF CallSample
    <2> QED
      BY <1>3, <2>1, <2>2, <2>3, <2>4 DEF ReadStatus, Target!Next, Target!Judge
  <1>4. CASE Hook("cpu", "mem")
    BY <1>4, HookFinishes DEF Target!Next
  <1>5. CASE Hook("mem", "idle")
    <2>1. CallPhase' = CallPhase /\ CallCost' = CallCost /\ CallSample' = CallSample
      BY <1>5 DEF Hook, CallPhase, CallCost, CallSample
    <2> QED
      BY <1>5, <2>1 DEF Hook, Target!vars
  <1>6. CASE Server
    BY <1>6, QuietStep DEF Server, ReadCtl, Reap, Fork, Continue, Announce, WaitChild,
       Relay, procVars
  <1>7. ASSUME NEW p \in Pids, Child(p) PROVE UNCHANGED Target!vars
    <2>1. apc \notin {"cpu", "mem"} \/ map' = map
      BY <1>7, OnlyOneMoves DEF Child, Live, ChildStops, ChildCrashes, ChildPublishesCpu,
         ChildPublishesMem, ChildExits, ChildDies
    <2> QED
      BY <1>7, <2>1, QuietStep DEF Child
  <1>8. CASE UNCHANGED vars
    BY <1>8, QuietStep DEF vars, procVars
  <1> QED
    BY <1>1, <1>2, <1>3, <1>4, <1>5, <1>6, <1>7, <1>8 DEF Next, AflFuzz, Done

\* fuzz_run_target() implements TargetRun: a call ends with one verdict, and the
\* hook stores in the entry being fuzzed exactly the domains that had a reading
\* at the verdict, each published during this call.
THEOREM RunsImplementTarget == Spec => RunsAsPromised
  <1>1. Init => Target!Init
    <2> SUFFICES ASSUME Init PROVE Target!Init
      OBVIOUS
    <2>1. CallPhase = "idle"
      BY DEF Init, CallPhase
    <2>2. CallCost = [e \in Entries |-> [d \in Domains |-> 0]]
      BY DEF Init, CallCost, Nothing
    <2>3. CallSample = {}
      BY DEF Init, CallSample
    <2> QED
      BY <2>1, <2>2, <2>3 DEF Init, Target!Init
  <1> QED
    BY <1>1, StepIsPromised, ProtocolHolds, PTL DEF Spec, RunsAsPromised, Target!Spec
================================================================================
