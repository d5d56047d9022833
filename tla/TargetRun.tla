-------------------------------- MODULE TargetRun --------------------------------
(***************************************************************************)
(* What fuzz_run_target() promises the rest of afl-fuzz, and all that      *)
(* FuzzLoop's EnergyHook assumes of it: a call ends with one verdict and a *)
(* sample of the energy, settled with the verdict.  Exactly the domains of *)
(* the sample are stored, in the entry being fuzzed, as readings of this   *)
(* very call; a domain without a reading keeps the cost it had.            *)
(***************************************************************************)
EXTENDS Naturals

CONSTANTS Entries, Domains, NoEntry

VARIABLES
    phase,       \* of the call in progress
    run,         \* calls so far
    queue_cur,   \* the entry being fuzzed, or NoEntry
    result,      \* the verdict of the last call that ended
    sample,      \* the domains with a reading, between the verdict and the end
    cost         \* the call each stored reading comes from, 0 for none

vars == <<phase, run, queue_cur, result, sample, cost>>

Verdicts == {"ok", "crash", "timeout"}

Init == /\ phase = "idle" /\ run = 0 /\ queue_cur = NoEntry /\ result = "ok"
        /\ sample = {}
        /\ cost = [e \in Entries |-> [d \in Domains |-> 0]]

Start ==
    /\ phase = "idle"
    /\ phase' = "running"
    /\ run' = run + 1
    /\ queue_cur' \in Entries \cup {NoEntry}
    /\ UNCHANGED <<result, sample, cost>>

Judge ==
    /\ phase = "running"
    /\ phase' = "judged"
    /\ result' \in Verdicts
    /\ sample' \in SUBSET Domains
    /\ UNCHANGED <<run, queue_cur, cost>>

Finish ==
    /\ phase = "judged"
    /\ phase' = "idle"
    /\ cost' = [e \in Entries |-> [d \in Domains |->
                  IF e = queue_cur /\ d \in sample THEN run ELSE cost[e][d]]]
    /\ sample' = {}
    /\ UNCHANGED <<run, queue_cur, result>>

Next == Start \/ Judge \/ Finish

Spec == Init /\ [][Next]_vars
================================================================================
