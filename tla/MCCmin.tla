------------------------------- MODULE MCCmin -------------------------------
(* Instances of Cmin: three inputs and two tuples under the command lines    *)
(* that differ in how runs are judged and batched.                           *)
EXTENDS Cmin

Plain ==
    [workers |-> 2, no_batch |-> TRUE, allow_any |-> FALSE, crash_only |-> FALSE,
     crash_dir |-> FALSE, no_dedup |-> FALSE, debug_child |-> FALSE]

\* What scripts/run_campaign.sh uses, with two workers and -A; with one worker
\* its variants -C and --crash-dir, and one batch of all inputs without and
\* with -A --crash-dir.
MCOptions ==
    {[Plain EXCEPT !.allow_any = TRUE],
     [Plain EXCEPT !.workers = 1, !.crash_only = TRUE],
     [Plain EXCEPT !.workers = 1, !.crash_dir = TRUE, !.no_dedup = TRUE],
     [Plain EXCEPT !.workers = 1, !.no_batch = FALSE],
     [Plain EXCEPT !.workers = 1, !.no_batch = FALSE, !.allow_any = TRUE, !.crash_dir = TRUE]}

\* Batching, as it is without --no-batch.
MCBatched == {[Plain EXCEPT !.workers = 1, !.no_batch = FALSE]}

\* Every input has a name of its own; or inputs of two directories may share one.
MCDistinct == {[f \in Files |-> f]}
MCAnyNames == [Files -> Files]
=============================================================================
