-------------------------------- MODULE Cmin --------------------------------
(* The seed minimiser afl-cmin.py, which keeps for every tuple (an edge with *)
(* its hit count) one input that reaches it, the one that costs the least    *)
(* energy, and throws the other inputs away.                                 *)
(*                                                                           *)
(* A dispatcher fills the job queue with batches of inputs.  Workers take    *)
(* batches, run afl-showmap on them, keep their own best input per tuple and *)
(* report one item per input to the main process, which remembers where the  *)
(* trace of an input lies in the worker's pack.  When all are through, main  *)
(* merges the workers' tables and saves inputs until every tuple is there.   *)
(*                                                                           *)
(* Inputs are numbered in the order of their size, as main() sorts them; no  *)
(* two have the same contents (dedup()).  A worker's queue feeder threads    *)
(* may delay a message but main() handles messages in any order alike, so    *)
(* that each queue is one sequence.                                          *)
EXTENDS Integers, FiniteSets, Sequences, SequencesExt

CONSTANTS
    NFiles,     \* how many inputs remain after the deduplication
    Tuples,     \* the tuples of the target
    MaxEnergy,  \* the largest reading of a run, in microjoules
    Naming,     \* the assignments of base names to inputs under consideration
    Options,    \* the command lines under consideration
    PipeCap     \* how many tuples afl-showmap can write into an unread pipe

ASSUME FilesAssumption == NFiles \in Nat \ {0}
ASSUME EnergyAssumption == MaxEnergy \in Nat \ {0}
ASSUME OptionsAssumption ==
    Options \subseteq
      [workers : Nat \ {0},                    \* -T
       no_batch : BOOLEAN,                     \* --no-batch
       allow_any : BOOLEAN,                    \* -A
       crash_only : BOOLEAN,                   \* -C
       crash_dir : BOOLEAN,                    \* --crash-dir
       no_dedup : BOOLEAN,                     \* --no-dedup
       debug_child : BOOLEAN]                  \* AFL_DEBUG_CHILD

VARIABLES
    opt,         \* the command line
    corpus,      \* what a run of each input does
    basename,    \* the base name of each input's path
    put,         \* how many jobs the dispatcher has put into the job queue
    got,         \* how many of them the workers have taken out
    batch,       \* per worker: the results of its batch it has not handled yet
    ended,       \* the workers that have ended
    table,       \* per worker: m, best_energy, counter and the trace pack
    progress,    \* the progress queue
    results,     \* the result queue: workers that have sent their tables
    pc,          \* where the main process is
    seen,        \* how many progress items, then results, main has received
    trace_info,  \* where the trace of an input is: worker and place in the pack
    todo,        \* the tuples the last loop of main has still to look at
    saved        \* the inputs saved to the output directory, in order

vars == <<opt, corpus, basename, put, got, batch, ended, table, progress, results, pc, seen,
          trace_info, todo, saved>>

Files == 0 .. NFiles - 1

\* max_file_index and INF_EN: no input, no energy.
NoFile == NFiles
InfEnergy == MaxEnergy + 1

Workers == 1 .. opt.workers

(* What a run of an input does.  An input whose run crashes or times out     *)
(* prints no energy, and one that exits normally may not print any either    *)
(* (energy 0).                                                               *)
Behaviours ==
    [end : {"ok"}, trace : (SUBSET Tuples) \ {{}}, energy : 0 .. MaxEnergy]
      \cup [end : {"crash"}, trace : (SUBSET Tuples) \ {{}}, energy : {0}]
      \cup [end : {"timeout"}, trace : {{}}, energy : {0}]

-----------------------------------------------------------------------------
(* afl_showmap() and the afl-showmap it runs.                                *)

\* The tuples afl-showmap writes for an input: none for a run it rejects.
Accepted(f) ==
    LET b == corpus[f]
    IN  IF \/ b.end = "timeout"
           \/ ~opt.allow_any /\ (b.end = "crash") # opt.crash_only
        THEN {} ELSE b.trace

\* One input: tuples come through the pipe, the energy from stderr and the
\* verdict from the exit status, which under -C does not tell of crashes.
ShowOne(f) ==
    [idx |-> f, tuples |-> Accepted(f), energy |-> corpus[f].energy,
     crash |-> corpus[f].end = "crash" /\ ~opt.crash_only]

(* A batch: each trace goes to a file named after the base name of the input *)
(* and the first input of that name takes it.  A rejected run creates an     *)
(* empty file unless there is one.                                           *)
TraceFile(files, i) ==
    LET same == {j \in DOMAIN files : basename[files[j]] = basename[files[i]]}
        full == {j \in same : Accepted(files[j]) # {}}
    IN  IF \/ \E j \in same : j < i
           \/ full = {}
        THEN {}
        ELSE Accepted(files[CHOOSE j \in full : \A k \in full : k <= j])

\* The i-th energy that a batch leaves on stderr, 0 for none: the children of
\* the fork server have theirs closed unless AFL_DEBUG_CHILD is set.
NextEnergy(files, i) ==
    LET printed == {j \in DOMAIN files : corpus[files[j]].energy > 0}
        ith == {j \in printed : Cardinality({k \in printed : k <= j}) = i}
    IN  IF opt.debug_child /\ ith # {}
        THEN corpus[files[CHOOSE j \in ith : TRUE]].energy ELSE 0

ShowBatch(files) ==
    [i \in DOMAIN files |->
       LET tuples == TraceFile(files, i)
       IN  [idx |-> files[i], tuples |-> tuples, crash |-> tuples = {},
            energy |-> NextEnergy(files, i)]]

Showmap(files) ==
    IF files = << >> THEN << >>
    ELSE IF Len(files) = 1 THEN <<ShowOne(files[1])>> ELSE ShowBatch(files)

-----------------------------------------------------------------------------
(* The dispatcher and the workers.                                           *)

Chunk ==
    IF opt.no_batch THEN 1
    ELSE LET n == NFiles \div opt.workers
         IN  IF n < 1 THEN 1 ELSE IF n > 128 THEN 128 ELSE n

Batches == (NFiles + Chunk - 1) \div Chunk

\* The k-th job: a batch of consecutive inputs, or None (an empty one).
JobInOrder(k) ==
    IF k > Batches THEN << >>
    ELSE LET from == (k - 1) * Chunk
             till == IF from + Chunk < NFiles THEN from + Chunk ELSE NFiles
         IN  [i \in 1 .. till - from |-> from + i - 1]

\* Is the input a batch of its own?
Single(f) == \E k \in 1 .. Batches : JobInOrder(k) = <<f>>

\* afl-cmin.py waits for the child before it reads the pipe, so that a child
\* with more to say than the pipe holds never ends.
ChildEnds(r) == Single(r.idx) => Cardinality(r.tuples) <= PipeCap

\* Fault: the largest inputs are handed out first.
JobReversed(k) == IF k > Batches THEN << >> ELSE JobInOrder(Batches + 1 - k)

Job(k) == JobInOrder(k)

(* The dispatcher puts all batches and a None per worker into the queue,     *)
(* which has no bound.  One step: a worker that finds only some of the jobs  *)
(* there does what a slower one does that finds them all.                    *)
Dispatch ==
    /\ put = 0
    /\ put' = Batches + opt.workers
    /\ UNCHANGED <<opt, corpus, basename, got, batch, ended, table, progress, results, pc, seen,
                   trace_info, todo, saved>>

\* A worker takes the next job and runs afl-showmap on it; None makes it send its table and end.
Get(w) ==
    /\ batch[w] = << >> /\ w \notin ended
    /\ got < put
    /\ got' = got + 1
    /\ IF Job(got + 1) = << >>
       THEN /\ ended' = ended \cup {w}
            /\ results' = Append(results, w)
       ELSE UNCHANGED <<ended, results>>
    /\ batch' = [batch EXCEPT ![w] = Showmap(Job(got + 1))]
    /\ UNCHANGED <<opt, corpus, basename, put, table, progress, pc, seen, trace_info, todo, saved>>

\* Does the result of an input replace what the table tb has for tuple t?
Replaces(tb, r, t) ==
    IF r.energy > 0
    THEN \/ r.energy < tb.best_energy[t]
         \/ r.energy = tb.best_energy[t] /\ r.idx < tb.m[t]
    ELSE r.idx < tb.m[t]

\* The tuples an input is used for: a crash is not used with --crash-dir.
Uses(tb, r) ==
    IF r.crash /\ opt.crash_dir THEN {} ELSE {t \in r.tuples : Replaces(tb, r, t)}

\* The table of a worker after the result of an input.
Learn(tb, r) ==
    LET used == Uses(tb, r)
    IN  [m |-> [t \in Tuples |-> IF t \in used THEN r.idx ELSE tb.m[t]],
         best_energy |-> [t \in Tuples |-> IF t \in used /\ r.energy > 0
                                           THEN r.energy ELSE tb.best_energy[t]],
         counter |-> [t \in Tuples |-> tb.counter[t] + (IF t \in r.tuples THEN 1 ELSE 0)],
         pack |-> IF used # {} THEN Append(tb.pack, r.tuples) ELSE tb.pack]

\* Fault: an input that is not used is not reported.
ReportUsed(w, old, new, r) ==
    IF new.pack # old.pack THEN <<[idx |-> r.idx, worker |-> w, pos |-> Len(new.pack)]>>
    ELSE << >>

\* What a worker reports of an input: where its trace is, or None.
Report(w, old, new, r) ==
    IF new.pack # old.pack THEN <<[idx |-> r.idx, worker |-> w, pos |-> Len(new.pack)]>>
    ELSE <<[idx |-> NoFile, worker |-> w, pos |-> 0]>>

\* A worker enters the next result of its batch into its table and reports it.
Handle(w) ==
    /\ batch[w] # << >>
    /\ ChildEnds(Head(batch[w]))
    /\ LET r == Head(batch[w])
       IN  \E new \in {Learn(table[w], r)} :
             /\ table' = [table EXCEPT ![w] = new]
             /\ progress' = progress \o Report(w, table[w], new, r)
    /\ batch' = [batch EXCEPT ![w] = Tail(@)]
    /\ UNCHANGED <<opt, corpus, basename, put, got, ended, results, pc, seen, trace_info, todo, saved>>

-----------------------------------------------------------------------------
(* The main process.                                                         *)

\* One progress item per input.
Gather ==
    /\ pc = "progress"
    /\ IF seen < NFiles
       THEN /\ progress # << >>
            /\ LET r == Head(progress)
               IN  trace_info' = IF r.idx = NoFile THEN trace_info
                                 ELSE [trace_info EXCEPT ![r.idx] = <<r.worker, r.pos>>]
            /\ progress' = Tail(progress)
            /\ seen' = seen + 1
            /\ UNCHANGED pc
       ELSE /\ put = Batches + opt.workers           \* dispatcher.join()
            /\ pc' = "results"
            /\ seen' = 0
            /\ UNCHANGED <<progress, trace_info>>
    /\ UNCHANGED <<opt, corpus, basename, put, got, batch, ended, table, results, todo, saved>>

\* The best input for a tuple over all workers, by energy and then by index.
Best(t) ==
    LET pairs == {<<table[w].best_energy[t], table[w].m[t]>> : w \in Workers}
        best == CHOOSE p \in pairs : \A q \in pairs :
                  p[1] < q[1] \/ (p[1] = q[1] /\ p[2] <= q[2])
    IN  best[2]

Count(t) == FoldFunctionOnSet(+, 0, [w \in Workers |-> table[w].counter[t]], Workers)
AllUnique == {t \in Tuples : Count(t) > 0}

\* Fault: the trace is read without its length, to the end of the pack.
PackToEnd(f) ==
    LET pack == table[trace_info[f][1]].pack
    IN  UNION {pack[i] : i \in trace_info[f][2] .. Len(pack)}

\* The trace of a saved input, read back from the pack of its worker.
PackOf(f) == table[trace_info[f][1]].pack[trace_info[f][2]]
Traced(f) == f \in Files /\ trace_info[f] # << >>

\* Inputs with a tuple that no other input has are saved first.
Needed == {Best(t) : t \in {u \in AllUnique : Count(u) = 1}}

\* The tables of all workers, the merge and the first pass; an input without
\* a trace raises an exception.
Collect ==
    /\ pc = "results"
    /\ IF seen < opt.workers
       THEN /\ results # << >>
            /\ results' = Tail(results)
            /\ seen' = seen + 1
            /\ UNCHANGED <<pc, saved, todo>>
       ELSE /\ UNCHANGED <<results, seen>>
            /\ IF \A f \in Needed : Traced(f)
               THEN /\ saved' = SetToSeq(Needed)
                    /\ todo' = AllUnique \ UNION {PackOf(f) : f \in Needed}
                    /\ pc' = "rest"
               ELSE pc' = "raised" /\ UNCHANGED <<saved, todo>>
    /\ UNCHANGED <<opt, corpus, basename, put, got, batch, ended, table, progress, trace_info>>

\* Tuples that are still missing, the rarest first.
Rarest == {t \in todo : \A u \in todo : Count(t) <= Count(u)}

\* Fault: the other tuples of a saved input stay on the list.
StillMissingOthers(f, t) == todo \ {t}

\* What is still missing once f was saved for t.
StillMissing(f, t) == todo \ (PackOf(f) \cup {t})

SaveRest ==
    /\ pc = "rest"
    /\ \E t \in Rarest :
         IF Traced(Best(t))
         THEN /\ saved' = Append(saved, Best(t))
              /\ todo' = StillMissing(Best(t), t)
              /\ UNCHANGED pc
         ELSE pc' = "raised" /\ UNCHANGED <<saved, todo>>
    /\ UNCHANGED <<opt, corpus, basename, put, got, batch, ended, table, progress, results, seen, trace_info>>

Finish ==
    /\ pc = "rest"
    /\ todo = {}
    /\ pc' = "done"
    /\ UNCHANGED <<opt, corpus, basename, put, got, batch, ended, table, progress, results, seen,
                   trace_info, todo, saved>>

(* The name of a saved input is its hash or, without deduplication, its base *)
(* name: a later input replaces an earlier one of the same name.             *)
OutName(f) == IF opt.no_dedup THEN basename[f] ELSE f
Output ==
    {saved[i] : i \in {j \in DOMAIN saved :
                         \A k \in DOMAIN saved : k > j => OutName(saved[k]) # OutName(saved[j])}}

-----------------------------------------------------------------------------
NewTable ==
    [m |-> [t \in Tuples |-> NoFile], best_energy |-> [t \in Tuples |-> InfEnergy],
     counter |-> [t \in Tuples |-> 0], pack |-> << >>]

\* main() gives up at once when its test run of the first input has no trace.
Init ==
    /\ opt \in Options
    /\ corpus \in {c \in [Files -> Behaviours] : c[0].trace # {}}
    /\ basename \in Naming
    /\ put = 0 /\ got = 0
    /\ batch = [w \in Workers |-> << >>] /\ ended = {}
    /\ table = [w \in Workers |-> NewTable]
    /\ progress = << >> /\ results = << >>
    /\ pc = "progress" /\ seen = 0
    /\ trace_info = [f \in Files |-> << >>]
    /\ todo = {} /\ saved = << >>

\* The tool has ended, with a result or with an exception.
Over == pc \in {"done", "raised"} /\ UNCHANGED vars

Next ==
    \/ Dispatch
    \/ \E w \in Workers : Get(w) \/ Handle(w)
    \/ Gather \/ Collect \/ SaveRest \/ Finish
    \/ Over

Spec == Init /\ [][Next]_vars

(* The operating system schedules all processes, and a run of the target is  *)
(* bounded by afl-showmap's timeout.                                         *)
FairSpec ==
    /\ Spec
    /\ WF_vars(Dispatch)
    /\ WF_vars(\E w \in Workers : Get(w))
    /\ WF_vars(\E w \in Workers : Handle(w))
    /\ WF_vars(Gather \/ Collect \/ SaveRest \/ Finish)

-----------------------------------------------------------------------------
(* Properties.                                                               *)

Item == [idx : Files \cup {NoFile}, worker : Nat, pos : Nat]

(* Type invariant of the queues, tables and main's own state.                *)
TypeOK ==
    /\ opt \in Options /\ corpus \in [Files -> Behaviours] /\ basename \in Naming
    /\ put \in {0, Batches + opt.workers} /\ got \in 0 .. put
    /\ \A w \in Workers : \A i \in DOMAIN batch[w] :
         batch[w][i] \in [idx : Files, tuples : SUBSET Tuples, crash : BOOLEAN, energy : 0 .. MaxEnergy]
    /\ ended \subseteq Workers
    /\ \A w \in Workers :
         /\ table[w].m \in [Tuples -> Files \cup {NoFile}]
         /\ table[w].best_energy \in [Tuples -> 1 .. InfEnergy]
         /\ table[w].counter \in [Tuples -> 0 .. NFiles]
         /\ \A i \in DOMAIN table[w].pack : table[w].pack[i] \in (SUBSET Tuples) \ {{}}
    /\ \A i \in DOMAIN progress : progress[i] \in Item
    /\ \A i \in DOMAIN results : results[i] \in ended
    /\ pc \in {"progress", "results", "rest", "done", "raised"}
    /\ seen \in 0 .. NFiles + opt.workers
    /\ \A f \in Files : trace_info[f] = << >> \/ trace_info[f] \in Workers \X (1 .. NFiles)
    /\ todo \subseteq Tuples
    /\ \A i \in DOMAIN saved : saved[i] \in Files

(* The output directory still reaches every tuple that an accepted run of    *)
(* the corpus reached.                                                       *)
CoverageKept ==
    pc = "done" =>
      \A f \in Files : Accepted(f) \subseteq UNION {corpus[g].trace : g \in Output}

\* The energy that afl-cmin.py can know of an input.
Measured(f) ==
    IF opt.debug_child \/ Single(f)
    THEN corpus[f].energy ELSE 0

\* Is input f preferable to g?  Measured before unmeasured, then the lower
\* energy, then the lower index.
Preferable(f, g) ==
    LET Cost(h) == IF Measured(h) > 0 THEN Measured(h) ELSE InfEnergy
    IN  Cost(f) < Cost(g) \/ (Cost(f) = Cost(g) /\ f <= g)

(* The input chosen for a tuple is the one of lowest energy among all inputs *)
(* that reach it, with ties and missing energies decided by the index, in    *)
(* whatever order workers took and finished their batches.                   *)
FrugalChosen ==
    pc \in {"rest", "done"} =>
      \A t \in AllUnique : \A g \in {f \in Files : t \in Accepted(f)} :
        /\ t \in Accepted(Best(t))
        /\ Preferable(Best(t), g)

(* The tables are sound: typed, and with the right input for each tuple.     *)
ChoiceSound == TypeOK /\ FrugalChosen

(* No input is saved that adds nothing to the others, and none twice: what   *)
(* is saved reaches, when it is saved, a tuple that no other saved input     *)
(* reaches.                                                                  *)
EachSavePays ==
    [][\A i \in (Len(saved) + 1) .. Len(saved') :
         ~ (corpus[saved'[i]].trace \subseteq
              UNION {corpus[saved'[j]].trace : j \in DOMAIN saved' \ {i}})]_vars

(* afl-cmin.py comes to its end: main() receives one item per input and one  *)
(* table per worker, and no process waits for another for ever.              *)
Ends == <>(pc = "done")
=============================================================================
