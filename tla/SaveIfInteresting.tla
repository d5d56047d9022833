--------------------------- MODULE SaveIfInteresting ---------------------------
(***************************************************************************)
(* save_if_interesting(): the verdict on one run.  The trace lies in one   *)
(* map that is changed in place (classified, simplified, overwritten by    *)
(* the second run of a suspected hang and by the calibration of a new      *)
(* entry), while three flags remember what has been done to it, and gotos  *)
(* lead back to code that was written for a fresh trace.                   *)
(*                                                                         *)
(* A byte of the map is a hit count, and classifying it twice is not the   *)
(* same as once.  A checksum is the trace it was computed of.  The n_fuzz  *)
(* and statistics counters, file names and the non-instrumented mode are   *)
(* left out.                                                               *)
(***************************************************************************)
EXTENDS Naturals, Sequences, FiniteSets, SequencesExt

CONSTANTS
    Edges,       \* bytes of the map
    Counts,      \* raw hit counts
    MaxCalls,    \* bound on the calls
    KeepHangs,   \* KEEP_UNIQUE_HANG
    KeepCrashes, \* KEEP_UNIQUE_CRASH
    Configs      \* the configurations: see Config

\* crash_mode is -C, fast a schedule from FAST to RARE, keep and ignore
\* AFL_KEEP_TIMEOUTS and AFL_IGNORE_TIMEOUTS, generous exec_tmout >= hang_tmout,
\* san the abstraction of the sanitizers, if there are any.
Config == [crash_mode : {"ok", "crash"}, fast : BOOLEAN, keep : BOOLEAN, ignore : BOOLEAN,
           generous : BOOLEAN, san : {"none", "simplify", "coverage", "unique"}]

ASSUME SaveAssumption ==
    /\ 0 \in Counts /\ Counts \subseteq 0..4 /\ MaxCalls \in Nat
    /\ KeepHangs \in Nat /\ KeepCrashes \in Nat /\ Configs \subseteq Config

VARIABLES
    cfg,
    \* trace_bits, and what the last run really left there (history)
    trace, raw,
    virgin_bits, virgin_tmout, virgin_crash,
    \* simplified_n_fuzz and n_fuzz_dup, and the traces given to the sanitizers (history)
    simplified_n_fuzz, n_fuzz_dup, fed,
    \* the call: where it is and its locals
    pc, loc, calls,
    \* what is kept: the queue, the bytes that vary, the hangs and the crashes
    queue, var_bytes, hangs, crashes

virginVars == <<virgin_bits, virgin_tmout, virgin_crash>>
sanVars    == <<simplified_n_fuzz, n_fuzz_dup, fed>>
keptVars   == <<queue, var_bytes, hangs, crashes>>
vars       == <<cfg, trace, raw, virginVars, sanVars, pc, loc, calls, keptVars>>

Faults == {"ok", "tmout", "crash"}
Traces == [Edges -> Counts]

--------------------------------------------------------------------------------
(* The map                                                                  *)

Bits == {1, 2, 4, 8, 16, 32, 64, 128}

\* The bits of a byte, for the values that occur here: 3 and the single bits.
BitsOf == [v \in {0, 3} \cup Bits |-> IF v = 3 THEN {1, 2} ELSE {v} \ {0}]

\* count_class_lookup8
ClassOf == [v \in {0, 3} \cup Bits |->
               CASE v = 3 -> 4 [] v \in {4, 8, 16, 32} -> 2 * v [] OTHER -> v]

Classify(t) == [e \in Edges |-> ClassOf[t[e]]]

\* Fault: the trace is taken as it is.
SimplifyNot(t) == t

\* simplify_trace(): hit or not, and both are bits of their own.
Simplify(t) == [e \in Edges |-> IF t[e] = 0 THEN 1 ELSE 128]

\* has_new_bits(): 2 for a byte never seen before, 1 for new bits in other bytes.
NewBits(virgin, t) ==
    IF \E e \in Edges : t[e] # 0 /\ virgin[e] = Bits THEN 2
    ELSE IF \E e \in Edges : BitsOf[t[e]] \cap virgin[e] # {} THEN 1 ELSE 0

Seen(virgin, t) == [e \in Edges |-> virgin[e] \ BitsOf[t[e]]]

--------------------------------------------------------------------------------
(* Locals                                                                   *)

\* classified, bits_counted and cksumed are the flags; new_bits and cksum are
\* valid once they are set.
Fresh(fault) ==
    [fault |-> fault, classified |-> FALSE, bits_counted |-> FALSE, cksumed |-> FALSE,
     new_bits |-> 0, cksum |-> [e \in Edges |-> 0], san_fault |-> "ok", keeping |-> FALSE]

\* The three helpers, on a pair of the locals and the trace.
ClassifyIfNecessary(s) ==
    IF s.l.classified THEN s
    ELSE [s EXCEPT !.t = Classify(@), !.l.classified = TRUE]

CksumIfNecessary(s) ==
    IF s.l.cksumed THEN s
    ELSE LET c == ClassifyIfNecessary(s)
         IN  [c EXCEPT !.l = [@ EXCEPT !.cksum = c.t, !.cksumed = TRUE]]

\* has_new_bits_unclassified() leaves a trace alone in which there is nothing new.
NewBitsIfNecessary(s) ==
    IF s.l.bits_counted THEN s
    ELSE LET c == ClassifyIfNecessary(s)
             n == NewBits(virgin_bits, c.t)
             u == IF n = 0 THEN s ELSE c
         IN  [l |-> [u.l EXCEPT !.new_bits = n, !.bits_counted = TRUE], t |-> u.t]

\* virgin_bits after NewBitsIfNecessary() took s to u.
VirginAfter(s, u) ==
    IF ~s.l.bits_counted /\ u.l.new_bits > 0 THEN Seen(virgin_bits, u.t) ELSE virgin_bits

--------------------------------------------------------------------------------
(* save_if_interesting()                                                    *)

\* A run has ended with this fault and left this trace.
Call ==
    /\ pc = "idle" /\ calls < MaxCalls
    /\ calls' = calls + 1
    /\ \E f \in Faults, t \in Traces :
          /\ raw' = t
          /\ IF f = "tmout" /\ cfg.ignore
             THEN /\ trace' = IF cfg.fast THEN Classify(t) ELSE t
                  /\ UNCHANGED <<pc, loc>>
             ELSE LET s0 == [l |-> Fresh(f), t |-> t]
                      s  == IF cfg.fast THEN CksumIfNecessary(s0) ELSE s0
                  IN  /\ loc' = s.l /\ trace' = s.t
                      /\ pc' = CASE f # cfg.crash_mode -> "fault"
                                 [] cfg.san = "none"   -> "normal"
                                 [] OTHER              -> "san"
    /\ UNCHANGED <<cfg, virginVars, sanVars, keptVars>>

\* Feed the sanitizers s what the abstraction lets through; what they say is a fault
\* only if it is a crash.
Feed(yes, what, l) ==
    /\ fed' = IF yes THEN Append(fed, what) ELSE fed
    /\ \E f \in IF yes THEN {"ok", "crash"} ELSE {"ok"} : loc' = [l EXCEPT !.san_fault = f]
    /\ pc' = "normal"

\* Fault: the trace is not noted as fed.
NotNoted(t) == simplified_n_fuzz

NoteSimplified(t) == simplified_n_fuzz \cup {t}

SanSimplify ==
    /\ pc = "san" /\ cfg.san = "simplify"
    /\ LET t == Simplify(trace) IN
          /\ Feed(t \notin simplified_n_fuzz, t, loc)
          /\ simplified_n_fuzz' = NoteSimplified(t)
    /\ UNCHANGED <<cfg, trace, raw, virginVars, n_fuzz_dup, calls, keptVars>>

SanCoverage ==
    /\ pc = "san" /\ cfg.san = "coverage"
    /\ LET s == [l |-> loc, t |-> trace]
           u == NewBitsIfNecessary(s)
       IN  /\ trace' = u.t
           /\ virgin_bits' = VirginAfter(s, u)
           /\ Feed(u.l.new_bits > 0, u.t, u.l)
    /\ UNCHANGED <<cfg, raw, virgin_tmout, virgin_crash, simplified_n_fuzz, n_fuzz_dup,
                   calls, keptVars>>

\* n_fuzz_dup is looked up under cksum, which is 0 unless the schedule has made one,
\* and marked under cksum_unique.
SanUnique ==
    /\ pc = "san" /\ cfg.san = "unique"
    /\ LET u == ClassifyIfNecessary([l |-> loc, t |-> trace])
           known == u.l.cksumed /\ u.l.cksum \in n_fuzz_dup
       IN  /\ trace' = u.t
           /\ n_fuzz_dup' = IF known THEN n_fuzz_dup ELSE n_fuzz_dup \cup {u.t}
           /\ Feed(~known, u.t, u.l)
    /\ UNCHANGED <<cfg, raw, virginVars, simplified_n_fuzz, calls, keptVars>>

Return == pc' = "idle" /\ loc' = Fresh("ok")

\* "If there is no crash, everything is fine."
Normal ==
    /\ pc = "normal"
    /\ LET s == [l |-> loc, t |-> trace]
           u == NewBitsIfNecessary(s)
       IN  /\ trace' = u.t
           /\ virgin_bits' = VirginAfter(s, u)
           /\ \/ /\ u.l.new_bits = 0 /\ u.l.san_fault = "ok"
                 /\ Return
              \/ /\ u.l.new_bits = 0 /\ u.l.san_fault # "ok"
                 /\ pc' = "fault" /\ loc' = [u.l EXCEPT !.fault = u.l.san_fault]
              \/ /\ u.l.new_bits > 0
                 /\ pc' = "queue" /\ loc' = [u.l EXCEPT !.fault = u.l.san_fault]
    /\ UNCHANGED <<cfg, raw, virgin_tmout, virgin_crash, sanVars, calls, keptVars>>

\* Fault: first_trace is not filled.
VaryingFromZero(t, good) == {e \in Edges : \E g \in good : g[e] # 0}

\* The bytes in which runs of the calibration differ from first_trace.
Varying(t, good) == {e \in Edges : \E g \in good : g[e] # t[e]}

\* virgin_bits after the calibration: what its runs have shown is seen, and a byte
\* that is found to vary counts as fully discovered.
Calibrated(v, t, good) == [e \in Edges |->
    IF e \in Varying(t, good) \ var_bytes THEN {} ELSE v[e] \ UNION {BitsOf[g[e]] : g \in good}]

\* save_to_queue: the entry is queued and calibrate_case() runs it several times more.
\* The runs in "good" ended like the first and hit something; then t is the trace of
\* the last one of them, or of a bad run that ended the calibration.
SaveToQueue ==
    /\ pc = "queue"
    /\ LET s == CksumIfNecessary([l |-> loc, t |-> trace])
           u == NewBitsIfNecessary(s)
       IN  /\ loc' = [u.l EXCEPT !.keeping = TRUE]
           /\ \E good \in SUBSET {r \in Traces : \E e \in Edges : r[e] # 0}, t \in Traces,
                 aborted \in BOOLEAN :
                 LET shown == {Classify(r) : r \in good} IN
                 /\ aborted \/ t \in good
                 /\ trace' = IF aborted THEN t ELSE Classify(t)
                 /\ raw' = t
                 /\ virgin_bits' = Calibrated(VirginAfter(s, u), u.t, shown)
                 /\ var_bytes' = var_bytes \cup Varying(u.t, shown)
                 /\ queue' = queue \cup
                       {[call |-> calls, cksum |-> u.l.cksum, new |-> u.l.new_bits, raw |-> raw,
                         traces |-> {u.t} \cup shown]}
    /\ pc' = "fault"
    /\ UNCHANGED <<cfg, virgin_tmout, virgin_crash, sanVars, calls, hangs, crashes>>

\* may_save_fault with nothing to save.
NoFault ==
    /\ pc = "fault" /\ loc.fault = "ok"
    /\ Return
    /\ UNCHANGED <<cfg, trace, raw, virginVars, sanVars, calls, keptVars>>

HangsLeft == Len(hangs) < KeepHangs

\* Fault: the flags survive the second run.
RerunFlagsKept(l) == l

RerunFlags(l) == [l EXCEPT !.classified = FALSE, !.bits_counted = FALSE, !.cksumed = FALSE]

\* Fault: the time-out is not marked.
TmoutNotSeen(t) == virgin_tmout

TmoutSeen(t) == Seen(virgin_tmout, t)

\* A time-out that is not a new one, or one too many.
HangDropped ==
    /\ pc = "fault" /\ loc.fault = "tmout"
    /\ ~HangsLeft \/ NewBits(virgin_tmout, Simplify(trace)) = 0
    /\ trace' = IF HangsLeft THEN Simplify(trace) ELSE trace
    /\ Return
    /\ UNCHANGED <<cfg, raw, virginVars, sanVars, calls, keptVars>>

\* A new one: unless the time limit was generous already, the target runs again.
HangJudged ==
    /\ pc = "fault" /\ loc.fault = "tmout"
    /\ HangsLeft /\ NewBits(virgin_tmout, Simplify(trace)) > 0
    /\ virgin_tmout' = TmoutSeen(Simplify(trace))
    /\ \/ /\ cfg.generous
          /\ trace' = Simplify(trace)
          /\ hangs' = Append(hangs, trace') /\ Return
          /\ UNCHANGED raw
       \/ /\ ~cfg.generous
          /\ \E f \in Faults, t \in Traces :
                /\ trace' = t /\ raw' = t
                /\ \/ /\ f = "crash" /\ pc' = "crash" /\ loc' = RerunFlags(loc)
                      /\ UNCHANGED hangs
                   \/ /\ f = "tmout"
                      /\ hangs' = Append(hangs, Simplify(trace)) /\ Return
                   \/ /\ f = "ok" /\ cfg.keep
                      /\ pc' = "queue" /\ loc' = RerunFlags(loc)
                      /\ UNCHANGED hangs
                   \/ /\ f = "ok" /\ ~cfg.keep
                      /\ Return /\ UNCHANGED hangs
    /\ UNCHANGED <<cfg, virgin_bits, virgin_crash, sanVars, calls, queue, var_bytes, crashes>>

CrashSeen(t) == IF Len(crashes) >= KeepCrashes THEN virgin_crash ELSE Seen(virgin_crash, t)

\* keep_as_crash
Crash ==
    /\ pc = "crash" \/ (pc = "fault" /\ loc.fault = "crash")
    /\ LET t == Simplify(trace) IN
          /\ trace' = IF Len(crashes) >= KeepCrashes THEN trace ELSE t
          /\ virgin_crash' = CrashSeen(t)
          /\ crashes' = IF Len(crashes) < KeepCrashes /\ NewBits(virgin_crash, t) > 0
                        THEN Append(crashes, [e \in Edges |-> raw[e] > 0]) ELSE crashes
    /\ Return
    /\ UNCHANGED <<cfg, raw, virgin_bits, virgin_tmout, sanVars, calls, queue, var_bytes, hangs>>

--------------------------------------------------------------------------------
Init ==
    /\ cfg \in Configs
    /\ trace = [e \in Edges |-> 0] /\ raw = trace
    /\ virgin_bits = [e \in Edges |-> Bits] /\ virgin_tmout = virgin_bits
    /\ virgin_crash = virgin_bits
    /\ simplified_n_fuzz = {} /\ n_fuzz_dup = {} /\ fed = <<>>
    /\ pc = "idle" /\ loc = Fresh("ok") /\ calls = 0
    /\ queue = {} /\ var_bytes = {} /\ hangs = <<>> /\ crashes = <<>>

\* The bound on the calls is reached.
Done == pc = "idle" /\ calls = MaxCalls /\ UNCHANGED vars

Judge == \/ SanSimplify \/ SanCoverage \/ SanUnique \/ Normal \/ SaveToQueue
         \/ NoFault \/ HangDropped \/ HangJudged \/ Crash

Next == Call \/ Judge \/ Done

\* The function has no step that waits, except for runs, and those end (ForkServer).
Spec == Init /\ [][Next]_vars /\ WF_vars(Judge)

--------------------------------------------------------------------------------
(* Properties                                                               *)

\* Every variable keeps its type; the numbers of kept hangs and crashes are limited.
TypeOK ==
    /\ cfg \in Configs
    /\ trace \in [Edges -> DOMAIN BitsOf] /\ raw \in Traces
    /\ {virgin_bits, virgin_tmout, virgin_crash} \subseteq [Edges -> SUBSET Bits]
    /\ var_bytes \subseteq Edges
    /\ pc \in {"idle", "san", "normal", "queue", "fault", "crash"}
    /\ loc.fault \in Faults /\ loc.new_bits \in 0..2 /\ calls \in 0..MaxCalls
    /\ Len(hangs) <= KeepHangs /\ Len(crashes) <= KeepCrashes

\* The traces of an entry's own runs, as they were classified.
KeptTraces == UNION {n.traces : n \in queue}

\* What is marked as seen is kept: no coverage is taken off virgin_bits without an
\* entry in the queue that has it, but for bytes that an entry of the queue was seen
\* to vary in, and no crash off virgin_crash without a saved crash like it.
\* Otherwise the next input that shows it is thrown away.
SeenIsKept ==
    pc = "idle" =>
      \A e \in Edges :
         /\ \/ Bits \ virgin_bits[e] \subseteq UNION {BitsOf[t[e]] : t \in KeptTraces}
            \/ \E n \in queue : \E t, w \in n.traces : t[e] # w[e]
         /\ Bits \ virgin_crash[e] \subseteq
               {IF crashes[i][e] THEN 128 ELSE 1 : i \in DOMAIN crashes}

\* The checksum of a new entry is that of the run it is kept for, classified
\* exactly once, whichever way the code came to save it: calibration compares
\* later runs with it.
ChecksumIsTrace == \A n \in queue : n.cksum = Classify(n.raw)

\* The records of kept inputs are sound: typed, and with the right checksum.
EntriesSound == TypeOK /\ ChecksumIsTrace

\* What is saved or handed on for its novelty is new: no two saved crashes and no
\* two saved hangs hit the same edges, and the sanitizers do not see an execution
\* pattern twice.  For unique_trace this needs a schedule that computes checksums.
NothingTwice ==
    /\ IsInjective(crashes) /\ IsInjective(hangs)
    /\ (cfg.san = "unique" => cfg.fast) => IsInjective(fed)

\* docs/SAND.md: unique_trace "filters inputs having a _unique coverage map_", and
\* save_if_interesting() says that SAND "should also work with other scedules".
FedOnce == IsInjective(fed)

\* The call returns: the way from a time-out to the queue and back is not taken
\* for ever.
CallReturns == pc # "idle" ~> pc = "idle"

\* docs/env_variables.md: AFL_KEEP_TIMEOUTS "will keep longer running inputs if
\* they reach new coverage".
KeptReachesNew == \A n \in queue : n.new > 0

================================================================================
