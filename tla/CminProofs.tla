----------------------------- MODULE CminProofs -----------------------------
(***************************************************************************)
(* What holds of afl-cmin.py for every number of inputs, tuples, workers   *)
(* and every command line, as long as no two inputs have the same base     *)
(* name (the run `names' shows what happens when two have).                *)
(***************************************************************************)
EXTENDS Cmin, SetLemmas

\* No two inputs have the same base name.
DistinctNames ==
    \A b \in Naming : \A f, g \in Files : b[f] = b[g] => f = g

\* The energies a worker gets are those of the inputs: with AFL_DEBUG_CHILD a
\* batch lists its energies one after the other and must not leave one out.
EnergiesKnown ==
    opt.debug_child => \A f \in Files : Single(f) \/ corpus[f].energy > 0

\* No crash is both accepted and set aside: with -A and --crash-dir a crash is
\* found only where an input is run on its own.
CrashesUsed ==
    opt.crash_dir /\ opt.allow_any /\ ~opt.crash_only => \A f \in Files : ~Single(f)

-----------------------------------------------------------------------------
(* Jobs and what afl-showmap makes of them.                                *)

\* How many inputs the first k jobs hold.
Upto(k) == IF k >= Batches THEN NFiles ELSE k * Chunk

\* The result of an input.
ResultSet ==
    [idx : Files, tuples : SUBSET Tuples, crash : BOOLEAN, energy : 0 .. MaxEnergy]

\* The result tells what the run of the input did.
Right(r) ==
    /\ r.tuples = Accepted(r.idx)
    /\ EnergiesKnown => r.energy = Measured(r.idx)
    /\ CrashesUsed /\ opt.crash_dir /\ r.crash => r.tuples = {}

\* Rounding down.
LEMMA DivFact ==
    ASSUME NEW n \in Nat, NEW c \in Nat \ {0}
    PROVE  n \div c \in Nat /\ c * (n \div c) <= n /\ n < c * (n \div c) + c
  OBVIOUS

\* Multiplication by a positive number keeps the order.
LEMMA TimesOrder ==
    ASSUME NEW a \in Nat, NEW b \in Nat, NEW c \in Nat \ {0}, a < b
    PROVE  a * c + c <= b * c
<1>1. PICK d \in Nat : b = a + 1 + d
  BY b - a - 1 \in Nat
<1>2. (a + 1 + d) * c = a * c + c + d * c
  OBVIOUS
<1>3. d * c \in Nat /\ a * c \in Nat
  OBVIOUS
<1> QED
  BY <1>1, <1>2, <1>3

\* A function on 1 .. n is a sequence of length n.
LEMMA SeqOfLen ==
    ASSUME NEW S, NEW n \in Nat, NEW q \in [1 .. n -> S]
    PROVE  q \in Seq(S) /\ Len(q) = n
<1>1. q \in Seq(S)
  OBVIOUS
<1>2. DOMAIN q = 1 .. Len(q) /\ Len(q) \in Nat
  BY <1>1
<1>3. DOMAIN q = 1 .. n
  OBVIOUS
<1>4. Len(q) = n
  BY <1>2, <1>3
<1> QED
  BY <1>1, <1>4

\* The fields of the command line.
LEMMA OptTypes ==
    ASSUME opt \in Options
    PROVE  /\ opt.workers \in Nat \ {0}
           /\ opt.no_batch \in BOOLEAN /\ opt.allow_any \in BOOLEAN
           /\ opt.crash_only \in BOOLEAN /\ opt.crash_dir \in BOOLEAN
           /\ opt.no_dedup \in BOOLEAN /\ opt.debug_child \in BOOLEAN
  BY OptionsAssumption

\* There are just enough batches for the inputs.
LEMMA BatchBounds ==
    ASSUME opt \in Options
    PROVE  /\ Chunk \in Nat \ {0} /\ Batches \in Nat \ {0}
           /\ (Batches - 1) * Chunk < NFiles /\ NFiles <= (Batches - 1) * Chunk + Chunk
<1>1. NFiles \div opt.workers \in Nat
  BY OptTypes, DivFact, FilesAssumption
<1>2. Chunk \in Nat \ {0}
  BY <1>1 DEF Chunk
<1> DEFINE c == Chunk
<1> HIDE DEF c
<1>3. c \in Nat \ {0}
  BY <1>2 DEF c
<1>4. Batches = (NFiles + c - 1) \div c
  BY DEF Batches, c
<1>5. NFiles + c - 1 \in Nat
  BY <1>3, FilesAssumption
<1>6. PICK q \in Nat : q = Batches /\ c * q <= NFiles + c - 1 /\ NFiles + c - 1 < c * q + c
  BY <1>3, <1>4, <1>5, DivFact
<1>7. q # 0
  BY <1>6, <1>3, FilesAssumption
<1>8. (q - 1) * c = c * q - c
  BY <1>6, <1>3
<1>9. c * q \in Nat
  BY <1>6, <1>3
<1>10. (q - 1) * c < NFiles /\ NFiles <= (q - 1) * c + c
  BY <1>6, <1>8, <1>9, <1>3, FilesAssumption
<1> QED
  BY <1>6, <1>7, <1>10, <1>3 DEF c

\* A job is a run of consecutive inputs, the one after the last comes next.
LEMMA JobIs ==
    ASSUME opt \in Options, NEW k \in Nat
    PROVE  /\ Upto(k) \in 0 .. NFiles
           /\ k >= Batches => Job(k + 1) = << >> /\ Upto(k + 1) = Upto(k)
           /\ k < Batches =>
                /\ Upto(k) = k * Chunk /\ Upto(k) < NFiles
                /\ Job(k + 1) \in Seq(Files)
                /\ Len(Job(k + 1)) = Upto(k + 1) - Upto(k)
                /\ Len(Job(k + 1)) \in 1 .. Chunk
                /\ \A i \in DOMAIN Job(k + 1) : Job(k + 1)[i] = Upto(k) + i - 1
<1> DEFINE c == Chunk  b == Batches
<1> HIDE DEF c, b
<1>1. /\ c \in Nat \ {0} /\ b \in Nat \ {0} /\ NFiles \in Nat \ {0}
      /\ (b - 1) * c < NFiles /\ NFiles <= (b - 1) * c + c
  BY BatchBounds, FilesAssumption DEF b, c
<1>2. CASE k >= b
  <2>1. Upto(k) = NFiles /\ Upto(k + 1) = NFiles
    BY <1>1, <1>2 DEF Upto, b
  <2>2. Job(k + 1) = << >>
    BY <1>1, <1>2 DEF Job, JobInOrder, b
  <2> QED
    BY <2>1, <2>2, <1>1, <1>2 DEF b
<1>3. CASE k < b
  <2>1. k * c \in Nat /\ k * c < NFiles /\ (k + 1) * c = k * c + c
    <3>1. k * c \in Nat /\ (k + 1) * c = k * c + c /\ (b - 1) * c \in Nat
      BY <1>1
    <3>2. k = b - 1 \/ k < b - 1
      BY <1>1, <1>3
    <3>3. k * c < NFiles
      <4>1. CASE k = b - 1
        BY <4>1, <1>1
      <4>2. CASE k < b - 1
        BY <4>2, <1>1, <3>1, TimesOrder, b - 1 \in Nat
      <4> QED
        BY <3>2, <4>1, <4>2
    <3> QED
      BY <3>1, <3>3
  <2>2. Upto(k) = k * c
    BY <1>3, <1>1 DEF Upto, b, c
  <2> DEFINE till == IF k * c + c < NFiles THEN k * c + c ELSE NFiles
  <2>3. Upto(k + 1) = till
    <3>1. CASE k + 1 >= b
      <4>1. k = b - 1
        BY <3>1, <1>3, <1>1
      <4>2. Upto(k + 1) = NFiles /\ NFiles <= k * c + c
        BY <3>1, <4>1, <1>1 DEF Upto, b
      <4> QED
        BY <4>2, <2>1, <1>1
    <3>2. CASE k + 1 < b
      <4>1. k + 1 = b - 1 \/ k + 1 < b - 1
        BY <3>2, <1>1
      <4>2. (k + 1) * c < NFiles
        <5>1. CASE k + 1 = b - 1
          BY <5>1, <1>1
        <5>2. CASE k + 1 < b - 1
          <6>1. (k + 1) * c + c <= (b - 1) * c
            BY <5>2, <1>1, TimesOrder, b - 1 \in Nat, k + 1 \in Nat
          <6>2. (b - 1) * c \in Nat /\ (k + 1) * c \in Nat
            BY <1>1
          <6> QED
            BY <6>1, <6>2, <1>1
        <5> QED
          BY <4>1, <5>1, <5>2
      <4>3. Upto(k + 1) = (k + 1) * c
        BY <3>2, <1>1 DEF Upto, b, c
      <4> QED
        BY <4>2, <4>3, <2>1
    <3> QED
      BY <3>1, <3>2, <1>1
  <2>4. till \in Nat /\ till <= NFiles /\ till - k * c \in 1 .. c
    BY <2>1, <1>1
  <2>5. Job(k + 1) = [i \in 1 .. till - k * c |-> k * c + i - 1]
    BY <1>3, <1>1 DEF Job, JobInOrder, b, c
  <2> HIDE DEF till
  <2>6. \A i \in 1 .. till - k * c : k * c + i - 1 \in Files
    BY <2>1, <2>4, <1>1 DEF Files
  <2>7. Job(k + 1) \in Seq(Files) /\ Len(Job(k + 1)) = till - k * c
    <3>1. PICK n \in Nat : n = till - k * c
      BY <2>4, <1>1
    <3>2. Job(k + 1) \in [1 .. n -> Files]
      BY <2>5, <2>6, <3>1
    <3> QED
      BY <3>1, <3>2, SeqOfLen
  <2>8. Upto(k) \in 0 .. NFiles /\ Upto(k) < NFiles
    BY <2>1, <2>2, <1>1
  <2>9. Len(Job(k + 1)) = Upto(k + 1) - Upto(k) /\ Len(Job(k + 1)) \in 1 .. c
    BY <2>2, <2>3, <2>4, <2>7
  <2>10. \A i \in DOMAIN Job(k + 1) : Job(k + 1)[i] = Upto(k) + i - 1
    BY <2>2, <2>5
  <2>11. ~(k >= b)
    BY <1>1, <1>3
  <2> QED
    BY <2>2, <2>7, <2>8, <2>9, <2>10, <2>11 DEF b, c
<1> QED
  BY <1>1, <1>2, <1>3

-----------------------------------------------------------------------------
\* A job has an input of its own exactly when it holds no other.
LEMMA SingleIs ==
    ASSUME opt \in Options, NEW k \in Nat, k < Batches, NEW i \in DOMAIN Job(k + 1)
    PROVE  Single(Job(k + 1)[i]) <=> Len(Job(k + 1)) = 1
<1> DEFINE f == Job(k + 1)[i]
<1>0. Chunk \in Nat \ {0} /\ Batches \in Nat \ {0}
  BY BatchBounds
<1>1. /\ Job(k + 1) \in Seq(Files) /\ Upto(k) = k * Chunk /\ Len(Job(k + 1)) \in 1 .. Chunk
      /\ f = Upto(k) + i - 1
  BY JobIs
<1>2. i \in 1 .. Len(Job(k + 1))
  BY <1>1
<1>3. ASSUME Len(Job(k + 1)) = 1 PROVE Single(f)
  <2>1. i = 1
    BY <1>2, <1>3
  <2>2. Job(k + 1) = <<f>>
    BY <1>1, <1>3, <2>1
  <2>3. k + 1 \in 1 .. Batches /\ JobInOrder(k + 1) = <<f>>
    BY <2>2, <1>0 DEF Job
  <2> QED
    BY <2>3 DEF Single
<1>4. ASSUME Single(f) PROVE Len(Job(k + 1)) = 1
  <2>1. PICK n \in 1 .. Batches : JobInOrder(n) = <<f>>
    BY <1>4 DEF Single
  <2>2. PICK l \in Nat : n = l + 1 /\ l < Batches
    BY <1>0, n - 1 \in Nat
  <2>3. Job(l + 1) = <<f>>
    BY <2>1, <2>2 DEF Job
  <2>4. Len(Job(l + 1)) = 1 /\ Job(l + 1)[1] = f /\ 1 \in DOMAIN Job(l + 1)
    BY <2>3
  <2>5. Upto(l) = l * Chunk /\ f = Upto(l) + 1 - 1
    BY <2>2, <2>4, JobIs
  <2>6. l * Chunk = k * Chunk + (i - 1) /\ i - 1 \in 0 .. Chunk - 1
    <3>1. l * Chunk \in Nat /\ k * Chunk \in Nat
      BY <1>0, <2>2
    <3>2. f = l * Chunk /\ f = k * Chunk + i - 1
      BY <1>1, <2>5, <3>1
    <3>3. i \in 1 .. Chunk
      BY <1>0, <1>1, <1>2
    <3> HIDE DEF f
    <3> QED
      BY <3>1, <3>2, <3>3, <1>0
  <2>7. l = k
    <3>1. l * Chunk \in Nat /\ k * Chunk \in Nat
      BY <1>0, <2>2
    <3>2. ~(l < k)
      BY <3>1, <2>2, <2>6, <1>0, TimesOrder
    <3>3. ~(k < l)
      BY <3>1, <2>2, <2>6, <1>0, TimesOrder
    <3> QED
      BY <3>2, <3>3, <2>2
  <2> QED
    BY <2>4, <2>7
<1> QED
  BY <1>3, <1>4

\* An accepted run wrote what it reached.
LEMMA AcceptedIs ==
    ASSUME corpus \in [Files -> Behaviours], NEW f \in Files
    PROVE  /\ Accepted(f) \in SUBSET Tuples
           /\ Accepted(f) # {} => Accepted(f) = corpus[f].trace
           /\ corpus[f].energy \in 0 .. MaxEnergy
           /\ opt.crash_only \in BOOLEAN /\ ~opt.allow_any /\ ~opt.crash_only
                /\ corpus[f].end = "crash" => Accepted(f) = {}
<1>1. corpus[f] \in Behaviours
  OBVIOUS
<1>2. corpus[f].trace \in SUBSET Tuples /\ corpus[f].energy \in 0 .. MaxEnergy
  BY <1>1, EnergyAssumption DEF Behaviours
<1> QED
  BY <1>2 DEF Accepted

\* A batch of inputs with distinct names gives every input its own trace.
LEMMA TraceFileIs ==
    ASSUME DistinctNames, basename \in Naming, NEW s \in Seq(Files), NEW i \in DOMAIN s,
           \A j \in DOMAIN s : s[j] = s[i] => j = i
    PROVE  TraceFile(s, i) = Accepted(s[i])
<1> DEFINE same == {j \in DOMAIN s : basename[s[j]] = basename[s[i]]}
           full == {j \in same : Accepted(s[j]) # {}}
<1>0. \A j \in DOMAIN s : s[j] \in Files
  OBVIOUS
<1>1. same = {i}
  BY <1>0 DEF DistinctNames
<1>2. ~ \E j \in same : j < i
  BY <1>1
<1>3. TraceFile(s, i) = IF (\E j \in same : j < i) \/ full = {} THEN {}
                        ELSE Accepted(s[CHOOSE j \in full : \A k \in full : k <= j])
  BY DEF TraceFile
<1>4. CASE Accepted(s[i]) = {}
  <2>1. full = {}
    BY <1>1, <1>4
  <2> QED
    BY <2>1, <1>2, <1>3, <1>4
<1>5. CASE Accepted(s[i]) # {}
  <2>1. full = {i}
    BY <1>1, <1>5
  <2> HIDE DEF full
  <2>2. (CHOOSE j \in full : \A k \in full : k <= j) = i
    BY <2>1
  <2> QED
    BY <2>1, <2>2, <1>2, <1>3
<1> QED
  BY <1>4, <1>5

\* The i-th energy of a batch is that of the i-th input when none is left out,
\* and there is none without AFL_DEBUG_CHILD.
LEMMA NextEnergyIs ==
    ASSUME opt \in Options, corpus \in [Files -> Behaviours],
           NEW s \in Seq(Files), NEW i \in DOMAIN s
    PROVE  /\ NextEnergy(s, i) \in 0 .. MaxEnergy
           /\ ~opt.debug_child => NextEnergy(s, i) = 0
           /\ opt.debug_child /\ (\A j \in DOMAIN s : corpus[s[j]].energy > 0) =>
                NextEnergy(s, i) = corpus[s[i]].energy
<1> DEFINE printed == {j \in DOMAIN s : corpus[s[j]].energy > 0}
           upto(j) == {k \in printed : k <= j}
           ith == {j \in printed : Cardinality(upto(j)) = i}
           n == CHOOSE j \in ith : TRUE
<1>1. NextEnergy(s, i) = IF opt.debug_child /\ ith # {} THEN corpus[s[n]].energy ELSE 0
  BY DEF NextEnergy
<1>2. ith # {} => n \in DOMAIN s
  OBVIOUS
<1>3. \A j \in DOMAIN s : corpus[s[j]].energy \in 0 .. MaxEnergy
  BY AcceptedIs
<1>4. NextEnergy(s, i) \in 0 .. MaxEnergy
  <2> HIDE DEF ith, n
  <2> QED
    BY <1>1, <1>2, <1>3, EnergyAssumption
<1>5. ASSUME opt.debug_child, \A j \in DOMAIN s : corpus[s[j]].energy > 0
      PROVE  NextEnergy(s, i) = corpus[s[i]].energy
  <2>0. DOMAIN s = 1 .. Len(s) /\ Len(s) \in Nat
    OBVIOUS
  <2>1. printed = 1 .. Len(s)
    BY <1>5, <2>0
  <2>2. \A j \in 1 .. Len(s) : upto(j) = 1 .. j
    <3> TAKE j \in 1 .. Len(s)
    <3>1. upto(j) = {k \in 1 .. Len(s) : k <= j}
      BY <2>1
    <3>2. {k \in 1 .. Len(s) : k <= j} = 1 .. j
      BY <2>0
    <3> QED
      BY <3>1, <3>2
  <2>3. \A j \in 1 .. Len(s) : Cardinality(upto(j)) = j
    <3> TAKE j \in 1 .. Len(s)
    <3>1. Cardinality(1 .. j) = j
      BY FS_Interval, <2>0
    <3> QED
      BY <3>1, <2>2
  <2> HIDE DEF upto
  <2>4. ith = {i}
    BY <2>0, <2>1, <2>3
  <2> HIDE DEF ith
  <2>5. n = i
    BY <2>4
  <2> HIDE DEF n
  <2> QED
    BY <1>1, <1>5, <2>4, <2>5
<1> HIDE DEF ith, n
<1> QED
  BY <1>1, <1>4, <1>5

\* afl_showmap() gives one right result per input of a job, in their order.
LEMMA ShowmapIs ==
    ASSUME DistinctNames, opt \in Options, corpus \in [Files -> Behaviours], basename \in Naming,
           NEW k \in Nat, k < Batches
    PROVE  /\ Showmap(Job(k + 1)) \in Seq(ResultSet)
           /\ Len(Showmap(Job(k + 1))) = Len(Job(k + 1))
           /\ \A i \in 1 .. Len(Job(k + 1)) : /\ Showmap(Job(k + 1))[i].idx = Job(k + 1)[i]
                                              /\ Right(Showmap(Job(k + 1))[i])
<1> DEFINE s == Job(k + 1)
<1>1. /\ s \in Seq(Files) /\ Len(s) \in Nat /\ Len(s) >= 1
      /\ \A i \in DOMAIN s : s[i] = Upto(k) + i - 1
      /\ \A i \in DOMAIN s : Single(s[i]) <=> Len(s) = 1
      /\ DOMAIN s = 1 .. Len(s) /\ Upto(k) \in Nat
  <2>1. Chunk \in Nat
    BY BatchBounds
  <2>2. /\ s \in Seq(Files) /\ Len(s) \in 1 .. Chunk /\ Upto(k) \in 0 .. NFiles
        /\ \A i \in DOMAIN s : s[i] = Upto(k) + i - 1
    BY JobIs
  <2>3. \A i \in DOMAIN s : Single(s[i]) <=> Len(s) = 1
    BY SingleIs
  <2>4. DOMAIN s = 1 .. Len(s)
    BY <2>2
  <2> HIDE DEF s
  <2>5. Len(s) \in Nat /\ Len(s) >= 1 /\ Upto(k) \in Nat
    BY <2>1, <2>2, FilesAssumption
  <2> QED
    BY <2>2, <2>3, <2>4, <2>5
<1> HIDE DEF s
<1>2. s # << >>
  BY <1>1
<1>3. /\ opt.crash_only \in BOOLEAN /\ opt.allow_any \in BOOLEAN
      /\ opt.crash_dir \in BOOLEAN /\ opt.debug_child \in BOOLEAN
  BY OptTypes
<1>4. CASE Len(s) = 1
  <2> DEFINE f == s[1]  r == ShowOne(f)
  <2>1. Showmap(s) = <<r>>
    BY <1>2, <1>4 DEF Showmap
  <2>2. f \in Files /\ Single(f)
    <3>1. 1 \in DOMAIN s
      BY <1>1, <1>4
    <3>2. Single(s[1]) <=> Len(s) = 1
      BY <3>1, <1>1, Zenon
    <3>3. s[1] \in Files
      BY <3>1, <1>1
    <3> QED
      BY <3>2, <3>3, <1>4, Zenon
  <2>3. r \in ResultSet /\ r.idx = f /\ r.tuples = Accepted(f) /\ r.energy = corpus[f].energy
    BY <2>2, AcceptedIs DEF ShowOne, ResultSet
  <2>4. r.crash => corpus[f].end = "crash" /\ ~opt.crash_only
    BY DEF ShowOne
  <2>5. CrashesUsed /\ opt.crash_dir /\ r.crash => Accepted(f) = {}
    BY <2>2, <2>4, <1>3, AcceptedIs DEF CrashesUsed
  <2>6. Measured(f) = corpus[f].energy
    BY <2>2 DEF Measured
  <2> HIDE DEF r, f
  <2>7. Right(r)
    BY <2>3, <2>5, <2>6 DEF Right
  <2>8. Showmap(s) \in Seq(ResultSet) /\ Len(Showmap(s)) = 1 /\ Showmap(s)[1] = r
    BY <2>1, <2>3
  <2>9. \A i \in 1 .. Len(s) : i = 1
    BY <1>4
  <2> QED
    BY <2>3, <2>7, <2>8, <2>9, <1>4 DEF f, s
<1>5. CASE Len(s) # 1
  <2> DEFINE R(i) == [idx |-> s[i], tuples |-> TraceFile(s, i), crash |-> TraceFile(s, i) = {},
                      energy |-> NextEnergy(s, i)]
  <2>1. Showmap(s) = [i \in 1 .. Len(s) |-> R(i)]
    BY <1>1, <1>2, <1>5 DEF Showmap, ShowBatch
  <2>2. ASSUME NEW i \in 1 .. Len(s)
        PROVE  R(i) \in ResultSet /\ R(i).idx = s[i] /\ Right(R(i))
    <3>1. s[i] \in Files /\ i \in DOMAIN s
      BY <1>1
    <3>2. \A j \in DOMAIN s : s[j] = s[i] => j = i
      BY <1>1
    <3>3. TraceFile(s, i) = Accepted(s[i])
      BY <1>1, <3>1, <3>2, TraceFileIs
    <3>4. NextEnergy(s, i) \in 0 .. MaxEnergy
      BY <1>1, <3>1, NextEnergyIs
    <3>5. Accepted(s[i]) \in SUBSET Tuples
      BY <3>1, AcceptedIs
    <3>6. R(i) \in ResultSet /\ R(i).idx = s[i] /\ R(i).tuples = Accepted(s[i])
      BY <3>1, <3>3, <3>4, <3>5 DEF ResultSet
    <3>7. R(i).crash => R(i).tuples = {}
      OBVIOUS
    <3>8. R(i).energy = NextEnergy(s, i)
      OBVIOUS
    <3>9. ASSUME EnergiesKnown PROVE NextEnergy(s, i) = Measured(s[i])
      <4>1. ~Single(s[i]) /\ \A j \in DOMAIN s : s[j] \in Files /\ ~Single(s[j])
        BY <1>1, <1>5, <3>1
      <4>2. CASE opt.debug_child
        <5>1. \A j \in DOMAIN s : corpus[s[j]].energy > 0
          BY <3>9, <4>1, <4>2 DEF EnergiesKnown
        <5> QED
          BY <5>1, <4>2, <1>1, <3>1, NextEnergyIs DEF Measured
      <4>3. CASE ~opt.debug_child
        BY <4>1, <4>3, <1>1, <3>1, NextEnergyIs DEF Measured
      <4> QED
        BY <4>2, <4>3
    <3> HIDE DEF R
    <3> QED
      BY <3>6, <3>7, <3>8, <3>9 DEF Right
  <2> HIDE DEF R
  <2>3. Showmap(s) \in [1 .. Len(s) -> ResultSet]
    BY <2>1, <2>2
  <2>4. Showmap(s) \in Seq(ResultSet)
    BY <2>3, <1>1, SeqOfLen
  <2>5. Len(Showmap(s)) = Len(s)
    BY <2>3, <1>1, SeqOfLen
  <2>6. \A i \in 1 .. Len(s) : Showmap(s)[i] = R(i)
    BY <2>1
  <2> QED
    BY <2>2, <2>4, <2>5, <2>6 DEF s
<1> QED
  BY <1>4, <1>5

-----------------------------------------------------------------------------
(* What a worker has learnt.                                               *)

\* What is compared of two inputs: the energy, the largest for none.
Price(f) == IF Measured(f) > 0 THEN Measured(f) ELSE InfEnergy

TableSet ==
    [m : [Tuples -> Files \cup {NoFile}], best_energy : [Tuples -> 1 .. InfEnergy],
     counter : [Tuples -> Nat], pack : Seq((SUBSET Tuples) \ {{}})]

\* The table tb has in it what there is to know of the inputs D and tuple t.
TupleFor(tb, D, t) ==
    /\ tb.counter[t] = Cardinality({f \in D : t \in Accepted(f)})
    /\ tb.m[t] # NoFile => tb.m[t] \in D /\ t \in Accepted(tb.m[t])
    /\ tb.m[t] = NoFile => tb.best_energy[t] = InfEnergy
    /\ CrashesUsed => \A f \in D : t \in Accepted(f) => tb.m[t] # NoFile
    /\ CrashesUsed /\ EnergiesKnown =>
         /\ tb.m[t] # NoFile => tb.best_energy[t] = Price(tb.m[t])
         /\ \A f \in D : t \in Accepted(f) => Preferable(tb.m[t], f)

\* The table tb is that of a worker that has handled the inputs D.
TableFor(tb, D) ==
    /\ tb \in TableSet
    /\ Len(tb.pack) <= Cardinality(D)
    /\ \A t \in Tuples : TupleFor(tb, D, t)

\* The energy of an input is a number, and Preferable() compares prices.
LEMMA PriceIs ==
    ASSUME corpus \in [Files -> Behaviours]
    PROVE  /\ \A f \in Files : Measured(f) \in 0 .. MaxEnergy /\ Price(f) \in 1 .. InfEnergy
           /\ \A f, g : Preferable(f, g) <=>
                          Price(f) < Price(g) \/ (Price(f) = Price(g) /\ f <= g)
<1>1. \A f, g : Preferable(f, g) <=>
                  Price(f) < Price(g) \/ (Price(f) = Price(g) /\ f <= g)
  BY DEF Preferable, Price
<1>2. ASSUME NEW f \in Files
      PROVE  Measured(f) \in 0 .. MaxEnergy /\ Price(f) \in 1 .. InfEnergy
  <2>1. Measured(f) \in 0 .. MaxEnergy
    BY AcceptedIs, EnergyAssumption DEF Measured
  <2> QED
    BY <2>1, EnergyAssumption DEF Price, InfEnergy
<1> QED
  BY <1>1, <1>2

\* The inputs of a set are finitely many.
LEMMA FilesFinite ==
    ASSUME NEW D \in SUBSET Files
    PROVE  /\ IsFiniteSet(D) /\ Cardinality(D) \in 0 .. NFiles
           /\ Cardinality(D) = NFiles => D = Files
<1>1. IsFiniteSet(Files) /\ Cardinality(Files) = NFiles
  BY FS_Interval, FilesAssumption DEF Files
<1>2. /\ IsFiniteSet(D) /\ Cardinality(D) <= NFiles
      /\ Cardinality(D) = NFiles => D = Files
  BY <1>1, FS_Subset
<1>3. Cardinality(D) \in Nat
  BY <1>2, FS_CardinalityType
<1> QED
  BY <1>2, <1>3, FilesAssumption

\* One more input, not there before, makes one more.
LEMMA FilesAdd ==
    ASSUME NEW D \in SUBSET Files, NEW f, f \notin D
    PROVE  Cardinality(D) \in Nat /\ Cardinality(D \cup {f}) = Cardinality(D) + 1
<1>1. IsFiniteSet(D)
  BY FilesFinite
<1>2. Cardinality(D) \in Nat
  BY <1>1, FS_CardinalityType
<1>3. Cardinality(D \cup {f}) = Cardinality(D) + 1
  BY <1>1, FS_AddElement
<1> QED
  BY <1>2, <1>3

\* The table new is tb with the result r of one more input in it: the trace
\* is added to the pack, at least when the input is chosen for a tuple.
Learnt(tb, new, D, r) ==
    /\ TableFor(new, D \cup {r.idx})
    /\ new.pack = tb.pack \/ new.pack = Append(tb.pack, Accepted(r.idx))
    /\ \A t \in Tuples :
         \/ new.m[t] = tb.m[t]
         \/ new.m[t] = r.idx /\ new.pack = Append(tb.pack, Accepted(r.idx))

\* A worker's table stays right when the next, larger input is handled.
LEMMA LearnIs ==
    ASSUME opt \in Options, corpus \in [Files -> Behaviours],
           NEW D \in SUBSET Files, NEW tb, TableFor(tb, D),
           NEW r \in ResultSet, Right(r), \A f \in D : f < r.idx
    PROVE  Learnt(tb, Learn(tb, r), D, r)
<1> DEFINE new == Learn(tb, r)  used == Uses(tb, r)  E == D \cup {r.idx}
           i == r.idx  e == r.energy
<1>1. /\ r.idx \in Files /\ r.tuples \in SUBSET Tuples /\ r.energy \in 0 .. MaxEnergy
      /\ r.tuples = Accepted(r.idx)
  BY DEF ResultSet, Right
<1>2. /\ tb.m \in [Tuples -> Files \cup {NoFile}] /\ tb.best_energy \in [Tuples -> 1 .. InfEnergy]
      /\ tb.counter \in [Tuples -> Nat] /\ tb.pack \in Seq((SUBSET Tuples) \ {{}})
  BY DEF TableFor, TableSet
<1>3. /\ new.m = [t \in Tuples |-> IF t \in used THEN i ELSE tb.m[t]]
      /\ new.best_energy = [t \in Tuples |-> IF t \in used /\ e > 0 THEN e ELSE tb.best_energy[t]]
      /\ new.counter = [t \in Tuples |-> tb.counter[t] + (IF t \in r.tuples THEN 1 ELSE 0)]
      /\ new.pack = IF used # {} THEN Append(tb.pack, r.tuples) ELSE tb.pack
      /\ new = [m |-> new.m, best_energy |-> new.best_energy, counter |-> new.counter,
                pack |-> new.pack]
  BY DEF Learn
<1>4. used \subseteq r.tuples /\ \A t \in used : Replaces(tb, r, t)
  BY DEF Uses
<1>5. CrashesUsed => \A t \in r.tuples : Replaces(tb, r, t) => t \in used
  BY DEF Uses, Right
<1>6. \A f \in D : f < i /\ f \in Nat /\ f # i
  BY <1>1 DEF Files
<1>7. i \in Nat /\ i < NoFile /\ NoFile \in Nat /\ NoFile \notin Files
  BY <1>1, FilesAssumption DEF Files, NoFile
<1>8. InfEnergy \in Nat /\ e \in Nat /\ e < InfEnergy
  BY <1>1, EnergyAssumption DEF InfEnergy
<1>9. \A t \in Tuples : tb.best_energy[t] \in 1 .. InfEnergy /\ tb.counter[t] \in Nat
  BY <1>2
<1>10. \A t \in Tuples : TupleFor(tb, D, t)
  BY DEF TableFor
<1>11. \A t \in Tuples : Replaces(tb, r, t) <=>
          IF e > 0 THEN e < tb.best_energy[t] \/ (e = tb.best_energy[t] /\ i < tb.m[t])
          ELSE i < tb.m[t]
  BY DEF Replaces
<1> HIDE DEF new, used, i, e
<1>12. new \in TableSet
  <2>1. new.m \in [Tuples -> Files \cup {NoFile}]
    BY <1>1, <1>2, <1>3 DEF i
  <2>2. new.best_energy \in [Tuples -> 1 .. InfEnergy]
    BY <1>3, <1>8, <1>9
  <2>3. new.counter \in [Tuples -> Nat]
    BY <1>3, <1>9
  <2>4. new.pack \in Seq((SUBSET Tuples) \ {{}})
    <3>1. PICK S : S = (SUBSET Tuples) \ {{}}
      OBVIOUS
    <3>2. used # {} => r.tuples # {}
      BY <1>4
    <3>3. used # {} => r.tuples \in S
      <4>1. \A x : x \in SUBSET Tuples /\ x # {} => x \in (SUBSET Tuples) \ {{}}
        BY Zenon
      <4> QED
        BY <4>1, <3>1, <3>2, <1>1
    <3>4. tb.pack \in Seq(S)
      BY <3>1, <1>2
    <3>5. new.pack \in Seq(S)
      BY <3>3, <3>4, <1>3
    <3> QED
      BY <3>1, <3>5
  <2> QED
    BY <1>3, <2>1, <2>2, <2>3, <2>4 DEF TableSet
<1>13. Cardinality(E) = Cardinality(D) + 1 /\ Cardinality(D) \in Nat
  <2>1. i \notin D
    BY <1>6
  <2> QED
    BY <2>1, FilesAdd DEF i
<1>14. Len(new.pack) <= Cardinality(E)
  <2>1. Len(tb.pack) <= Cardinality(D) /\ Len(tb.pack) \in Nat
    BY <1>2 DEF TableFor
  <2>2. Len(Append(tb.pack, r.tuples)) = Len(tb.pack) + 1
    BY <1>2
  <2> QED
    BY <2>1, <2>2, <1>3, <1>13
<1>15. ASSUME NEW t \in Tuples PROVE TupleFor(new, E, t)
  <2> DEFINE m == tb.m[t]  b == tb.best_energy[t]
  <2>0. m \in Files \cup {NoFile} /\ b \in 1 .. InfEnergy
    BY <1>2
  <2>1. /\ tb.counter[t] = Cardinality({f \in D : t \in Accepted(f)})
        /\ m # NoFile => m \in D /\ t \in Accepted(m)
        /\ m = NoFile => b = InfEnergy
        /\ CrashesUsed => \A f \in D : t \in Accepted(f) => m # NoFile
        /\ CrashesUsed /\ EnergiesKnown =>
             /\ m # NoFile => b = Price(m)
             /\ \A f \in D : t \in Accepted(f) => Preferable(m, f)
    BY <1>10 DEF TupleFor
  <2>2. /\ new.m[t] = IF t \in used THEN i ELSE m
        /\ new.best_energy[t] = IF t \in used /\ e > 0 THEN e ELSE b
        /\ new.counter[t] = tb.counter[t] + (IF t \in r.tuples THEN 1 ELSE 0)
    BY <1>3
  <2>3. Replaces(tb, r, t) <=> IF e > 0 THEN e < b \/ (e = b /\ i < m) ELSE i < m
    BY <1>11
  <2> HIDE DEF m, b
  <2>4. m = NoFile => Replaces(tb, r, t)
    BY <2>1, <2>3, <1>7, <1>8
  <2>5. m # NoFile => m \in D /\ m < i /\ m \in Nat
    BY <2>1, <1>6
  <2>6. Replaces(tb, r, t) /\ m # NoFile => e > 0 /\ e < b
    BY <2>3, <2>5, <1>7, <1>8
  <2>7. new.counter[t] = Cardinality({f \in E : t \in Accepted(f)})
    <3> DEFINE S == {f \in D : t \in Accepted(f)}
    <3>1. IsFiniteSet(S) /\ Cardinality(S) \in Nat
      BY FilesFinite
    <3>2. i \notin S
      BY <1>6
    <3>3. CASE t \in r.tuples
      <4>1. {f \in E : t \in Accepted(f)} = S \cup {i}
        BY <3>3, <1>1 DEF i
      <4>2. Cardinality(S \cup {i}) = Cardinality(S) + 1
        BY <3>1, <3>2, FS_AddElement
      <4> HIDE DEF S, E
      <4> QED
        BY <4>1, <4>2, <2>1, <2>2, <3>3 DEF S
    <3>4. CASE t \notin r.tuples
      <4>1. {f \in E : t \in Accepted(f)} = S
        BY <3>4, <1>1 DEF i
      <4>2. new.counter[t] = tb.counter[t] + 0 /\ tb.counter[t] \in Nat
        BY <2>2, <3>4, <1>9
      <4>3. new.counter[t] = Cardinality(S)
        BY <4>2, <2>1
      <4> QED
        BY <4>1, <4>3, Zenon
    <3> QED
      BY <3>3, <3>4
  <2>8. new.m[t] # NoFile => new.m[t] \in E /\ t \in Accepted(new.m[t])
    <3>1. t \in used => t \in Accepted(i)
      BY <1>1, <1>4 DEF i
    <3> QED
      BY <3>1, <2>1, <2>2 DEF i
  <2>9. new.m[t] = NoFile => new.best_energy[t] = InfEnergy
    BY <2>1, <2>2, <1>7
  <2>10. ASSUME CrashesUsed, NEW f \in E, t \in Accepted(f) PROVE new.m[t] # NoFile
    <3>1. CASE f = i
      <4>1. t \in r.tuples
        BY <3>1, <2>10, <1>1 DEF i
      <4>2. m = NoFile => t \in used
        BY <4>1, <2>4, <2>10, <1>5
      <4> QED
        BY <4>2, <2>2, <1>7
    <3>2. CASE f \in D
      <4>1. m # NoFile
        BY <3>2, <2>10, <2>1
      <4> QED
        BY <4>1, <2>2, <1>7
    <3> QED
      BY <3>1, <3>2 DEF i
  <2>11. ASSUME CrashesUsed, EnergiesKnown
         PROVE  /\ new.m[t] # NoFile => new.best_energy[t] = Price(new.m[t])
                /\ \A f \in E : t \in Accepted(f) => Preferable(new.m[t], f)
    <3>1. Price(i) = IF e > 0 THEN e ELSE InfEnergy
      BY <2>11 DEF Right, Price, i, e
    <3>2. ASSUME t \in used PROVE new.m[t] = i /\ new.best_energy[t] = Price(i)
      <4>1. Replaces(tb, r, t)
        BY <3>2, <1>4
      <4>2. e > 0 \/ (m = NoFile /\ b = InfEnergy)
        BY <4>1, <2>1, <2>6
      <4>3. new.m[t] = i
        BY <3>2, <2>2
      <4>4. new.best_energy[t] = IF e > 0 THEN e ELSE b
        BY <3>2, <2>2
      <4> QED
        BY <4>2, <4>3, <4>4, <3>1
    <3>3. new.m[t] # NoFile => new.best_energy[t] = Price(new.m[t])
      BY <3>2, <2>1, <2>2, <2>11
    <3>4. ASSUME NEW f \in E, t \in Accepted(f) PROVE Preferable(new.m[t], f)
      <4>0. i \in Files
        BY <1>1 DEF i
      <4>1. CASE t \in used /\ f = i
        <5>1. Price(i) = Price(i) /\ i <= i
          BY <1>7
        <5> QED
          BY <5>1, <4>1, <3>2, PriceIs
      <4>2. CASE t \in used /\ f \in D
        <5>1. m # NoFile /\ Preferable(m, f) /\ b = Price(m) /\ m \in D
          BY <4>2, <3>4, <2>1, <2>11
        <5>2. e > 0 /\ e < b
          BY <5>1, <2>6, <4>2, <1>4
        <5>3. Price(m) <= Price(f) /\ Price(m) \in Nat /\ Price(f) \in Nat
          <6>1. m \in Files /\ f \in Files
            BY <5>1, <4>2
          <6>2. Price(m) \in 1 .. InfEnergy /\ Price(f) \in 1 .. InfEnergy
            BY <6>1, PriceIs
          <6>3. Price(m) < Price(f) \/ (Price(m) = Price(f) /\ m <= f)
            BY <5>1, PriceIs
          <6> QED
            BY <6>2, <6>3, <1>8
        <5>4. Price(i) < Price(f)
          BY <5>1, <5>2, <5>3, <3>1, <1>8
        <5> QED
          BY <5>4, <4>2, <3>2, PriceIs
      <4>3. CASE t \notin used /\ f \in D
        <5>1. Preferable(m, f)
          BY <4>3, <3>4, <2>1, <2>11
        <5> QED
          BY <5>1, <4>3, <2>2
      <4>4. CASE t \notin used /\ f = i
        <5>1. t \in r.tuples
          BY <4>4, <3>4, <1>1 DEF i
        <5>2. ~Replaces(tb, r, t)
          BY <5>1, <4>4, <1>5, <2>11
        <5>3. m # NoFile /\ m \in D /\ m < i /\ m \in Nat /\ b = Price(m)
          BY <5>2, <2>4, <2>5, <2>1, <2>11
        <5>4. ~(IF e > 0 THEN e < b \/ (e = b /\ i < m) ELSE i < m)
          BY <5>2, <2>3
        <5>5. Price(m) < Price(i) \/ (Price(m) = Price(i) /\ m <= i)
          BY <5>3, <5>4, <3>1, <2>0, <1>7, <1>8
        <5>6. Preferable(m, i)
          BY <5>5, PriceIs
        <5> QED
          BY <5>6, <4>4, <2>2
      <4> QED
        BY <4>1, <4>2, <4>3, <4>4 DEF i
    <3> QED
      BY <3>3, <3>4
  <2> QED
    BY <2>7, <2>8, <2>9, <2>10, <2>11 DEF TupleFor
<1>16. TableFor(new, E)
  BY <1>12, <1>14, <1>15 DEF TableFor
<1>17. new.pack = tb.pack \/ new.pack = Append(tb.pack, Accepted(r.idx))
  BY <1>1, <1>3
<1>18. ASSUME NEW t \in Tuples
       PROVE  \/ new.m[t] = tb.m[t]
              \/ new.m[t] = r.idx /\ new.pack = Append(tb.pack, Accepted(r.idx))
  BY <1>1, <1>3 DEF i
<1> QED
  BY <1>16, <1>17, <1>18 DEF Learnt, new

-----------------------------------------------------------------------------
(* The inductive invariant.                                                *)

\* The inputs in H that were handed to worker w.
Part(own, H, w) == {f \in H : own[f] = w}

\* The results q are those a worker has still to handle: of inputs that were
\* handed to it, in their order and larger than any it has handled.
Queued(q, own, H, w) ==
    \A i \in DOMAIN q :
      /\ q[i].idx \notin H /\ q[i].idx < Upto(got) /\ own[q[i].idx] = w /\ Right(q[i])
      /\ \A j \in DOMAIN q : i < j => q[i].idx < q[j].idx
      /\ \A f \in Part(own, H, w) : f < q[i].idx

\* The inputs H are those that have been handled, own says by whom: the tables
\* tell of them and of no other, and one progress item was sent for each.
Book(own, H) ==
    /\ \A f \in H : f < Upto(got)
    /\ \A w \in Workers : TableFor(table[w], Part(own, H, w)) /\ Queued(batch[w], own, H, w)
    /\ pc = "progress" => seen + Len(progress) = Cardinality(H)
    /\ pc # "progress" => H = Files /\ progress = << >>

\* The trace of the input f is at place p of the pack of worker w.
Located(f, w, p) ==
    /\ w \in Workers /\ p \in 1 .. Len(table[w].pack)
    /\ table[w].pack[p] = Accepted(f)

\* What is said of a place in a pack is true, and said of every chosen input.
Reports ==
    /\ \A i \in DOMAIN progress :
         progress[i].idx # NoFile =>
           Located(progress[i].idx, progress[i].worker, progress[i].pos)
    /\ \A f \in Files :
         trace_info[f] # << >> =>
           /\ trace_info[f] = <<trace_info[f][1], trace_info[f][2]>>
           /\ Located(f, trace_info[f][1], trace_info[f][2])
    /\ \A w \in Workers : \A t \in Tuples :
         table[w].m[t] # NoFile =>
           \/ trace_info[table[w].m[t]] # << >>
           \/ \E i \in DOMAIN progress : progress[i].idx = table[w].m[t]

\* Every tuple is on the list or reached by what is saved, and none is both.
Saves ==
    /\ pc \in {"progress", "results"} => saved = << >>
    /\ \A j \in DOMAIN saved : trace_info[saved[j]] # << >>
    /\ pc \in {"rest", "done"} =>
         /\ todo \subseteq AllUnique
         /\ \A t \in AllUnique : t \in todo \/ \E j \in DOMAIN saved : t \in PackOf(saved[j])
         /\ \A j \in DOMAIN saved : \A t \in todo : t \notin PackOf(saved[j])
    /\ pc = "done" => todo = {}
    /\ pc = "raised" => ~CrashesUsed

Typed ==
    /\ opt \in Options /\ corpus \in [Files -> Behaviours] /\ basename \in Naming
    /\ put \in {0, Batches + opt.workers} /\ got \in 0 .. put
    /\ batch \in [Workers -> Seq(ResultSet)]
    /\ ended \subseteq Workers
    /\ table \in [Workers -> TableSet]
    /\ progress \in Seq(Item) /\ results \in Seq(ended)
    /\ pc \in {"progress", "results", "rest", "done", "raised"}
    /\ seen \in 0 .. NFiles + opt.workers
    /\ DOMAIN trace_info = Files
    /\ todo \subseteq Tuples /\ saved \in Seq(Files)

IInv ==
    /\ Typed /\ Reports /\ Saves
    /\ \E own \in [Files -> Workers], H \in SUBSET Files : Book(own, H)

-----------------------------------------------------------------------------
(* What does not change as long as the command line and the corpus do not. *)

\* The operators that look at nothing else.
LEMMA Static ==
    ASSUME opt' = opt, corpus' = corpus
    PROVE  /\ Workers' = Workers /\ Chunk' = Chunk /\ Batches' = Batches
           /\ \A f : Single(f)' <=> Single(f)
           /\ \A f : Accepted(f)' = Accepted(f)
           /\ \A f : Measured(f)' = Measured(f)
           /\ \A f : Price(f)' = Price(f)
           /\ \A f, g : Preferable(f, g)' <=> Preferable(f, g)
           /\ CrashesUsed' <=> CrashesUsed
           /\ EnergiesKnown' <=> EnergiesKnown
           /\ \A k : Upto(k)' = Upto(k)
<1>1. Workers' = Workers /\ Chunk' = Chunk
  BY DEF Workers, Chunk
<1>2. Batches' = Batches
  BY <1>1 DEF Batches
<1>3. \A k : JobInOrder(k)' = JobInOrder(k)
  BY <1>1, <1>2 DEF JobInOrder
<1>4. \A f : Single(f)' <=> Single(f)
  BY <1>2, <1>3 DEF Single
<1>5. \A f : Accepted(f)' = Accepted(f)
  BY DEF Accepted
<1>6. \A f : Measured(f)' = Measured(f)
  BY <1>4 DEF Measured
<1>7. \A f : Price(f)' = Price(f)
  BY <1>6 DEF Price
<1>8. \A f, g : Preferable(f, g)' <=> Preferable(f, g)
  BY <1>6 DEF Preferable
<1>9. CrashesUsed' <=> CrashesUsed
  BY <1>4 DEF CrashesUsed
<1>10. EnergiesKnown' <=> EnergiesKnown
  BY <1>4 DEF EnergiesKnown
<1>11. \A k : Upto(k)' = Upto(k)
  BY <1>1, <1>2 DEF Upto
<1> QED
  BY <1>1, <1>2, <1>4, <1>5, <1>6, <1>7, <1>8, <1>9, <1>10, <1>11

\* A right result and a right table stay right.
LEMMA StaticTable ==
    ASSUME opt' = opt, corpus' = corpus
    PROVE  /\ \A r : Right(r)' <=> Right(r)
           /\ \A tb, D : TableFor(tb, D)' <=> TableFor(tb, D)
<1>1. \A r : Right(r)' <=> Right(r)
  BY Static DEF Right
<1>2. ASSUME NEW tb, NEW D, NEW t PROVE TupleFor(tb, D, t)' <=> TupleFor(tb, D, t)
  <2>1. {f \in D : t \in Accepted(f)'} = {f \in D : t \in Accepted(f)}
    BY Static
  <2> QED
    BY <2>1, Static DEF TupleFor
<1>3. \A tb, D : TableFor(tb, D)' <=> TableFor(tb, D)
  BY <1>2 DEF TableFor
<1> QED
  BY <1>1, <1>3

\* The count of a tuple is a sum over the workers.
LEMMA CountIs ==
    ASSUME NEW t
    PROVE  Count(t) = SumFunctionOnSet([w \in Workers |-> table[w].counter[t]], Workers)
  BY DEF Count, SumFunctionOnSet

\* What main reads from the tables changes with the tables only.
LEMMA StaticMain ==
    ASSUME opt' = opt, corpus' = corpus, table' = table
    PROVE  /\ \A t : Count(t)' = Count(t)
           /\ AllUnique' = AllUnique
           /\ \A t : Best(t)' = Best(t)
           /\ \A f, w, p : Located(f, w, p)' <=> Located(f, w, p)
<1>1. ASSUME NEW t PROVE Count(t)' = Count(t)
  <2>1. Count(t)' = SumFunctionOnSet([w \in Workers |-> table[w].counter[t]], Workers)'
    BY DEF Count, SumFunctionOnSet
  <2>2. SumFunctionOnSet([w \in Workers |-> table[w].counter[t]], Workers)'
          = SumFunctionOnSet([w \in Workers |-> table[w].counter[t]], Workers)
    BY Static
  <2> QED
    BY <2>1, <2>2, CountIs
<1>2. AllUnique' = AllUnique
  BY <1>1 DEF AllUnique
<1>3. \A t : Best(t)' = Best(t)
  BY Static DEF Best
<1>4. \A f, w, p : Located(f, w, p)' <=> Located(f, w, p)
  BY Static DEF Located
<1> QED
  BY <1>1, <1>2, <1>3, <1>4

\* A pair is not the empty sequence.
LEMMA PairNotEmpty ==
    ASSUME NEW a, NEW b
    PROVE  <<a, b>> # << >>
  OBVIOUS

-----------------------------------------------------------------------------
(* Sets of inputs as sequences, counts and the choice of the best.         *)

\* A finite set is put into a sequence, every element once.
LEMMA SetToSeqIs ==
    ASSUME NEW S, IsFiniteSet(S)
    PROVE  /\ SetToSeq(S) \in Seq(S)
           /\ \A i, j \in DOMAIN SetToSeq(S) : SetToSeq(S)[i] = SetToSeq(S)[j] => i = j
           /\ \A x \in S : \E i \in DOMAIN SetToSeq(S) : SetToSeq(S)[i] = x
<1> DEFINE n == Cardinality(S)  q == SetToSeq(S)
<1>1. n \in Nat /\ ExistsBijection(1 .. n, S)
  BY FS_CardinalityType
<1>2. PICK g \in [1 .. n -> S] : IsInjective(g)
  BY <1>1 DEF ExistsBijection, Bijection, Injection
<1>3. q \in [1 .. n -> S] /\ IsInjective(q)
  BY <1>2 DEF SetToSeq
<1>4. IsFiniteSet(1 .. n) /\ Cardinality(1 .. n) = n
  BY <1>1, FS_Interval
<1>5. q \in Injection(1 .. n, S)
  BY <1>3 DEF Injection
<1> HIDE DEF q, n
<1>6. Cardinality(1 .. n) = Cardinality(S)
  BY <1>4 DEF n
<1>7. q \in Surjection(1 .. n, S)
  BY <1>5, <1>6, FS_Injection
<1>8. \A x \in S : \E i \in 1 .. n : q[i] = x
  BY <1>7 DEF Surjection
<1>9. q \in Seq(S) /\ DOMAIN q = 1 .. n
  BY <1>1, <1>3, SeqOfLen
<1>10. \A i, j \in DOMAIN q : q[i] = q[j] => i = j
  BY <1>3 DEF IsInjective
<1> QED
  BY <1>8, <1>9, <1>10 DEF q

\* The best input of a tuple is that of some worker, which has the lowest
\* energy or the same energy and the lowest index.
LEMMA BestIs ==
    ASSUME Typed, NEW t \in Tuples
    PROVE  \E w \in Workers :
             /\ Best(t) = table[w].m[t]
             /\ \A v \in Workers :
                  \/ table[w].best_energy[t] < table[v].best_energy[t]
                  \/ /\ table[w].best_energy[t] = table[v].best_energy[t]
                     /\ table[w].m[t] <= table[v].m[t]
<1> DEFINE e(w) == table[w].best_energy[t]  m(w) == table[w].m[t]
           pairs == {<<e(w), m(w)>> : w \in Workers}
           Low(p) == \A q \in pairs : p[1] < q[1] \/ (p[1] = q[1] /\ p[2] <= q[2])
<1>1. \A w \in Workers : e(w) \in Nat /\ m(w) \in Nat
  <2> TAKE w \in Workers
  <2>1. table[w] \in TableSet
    BY DEF Typed
  <2>2. e(w) \in 1 .. InfEnergy /\ m(w) \in Files \cup {NoFile}
    BY <2>1 DEF TableSet
  <2> QED
    BY <2>2, FilesAssumption, EnergyAssumption DEF InfEnergy, Files, NoFile
<1>2. 1 \in Workers
  BY OptTypes DEF Typed, Workers
<1> HIDE DEF e, m
<1>3. PICK a \in {e(w) : w \in Workers} : \A b \in {e(w) : w \in Workers} : a <= b
  <2>1. {e(w) : w \in Workers} \in SUBSET Nat /\ {e(w) : w \in Workers} # {}
    BY <1>1, <1>2
  <2> QED
    BY <2>1, LeastOf
<1> DEFINE cheap == {w \in Workers : e(w) = a}
<1>4. PICK c \in {m(w) : w \in cheap} : \A b \in {m(w) : w \in cheap} : c <= b
  <2>1. {m(w) : w \in cheap} \in SUBSET Nat /\ {m(w) : w \in cheap} # {}
    BY <1>1, <1>3
  <2> QED
    BY <2>1, LeastOf
<1>5. PICK u \in Workers : e(u) = a /\ m(u) = c
  BY <1>4
<1>6. ASSUME NEW v \in Workers PROVE e(u) < e(v) \/ (e(u) = e(v) /\ m(u) <= m(v))
  <2>1. e(u) <= e(v) /\ e(u) \in Nat /\ e(v) \in Nat
    BY <1>1, <1>3, <1>5
  <2>2. e(v) = a => m(u) <= m(v)
    BY <1>4, <1>5
  <2> QED
    BY <2>1, <2>2, <1>5
<1>7. <<e(u), m(u)>> \in pairs /\ Low(<<e(u), m(u)>>)
  BY <1>6
<1> DEFINE best == CHOOSE p \in pairs : Low(p)
<1>8. best \in pairs /\ Low(best)
  <2> HIDE DEF pairs, Low
  <2> QED
    BY <1>7
<1>9. Best(t) = best[2]
  BY DEF Best, e, m
<1> HIDE DEF best
<1>10. PICK w \in Workers : best = <<e(w), m(w)>>
  BY <1>8
<1>11. ASSUME NEW v \in Workers PROVE e(w) < e(v) \/ (e(w) = e(v) /\ m(w) <= m(v))
  <2>1. PICK q \in pairs : q = <<e(v), m(v)>>
    OBVIOUS
  <2>2. best[1] < q[1] \/ (best[1] = q[1] /\ best[2] <= q[2])
    BY <1>8
  <2> QED
    BY <2>1, <2>2, <1>10
<1> QED
  BY <1>9, <1>10, <1>11 DEF e, m

\* The count of a tuple: at least the inputs handled that reach it, and none
\* if there is no such input.
LEMMA CountBounds ==
    ASSUME Typed, NEW own \in [Files -> Workers], NEW H \in SUBSET Files, Book(own, H),
           NEW t \in Tuples
    PROVE  /\ Count(t) \in Nat
           /\ \A f \in H : t \in Accepted(f) => Count(t) >= 1
           /\ \A f, g \in H : f # g /\ t \in Accepted(f) /\ t \in Accepted(g) => Count(t) >= 2
           /\ Count(t) > 0 => \E f \in H : t \in Accepted(f)
<1> DEFINE C(w) == {f \in Part(own, H, w) : t \in Accepted(f)}
           c == [w \in Workers |-> Cardinality(C(w))]
           Sum(S) == SumFunctionOnSet(c, S)
<1>1. IsFiniteSet(Workers)
  <2>1. opt.workers \in Int
    BY OptTypes DEF Typed
  <2> QED
    BY <2>1, FS_Interval DEF Workers
<1>2. \A w \in Workers : C(w) \in SUBSET Files
  BY DEF Part
<1>3. \A w \in Workers : IsFiniteSet(C(w)) /\ Cardinality(C(w)) \in Nat
  BY <1>2, FilesFinite
<1>4. \A w \in Workers : table[w].counter[t] = Cardinality(C(w))
  BY DEF Book, TableFor, TupleFor
<1>5. [w \in Workers |-> table[w].counter[t]] = c
  BY <1>4
<1>6. Count(t) = Sum(Workers)
  BY <1>5, CountIs
<1>7. c \in [Workers -> Nat] /\ \A w \in Workers : c[w] = Cardinality(C(w))
  BY <1>3
<1> HIDE DEF c
<1>8. \A S \in SUBSET Workers : IsFiniteSet(S) /\ Sum(S) \in Nat
  <2> TAKE S \in SUBSET Workers
  <2>1. IsFiniteSet(S)
    BY <1>1, FS_Subset
  <2> QED
    BY <2>1, <1>7, SumNat
<1>9. ASSUME NEW S \in SUBSET Workers, NEW w \in S PROVE Sum(S) = c[w] + Sum(S \ {w})
  <2>1. IsFiniteSet(S)
    BY <1>8
  <2> QED
    BY <2>1, <1>7, SumRemove
<1> HIDE DEF Sum
<1>10. ASSUME NEW f \in H, t \in Accepted(f)
       PROVE  own[f] \in Workers /\ f \in C(own[f])
  BY <1>10 DEF Part
<1>11. ASSUME NEW w \in Workers, NEW f \in C(w)
       PROVE  /\ c[w] \in Nat /\ c[w] >= 1
              /\ \A g \in C(w) : g # f => c[w] >= 2
  <2> HIDE DEF C
  <2>1. Cardinality(C(w)) # 0
    BY <1>3, <1>11, FS_EmptySet
  <2>2. IsFiniteSet(C(w) \ {f}) /\ Cardinality(C(w) \ {f}) = Cardinality(C(w)) - 1
    BY <1>3, <1>11, FS_RemoveElement
  <2>3. ASSUME NEW g \in C(w), g # f PROVE Cardinality(C(w) \ {f}) # 0
    <3>1. g \in C(w) \ {f}
      BY <2>3
    <3> QED
      BY <2>2, <3>1, FS_EmptySet
  <2>4. Cardinality(C(w)) \in Nat /\ c[w] = Cardinality(C(w))
    BY <1>3, <1>7
  <2>5. c[w] >= 1
    BY <2>1, <2>4
  <2>6. ASSUME NEW g \in C(w), g # f PROVE c[w] >= 2
    BY <2>1, <2>2, <2>3, <2>4, <2>6
  <2> QED
    BY <2>4, <2>5, <2>6
<1>12. ASSUME NEW f \in H, t \in Accepted(f) PROVE Count(t) >= 1
  <2>1. PICK w \in Workers : w = own[f] /\ f \in C(w)
    BY <1>10, <1>12
  <2>2. c[w] \in Nat /\ c[w] >= 1
    BY <2>1, <1>11
  <2>3. Sum(Workers) = c[w] + Sum(Workers \ {w}) /\ Sum(Workers \ {w}) \in Nat
    BY <1>8, <1>9
  <2> QED
    BY <2>2, <2>3, <1>6
<1>13. ASSUME NEW f \in H, NEW g \in H, f # g, t \in Accepted(f), t \in Accepted(g)
       PROVE  Count(t) >= 2
  <2>1. PICK w \in Workers : w = own[f] /\ f \in C(w)
    BY <1>10, <1>13
  <2>2. PICK v \in Workers : v = own[g] /\ g \in C(v)
    BY <1>10, <1>13
  <2>3. Sum(Workers) = c[w] + Sum(Workers \ {w}) /\ Sum(Workers \ {w}) \in Nat
    BY <1>8, <1>9
  <2>4. c[w] \in Nat /\ c[w] >= 1 /\ c[v] \in Nat /\ c[v] >= 1
    BY <2>1, <2>2, <1>11
  <2>5. CASE v = w
    <3>1. c[w] >= 2
      BY <2>1, <2>2, <2>5, <1>11, <1>13
    <3> QED
      BY <3>1, <2>3, <2>4, <1>6
  <2>6. CASE v # w
    <3>1. Workers \ {w} \in SUBSET Workers /\ v \in Workers \ {w}
          /\ (Workers \ {w}) \ {v} \in SUBSET Workers
      BY <2>6
    <3>2. Sum(Workers \ {w}) = c[v] + Sum((Workers \ {w}) \ {v})
      BY <3>1, <1>9
    <3>3. Sum((Workers \ {w}) \ {v}) \in Nat
      BY <3>1, <1>8
    <3> QED
      BY <3>2, <3>3, <2>3, <2>4, <1>6
  <2> QED
    BY <2>5, <2>6
<1>14. ASSUME ~ \E f \in H : t \in Accepted(f) PROVE Count(t) = 0
  <2>1. \A w \in Workers : C(w) = {}
    BY <1>14 DEF Part
  <2>2. \A w \in Workers : c[w] = 0
    BY <2>1, <1>7, FS_EmptySet
  <2>3. \A w \in Workers : c[w] = [x \in Workers |-> 0][w]
    BY <2>2
  <2>4. SumFunctionOnSet([x \in Workers |-> 0], Workers) = 0
    BY <1>1, SumZero
  <2>5. SumFunctionOnSet(c, Workers) = SumFunctionOnSet([x \in Workers |-> 0], Workers)
    BY <1>1, <2>3, SumSame
  <2> QED
    BY <1>6, <2>4, <2>5 DEF Sum
<1>15. Count(t) \in Nat
  BY <1>6, <1>8
<1> QED
  BY <1>12, <1>13, <1>14, <1>15

\* When crashes are used or rejected, every tuple that an input handled has
\* reached has a best input, and main knows where the trace of it is.
LEMMA BestKnown ==
    ASSUME Typed, Reports, progress = << >>, CrashesUsed,
           NEW own \in [Files -> Workers], NEW H \in SUBSET Files, Book(own, H),
           NEW t \in AllUnique
    PROVE  Traced(Best(t))
<1>0. t \in Tuples /\ Count(t) > 0
  BY DEF AllUnique
<1>1. PICK f \in H : t \in Accepted(f)
  BY <1>0, CountBounds
<1>2. PICK v \in Workers : v = own[f] /\ f \in Part(own, H, v)
  BY <1>1 DEF Part
<1>3. table[v].m[t] # NoFile
  BY <1>0, <1>1, <1>2 DEF Book, TableFor, TupleFor
<1>4. PICK w \in Workers :
        /\ Best(t) = table[w].m[t]
        /\ \/ table[w].best_energy[t] < table[v].best_energy[t]
           \/ /\ table[w].best_energy[t] = table[v].best_energy[t]
              /\ table[w].m[t] <= table[v].m[t]
  BY <1>0, BestIs
<1>5. \A u \in Workers : /\ table[u].m[t] \in Files \cup {NoFile}
                         /\ table[u].best_energy[t] \in 1 .. InfEnergy
                         /\ table[u].m[t] = NoFile => table[u].best_energy[t] = InfEnergy
  <2> TAKE u \in Workers
  <2>1. TupleFor(table[u], Part(own, H, u), t) /\ table[u] \in TableSet
    BY <1>0 DEF Book, TableFor
  <2>2. table[u].m[t] \in Files \cup {NoFile} /\ table[u].best_energy[t] \in 1 .. InfEnergy
    BY <2>1, <1>0 DEF TableSet
  <2> QED
    BY <2>1, <2>2 DEF TupleFor
<1>6. table[w].m[t] # NoFile
  <2>1. SUFFICES ASSUME table[w].m[t] = NoFile PROVE FALSE
    OBVIOUS
  <2>2. table[w].best_energy[t] = InfEnergy /\ InfEnergy \in Nat
    BY <2>1, <1>5, EnergyAssumption DEF InfEnergy
  <2>3. table[v].best_energy[t] \in 1 .. InfEnergy
    BY <1>5
  <2>4. NoFile <= table[v].m[t] /\ table[v].m[t] \in Files
    BY <1>3, <1>4, <1>5, <2>1, <2>2, <2>3
  <2> QED
    BY <2>4, FilesAssumption DEF Files, NoFile
<1>7. trace_info[table[w].m[t]] # << >>
  BY <1>0, <1>6 DEF Reports
<1> QED
  BY <1>4, <1>5, <1>6, <1>7 DEF Traced

-----------------------------------------------------------------------------
(* Every step keeps the invariant.                                         *)

\* The bookkeeping is about the tables, what is pending and the count.
LEMMA BookKept ==
    ASSUME NEW own, NEW H, Book(own, H), UNCHANGED <<opt, corpus, got, batch, table>>,
           pc' = "progress" => seen' + Len(progress') = Cardinality(H),
           pc' # "progress" => H = Files /\ progress' = << >>
    PROVE  Book(own, H)'
  BY Static, StaticTable DEF Book, Queued

\* What is said of the packs.
LEMMA ReportsKept ==
    ASSUME Reports, UNCHANGED <<opt, corpus, table, progress, trace_info>>
    PROVE  Reports'
  BY Static, StaticMain DEF Reports

\* What main has still to do.
LEMMA SavesKept ==
    ASSUME Saves, UNCHANGED <<opt, corpus, table, trace_info, pc, todo, saved>>
    PROVE  Saves'
  BY Static, StaticMain DEF Saves, PackOf

\* The dispatcher fills the queue.
LEMMA DispatchStep ==
    ASSUME IInv, Dispatch
    PROVE  IInv'
<1>1. UNCHANGED <<opt, corpus, basename, got, batch, ended, table, progress, results, pc, seen,
                  trace_info, todo, saved>>
  BY DEF Dispatch
<1>2. Typed'
  <2>1. Batches \in Nat /\ opt.workers \in Nat
    BY BatchBounds, OptTypes DEF IInv, Typed
  <2>2. put' = Batches' + opt.workers' /\ got' \in 0 .. put'
    BY <1>1, <2>1, Static DEF Dispatch, IInv, Typed
  <2> QED
    BY <1>1, <2>2, Static DEF IInv, Typed
<1>3. PICK own \in [Files -> Workers], H \in SUBSET Files : Book(own, H)
  BY DEF IInv
<1>4. Book(own, H)'
  <2>1. /\ pc' = "progress" => seen' + Len(progress') = Cardinality(H)
        /\ pc' # "progress" => H = Files /\ progress' = << >>
    BY <1>1, <1>3 DEF Book
  <2> QED
    BY <1>1, <1>3, <2>1, BookKept
<1>5. own \in [Files -> Workers']
  BY <1>1, Static
<1>6. Reports' /\ Saves'
  BY <1>1, ReportsKept, SavesKept DEF IInv
<1> QED
  BY <1>2, <1>4, <1>5, <1>6 DEF IInv

\* A worker takes a job: its inputs come after all that were handed out before.
LEMMA GetStep ==
    ASSUME DistinctNames, IInv, NEW w \in Workers, Get(w)
    PROVE  IInv'
<1>1. /\ UNCHANGED <<opt, corpus, basename, put, table, progress, pc, seen, trace_info, todo, saved>>
      /\ batch[w] = << >> /\ got < put /\ got' = got + 1
      /\ batch' = [batch EXCEPT ![w] = Showmap(Job(got + 1))]
  BY DEF Get
<1>2. /\ opt \in Options /\ corpus \in [Files -> Behaviours] /\ basename \in Naming
      /\ got \in Nat /\ put \in Nat
      /\ Batches \in Nat /\ batch \in [Workers -> Seq(ResultSet)]
  BY BatchBounds, OptTypes DEF IInv, Typed
<1> DEFINE s == Job(got + 1)  q == Showmap(Job(got + 1))
<1>3. q \in Seq(ResultSet)
  <2>1. CASE got < Batches
    BY <2>1, <1>2, ShowmapIs
  <2>2. CASE got >= Batches
    <3>1. s = << >>
      BY <2>2, <1>2, JobIs
    <3>2. q = << >>
      BY <3>1 DEF Showmap
    <3>3. << >> \in Seq(ResultSet)
      OBVIOUS
    <3> QED
      BY <3>2, <3>3, Zenon
  <2> QED
    BY <2>1, <2>2, <1>2
<1> HIDE DEF s, q
<1>4. Typed'
  <2>1. got' \in 0 .. put'
    BY <1>1, <1>2
  <2>2. batch' \in [Workers -> Seq(ResultSet)]
    BY <1>1, <1>2, <1>3 DEF q
  <2>3. ended' \subseteq Workers /\ results' \in Seq(ended')
    <3>1. ended \subseteq Workers /\ results \in Seq(ended)
      BY DEF IInv, Typed
    <3>2. CASE s = << >>
      <4>1. ended' = ended \cup {w} /\ results' = Append(results, w)
        BY <3>2 DEF Get, s
      <4>2. results \in Seq(ended')
        BY <3>1, <4>1
      <4> QED
        BY <3>1, <4>1, <4>2
    <3>3. CASE s # << >>
      BY <3>1, <3>3 DEF Get, s
    <3> QED
      BY <3>2, <3>3
  <2>4. put' \in {0, Batches' + opt'.workers}
    BY <1>1, Static DEF IInv, Typed
  <2> QED
    BY <1>1, <2>1, <2>2, <2>3, <2>4, Static DEF IInv, Typed
<1>5. Reports' /\ Saves'
  BY <1>1, ReportsKept, SavesKept DEF IInv
<1>6. PICK own \in [Files -> Workers], H \in SUBSET Files : Book(own, H)
  BY DEF IInv
<1>7. Workers' = Workers /\ Upto(got)' = Upto(got + 1)
  BY <1>1, Static
<1>8. \A v \in Workers : batch'[v] = IF v = w THEN q ELSE batch[v]
  BY <1>1, <1>2 DEF q
<1>9. CASE got >= Batches
  <2>1. Upto(got + 1) = Upto(got) /\ q = << >>
    BY <1>2, <1>9, JobIs DEF q, Showmap
  <2>2. \A v \in Workers : batch'[v] = batch[v]
    BY <1>1, <1>8, <2>1
  <2>3. \A v \in Workers : Queued(batch[v], own, H, v)'
    <3> TAKE v \in Workers
    <3>1. Queued(batch[v], own, H, v)
      BY <1>6 DEF Book
    <3> QED
      BY <3>1, <1>1, <1>7, <2>1, <2>2, StaticTable DEF Queued
  <2>4. \A v \in Workers : TableFor(table[v], Part(own, H, v))'
    BY <1>1, <1>6, StaticTable DEF Book
  <2>5. Book(own, H)'
    BY <1>1, <1>6, <1>7, <2>1, <2>3, <2>4 DEF Book
  <2> QED
    BY <1>4, <1>5, <1>7, <2>5 DEF IInv
<1>10. CASE got < Batches
  <2> DEFINE n == Upto(got)
  <2>1. /\ n \in Nat /\ Upto(got + 1) \in Nat /\ n < Upto(got + 1)
        /\ q \in Seq(ResultSet)
        /\ Len(q) = Upto(got + 1) - n
        /\ \A i \in 1 .. Len(q) : q[i].idx = n + i - 1 /\ Right(q[i])
    <3>1. /\ Upto(got) \in 0 .. NFiles /\ Upto(got + 1) \in 0 .. NFiles
          /\ s \in Seq(Files) /\ Len(s) = Upto(got + 1) - n /\ Len(s) \in 1 .. Chunk
          /\ \A i \in DOMAIN s : s[i] = n + i - 1
      BY <1>2, <1>10, JobIs, got + 1 \in Nat DEF s
    <3>2. /\ Len(q) = Len(s)
          /\ \A i \in 1 .. Len(s) : q[i].idx = s[i] /\ Right(q[i])
      BY <1>2, <1>10, ShowmapIs DEF q, s
    <3>3. DOMAIN s = 1 .. Len(s) /\ Chunk \in Nat
      BY <3>1, <1>2, BatchBounds
    <3>4. \A i \in 1 .. Len(q) : q[i].idx = n + i - 1 /\ Right(q[i])
      BY <3>1, <3>2, <3>3
    <3> HIDE DEF n
    <3>5. n \in Nat /\ Upto(got + 1) \in Nat
      BY <3>1, FilesAssumption DEF n
    <3>6. n < Upto(got + 1)
      BY <3>1, <3>3, <3>5
    <3> QED
      BY <3>1, <3>2, <3>4, <3>5, <3>6, <1>3
  <2>2. \A f \in H : f < n /\ f \in Files
    BY <1>6 DEF Book
  <2> HIDE DEF n
  <2>3. PICK new \in [Files -> Workers] : \A f \in Files : new[f] = IF f < n THEN own[f] ELSE w
    <3>1. [f \in Files |-> IF f < n THEN own[f] ELSE w] \in [Files -> Workers]
      OBVIOUS
    <3> QED
      BY <3>1
  <2>4. /\ \A f \in Files : f < n => new[f] = own[f]
        /\ \A f \in Files : ~(f < n) => new[f] = w
    BY <2>3
  <2>5. \A v \in Workers : Part(new, H, v) = Part(own, H, v)
    BY <2>2, <2>4 DEF Part
  <2>6. ASSUME NEW v \in Workers PROVE Queued(batch[v], new, H, v)'
    <3>1. CASE v = w
      <4>1. batch'[v] = q /\ DOMAIN q = 1 .. Len(q) /\ Len(q) \in Nat
        BY <3>1, <1>8, <1>3
      <4>2. ASSUME NEW i \in 1 .. Len(q)
            PROVE  /\ q[i].idx \notin H /\ q[i].idx < Upto(got + 1) /\ new[q[i].idx] = w
                   /\ \A j \in 1 .. Len(q) : i < j => q[i].idx < q[j].idx
                   /\ \A f \in Part(new, H, w) : f < q[i].idx
        <5>1. q[i].idx = n + i - 1 /\ q[i].idx >= n /\ q[i].idx \in Nat
          BY <2>1, <4>1
        <5>2. q[i].idx \in Files
          <6>1. q[i] \in ResultSet
            BY <1>3, <4>1
          <6> QED
            BY <6>1 DEF ResultSet
        <5>3. q[i].idx \notin H /\ q[i].idx < Upto(got + 1)
          BY <5>1, <2>1, <2>2, <4>1
        <5>4. new[q[i].idx] = w
          BY <5>1, <5>2, <2>1, <2>4
        <5>5. \A j \in 1 .. Len(q) : i < j => q[i].idx < q[j].idx
          BY <2>1, <4>1
        <5>6. \A f \in Part(new, H, w) : f < q[i].idx
          <6> TAKE f \in Part(new, H, w)
          <6>1. f < n /\ f \in Nat
            BY <2>2 DEF Part, Files
          <6> QED
            BY <6>1, <5>1, <2>1
        <5> QED
          BY <5>3, <5>4, <5>5, <5>6
      <4>3. \A i \in 1 .. Len(q) : Right(q[i])
        BY <2>1
      <4> QED
        BY <3>1, <4>1, <4>2, <4>3, <1>1, <1>7, StaticTable DEF Queued
    <3>2. CASE v # w
      <4>1. batch'[v] = batch[v] /\ batch[v] \in Seq(ResultSet)
        BY <3>2, <1>8, <1>2
      <4>2. Queued(batch[v], own, H, v)
        BY <1>6 DEF Book
      <4>3. \A i \in DOMAIN batch[v] : batch[v][i].idx \in Files /\ batch[v][i].idx \in Nat
        <5> TAKE i \in DOMAIN batch[v]
        <5>1. batch[v][i] \in ResultSet
          BY <4>1
        <5> QED
          BY <5>1 DEF ResultSet, Files
      <4>4. \A i \in DOMAIN batch[v] : /\ new[batch[v][i].idx] = v
                                       /\ batch[v][i].idx < Upto(got + 1)
        <5> TAKE i \in DOMAIN batch[v]
        <5>1. batch[v][i].idx < n /\ own[batch[v][i].idx] = v
          BY <4>2 DEF Queued, n
        <5> QED
          BY <5>1, <4>3, <2>1, <2>4
      <4> QED
        BY <4>1, <4>2, <4>4, <2>5, <1>1, <1>7, StaticTable DEF Queued
    <3> QED
      BY <3>1, <3>2
  <2>7. \A v \in Workers : TableFor(table[v], Part(new, H, v))'
    BY <1>1, <1>6, <2>5, StaticTable DEF Book
  <2>8. \A f \in H : f < Upto(got + 1)
    <3> TAKE f \in H
    <3>1. f < n /\ f \in Nat
      BY <2>2 DEF Files
    <3> QED
      BY <3>1, <2>1
  <2>9. Book(new, H)'
    BY <1>1, <1>6, <1>7, <2>6, <2>7, <2>8 DEF Book
  <2> QED
    BY <1>4, <1>5, <1>7, <2>3, <2>9 DEF IInv
<1> QED
  BY <1>2, <1>9, <1>10

\* A worker handles the next result: the input joins those it has handled.
LEMMA HandleStep ==
    ASSUME IInv, NEW w \in Workers, Handle(w)
    PROVE  IInv'
<1>0. /\ opt \in Options /\ corpus \in [Files -> Behaviours]
      /\ batch \in [Workers -> Seq(ResultSet)] /\ table \in [Workers -> TableSet]
      /\ progress \in Seq(Item) /\ Workers \subseteq Nat /\ seen \in Nat
  BY OptTypes, FilesAssumption DEF IInv, Typed, Workers
<1>1. PICK q \in Seq(ResultSet) : q = batch[w] /\ q # << >>
  BY <1>0 DEF Handle
<1>2. PICK r \in ResultSet : r = Head(q)
  BY <1>1
<1>3. PICK tb \in TableSet : tb = table[w]
  BY <1>0
<1>4. PICK new : new = Learn(tb, r)
  OBVIOUS
<1>5. /\ UNCHANGED <<opt, corpus, basename, put, got, ended, results, pc, seen, trace_info, todo,
                     saved>>
      /\ batch' = [batch EXCEPT ![w] = Tail(q)]
      /\ table' = [table EXCEPT ![w] = new]
      /\ progress' = progress \o Report(w, tb, new, r)
  BY <1>1, <1>2, <1>3, <1>4 DEF Handle
<1>6. PICK own \in [Files -> Workers], H \in SUBSET Files : Book(own, H)
  BY DEF IInv
<1> DEFINE D == Part(own, H, w)  E == D \cup {r.idx}  G == H \cup {r.idx}
<1>7. TableFor(tb, D) /\ Queued(q, own, H, w)
  BY <1>1, <1>3, <1>6 DEF Book
<1>8. /\ 1 \in DOMAIN q /\ r = q[1] /\ DOMAIN q = 1 .. Len(q) /\ Len(q) \in Nat
      /\ Tail(q) \in Seq(ResultSet) /\ DOMAIN Tail(q) = 1 .. Len(q) - 1
      /\ \A i \in 1 .. Len(q) - 1 : Tail(q)[i] = q[i + 1]
  BY <1>1, <1>2
<1>9. /\ r.idx \notin H /\ r.idx < Upto(got) /\ own[r.idx] = w /\ Right(r)
      /\ \A j \in DOMAIN q : 1 < j => r.idx < q[j].idx
      /\ \A f \in D : f < r.idx
  BY <1>7, <1>8 DEF Queued
<1>10. r.idx \in Files
  BY <1>2 DEF ResultSet
<1>11. D \in SUBSET Files
  BY DEF Part
<1> HIDE DEF D
<1>12. /\ TableFor(new, E)
       /\ new.pack = tb.pack \/ new.pack = Append(tb.pack, Accepted(r.idx))
       /\ \A t \in Tuples :
             \/ new.m[t] = tb.m[t]
             \/ new.m[t] = r.idx /\ new.pack = Append(tb.pack, Accepted(r.idx))
  <2>1. /\ opt \in Options /\ corpus \in [Files -> Behaviours] /\ TableFor(tb, D) /\ Right(r)
        /\ \A f \in D : f < r.idx
    BY <1>0, <1>7, <1>9
  <2>2. Learnt(tb, Learn(tb, r), D, r)
    BY <2>1, <1>11, LearnIs
  <2> QED
    BY <2>2, <1>4 DEF Learnt
<1>13. pc = "progress"
  BY <1>6, <1>9, <1>10 DEF Book
<1>14. tb.pack \in Seq((SUBSET Tuples) \ {{}}) /\ new \in TableSet
  BY <1>12 DEF TableFor, TableSet
<1>15. /\ Len(tb.pack) \in Nat /\ DOMAIN tb.pack = 1 .. Len(tb.pack)
       /\ new.pack # tb.pack => /\ new.pack = Append(tb.pack, Accepted(r.idx))
                                /\ Len(new.pack) = Len(tb.pack) + 1
                                /\ new.pack[Len(tb.pack) + 1] = Accepted(r.idx)
       /\ new.pack = Append(tb.pack, Accepted(r.idx)) => new.pack # tb.pack
       /\ Len(new.pack) \in Nat /\ Len(new.pack) >= Len(tb.pack)
       /\ \A p \in 1 .. Len(tb.pack) : new.pack[p] = tb.pack[p]
  <2>1. PICK S : tb.pack \in Seq(S)
    BY <1>14
  <2>2. PICK a : a = Accepted(r.idx)
    OBVIOUS
  <2>3. PICK p, n : p = tb.pack /\ n = new.pack
    OBVIOUS
  <2>4. p \in Seq(S) /\ (n = p \/ n = Append(p, a))
    BY <1>12, <2>1, <2>2, <2>3
  <2>5. Len(p) \in Nat /\ DOMAIN p = 1 .. Len(p)
    BY <2>4
  <2>6. /\ Len(Append(p, a)) = Len(p) + 1 /\ Append(p, a)[Len(p) + 1] = a
        /\ \A i \in 1 .. Len(p) : Append(p, a)[i] = p[i]
    BY <2>4
  <2>7. Append(p, a) # p
    <3>1. PICK k \in Nat : k = Len(p)
      BY <2>5
    <3>2. k + 1 # k
      OBVIOUS
    <3>3. PICK z : z = Append(p, a) /\ Len(z) = k + 1
      BY <2>6, <3>1, Zenon
    <3>4. z # p
      BY <3>1, <3>2, <3>3
    <3> QED
      BY <3>3, <3>4
  <2> QED
    BY <2>2, <2>3, <2>4, <2>5, <2>6, <2>7
<1>16. PICK item \in Item :
         /\ Report(w, tb, new, r) = <<item>>
         /\ new.pack # tb.pack => item = [idx |-> r.idx, worker |-> w, pos |-> Len(new.pack)]
         /\ new.pack = tb.pack => item = [idx |-> NoFile, worker |-> w, pos |-> 0]
  BY <1>0, <1>10, <1>15 DEF Report, Item
<1>17. /\ progress' \in Seq(Item) /\ Len(progress') = Len(progress) + 1
       /\ DOMAIN progress' = 1 .. Len(progress) + 1 /\ DOMAIN progress = 1 .. Len(progress)
       /\ progress'[Len(progress) + 1] = item /\ Len(progress) \in Nat
       /\ \A i \in 1 .. Len(progress) : progress'[i] = progress[i]
  <2>1. PICK old \in Seq(Item) : old = progress
    BY <1>0
  <2>2. progress' = Append(old, item)
    BY <1>5, <1>16, <2>1
  <2> QED
    BY <2>1, <2>2
<1>18. /\ Workers' = Workers /\ Upto(got)' = Upto(got)
       /\ \A f : Accepted(f)' = Accepted(f)
  BY <1>5, Static
<1>19. /\ \A v \in Workers : table'[v] = IF v = w THEN new ELSE table[v]
       /\ \A v \in Workers : batch'[v] = IF v = w THEN Tail(q) ELSE batch[v]
  BY <1>0, <1>5
<1>20. Typed'
  <2>1. batch' \in [Workers -> Seq(ResultSet)] /\ table' \in [Workers -> TableSet]
    BY <1>0, <1>5, <1>8, <1>14
  <2>2. put' \in {0, Batches' + opt'.workers}
    BY <1>5, Static DEF IInv, Typed
  <2> QED
    BY <1>5, <1>17, <1>18, <2>1, <2>2 DEF IInv, Typed
<1>21. ASSUME NEW f, NEW v, NEW p, Located(f, v, p) PROVE Located(f, v, p)'
  <2>1. v \in Workers /\ p \in 1 .. Len(table[v].pack) /\ table[v].pack[p] = Accepted(f)
    BY <1>21 DEF Located
  <2>2. p \in 1 .. Len(table'[v].pack) /\ table'[v].pack[p] = Accepted(f)
    <3>1. CASE v = w
      BY <3>1, <2>1, <1>3, <1>15, <1>19
    <3>2. CASE v # w
      BY <3>2, <2>1, <1>19
    <3> QED
      BY <3>1, <3>2
  <2> QED
    BY <2>1, <2>2, <1>18 DEF Located
<1>22. Reports'
  <2>1. ASSUME NEW i \in 1 .. Len(progress) + 1, progress'[i].idx # NoFile
        PROVE  Located(progress[i].idx, progress[i].worker, progress[i].pos)'
    <3>1. CASE i \in 1 .. Len(progress)
      <4>1. PICK it : it = progress[i]
        OBVIOUS
      <4>2. progress'[i] = it /\ it.idx # NoFile
        BY <3>1, <4>1, <1>17, <2>1
      <4>3. Located(it.idx, it.worker, it.pos)
        BY <3>1, <4>1, <4>2, <1>17 DEF IInv, Reports
      <4>4. Located(it.idx, it.worker, it.pos)'
        BY <4>3, <1>21
      <4> QED
        BY <4>2, <4>4
    <3>2. CASE i = Len(progress) + 1
      <4>1. progress'[i] = item
        BY <3>2, <1>17
      <4>2. new.pack # tb.pack
        BY <4>1, <2>1, <1>16
      <4>3. item.idx = r.idx /\ item.worker = w /\ item.pos = Len(new.pack)
        BY <4>2, <1>16
      <4>4. table'[w].pack = new.pack
        BY <1>19
      <4>5. /\ Len(new.pack) \in 1 .. Len(new.pack)
            /\ new.pack[Len(new.pack)] = Accepted(r.idx)
        BY <4>2, <1>15
      <4>6. Located(item.idx, item.worker, item.pos)'
        BY <4>3, <4>4, <4>5, <1>18 DEF Located
      <4> QED
        BY <4>1, <4>6
    <3> QED
      BY <3>1, <3>2, <1>17
  <2>2. ASSUME NEW f \in Files, trace_info'[f] # << >>
        PROVE  /\ trace_info'[f] = <<trace_info'[f][1], trace_info'[f][2]>>
               /\ Located(f, trace_info[f][1], trace_info[f][2])'
    <3>1. PICK ti : ti = trace_info[f]
      OBVIOUS
    <3>2. ti # << >> /\ trace_info'[f] = ti
      BY <3>1, <2>2, <1>5
    <3>3. ti = <<ti[1], ti[2]>> /\ Located(f, ti[1], ti[2])
      BY <3>1, <3>2 DEF IInv, Reports
    <3>4. Located(f, ti[1], ti[2])'
      BY <3>3, <1>21
    <3> QED
      BY <3>2, <3>3, <3>4
  <2>3. ASSUME NEW v \in Workers, NEW t \in Tuples, table'[v].m[t] # NoFile
        PROVE  \/ trace_info'[table'[v].m[t]] # << >>
               \/ \E i \in DOMAIN progress' : progress'[i].idx = table'[v].m[t]
    <3>1. CASE table'[v].m[t] = table[v].m[t]
      <4>1. \/ trace_info[table[v].m[t]] # << >>
            \/ \E i \in DOMAIN progress : progress[i].idx = table[v].m[t]
        BY <3>1, <2>3 DEF IInv, Reports
      <4>2. CASE trace_info[table[v].m[t]] # << >>
        BY <4>2, <3>1, <1>5
      <4>3. CASE \E i \in DOMAIN progress : progress[i].idx = table[v].m[t]
        <5>1. PICK i \in 1 .. Len(progress) : progress[i].idx = table[v].m[t]
          BY <4>3, <1>17
        <5>2. i \in DOMAIN progress' /\ progress'[i] = progress[i]
          BY <1>17
        <5> QED
          BY <5>1, <5>2, <3>1
      <4> QED
        BY <4>1, <4>2, <4>3
    <3>2. CASE table'[v].m[t] # table[v].m[t]
      <4>1. v = w /\ table'[v].m[t] = r.idx /\ new.pack = Append(tb.pack, Accepted(r.idx))
        BY <3>2, <1>3, <1>12, <1>19
      <4>2. item.idx = r.idx
        BY <4>1, <1>15, <1>16
      <4>3. Len(progress) + 1 \in DOMAIN progress'
        BY <1>17
      <4> QED
        BY <4>1, <4>2, <4>3, <1>17
    <3> QED
      BY <3>1, <3>2
  <2> QED
    BY <1>17, <1>18, <2>1, <2>2, <2>3 DEF Reports
<1>23. Saves'
  <2>1. pc' = "progress" /\ saved' = << >>
    BY <1>5, <1>13 DEF IInv, Saves
  <2> QED
    BY <2>1 DEF Saves
<1>24. Book(own, G)'
  <2>1. \A f \in G : f < Upto(got)
    BY <1>6, <1>9 DEF Book
  <2>2. seen' + Len(progress') = Cardinality(G)
    <3>1. Cardinality(G) = Cardinality(H) + 1 /\ Cardinality(H) \in Nat
      BY <1>9, FilesAdd
    <3>2. seen + Len(progress) = Cardinality(H)
      BY <1>6, <1>13 DEF Book
    <3> QED
      BY <3>1, <3>2, <1>0, <1>5, <1>17
  <2>3. Part(own, G, w) = E
    BY <1>9 DEF Part, D
  <2>4. \A v \in Workers : v # w => Part(own, G, v) = Part(own, H, v)
    BY <1>9 DEF Part
  <2> HIDE DEF E, G
  <2>5. ASSUME NEW v \in Workers PROVE TableFor(table[v], Part(own, G, v))'
    <3>1. CASE v = w
      <4>1. TableFor(new, E)'
        BY <1>5, <1>12, StaticTable
      <4> QED
        BY <4>1, <3>1, <2>3, <1>19
    <3>2. CASE v # w
      <4>1. PICK x : x = table[v] /\ table'[v] = x
        BY <3>2, <1>19
      <4>2. TableFor(x, Part(own, G, v))
        BY <4>1, <3>2, <2>4, <1>6 DEF Book
      <4>3. TableFor(x, Part(own, G, v))'
        BY <4>2, <1>5, StaticTable
      <4> QED
        BY <4>1, <4>3
    <3> QED
      BY <3>1, <3>2
  <2>6. ASSUME NEW v \in Workers PROVE Queued(batch[v], own, G, v)'
    <3>1. CASE v = w
      <4> DEFINE z == Tail(q)
      <4>1. ASSUME NEW i \in 1 .. Len(q) - 1
            PROVE  /\ z[i] = q[i + 1] /\ i + 1 \in DOMAIN q
                   /\ z[i].idx \notin G /\ z[i].idx < Upto(got) /\ own[z[i].idx] = w /\ Right(z[i])
                   /\ \A j \in 1 .. Len(q) - 1 : i < j => z[i].idx < z[j].idx
                   /\ \A f \in E : f < z[i].idx
        <5>1. z[i] = q[i + 1] /\ i + 1 \in DOMAIN q /\ 1 < i + 1
          BY <1>8
        <5>2. /\ z[i].idx \notin H /\ z[i].idx < Upto(got) /\ own[z[i].idx] = w /\ Right(z[i])
              /\ \A f \in D : f < z[i].idx
          BY <5>1, <1>7 DEF Queued, D
        <5>3. r.idx < z[i].idx
          BY <5>1, <1>9
        <5>4. z[i].idx # r.idx
          BY <5>3, <1>10 DEF Files
        <5>5. \A j \in 1 .. Len(q) - 1 : i < j => z[i].idx < z[j].idx
          <6> TAKE j \in 1 .. Len(q) - 1
          <6>1. z[j] = q[j + 1] /\ j + 1 \in DOMAIN q /\ (i < j => i + 1 < j + 1)
            BY <1>8
          <6> QED
            BY <6>1, <5>1, <1>7 DEF Queued
        <5> QED
          BY <5>1, <5>2, <5>3, <5>4, <5>5 DEF E, G
      <4>2. batch'[w] = z /\ DOMAIN z = 1 .. Len(q) - 1
        BY <1>8, <1>19
      <4> HIDE DEF z
      <4> QED
        BY <3>1, <4>1, <4>2, <2>3, <1>5, <1>18, StaticTable DEF Queued
    <3>2. CASE v # w
      <4>1. batch'[v] = batch[v]
        BY <3>2, <1>19
      <4>2. Queued(batch[v], own, H, v)
        BY <1>6 DEF Book
      <4>3. \A i \in DOMAIN batch[v] : batch[v][i].idx \notin G
        BY <4>2, <3>2, <1>9 DEF Queued, G
      <4> QED
        BY <3>2, <4>1, <4>2, <4>3, <2>4, <1>5, <1>18, StaticTable DEF Queued
    <3> QED
      BY <3>1, <3>2
  <2> QED
    BY <2>1, <2>2, <2>5, <2>6, <1>5, <1>13, <1>18 DEF Book
<1>25. own \in [Files -> Workers'] /\ G \in SUBSET Files
  BY <1>10, <1>18
<1> QED
  BY <1>20, <1>22, <1>23, <1>24, <1>25 DEF IInv

\* Main takes a progress item, or has had one per input: then all are handled.
LEMMA GatherStep ==
    ASSUME IInv, Gather
    PROVE  IInv'
<1>0. /\ pc = "progress" /\ progress \in Seq(Item) /\ seen \in Nat /\ opt.workers \in Nat
      /\ DOMAIN trace_info = Files
      /\ UNCHANGED <<opt, corpus, basename, put, got, batch, ended, table, results, todo, saved>>
  BY OptTypes, FilesAssumption DEF Gather, IInv, Typed
<1>1. PICK own \in [Files -> Workers], H \in SUBSET Files : Book(own, H)
  BY DEF IInv
<1>2. seen + Len(progress) = Cardinality(H) /\ Len(progress) \in Nat
  BY <1>0, <1>1 DEF Book
<1>3. Workers' = Workers /\ \A f, w, p : Located(f, w, p)' <=> Located(f, w, p)
  BY <1>0, Static, StaticMain
<1>4. put' \in {0, Batches' + opt'.workers}
  BY <1>0, Static DEF IInv, Typed
<1>5. CASE seen < NFiles
  <2> DEFINE r == Head(progress)
  <2>1. /\ progress # << >> /\ progress' = Tail(progress) /\ seen' = seen + 1 /\ pc' = "progress"
        /\ trace_info' = IF r.idx = NoFile THEN trace_info
                         ELSE [trace_info EXCEPT ![r.idx] = <<r.worker, r.pos>>]
    BY <1>0, <1>5 DEF Gather
  <2>2. /\ r \in Item /\ r = progress[1] /\ 1 \in DOMAIN progress
        /\ DOMAIN progress = 1 .. Len(progress)
        /\ progress' \in Seq(Item) /\ Len(progress') = Len(progress) - 1
        /\ DOMAIN progress' = 1 .. Len(progress) - 1
        /\ \A i \in 1 .. Len(progress) - 1 : progress'[i] = progress[i + 1]
    BY <1>0, <2>1
  <2>3. r.idx \in Files \cup {NoFile} /\ NoFile \notin Files
    BY <2>2, FilesAssumption DEF Item, Files, NoFile
  <2> HIDE DEF r
  <2>4. \A f \in Files : trace_info'[f] = IF f = r.idx THEN <<r.worker, r.pos>> ELSE trace_info[f]
    BY <1>0, <2>1, <2>3
  <2>5. Typed'
    <3>1. DOMAIN trace_info' = Files
      BY <1>0, <2>1
    <3>2. seen' \in 0 .. NFiles + opt.workers
      BY <1>0, <1>5, <2>1, FilesAssumption
    <3> QED
      BY <1>0, <1>3, <1>4, <2>1, <2>2, <3>1, <3>2 DEF IInv, Typed
  <2>6. Reports'
    <3>1. ASSUME NEW i \in DOMAIN progress', progress'[i].idx # NoFile
          PROVE  Located(progress[i].idx, progress[i].worker, progress[i].pos)'
      <4>1. PICK it : it = progress[i + 1] /\ progress'[i] = it
        BY <2>2
      <4>2. i + 1 \in DOMAIN progress
        BY <2>2
      <4>3. Located(it.idx, it.worker, it.pos)
        BY <3>1, <4>1, <4>2 DEF IInv, Reports
      <4>4. Located(it.idx, it.worker, it.pos)'
        BY <4>3, <1>3
      <4> QED
        BY <4>1, <4>4
    <3>2. ASSUME NEW f \in Files, trace_info'[f] # << >>
          PROVE  /\ trace_info'[f] = <<trace_info'[f][1], trace_info'[f][2]>>
                 /\ Located(f, trace_info[f][1], trace_info[f][2])'
      <4>1. PICK ti : ti = trace_info'[f]
        OBVIOUS
      <4>2. ti = <<ti[1], ti[2]>> /\ Located(f, ti[1], ti[2])
        <5>1. CASE f = r.idx
          <6>1. ti = <<r.worker, r.pos>>
            BY <5>1, <4>1, <2>4
          <6>2. Located(r.idx, r.worker, r.pos)
            BY <5>1, <2>2, <2>3 DEF IInv, Reports
          <6> QED
            BY <5>1, <6>1, <6>2
        <5>2. CASE f # r.idx
          <6>1. ti = trace_info[f] /\ ti # << >>
            BY <5>2, <4>1, <2>4, <3>2
          <6> QED
            BY <6>1 DEF IInv, Reports
        <5> QED
          BY <5>1, <5>2
      <4>3. Located(f, ti[1], ti[2])'
        BY <4>2, <1>3
      <4> QED
        BY <4>1, <4>2, <4>3
    <3>3. ASSUME NEW v \in Workers, NEW t \in Tuples, table[v].m[t] # NoFile
          PROVE  \/ trace_info'[table[v].m[t]] # << >>
                 \/ \E i \in DOMAIN progress' : progress'[i].idx = table[v].m[t]
      <4>0. PICK m \in Files : m = table[v].m[t]
        <5>1. table[v] \in TableSet
          BY DEF IInv, Typed
        <5> QED
          BY <5>1, <3>3 DEF TableSet
      <4>1. CASE m = r.idx
        BY <4>0, <4>1, <2>4, PairNotEmpty
      <4>2. CASE m # r.idx /\ trace_info[m] # << >>
        BY <4>0, <4>2, <2>4
      <4>3. CASE m # r.idx /\ trace_info[m] = << >>
        <5>1. PICK i \in DOMAIN progress : progress[i].idx = m
          BY <4>0, <4>3, <3>3 DEF IInv, Reports
        <5>2. i # 1
          BY <5>1, <4>3, <2>2
        <5>3. i - 1 \in DOMAIN progress' /\ progress'[i - 1] = progress[i]
          BY <5>2, <2>2, <1>2
        <5> QED
          BY <5>1, <5>3, <4>0
      <4> QED
        BY <4>1, <4>2, <4>3
    <3> QED
      BY <1>0, <1>3, <3>1, <3>2, <3>3 DEF Reports
  <2>7. Saves'
    <3>1. saved' = << >>
      BY <1>0 DEF IInv, Saves
    <3> QED
      BY <3>1, <2>1 DEF Saves
  <2>8. Book(own, H)'
    <3>1. seen' + Len(progress') = Cardinality(H)
      BY <1>0, <1>2, <2>1, <2>2
    <3> QED
      BY <1>0, <1>1, <2>1, <3>1, BookKept
  <2> QED
    BY <1>3, <2>5, <2>6, <2>7, <2>8 DEF IInv
<1>6. CASE ~(seen < NFiles)
  <2>1. pc' = "results" /\ seen' = 0 /\ UNCHANGED <<progress, trace_info>>
    BY <1>0, <1>6 DEF Gather
  <2>2. H = Files /\ Len(progress) = 0
    <3>1. Cardinality(H) \in 0 .. NFiles /\ (Cardinality(H) = NFiles => H = Files)
      BY FilesFinite
    <3> QED
      BY <3>1, <1>0, <1>2, <1>6, FilesAssumption
  <2>3. progress = << >>
    BY <2>2, <1>0
  <2>4. Book(own, H)'
    BY <1>0, <1>1, <2>1, <2>2, <2>3, BookKept
  <2>5. Typed'
    <3>1. seen' \in 0 .. NFiles + opt.workers
      BY <1>0, <2>1, FilesAssumption
    <3> QED
      BY <1>0, <1>3, <1>4, <2>1, <3>1 DEF IInv, Typed
  <2>6. Reports'
    BY <1>0, <2>1, ReportsKept DEF IInv
  <2>7. Saves'
    <3>1. saved' = << >>
      BY <1>0 DEF IInv, Saves
    <3> QED
      BY <3>1, <2>1 DEF Saves
  <2> QED
    BY <1>3, <2>4, <2>5, <2>6, <2>7 DEF IInv
<1> QED
  BY <1>5, <1>6

\* Main takes a table; after the last it merges them and saves what is needed.
LEMMA CollectStep ==
    ASSUME IInv, Collect
    PROVE  IInv'
<1>0. /\ pc = "results" /\ results \in Seq(ended) /\ seen \in Nat /\ opt.workers \in Nat
      /\ UNCHANGED <<opt, corpus, basename, put, got, batch, ended, table, progress, trace_info>>
  BY OptTypes, FilesAssumption DEF Collect, IInv, Typed
<1>1. PICK own \in [Files -> Workers], H \in SUBSET Files : Book(own, H)
  BY DEF IInv
<1>2. H = Files /\ progress = << >>
  BY <1>0, <1>1 DEF Book
<1>3. Workers' = Workers /\ AllUnique' = AllUnique /\ (CrashesUsed' <=> CrashesUsed)
  BY <1>0, Static, StaticMain
<1>4. put' \in {0, Batches' + opt'.workers}
  BY <1>0, Static DEF IInv, Typed
<1>5. Reports'
  BY <1>0, ReportsKept DEF IInv
<1>6. pc' # "progress" => Book(own, H)'
  BY <1>0, <1>1, <1>2, BookKept
<1>7. CASE seen < opt.workers
  <2>1. /\ results # << >> /\ results' = Tail(results) /\ seen' = seen + 1
        /\ UNCHANGED <<pc, saved, todo>>
    BY <1>0, <1>7 DEF Collect
  <2>2. Typed'
    <3>1. seen' \in 0 .. NFiles + opt.workers
      BY <1>0, <1>7, <2>1, FilesAssumption
    <3>2. results' \in Seq(ended)
      BY <1>0, <2>1
    <3> QED
      BY <1>0, <1>3, <1>4, <2>1, <3>1, <3>2 DEF IInv, Typed
  <2>3. Saves'
    BY <1>0, <2>1, SavesKept DEF IInv
  <2> QED
    BY <1>0, <1>1, <1>3, <1>5, <1>6, <2>1, <2>2, <2>3 DEF IInv
<1>8. CASE ~(seen < opt.workers) /\ \A f \in Needed : Traced(f)
  <2> DEFINE s == SetToSeq(Needed)
  <2>1. /\ saved' = s /\ todo' = AllUnique \ UNION {PackOf(f) : f \in Needed} /\ pc' = "rest"
        /\ UNCHANGED <<results, seen>>
    BY <1>0, <1>8 DEF Collect
  <2>2. Needed \in SUBSET Files /\ \A f \in Needed : trace_info[f] # << >>
    BY <1>8 DEF Traced
  <2>3. /\ s \in Seq(Needed)
        /\ \A f \in Needed : \E i \in DOMAIN s : s[i] = f
    BY <2>2, FilesFinite, SetToSeqIs
  <2> HIDE DEF s
  <2>4. \A i \in DOMAIN s : s[i] \in Needed
    BY <2>3
  <2>5. s \in Seq(Files)
    BY <2>2, <2>3
  <2>6. todo' \subseteq Tuples
    BY <2>1 DEF AllUnique
  <2>7. Typed'
    BY <1>0, <1>3, <1>4, <2>1, <2>5, <2>6 DEF IInv, Typed
  <2>8. \A f : PackOf(f)' = PackOf(f)
    BY <1>0 DEF PackOf
  <2>9. Saves'
    <3>1. \A j \in DOMAIN saved' : trace_info'[saved'[j]] # << >>
      BY <1>0, <2>1, <2>2, <2>4
    <3>2. todo' \subseteq AllUnique'
      BY <1>3, <2>1
    <3>3. ASSUME NEW t \in AllUnique', t \notin todo'
          PROVE  \E j \in DOMAIN saved' : t \in PackOf(saved[j])'
      <4>1. PICK f \in Needed : t \in PackOf(f)
        BY <3>3, <1>3, <2>1
      <4>2. PICK j \in DOMAIN s : s[j] = f
        BY <2>3
      <4> QED
        BY <4>1, <4>2, <2>1, <2>8
    <3>4. ASSUME NEW j \in DOMAIN saved', NEW t \in todo' PROVE t \notin PackOf(saved[j])'
      <4>1. PICK f \in Needed : f = saved'[j]
        BY <2>1, <2>4
      <4>2. t \notin PackOf(f)
        BY <2>1
      <4> QED
        BY <4>1, <4>2, <2>8
    <3> QED
      BY <2>1, <3>1, <3>2, <3>3, <3>4 DEF Saves
  <2> QED
    BY <1>3, <1>5, <1>6, <2>1, <2>7, <2>9 DEF IInv
<1>9. CASE ~(seen < opt.workers) /\ ~ \A f \in Needed : Traced(f)
  <2>1. pc' = "raised" /\ UNCHANGED <<saved, todo, results, seen>>
    BY <1>0, <1>9 DEF Collect
  <2>2. Typed'
    BY <1>0, <1>3, <1>4, <2>1 DEF IInv, Typed
  <2>3. ~CrashesUsed
    <3>1. SUFFICES ASSUME CrashesUsed PROVE FALSE
      OBVIOUS
    <3>2. \A t \in AllUnique : Traced(Best(t))
      BY <1>1, <1>2, <3>1, BestKnown DEF IInv
    <3> QED
      BY <1>9, <3>2 DEF Needed
  <2>4. Saves'
    <3>1. \A j \in DOMAIN saved' : trace_info'[saved'[j]] # << >>
      BY <1>0, <2>1 DEF IInv, Saves
    <3> QED
      BY <1>3, <2>1, <2>3, <3>1 DEF Saves
  <2> QED
    BY <1>3, <1>5, <1>6, <2>1, <2>2, <2>4 DEF IInv
<1> QED
  BY <1>7, <1>8, <1>9

\* Main saves the best input for one of the rarest tuples.
LEMMA SaveRestStep ==
    ASSUME IInv, SaveRest
    PROVE  IInv'
<1>0. /\ pc = "rest" /\ saved \in Seq(Files) /\ todo \subseteq Tuples
      /\ UNCHANGED <<opt, corpus, basename, put, got, batch, ended, table, progress, results, seen,
                     trace_info>>
  BY DEF SaveRest, IInv, Typed
<1>1. PICK own \in [Files -> Workers], H \in SUBSET Files : Book(own, H)
  BY DEF IInv
<1>2. H = Files /\ progress = << >>
  BY <1>0, <1>1 DEF Book
<1>3. Workers' = Workers /\ AllUnique' = AllUnique /\ (CrashesUsed' <=> CrashesUsed)
  BY <1>0, Static, StaticMain
<1>4. put' \in {0, Batches' + opt'.workers}
  BY <1>0, Static DEF IInv, Typed
<1>5. Reports'
  BY <1>0, ReportsKept DEF IInv
<1>6. pc' # "progress" => Book(own, H)'
  BY <1>0, <1>1, <1>2, BookKept
<1>7. PICK t \in Rarest :
         IF Traced(Best(t))
         THEN /\ saved' = Append(saved, Best(t))
              /\ todo' = StillMissing(Best(t), t)
              /\ UNCHANGED pc
         ELSE pc' = "raised" /\ UNCHANGED <<saved, todo>>
  BY DEF SaveRest
<1>8. /\ t \in todo /\ todo \subseteq AllUnique
      /\ \A j \in DOMAIN saved : trace_info[saved[j]] # << >>
      /\ \A u \in AllUnique : u \in todo \/ \E j \in DOMAIN saved : u \in PackOf(saved[j])
      /\ \A j \in DOMAIN saved : \A u \in todo : u \notin PackOf(saved[j])
  BY <1>0, <1>7 DEF IInv, Saves, Rarest
<1>9. CASE Traced(Best(t))
  <2>0. PICK f \in Files : f = Best(t) /\ trace_info[f] # << >>
    BY <1>9 DEF Traced
  <2>1. saved' = Append(saved, f) /\ todo' = todo \ (PackOf(f) \cup {t}) /\ pc' = "rest"
    BY <1>0, <1>7, <1>9, <2>0 DEF StillMissing
  <2>2. /\ saved' \in Seq(Files) /\ DOMAIN saved' = 1 .. Len(saved) + 1
        /\ DOMAIN saved = 1 .. Len(saved) /\ Len(saved) \in Nat
        /\ saved'[Len(saved) + 1] = f
        /\ \A j \in 1 .. Len(saved) : saved'[j] = saved[j]
    BY <1>0, <2>1
  <2>3. \A g : PackOf(g)' = PackOf(g)
    BY <1>0 DEF PackOf
  <2>4. Typed'
    BY <1>0, <1>3, <1>4, <2>1, <2>2 DEF IInv, Typed
  <2>5. t \in PackOf(f)
    <3>1. PICK w \in Workers : Best(t) = table[w].m[t]
      BY <1>0, <1>8, BestIs DEF IInv
    <3>2. t \in Accepted(f)
      <4>1. f # NoFile
        BY FilesAssumption DEF Files, NoFile
      <4>2. t \in Tuples
        BY <1>0, <1>8
      <4> QED
        BY <1>1, <2>0, <3>1, <4>1, <4>2 DEF Book, TableFor, TupleFor
    <3>3. PackOf(f) = Accepted(f)
      BY <2>0 DEF IInv, Reports, Located, PackOf
    <3> QED
      BY <3>2, <3>3
  <2>6. Saves'
    <3>1. \A j \in DOMAIN saved' : j = Len(saved) + 1 \/ j \in 1 .. Len(saved)
      BY <2>2
    <3>2. \A j \in DOMAIN saved' : trace_info'[saved'[j]] # << >>
      BY <1>0, <1>8, <2>0, <2>2, <3>1
    <3>3. todo' \subseteq AllUnique'
      BY <1>3, <1>8, <2>1
    <3>4. ASSUME NEW u \in AllUnique', u \notin todo'
          PROVE  \E j \in DOMAIN saved' : u \in PackOf(saved[j])'
      <4>1. CASE u \in todo
        <5>1. u \in PackOf(f)
          BY <4>1, <3>4, <2>1, <2>5
        <5>2. Len(saved) + 1 \in DOMAIN saved' /\ saved'[Len(saved) + 1] = f
          BY <2>2
        <5>3. PICK j \in DOMAIN saved' : saved'[j] = f
          BY <5>2
        <5> QED
          BY <5>1, <5>3, <2>3
      <4>2. CASE u \notin todo
        <5>1. PICK j \in DOMAIN saved : u \in PackOf(saved[j])
          BY <4>2, <3>4, <1>3, <1>8
        <5>2. PICK g : g = saved[j]
          OBVIOUS
        <5>3. j \in DOMAIN saved' /\ saved'[j] = g
          BY <5>2, <2>2
        <5> QED
          BY <5>1, <5>2, <5>3, <2>3
      <4> QED
        BY <4>1, <4>2
    <3>5. ASSUME NEW j \in DOMAIN saved', NEW u \in todo' PROVE u \notin PackOf(saved[j])'
      <4>1. PICK g : g = saved'[j]
        OBVIOUS
      <4>2. u \notin PackOf(g)
        <5>1. CASE j = Len(saved) + 1
          BY <5>1, <4>1, <2>1, <2>2
        <5>2. CASE j \in 1 .. Len(saved)
          BY <5>2, <4>1, <2>1, <2>2, <1>8
        <5> QED
          BY <5>1, <5>2, <3>1
      <4> QED
        BY <4>1, <4>2, <2>3
    <3> QED
      BY <2>1, <3>2, <3>3, <3>4, <3>5 DEF Saves
  <2> QED
    BY <1>3, <1>5, <1>6, <2>1, <2>4, <2>6 DEF IInv
<1>10. CASE ~Traced(Best(t))
  <2>1. pc' = "raised" /\ UNCHANGED <<saved, todo>>
    BY <1>7, <1>10
  <2>2. Typed'
    BY <1>0, <1>3, <1>4, <2>1 DEF IInv, Typed
  <2>3. ~CrashesUsed
    BY <1>1, <1>2, <1>8, <1>10, BestKnown DEF IInv
  <2>4. Saves'
    <3>1. \A j \in DOMAIN saved' : trace_info'[saved'[j]] # << >>
      BY <1>0, <1>8, <2>1
    <3> QED
      BY <1>3, <2>1, <2>3, <3>1 DEF Saves
  <2> QED
    BY <1>3, <1>5, <1>6, <2>1, <2>2, <2>4 DEF IInv
<1> QED
  BY <1>9, <1>10

\* Main comes to the end.
LEMMA FinishStep ==
    ASSUME IInv, Finish
    PROVE  IInv'
<1>0. /\ pc = "rest" /\ todo = {} /\ pc' = "done"
      /\ UNCHANGED <<opt, corpus, basename, put, got, batch, ended, table, progress, results, seen,
                     trace_info, todo, saved>>
  BY DEF Finish
<1>1. PICK own \in [Files -> Workers], H \in SUBSET Files : Book(own, H)
  BY DEF IInv
<1>2. Workers' = Workers /\ AllUnique' = AllUnique
  BY <1>0, Static, StaticMain
<1>3. put' \in {0, Batches' + opt'.workers}
  BY <1>0, Static DEF IInv, Typed
<1>4. Typed'
  BY <1>0, <1>2, <1>3 DEF IInv, Typed
<1>5. Reports'
  BY <1>0, ReportsKept DEF IInv
<1>6. Book(own, H)'
  <2>1. H = Files /\ progress' = << >>
    BY <1>0, <1>1 DEF Book
  <2> QED
    BY <1>0, <1>1, <2>1, BookKept
<1>7. Saves'
  BY <1>0, <1>2, StaticMain DEF IInv, Saves, PackOf
<1> QED
  BY <1>2, <1>4, <1>5, <1>6, <1>7 DEF IInv

\* A step that changes nothing.
LEMMA StutterStep ==
    ASSUME IInv, UNCHANGED vars
    PROVE  IInv'
<1>0. UNCHANGED <<opt, corpus, basename, put, got, batch, ended, table, progress, results, pc, seen,
                  trace_info, todo, saved>>
  BY DEF vars
<1>1. PICK own \in [Files -> Workers], H \in SUBSET Files : Book(own, H)
  BY DEF IInv
<1>2. Workers' = Workers
  BY <1>0, Static
<1>3. put' \in {0, Batches' + opt'.workers}
  BY <1>0, Static DEF IInv, Typed
<1>4. Typed'
  BY <1>0, <1>2, <1>3 DEF IInv, Typed
<1>5. Reports' /\ Saves'
  BY <1>0, ReportsKept, SavesKept DEF IInv
<1>6. Book(own, H)'
  <2>1. /\ pc' = "progress" => seen' + Len(progress') = Cardinality(H)
        /\ pc' # "progress" => H = Files /\ progress' = << >>
    BY <1>0, <1>1 DEF Book
  <2> QED
    BY <1>0, <1>1, <2>1, BookKept
<1> QED
  BY <1>2, <1>4, <1>5, <1>6 DEF IInv

\* At the start no input is handled and the tables are empty.
LEMMA InitStep ==
    ASSUME Init
    PROVE  IInv
<1>0. /\ opt \in Options /\ corpus \in [Files -> Behaviours] /\ basename \in Naming
      /\ opt.workers \in Nat \ {0} /\ Batches \in Nat /\ 1 \in Workers
  BY OptTypes, BatchBounds DEF Init, Workers
<1>1. NewTable \in TableSet
  <2>1. << >> \in Seq((SUBSET Tuples) \ {{}})
    OBVIOUS
  <2>2. InfEnergy \in 1 .. InfEnergy
    BY EnergyAssumption DEF InfEnergy
  <2> QED
    BY <2>1, <2>2 DEF NewTable, TableSet
<1>2. Typed
  <2>1. batch \in [Workers -> Seq(ResultSet)]
    BY DEF Init
  <2>2. table \in [Workers -> TableSet]
    BY <1>1 DEF Init
  <2>3. put \in {0, Batches + opt.workers} /\ got \in 0 .. put
    BY DEF Init
  <2>4. seen \in 0 .. NFiles + opt.workers
    BY <1>0, FilesAssumption DEF Init
  <2>5. progress \in Seq(Item) /\ results \in Seq(ended) /\ saved \in Seq(Files)
    BY DEF Init
  <2> QED
    BY <1>0, <2>1, <2>2, <2>3, <2>4, <2>5 DEF Init, Typed
<1>3. Reports
  <2>1. DOMAIN progress = {}
    BY DEF Init
  <2>2. \A f \in Files : trace_info[f] = << >>
    BY DEF Init
  <2>3. \A w \in Workers : \A t \in Tuples : table[w].m[t] = NoFile
    BY DEF Init, NewTable
  <2> QED
    BY <2>1, <2>2, <2>3 DEF Reports
<1>4. Saves
  BY DEF Init, Saves
<1>5. PICK own \in [Files -> Workers] : TRUE
  <2>1. [f \in Files |-> 1] \in [Files -> Workers]
    BY <1>0
  <2> QED
    BY <2>1
<1>6. Book(own, {})
  <2>1. Cardinality({}) = 0
    BY FS_EmptySet
  <2>2. ASSUME NEW w \in Workers
        PROVE  TableFor(table[w], Part(own, {}, w)) /\ Queued(batch[w], own, {}, w)
    <3>1. Part(own, {}, w) = {} /\ table[w] = NewTable /\ batch[w] = << >>
      BY DEF Part, Init
    <3>2. Queued(batch[w], own, {}, w)
      BY <3>1 DEF Queued
    <3>3. Len(NewTable.pack) = 0
      BY DEF NewTable
    <3>4. ASSUME NEW t \in Tuples PROVE TupleFor(NewTable, {}, t)
      <4>1. /\ NewTable.counter[t] = 0 /\ NewTable.m[t] = NoFile
            /\ NewTable.best_energy[t] = InfEnergy
        BY DEF NewTable
      <4>2. {f \in {} : t \in Accepted(f)} = {}
        OBVIOUS
      <4> QED
        BY <4>1, <4>2, <2>1 DEF TupleFor
    <3>5. TableFor(NewTable, {})
      BY <3>3, <3>4, <1>1, <2>1 DEF TableFor
    <3> QED
      BY <3>1, <3>2, <3>5
  <2> QED
    BY <2>1, <2>2 DEF Book, Init
<1> QED
  BY <1>2, <1>3, <1>4, <1>5, <1>6 DEF IInv

\* Every step of the specification keeps the invariant.
LEMMA NextStep ==
    ASSUME DistinctNames, IInv, [Next]_vars
    PROVE  IInv'
<1>1. CASE Dispatch
  BY <1>1, DispatchStep
<1>2. ASSUME NEW w \in Workers, Get(w) PROVE IInv'
  BY <1>2, GetStep
<1>3. ASSUME NEW w \in Workers, Handle(w) PROVE IInv'
  BY <1>3, HandleStep
<1>4. CASE Gather
  BY <1>4, GatherStep
<1>5. CASE Collect
  BY <1>5, CollectStep
<1>6. CASE SaveRest
  BY <1>6, SaveRestStep
<1>7. CASE Finish
  BY <1>7, FinishStep
<1>8. CASE Over \/ UNCHANGED vars
  BY <1>8, StutterStep DEF Over
<1> QED
  BY <1>1, <1>2, <1>3, <1>4, <1>5, <1>6, <1>7, <1>8 DEF Next

-----------------------------------------------------------------------------
(* What follows from the invariant.                                        *)

\* What main reads back for an input is all its run reached, and something.
LEMMA TracedIs ==
    ASSUME IInv, NEW f \in Files, trace_info[f] # << >>
    PROVE  PackOf(f) = Accepted(f) /\ PackOf(f) = corpus[f].trace /\ Accepted(f) # {}
<1>1. PICK w \in Workers : /\ w = trace_info[f][1]
                           /\ trace_info[f][2] \in 1 .. Len(table[w].pack)
                           /\ table[w].pack[trace_info[f][2]] = Accepted(f)
  BY DEF IInv, Reports, Located
<1>2. table[w].pack \in Seq((SUBSET Tuples) \ {{}})
  BY DEF IInv, Typed, TableSet
<1>3. table[w].pack[trace_info[f][2]] \in (SUBSET Tuples) \ {{}}
  BY <1>1, <1>2
<1>4. PackOf(f) = Accepted(f) /\ Accepted(f) # {}
  BY <1>1, <1>3 DEF PackOf
<1> QED
  BY <1>4, AcceptedIs DEF IInv, Typed

\* The best input of a tuple reaches it.
LEMMA BestReaches ==
    ASSUME IInv, NEW t \in Tuples, Best(t) \in Files
    PROVE  t \in Accepted(Best(t))
<1>1. PICK w \in Workers : Best(t) = table[w].m[t]
  BY BestIs DEF IInv
<1>2. Best(t) # NoFile
  BY FilesAssumption DEF Files, NoFile
<1> QED
  BY <1>1, <1>2 DEF IInv, Book, TableFor, TupleFor

\* The invariant implies the type invariant that the runs check.
LEMMA InvTypes ==
    ASSUME IInv
    PROVE  TypeOK
<1>1. PICK own \in [Files -> Workers], H \in SUBSET Files : Book(own, H)
  BY DEF IInv
<1>2. ASSUME NEW w \in Workers
      PROVE  /\ table[w].m \in [Tuples -> Files \cup {NoFile}]
             /\ table[w].best_energy \in [Tuples -> 1 .. InfEnergy]
             /\ table[w].counter \in [Tuples -> 0 .. NFiles]
             /\ \A i \in DOMAIN table[w].pack : table[w].pack[i] \in (SUBSET Tuples) \ {{}}
             /\ Len(table[w].pack) <= NFiles /\ Len(table[w].pack) \in Nat
  <2>1. /\ table[w].m \in [Tuples -> Files \cup {NoFile}]
        /\ table[w].best_energy \in [Tuples -> 1 .. InfEnergy]
        /\ table[w].counter \in [Tuples -> Nat]
        /\ table[w].pack \in Seq((SUBSET Tuples) \ {{}})
    BY DEF IInv, Typed, TableSet
  <2>2. \A t \in Tuples : table[w].counter[t] \in 0 .. NFiles
    <3> TAKE t \in Tuples
    <3>1. {f \in Part(own, H, w) : t \in Accepted(f)} \in SUBSET Files
      BY DEF Part
    <3>2. table[w].counter[t] = Cardinality({f \in Part(own, H, w) : t \in Accepted(f)})
      BY <1>1 DEF Book, TableFor, TupleFor
    <3> QED
      BY <3>1, <3>2, FilesFinite
  <2>3. Len(table[w].pack) <= NFiles /\ Len(table[w].pack) \in Nat
    <3>1. Part(own, H, w) \in SUBSET Files
      BY DEF Part
    <3>2. Cardinality(Part(own, H, w)) \in 0 .. NFiles
      BY <3>1, FilesFinite
    <3>3. Len(table[w].pack) <= Cardinality(Part(own, H, w))
      BY <1>1 DEF Book, TableFor
    <3>4. Len(table[w].pack) \in Nat
      BY <2>1
    <3> QED
      BY <3>2, <3>3, <3>4, FilesAssumption
  <2>4. table[w].counter \in [Tuples -> 0 .. NFiles]
    BY <2>1, <2>2
  <2>5. \A i \in DOMAIN table[w].pack : table[w].pack[i] \in (SUBSET Tuples) \ {{}}
    <3>1. PICK S, p : S = (SUBSET Tuples) \ {{}} /\ p = table[w].pack
      OBVIOUS
    <3>2. p \in Seq(S)
      BY <2>1, <3>1
    <3>3. \A i \in DOMAIN p : p[i] \in S
      BY <3>2
    <3> QED
      BY <3>1, <3>3
  <2> QED
    BY <2>1, <2>3, <2>4, <2>5
<1>3. ASSUME NEW w \in Workers, NEW i \in DOMAIN batch[w]
      PROVE  batch[w][i] \in [idx : Files, tuples : SUBSET Tuples, crash : BOOLEAN,
                              energy : 0 .. MaxEnergy]
  <2>1. batch[w] \in Seq(ResultSet)
    BY DEF IInv, Typed
  <2>2. batch[w][i] \in ResultSet
    BY <2>1
  <2> QED
    BY <2>2 DEF ResultSet
<1>4. ASSUME NEW f \in Files, trace_info[f] # << >>
      PROVE  trace_info[f] \in Workers \X (1 .. NFiles)
  <2>1. /\ trace_info[f] = <<trace_info[f][1], trace_info[f][2]>>
        /\ trace_info[f][1] \in Workers
        /\ trace_info[f][2] \in 1 .. Len(table[trace_info[f][1]].pack)
    BY <1>4 DEF IInv, Reports, Located
  <2>2. trace_info[f][2] \in 1 .. NFiles
    BY <2>1, <1>2, FilesAssumption
  <2> QED
    BY <2>1, <2>2
<1>5. /\ \A i \in DOMAIN progress : progress[i] \in Item
      /\ \A i \in DOMAIN results : results[i] \in ended
      /\ \A i \in DOMAIN saved : saved[i] \in Files
  BY DEF IInv, Typed
<1> QED
  BY <1>2, <1>3, <1>4, <1>5 DEF IInv, Typed, TypeOK

\* What is saved is in the output directory at the end.
LEMMA OutputIs ==
    ASSUME DistinctNames, IInv, NEW j \in DOMAIN saved
    PROVE  saved[j] \in Output
<1>0. /\ saved \in Seq(Files) /\ DOMAIN saved = 1 .. Len(saved) /\ Len(saved) \in Nat
      /\ \A i \in DOMAIN saved : saved[i] \in Files
  BY DEF IInv, Typed
<1> DEFINE g == saved[j]  n == Len(saved)
           S == {n - i : i \in {k \in DOMAIN saved : saved[k] = g}}
<1>1. S \in SUBSET Nat /\ S # {}
  BY <1>0
<1>2. PICK a \in S : \A b \in S : a <= b
  BY <1>1, LeastOf
<1>3. PICK l \in DOMAIN saved : saved[l] = g /\ a = n - l
  BY <1>2
<1>4. ASSUME NEW k \in DOMAIN saved, k > l PROVE OutName(saved[k]) # OutName(saved[l])
  <2>1. saved[k] # g
    <3>1. SUFFICES ASSUME saved[k] = g PROVE FALSE
      OBVIOUS
    <3>2. n - k \in S
      BY <3>1
    <3>3. n - l <= n - k
      BY <3>2, <1>2, <1>3
    <3> QED
      BY <3>3, <1>0, <1>4
  <2>2. saved[k] \in Files /\ g \in Files /\ basename \in Naming
    BY <1>0 DEF IInv, Typed
  <2> QED
    BY <2>1, <2>2, <1>3 DEF OutName, DistinctNames
<1> HIDE DEF g
<1>5. g \in Output
  BY <1>3, <1>4 DEF Output
<1> QED
  BY <1>5 DEF g

\* At the end the output directory reaches what the corpus reached.
LEMMA InvCovers ==
    ASSUME DistinctNames, IInv
    PROVE  CoverageKept
<1>1. SUFFICES ASSUME pc = "done", NEW f \in Files, NEW t \in Accepted(f)
               PROVE  \E g \in Output : t \in corpus[g].trace
  BY DEF CoverageKept
<1>2. PICK own \in [Files -> Workers], H \in SUBSET Files : Book(own, H)
  BY DEF IInv
<1>3. H = Files
  BY <1>1, <1>2 DEF Book
<1>4. t \in Tuples
  BY AcceptedIs DEF IInv, Typed
<1>5. t \in AllUnique
  <2>1. Count(t) \in Nat /\ Count(t) >= 1
    BY <1>2, <1>3, <1>4, CountBounds DEF IInv
  <2> QED
    BY <2>1, <1>4 DEF AllUnique
<1>6. PICK j \in DOMAIN saved : t \in PackOf(saved[j])
  BY <1>1, <1>5 DEF IInv, Saves
<1>7. saved[j] \in Files /\ trace_info[saved[j]] # << >>
  BY DEF IInv, Typed, Saves
<1>8. t \in corpus[saved[j]].trace
  BY <1>6, <1>7, TracedIs
<1> QED
  BY <1>8, OutputIs

\* With the energies known and no crash set aside the choice is frugal.
LEMMA InvChooses ==
    ASSUME IInv, EnergiesKnown, CrashesUsed
    PROVE  FrugalChosen
<1>1. SUFFICES ASSUME pc \in {"rest", "done"}, NEW t \in AllUnique,
                      NEW g \in {f \in Files : t \in Accepted(f)}
               PROVE  t \in Accepted(Best(t)) /\ Preferable(Best(t), g)
  BY DEF FrugalChosen
<1>2. PICK own \in [Files -> Workers], H \in SUBSET Files : Book(own, H)
  BY DEF IInv
<1>3. H = Files /\ progress = << >>
  BY <1>1, <1>2 DEF Book
<1>4. t \in Tuples
  BY DEF AllUnique
<1>5. Best(t) \in Files
  BY <1>2, <1>3, BestKnown DEF IInv, Traced
<1>6. t \in Accepted(Best(t))
  BY <1>4, <1>5, BestReaches
<1>7. PICK v \in Workers : g \in Part(own, H, v)
  BY <1>3 DEF Part
<1>8. PICK w \in Workers :
        /\ Best(t) = table[w].m[t]
        /\ \/ table[w].best_energy[t] < table[v].best_energy[t]
           \/ /\ table[w].best_energy[t] = table[v].best_energy[t]
              /\ table[w].m[t] <= table[v].m[t]
  BY <1>4, BestIs DEF IInv
<1> DEFINE a == table[w].m[t]  b == table[v].m[t]
<1>9. /\ b # NoFile /\ table[v].best_energy[t] = Price(b) /\ Preferable(b, g)
      /\ b \in Files
  <2>1. TupleFor(table[v], Part(own, H, v), t) /\ table[v] \in TableSet
    BY <1>2, <1>4 DEF Book, TableFor
  <2>2. b \in Files \cup {NoFile}
    BY <2>1, <1>4 DEF TableSet
  <2> QED
    BY <2>1, <2>2, <1>1, <1>7 DEF TupleFor
<1>10. a \in Files /\ table[w].best_energy[t] = Price(a)
  <2>1. a # NoFile /\ a \in Files
    BY <1>5, <1>8, FilesAssumption DEF Files, NoFile
  <2> QED
    BY <2>1, <1>2, <1>4 DEF Book, TableFor, TupleFor
<1> HIDE DEF a, b
<1>11. /\ Price(a) \in Nat /\ Price(b) \in Nat /\ Price(g) \in Nat
       /\ a \in Nat /\ b \in Nat /\ g \in Nat
  <2>1. \A f \in Files : Price(f) \in 1 .. InfEnergy
    BY PriceIs DEF IInv, Typed
  <2> QED
    BY <2>1, <1>9, <1>10, EnergyAssumption DEF InfEnergy, Files
<1>12. Price(b) < Price(g) \/ (Price(b) = Price(g) /\ b <= g)
  BY <1>9, PriceIs DEF IInv, Typed
<1>13. Price(a) < Price(b) \/ (Price(a) = Price(b) /\ a <= b)
  BY <1>8, <1>9, <1>10 DEF a, b
<1>14. Price(a) < Price(g) \/ (Price(a) = Price(g) /\ a <= g)
  BY <1>11, <1>12, <1>13
<1>15. Preferable(a, g)
  BY <1>14, PriceIs DEF IInv, Typed
<1> QED
  BY <1>6, <1>8, <1>15 DEF a

\* A step saves only what reaches a tuple that nothing else saved reaches.
LEMMA InvPays ==
    ASSUME IInv, IInv', [Next]_vars, NEW i \in (Len(saved) + 1) .. Len(saved')
    PROVE  ~ (corpus[saved'[i]].trace \subseteq
                UNION {corpus[saved'[j]].trace : j \in DOMAIN saved' \ {i}})
<1>0. /\ saved \in Seq(Files) /\ Len(saved) \in Nat /\ saved' \in Seq(Files)
      /\ Len(saved') \in Nat /\ DOMAIN saved' = 1 .. Len(saved') /\ i \in DOMAIN saved'
      /\ Len(saved) < Len(saved')
  <2>1. saved \in Seq(Files) /\ saved' \in Seq(Files)
    BY DEF IInv, Typed
  <2>2. Len(saved) \in Nat /\ Len(saved') \in Nat /\ DOMAIN saved' = 1 .. Len(saved')
    BY <2>1
  <2> QED
    BY <2>1, <2>2
<1>1. PICK own \in [Files -> Workers], H \in SUBSET Files : Book(own, H)
  BY DEF IInv
<1>2. SUFFICES \E t \in corpus[saved'[i]].trace :
                 \A j \in DOMAIN saved' \ {i} : t \notin corpus[saved'[j]].trace
  OBVIOUS
<1>3. Collect \/ SaveRest
  <2>1. saved' # saved
    BY <1>0
  <2> QED
    BY <2>1 DEF Next, Dispatch, Get, Handle, Gather, Finish, Over, vars
<1>4. \A f \in Files : trace_info[f] # << >> =>
        PackOf(f) = Accepted(f) /\ PackOf(f) = corpus[f].trace
  BY TracedIs
<1>5. CASE Collect
  <2>0. pc = "results" /\ H = Files
    BY <1>1, <1>5 DEF Collect, Book
  <2>1. saved' = SetToSeq(Needed) /\ \A f \in Needed : Traced(f)
    <3>1. saved' # saved
      BY <1>0
    <3> QED
      BY <3>1, <1>5 DEF Collect
  <2>2. Needed \in SUBSET Files /\ \A f \in Needed : trace_info[f] # << >>
    BY <2>1 DEF Traced
  <2>3. /\ saved' \in Seq(Needed)
        /\ \A k, j \in DOMAIN saved' : saved'[k] = saved'[j] => k = j
    BY <2>1, <2>2, FilesFinite, SetToSeqIs
  <2>4. \A k \in DOMAIN saved' : saved'[k] \in Needed
    BY <2>3
  <2>5. PICK t \in AllUnique : Count(t) = 1 /\ saved'[i] = Best(t)
    BY <2>4, <1>0 DEF Needed
  <2>6. t \in Tuples /\ saved'[i] \in Files
    BY <2>2, <2>4, <1>0 DEF AllUnique
  <2>7. t \in Accepted(saved'[i])
    BY <2>5, <2>6, BestReaches
  <2>8. t \in corpus[saved'[i]].trace
    BY <2>7, <2>2, <2>4, <2>6, <1>0, <1>4
  <2>9. ASSUME NEW j \in DOMAIN saved' \ {i} PROVE t \notin corpus[saved'[j]].trace
    <3>1. SUFFICES ASSUME t \in corpus[saved'[j]].trace PROVE FALSE
      OBVIOUS
    <3>2. saved'[j] \in Files /\ saved'[j] # saved'[i]
      BY <2>2, <2>3, <2>4, <1>0
    <3>3. t \in Accepted(saved'[j])
      BY <3>1, <3>2, <2>2, <2>4, <1>4
    <3>4. Count(t) >= 2
      BY <3>2, <3>3, <2>0, <2>6, <2>7, <1>1, CountBounds DEF IInv
    <3> QED
      BY <3>4, <2>5
  <2> QED
    BY <2>8, <2>9
<1>6. CASE SaveRest
  <2>0. pc = "rest"
    BY <1>6 DEF SaveRest
  <2>1. PICK t \in Rarest : Traced(Best(t)) /\ saved' = Append(saved, Best(t))
    <3>1. saved' # saved
      BY <1>0
    <3> QED
      BY <3>1, <1>6 DEF SaveRest
  <2>2. PICK f \in Files : f = Best(t) /\ trace_info[f] # << >>
    BY <2>1 DEF Traced
  <2>3. /\ i = Len(saved) + 1 /\ saved'[i] = f
        /\ \A j \in DOMAIN saved' \ {i} : j \in DOMAIN saved /\ saved'[j] = saved[j]
    <3>1. saved' = Append(saved, f)
      BY <2>1, <2>2
    <3> QED
      BY <3>1, <1>0
  <2>4. t \in todo /\ t \in Tuples
    BY DEF Rarest, IInv, Typed
  <2>5. t \in corpus[f].trace
    BY <2>2, <2>4, <1>4, BestReaches
  <2>6. ASSUME NEW j \in DOMAIN saved' \ {i} PROVE t \notin corpus[saved'[j]].trace
    <3>1. j \in DOMAIN saved /\ saved'[j] = saved[j]
      BY <2>3
    <3>2. t \notin PackOf(saved[j]) /\ trace_info[saved[j]] # << >>
      BY <3>1, <2>0, <2>4 DEF IInv, Saves
    <3>3. saved[j] \in Files
      BY <3>1, <1>0
    <3> QED
      BY <3>1, <3>2, <3>3, <1>4
  <2> QED
    BY <2>3, <2>5, <2>6
<1> QED
  BY <1>3, <1>5, <1>6

-----------------------------------------------------------------------------
(* The theorems.                                                           *)

\* The invariant holds of every reachable state.
THEOREM Invariant ==
    ASSUME DistinctNames
    PROVE  Spec => []IInv
<1>1. Init => IInv
  BY InitStep
<1>2. IInv /\ [Next]_vars => IInv'
  BY NextStep
<1> QED
  BY <1>1, <1>2, PTL DEF Spec

\* The queues, tables and main's own state have the types the runs check, and
\* the input chosen for each tuple is the one of lowest energy over all inputs
\* that reach it, in whatever order the workers took and finished their
\* batches (Worker.run() and the merge of main()).
THEOREM ChoiceIsSound ==
    ASSUME DistinctNames
    PROVE  Spec => [](TypeOK /\ (EnergiesKnown /\ CrashesUsed => ChoiceSound))
<1>1. IInv => TypeOK /\ (EnergiesKnown /\ CrashesUsed => ChoiceSound)
  BY InvTypes, InvChooses DEF ChoiceSound
<1> QED
  BY <1>1, Invariant, PTL

\* The output directory reaches every tuple that an accepted run of the corpus
\* reached, whatever the options, if afl-cmin.py comes to its end.
THEOREM CoverageIsKept ==
    ASSUME DistinctNames
    PROVE  Spec => []CoverageKept
<1>1. IInv => CoverageKept
  BY InvCovers
<1> QED
  BY <1>1, Invariant, PTL

\* No input is saved that adds nothing to the others, and none twice.
THEOREM EverySavePays ==
    ASSUME DistinctNames
    PROVE  Spec => EachSavePays
<1>1. IInv /\ IInv' /\ [Next]_vars =>
        [\A i \in (Len(saved) + 1) .. Len(saved') :
           ~ (corpus[saved'[i]].trace \subseteq
                UNION {corpus[saved'[j]].trace : j \in DOMAIN saved' \ {i}})]_vars
  BY InvPays
<1> QED
  BY <1>1, Invariant, PTL DEF Spec, EachSavePays

\* Main does not end in an exception: for every tuple to be saved it knows the
\* trace of the chosen input, unless a crash was accepted and set aside.
THEOREM NoException ==
    ASSUME DistinctNames
    PROVE  Spec => [](CrashesUsed => pc # "raised")
<1>1. IInv => (CrashesUsed => pc # "raised")
  BY DEF IInv, Saves
<1> QED
  BY <1>1, Invariant, PTL
=============================================================================
