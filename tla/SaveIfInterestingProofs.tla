------------------------ MODULE SaveIfInterestingProofs ------------------------
(***************************************************************************)
(* Proofs about SaveIfInteresting for any map, any hit counts, any number  *)
(* of calls and every configuration.  The trace map is changed in place,   *)
(* so the invariant says at every place of the function what lies in it,   *)
(* and which of the coverage taken off virgin_bits is not yet in the queue.*)
(***************************************************************************)
EXTENDS SaveIfInteresting, TLAPS

Values == {0, 3} \cup Bits
Maps   == [Edges -> Values]

Locals == [fault : Faults, classified : BOOLEAN, bits_counted : BOOLEAN, cksumed : BOOLEAN,
           new_bits : 0..2, cksum : Maps, san_fault : {"ok", "crash"}, keeping : BOOLEAN]

--------------------------------------------------------------------------------
(* The inductive invariant                                                  *)

Typed ==
    /\ cfg \in Configs /\ trace \in Maps /\ raw \in Traces
    /\ virgin_bits \in [Edges -> SUBSET Bits] /\ virgin_tmout \in [Edges -> SUBSET Bits]
    /\ virgin_crash \in [Edges -> SUBSET Bits]
    /\ pc \in {"idle", "san", "normal", "queue", "fault", "crash"}
    /\ loc \in Locals /\ calls \in 0..MaxCalls
    /\ hangs \in Seq(Maps) /\ Len(hangs) <= KeepHangs
    /\ crashes \in Seq([Edges -> BOOLEAN]) /\ Len(crashes) <= KeepCrashes
    /\ fed \in Seq(Maps) /\ var_bytes \subseteq Edges

\* The flags tell what t is made of the raw trace r.
Flagged(l, t, r) ==
    /\ t = IF l.classified THEN Classify(r) ELSE r
    /\ l.cksumed => l.classified /\ l.cksum = Classify(r)
    /\ l.bits_counted /\ l.new_bits > 0 => l.classified

\* What is in the trace map.  The flags can be relied on until the entry is saved.
FlagsInv ==
    /\ pc \in {"san", "normal", "queue"} => Flagged(loc, trace, raw)
    /\ pc = "san" => ~loc.bits_counted /\ (cfg.fast => loc.cksumed)
    /\ pc # "idle" => trace \in {raw, Classify(raw)}

\* New coverage is taken off virgin_bits before the entry that has it is queued.  A
\* byte is marked as varying, and given up, only if an entry varies in it.
Covered(e) == UNION {BitsOf[t[e]] : t \in KeptTraces}
Varies(e)  == \E n \in queue : \E t, w \in n.traces : t[e] # w[e]
Pending    == pc \in {"normal", "queue"} /\ loc.bits_counted /\ loc.new_bits > 0
CoverInv   ==
    /\ \A e \in Edges \ var_bytes :
         Bits \ virgin_bits[e] \subseteq Covered(e) \cup (IF Pending THEN BitsOf[trace[e]] ELSE {})
    /\ \A e \in var_bytes : Varies(e)

\* virgin_crash lacks exactly what the saved crashes have.
CrashBit(c, e) == IF c[e] THEN 128 ELSE 1
CrashInv ==
    /\ IsInjective(crashes)
    /\ \A e \in Edges : Bits \ virgin_crash[e] = {CrashBit(crashes[i], e) : i \in DOMAIN crashes}

\* virgin_tmout lacks what the saved hangs have.
HangInv ==
    /\ IsInjective(hangs)
    /\ \A i \in DOMAIN hangs, e \in Edges : BitsOf[hangs[i][e]] \cap virgin_tmout[e] = {}

\* Every abstraction remembers what it has let through, each in its own way.
Remembered(t) ==
    /\ cfg.san = "simplify" => t \in simplified_n_fuzz
    /\ cfg.san = "coverage" => \A e \in Edges : BitsOf[t[e]] \cap virgin_bits[e] = {}
    /\ cfg.san = "unique"   => t \in n_fuzz_dup
FedInv ==
    /\ (cfg.san = "unique" => cfg.fast) => IsInjective(fed)
    /\ \A i \in DOMAIN fed : Remembered(fed[i])

VerdictInv == Typed /\ ChecksumIsTrace /\ FlagsInv /\ CoverInv /\ CrashInv /\ HangInv /\ FedInv

--------------------------------------------------------------------------------
(* The map                                                                  *)

\* What the tables are used for: a value is bits of the map, none only for 0, and
\* classifying it tells hit from not hit.
LEMMA ValueFacts ==
    ASSUME NEW v \in Values
    PROVE  /\ BitsOf[v] \subseteq Bits /\ (BitsOf[v] = {} <=> v = 0)
           /\ ClassOf[v] \in Values /\ (ClassOf[v] = 0 <=> v = 0)
<1>1. BitsOf[v] = IF v = 3 THEN {1, 2} ELSE {v} \ {0}
  BY DEF Values, BitsOf
<1>2. ClassOf[v] = CASE v = 3 -> 4 [] v \in {4, 8, 16, 32} -> 2 * v [] OTHER -> v
  BY DEF Values, ClassOf
<1>3. ClassOf[v] \in Values /\ (ClassOf[v] = 0 <=> v = 0)
  BY <1>2 DEF Values, Bits
<1>4. v # 0 /\ v # 3 => v \in Bits
  BY DEF Values
<1>5. BitsOf[v] \subseteq Bits /\ (BitsOf[v] = {} <=> v = 0)
  BY <1>1, <1>4 DEF Bits
<1> QED
  BY <1>3, <1>5

\* A trace is a map of values, and stays one.
LEMMA MapFacts ==
    /\ Traces \subseteq Maps
    /\ [e \in Edges |-> 0] \in Traces
    /\ \A t \in Maps : /\ Classify(t) \in Maps /\ Simplify(t) \in Maps
                       /\ \A e \in Edges : Classify(t)[e] = 0 <=> t[e] = 0
    /\ \A t \in Maps, e \in Edges :
         BitsOf[Simplify(t)[e]] = IF t[e] = 0 THEN {1} ELSE {128}
<1>1. Traces \subseteq Maps /\ [e \in Edges |-> 0] \in Traces
  <2>1. 0 \in Counts /\ \A c \in Counts : c \in Values
    BY SaveAssumption DEF Values, Bits
  <2> QED
    BY <2>1 DEF Traces, Maps
<1>2. ASSUME NEW t \in Maps
      PROVE  /\ Classify(t) \in Maps /\ Simplify(t) \in Maps
             /\ \A e \in Edges : Classify(t)[e] = 0 <=> t[e] = 0
  BY ValueFacts DEF Maps, Classify, Simplify, Values, Bits
<1>3. ASSUME NEW t \in Maps, NEW e \in Edges
      PROVE  BitsOf[Simplify(t)[e]] = IF t[e] = 0 THEN {1} ELSE {128}
  BY DEF Simplify, BitsOf, Bits
<1> QED
  BY <1>1, <1>2, <1>3

\* has_new_bits() answers 0 exactly if the trace has no bit that is still virgin, and
\* then marks nothing.
LEMMA NewBitsFacts ==
    ASSUME NEW v \in [Edges -> SUBSET Bits], NEW t \in Maps
    PROVE  /\ NewBits(v, t) \in 0..2
           /\ NewBits(v, t) = 0 <=> \A e \in Edges : BitsOf[t[e]] \cap v[e] = {}
           /\ NewBits(v, t) = 0 => Seen(v, t) = v
           /\ Seen(v, t) \in [Edges -> SUBSET Bits]
           /\ \A e \in Edges : Seen(v, t)[e] = v[e] \ BitsOf[t[e]]
<1>1. ASSUME NEW e \in Edges, t[e] # 0, v[e] = Bits
      PROVE  BitsOf[t[e]] \cap v[e] # {}
  <2>1. t[e] \in Values
    BY DEF Maps
  <2> QED
    BY <1>1, <2>1, ValueFacts
<1>2. NewBits(v, t) = 0 <=> \A e \in Edges : BitsOf[t[e]] \cap v[e] = {}
  BY <1>1 DEF NewBits
<1>3. \A e \in Edges : Seen(v, t)[e] = v[e] \ BitsOf[t[e]]
  BY DEF Seen
<1>4. ASSUME NewBits(v, t) = 0 PROVE Seen(v, t) = v
  <2>1. \A e \in Edges : v[e] \ BitsOf[t[e]] = v[e]
    BY <1>2, <1>4
  <2> QED
    BY <2>1 DEF Seen
<1> QED
  BY <1>2, <1>3, <1>4 DEF NewBits, Seen

--------------------------------------------------------------------------------
(* The helpers                                                              *)

\* classify_if_necessary()
LEMMA Classifies ==
    ASSUME NEW l \in Locals, NEW t
    PROVE  ClassifyIfNecessary([l |-> l, t |-> t]) =
             [l |-> [l EXCEPT !.classified = TRUE],
              t |-> IF l.classified THEN t ELSE Classify(t)]
BY DEF ClassifyIfNecessary, Locals

\* calculate_cksum_if_necessary()
LEMMA Cksums ==
    ASSUME NEW l \in Locals, NEW t
    PROVE  LET c == IF l.classified THEN t ELSE Classify(t) IN
           CksumIfNecessary([l |-> l, t |-> t]) =
             IF l.cksumed THEN [l |-> l, t |-> t]
             ELSE [l |-> [l EXCEPT !.classified = TRUE, !.cksum = c, !.cksumed = TRUE], t |-> c]
<1> DEFINE c == IF l.classified THEN t ELSE Classify(t)
           k == [l EXCEPT !.classified = TRUE]
<1>1. ClassifyIfNecessary([l |-> l, t |-> t]) = [l |-> k, t |-> c]
  BY Classifies
<1>2. [[l |-> k, t |-> c] EXCEPT
          !.l = [@ EXCEPT !.cksum = [l |-> k, t |-> c].t, !.cksumed = TRUE]] =
        [l |-> [k EXCEPT !.cksum = c, !.cksumed = TRUE], t |-> c]
  OBVIOUS
<1> QED
  BY <1>1, <1>2 DEF CksumIfNecessary, Locals

\* calculate_new_bits_if_necessary()
LEMMA CountsBits ==
    ASSUME NEW l \in Locals, NEW t
    PROVE  LET c == IF l.classified THEN t ELSE Classify(t)
               n == NewBits(virgin_bits, c)
           IN  NewBitsIfNecessary([l |-> l, t |-> t]) =
                 IF l.bits_counted THEN [l |-> l, t |-> t]
                 ELSE [l |-> [(IF n = 0 THEN l ELSE [l EXCEPT !.classified = TRUE])
                                 EXCEPT !.new_bits = n, !.bits_counted = TRUE],
                       t |-> IF n = 0 THEN t ELSE c]
<1> DEFINE c == IF l.classified THEN t ELSE Classify(t)
           k == [l EXCEPT !.classified = TRUE]
           n == NewBits(virgin_bits, c)
<1>1. ClassifyIfNecessary([l |-> l, t |-> t]) = [l |-> k, t |-> c]
  BY Classifies
<1> HIDE DEF c, k
<1>2. n = NewBits(virgin_bits, [l |-> k, t |-> c].t)
  OBVIOUS
<1> HIDE DEF n
<1>3. CASE l.bits_counted
  BY <1>3 DEF NewBitsIfNecessary
<1>4. CASE ~l.bits_counted /\ n = 0
  BY <1>1, <1>2, <1>4 DEF NewBitsIfNecessary, n, k, c
<1>5. CASE ~l.bits_counted /\ n # 0
  <2>1. ASSUME NEW s, s = [l |-> l, t |-> t],
               NEW v, v = ClassifyIfNecessary(s), v.l = k, v.t = c
        PROVE  NewBitsIfNecessary(s) =
                 [l |-> [k EXCEPT !.new_bits = n, !.bits_counted = TRUE], t |-> c]
    <3>1. ~s.l.bits_counted /\ n = NewBits(virgin_bits, v.t)
      BY <1>2, <1>5, <2>1
    <3> QED
      BY <1>5, <2>1, <3>1 DEF NewBitsIfNecessary
  <2>2. NewBitsIfNecessary([l |-> l, t |-> t]) =
          [l |-> [k EXCEPT !.new_bits = n, !.bits_counted = TRUE], t |-> c]
    BY <1>1, <2>1
  <2> QED
    BY <1>5, <2>2 DEF n, k, c
<1> QED
  BY <1>3, <1>4, <1>5

\* Computing the checksum makes it that of the raw trace, classified once.
LEMMA CksumEffect ==
    ASSUME NEW l \in Locals, NEW r \in Maps, NEW t, Flagged(l, t, r),
           NEW u, u = CksumIfNecessary([l |-> l, t |-> t])
    PROVE  /\ u.l \in Locals /\ u.t = Classify(r) /\ Flagged(u.l, u.t, r)
           /\ u.l.cksumed /\ u.l.classified /\ u.l.cksum = Classify(r)
           /\ u.l.bits_counted = l.bits_counted /\ u.l.new_bits = l.new_bits
           /\ u.l.fault = l.fault /\ u.l.san_fault = l.san_fault
           /\ u = [l |-> u.l, t |-> u.t]
<1>0. Classify(r) \in Maps
  BY MapFacts
<1>1. CASE l.cksumed
  <2>1. u = [l |-> l, t |-> t]
    BY <1>1, Cksums
  <2> QED
    BY <1>1, <2>1 DEF Flagged
<1>2. CASE ~l.cksumed
  <2>1. (IF l.classified THEN t ELSE Classify(t)) = Classify(r)
    BY DEF Flagged
  <2> DEFINE c == Classify(r)
             m == [l EXCEPT !.classified = TRUE, !.cksum = c, !.cksumed = TRUE]
  <2>2. u = [l |-> m, t |-> c]
    BY <1>2, <2>1, Cksums
  <2> HIDE DEF c
  <2>3. m \in Locals
    BY <1>0 DEF Locals, c
  <2>4. /\ m.classified /\ m.cksumed /\ m.cksum = c /\ m.bits_counted = l.bits_counted
        /\ m.new_bits = l.new_bits /\ m.fault = l.fault /\ m.san_fault = l.san_fault
    BY DEF Locals
  <2> HIDE DEF m
  <2>5. u.l = m /\ u.t = c
    BY <2>2
  <2>6. Flagged(m, c, r)
    BY <2>4 DEF Flagged, c
  <2> QED
    BY <2>2, <2>3, <2>4, <2>5, <2>6 DEF c
<1> QED
  BY <1>1, <1>2

\* Counting the new bits: what it finds is marked as seen, classified and not before.
LEMMA CountEffect ==
    ASSUME NEW l \in Locals, NEW r \in Maps, NEW t, Flagged(l, t, r),
           virgin_bits \in [Edges -> SUBSET Bits],
           NEW u, u = NewBitsIfNecessary([l |-> l, t |-> t]),
           NEW v, v = VirginAfter([l |-> l, t |-> t], u)
    PROVE  /\ u.l \in Locals /\ u.t \in Maps /\ v \in [Edges -> SUBSET Bits]
           /\ u.l.bits_counted /\ Flagged(u.l, u.t, r)
           /\ u.l.cksumed = l.cksumed /\ u.l.cksum = l.cksum
           /\ u.l.fault = l.fault /\ u.l.san_fault = l.san_fault
           /\ l.classified => u.t = t
           /\ l.bits_counted => u.l = l /\ u.t = t /\ v = virgin_bits
           /\ ~l.bits_counted /\ u.l.new_bits = 0 => v = virgin_bits
           /\ ~l.bits_counted /\ u.l.new_bits > 0 =>
                /\ \A e \in Edges : v[e] = virgin_bits[e] \ BitsOf[u.t[e]]
                /\ \E e \in Edges : BitsOf[u.t[e]] \cap virgin_bits[e] # {}
<1>0. Classify(r) \in Maps /\ t \in Maps
  BY MapFacts DEF Flagged
<1>1. CASE l.bits_counted
  <2>1. u = [l |-> l, t |-> t]
    BY <1>1, CountsBits
  <2>2. v = virgin_bits
    BY <1>1 DEF VirginAfter
  <2>3. u.l = l /\ u.t = t
    BY <2>1
  <2> QED
    BY <1>0, <1>1, <2>2, <2>3
<1>2. CASE ~l.bits_counted
  <2>1. (IF l.classified THEN t ELSE Classify(t)) = Classify(r)
    BY DEF Flagged
  <2> DEFINE c == Classify(r)
             n == NewBits(virgin_bits, c)
             k == IF n = 0 THEN l ELSE [l EXCEPT !.classified = TRUE]
             m == [k EXCEPT !.new_bits = n, !.bits_counted = TRUE]
             w == IF n = 0 THEN t ELSE c
  <2>2. u = [l |-> m, t |-> w]
    BY <1>2, <2>1, CountsBits
  <2>3. /\ n \in 0..2 /\ Seen(virgin_bits, c) \in [Edges -> SUBSET Bits]
        /\ \A e \in Edges : Seen(virgin_bits, c)[e] = virgin_bits[e] \ BitsOf[c[e]]
        /\ n # 0 => \E e \in Edges : BitsOf[c[e]] \cap virgin_bits[e] # {}
    BY <1>0, NewBitsFacts
  <2>4. c \in Maps /\ w \in Maps
    BY <1>0
  <2> HIDE DEF c, n
  <2>5. k \in Locals
    BY DEF Locals
  <2>6. m \in Locals /\ m.new_bits = n /\ m.bits_counted
    BY <2>3, <2>5 DEF Locals
  <2>7. /\ m.classified <=> l.classified \/ n # 0
        /\ m.cksumed = l.cksumed /\ m.cksum = l.cksum
        /\ m.fault = l.fault /\ m.san_fault = l.san_fault
    BY DEF Locals
  <2> HIDE DEF k, m
  <2>8. v = IF n > 0 THEN Seen(virgin_bits, w) ELSE virgin_bits
    BY <1>2, <2>2, <2>6 DEF VirginAfter
  <2>9. l.classified => w = t
    BY DEF Flagged, c
  <2>10. w = IF m.classified THEN Classify(r) ELSE r
    BY <2>7 DEF Flagged, c
  <2>11. Flagged(m, w, r)
    <3>1. n > 0 => n # 0
      BY <2>3
    <3>2. l.cksumed => l.classified /\ l.cksum = Classify(r)
      BY DEF Flagged
    <3> QED
      BY <2>6, <2>7, <2>10, <3>1, <3>2 DEF Flagged
  <2> QED
    BY <1>2, <2>2, <2>3, <2>4, <2>6, <2>7, <2>8, <2>9, <2>11
<1> QED
  BY <1>1, <1>2

--------------------------------------------------------------------------------
(* Steps that leave a part alone                                            *)

\* Adding something new to a list without repetitions.
LEMMA AppendNew ==
    ASSUME NEW S, NEW s \in Seq(S), NEW x \in S
    PROVE  /\ Append(s, x) \in Seq(S) /\ Len(Append(s, x)) = Len(s) + 1
           /\ DOMAIN Append(s, x) = DOMAIN s \cup {Len(s) + 1} /\ Len(s) + 1 \notin DOMAIN s
           /\ \A i \in DOMAIN s : Append(s, x)[i] = s[i]
           /\ Append(s, x)[Len(s) + 1] = x
           /\ IsInjective(s) /\ (\A i \in DOMAIN s : s[i] # x) => IsInjective(Append(s, x))
<1>1. /\ Append(s, x) \in Seq(S) /\ Len(Append(s, x)) = Len(s) + 1
      /\ DOMAIN Append(s, x) = DOMAIN s \cup {Len(s) + 1} /\ Len(s) + 1 \notin DOMAIN s
      /\ \A i \in DOMAIN s : Append(s, x)[i] = s[i]
      /\ Append(s, x)[Len(s) + 1] = x
  OBVIOUS
<1>2. ASSUME NEW y, y = Append(s, x), IsInjective(s), \A i \in DOMAIN s : s[i] # x
      PROVE  IsInjective(y)
  BY <1>1, <1>2 DEF IsInjective
<1> QED
  BY <1>1, <1>2

\* The crashes, the hangs and the list of the sanitizers, when nothing is added.
LEMMA QuietCrash == CrashInv /\ UNCHANGED <<virgin_crash, crashes>> => CrashInv'
BY DEF CrashInv

\* The hangs, when nothing is added.
LEMMA QuietHang == HangInv /\ UNCHANGED <<virgin_tmout, hangs>> => HangInv'
BY DEF HangInv

\* The list of the sanitizers, when nothing is added: virgin_bits only loses bits.
LEMMA QuietFed ==
    ASSUME FedInv, UNCHANGED <<cfg, sanVars>>,
           \A e \in Edges : virgin_bits'[e] \subseteq virgin_bits[e]
    PROVE  FedInv'
<1>1. fed' = fed /\ simplified_n_fuzz' = simplified_n_fuzz /\ n_fuzz_dup' = n_fuzz_dup /\ cfg' = cfg
  BY DEF sanVars
<1>2. (\A i \in DOMAIN fed : Remembered(fed[i]))'
  BY <1>1 DEF FedInv, Remembered
<1> QED
  BY <1>1, <1>2 DEF FedInv

\* The locals of a new call.
LEMMA FreshFacts ==
    ASSUME NEW f \in Faults
    PROVE  /\ Fresh(f) \in Locals /\ Fresh(f).fault = f /\ Fresh(f).san_fault = "ok"
           /\ ~Fresh(f).classified /\ ~Fresh(f).bits_counted /\ ~Fresh(f).cksumed
           /\ \A t : Flagged(Fresh(f), t, t)
<1>1. [e \in Edges |-> 0] \in Maps
  BY MapFacts
<1>2. Fresh(f) \in Locals
  BY <1>1 DEF Fresh, Locals
<1>3. /\ Fresh(f).fault = f /\ Fresh(f).san_fault = "ok"
      /\ ~Fresh(f).classified /\ ~Fresh(f).bits_counted /\ ~Fresh(f).cksumed
  BY DEF Fresh
<1> QED
  BY <1>2, <1>3 DEF Flagged

\* Coverage is kept when the verdict is over or nothing has been counted.
LEMMA QuietCover ==
    ASSUME CoverInv, ~Pending, queue' = queue, var_bytes' = var_bytes, virgin_bits' = virgin_bits
    PROVE  CoverInv'
<1>1. \A e \in Edges \ var_bytes : Bits \ virgin_bits'[e] \subseteq Covered(e)
  BY DEF CoverInv
<1>2. \A e : Covered(e)' = Covered(e) /\ Varies(e)' = Varies(e)
  BY DEF Covered, KeptTraces, Varies
<1> QED
  BY <1>1, <1>2 DEF CoverInv

\* The checksums, when no entry is added.
LEMMA QuietEntries == ChecksumIsTrace /\ queue' = queue => ChecksumIsTrace'
BY DEF ChecksumIsTrace

\* Returning to the main loop ends all obligations but those of what is kept.
LEMMA ReturnKeeps ==
    ASSUME VerdictInv, Return, trace' \in Maps, raw' \in Traces, ~Pending,
           UNCHANGED <<cfg, virgin_bits, sanVars, calls, queue, var_bytes>>
    PROVE  /\ pc' = "idle" /\ loc' \in Locals /\ fed' \in Seq(Maps)
           /\ ChecksumIsTrace' /\ FlagsInv' /\ CoverInv' /\ FedInv'
<1>1. pc' = "idle" /\ loc' \in Locals
  BY FreshFacts DEF Return, Faults
<1>2. ChecksumIsTrace' /\ CoverInv' /\ FedInv'
  BY QuietEntries, QuietCover, QuietFed DEF VerdictInv
<1> QED
  BY <1>1, <1>2 DEF FlagsInv, VerdictInv, Typed, sanVars

--------------------------------------------------------------------------------
(* The steps                                                                *)

\* Nothing has been run yet.
LEMMA InitHolds == Init => VerdictInv
<1> SUFFICES ASSUME Init PROVE VerdictInv
  OBVIOUS
<1>1. loc \in Locals
  BY FreshFacts DEF Init, Faults
<1>2. Typed
  BY <1>1, MapFacts, SaveAssumption DEF Init, Typed
<1>3. FlagsInv /\ CoverInv /\ ChecksumIsTrace
  BY DEF Init, FlagsInv, CoverInv, ChecksumIsTrace
<1>4. CrashInv /\ HangInv /\ FedInv
  BY DEF Init, CrashInv, HangInv, FedInv, IsInjective
<1> QED
  BY <1>2, <1>3, <1>4 DEF VerdictInv

\* A call begins with a fresh trace, unless a schedule classifies it for its checksum.
LEMMA CallKeeps == VerdictInv /\ Call => VerdictInv'
<1> SUFFICES ASSUME VerdictInv, Call PROVE VerdictInv'
  OBVIOUS
<1>1. PICK f \in Faults, t \in Traces :
         /\ raw' = t
         /\ IF f = "tmout" /\ cfg.ignore
            THEN /\ trace' = IF cfg.fast THEN Classify(t) ELSE t
                 /\ UNCHANGED <<pc, loc>>
            ELSE LET s0 == [l |-> Fresh(f), t |-> t]
                     s  == IF cfg.fast THEN CksumIfNecessary(s0) ELSE s0
                 IN  /\ loc' = s.l /\ trace' = s.t
                     /\ pc' = CASE f # cfg.crash_mode -> "fault"
                                [] cfg.san = "none"   -> "normal"
                                [] OTHER              -> "san"
  BY DEF Call
<1>2. /\ pc = "idle" /\ calls' \in 0..MaxCalls
      /\ UNCHANGED <<cfg, virginVars, sanVars, keptVars>>
  BY SaveAssumption DEF Call, VerdictInv, Typed
<1>3. t \in Maps /\ Classify(t) \in Maps
  BY MapFacts
<1>4. /\ trace' \in Maps /\ trace' \in {raw', Classify(raw')} /\ loc' \in Locals
      /\ pc' \in {"idle", "fault", "normal", "san"}
      /\ pc' # "idle" => /\ Flagged(loc', trace', raw') /\ ~loc'.bits_counted
                         /\ cfg.fast => loc'.cksumed
  <2>1. CASE f = "tmout" /\ cfg.ignore
    BY <1>1, <1>2, <1>3, <2>1 DEF VerdictInv, Typed
  <2>2. CASE ~(f = "tmout" /\ cfg.ignore) /\ cfg.fast
    <3>1. PICK u : u = CksumIfNecessary([l |-> Fresh(f), t |-> t])
      OBVIOUS
    <3>2. loc' = u.l /\ trace' = u.t /\ pc' \in {"fault", "normal", "san"}
      BY <1>1, <2>2, <3>1
    <3>3. /\ u.l \in Locals /\ u.t = Classify(t) /\ Flagged(u.l, u.t, t) /\ u.l.cksumed
          /\ ~u.l.bits_counted
      BY <1>3, <3>1, CksumEffect, FreshFacts
    <3> QED
      BY <1>1, <1>3, <3>2, <3>3
  <2>3. CASE ~(f = "tmout" /\ cfg.ignore) /\ ~cfg.fast
    <3>1. loc' = Fresh(f) /\ trace' = t /\ pc' \in {"fault", "normal", "san"}
      BY <1>1, <2>3
    <3> QED
      BY <1>1, <1>3, <2>3, <3>1, FreshFacts
  <2> QED
    BY <2>1, <2>2, <2>3
<1>5. Typed'
  BY <1>1, <1>2, <1>4 DEF VerdictInv, Typed, virginVars, sanVars, keptVars
<1>6. FlagsInv'
  BY <1>2, <1>4 DEF FlagsInv
<1>7. CoverInv' /\ ChecksumIsTrace'
  BY <1>2, QuietCover, QuietEntries DEF VerdictInv, Pending, keptVars, virginVars
<1>8. CrashInv' /\ HangInv' /\ FedInv'
  BY <1>2, QuietCrash, QuietHang, QuietFed DEF VerdictInv, keptVars, virginVars
<1> QED
  BY <1>5, <1>6, <1>7, <1>8 DEF VerdictInv

\* What the sanitizers are fed is new to them, and remembered.
LEMMA FeedKeeps ==
    ASSUME Typed, FedInv, cfg' = cfg, NEW yes \in BOOLEAN, NEW what \in Maps, NEW l \in Locals,
           Feed(yes, what, l),
           simplified_n_fuzz \subseteq simplified_n_fuzz', n_fuzz_dup \subseteq n_fuzz_dup',
           \A e \in Edges : virgin_bits'[e] \subseteq virgin_bits[e],
           yes => Remembered(what)',
           yes /\ (cfg.san = "unique" => cfg.fast) => \A i \in DOMAIN fed : fed[i] # what
    PROVE  /\ pc' = "normal" /\ loc' \in Locals
           /\ \E f \in {"ok", "crash"} : loc' = [l EXCEPT !.san_fault = f]
           /\ fed' \in Seq(Maps) /\ FedInv'
<1>1. PICK f \in {"ok", "crash"} : loc' = [l EXCEPT !.san_fault = f]
  BY DEF Feed
<1>2. pc' = "normal" /\ loc' \in Locals
  BY <1>1 DEF Feed, Locals
<1>3. ASSUME NEW t, Remembered(t) PROVE Remembered(t)'
  BY <1>3 DEF Remembered
<1>4. fed \in Seq(Maps)
  BY DEF Typed
<1>5. CASE yes
  <2>1. fed' = Append(fed, what)
    BY <1>5 DEF Feed
  <2>2. /\ fed' \in Seq(Maps) /\ DOMAIN fed' = DOMAIN fed \cup {Len(fed) + 1}
        /\ \A i \in DOMAIN fed : fed'[i] = fed[i]
        /\ fed'[Len(fed) + 1] = what
        /\ IsInjective(fed) /\ (\A i \in DOMAIN fed : fed[i] # what) => IsInjective(fed')
    BY <1>4, <2>1, AppendNew
  <2>3. ASSUME NEW i \in DOMAIN fed', NEW t, t = fed'[i] PROVE Remembered(t)'
    <3>1. CASE i \in DOMAIN fed
      <4>1. Remembered(t)
        BY <2>2, <2>3, <3>1 DEF FedInv
      <4> QED
        BY <1>3, <4>1
    <3>2. CASE i = Len(fed) + 1
      BY <1>5, <2>2, <2>3, <3>2
    <3> QED
      BY <2>2, <2>3, <3>1, <3>2
  <2>4. (\A i \in DOMAIN fed : Remembered(fed[i]))'
    BY <2>3 DEF Remembered
  <2>5. ((cfg.san = "unique" => cfg.fast) => IsInjective(fed))'
    BY <1>5, <2>2 DEF FedInv
  <2> QED
    BY <1>1, <1>2, <2>2, <2>4, <2>5 DEF FedInv
<1>6. CASE ~yes
  <2>1. fed' = fed
    BY <1>6 DEF Feed
  <2>2. (\A i \in DOMAIN fed : Remembered(fed[i]))'
    BY <1>3, <2>1 DEF FedInv, Remembered
  <2> QED
    BY <1>1, <1>2, <1>4, <2>1, <2>2 DEF FedInv
<1> QED
  BY <1>5, <1>6

\* The simplified trace is looked up and noted; the trace itself stays as it is.
LEMMA SanSimplifyKeeps == VerdictInv /\ SanSimplify => VerdictInv'
<1> SUFFICES ASSUME VerdictInv, SanSimplify PROVE VerdictInv'
  OBVIOUS
<1>1. PICK t : /\ t = Simplify(trace) /\ Feed(t \notin simplified_n_fuzz, t, loc)
               /\ simplified_n_fuzz' = simplified_n_fuzz \cup {t}
  BY DEF SanSimplify, NoteSimplified
<1>2. /\ pc = "san" /\ cfg.san = "simplify"
      /\ UNCHANGED <<cfg, trace, raw, virginVars, n_fuzz_dup, calls, keptVars>>
  BY DEF SanSimplify
<1>3. t \in Maps /\ loc \in Locals /\ Typed /\ FedInv
  BY <1>1, MapFacts DEF VerdictInv, Typed
<1>4. Remembered(t)'
  BY <1>1, <1>2 DEF Remembered
<1>5. t \notin simplified_n_fuzz => \A i \in DOMAIN fed : fed[i] # t
  BY <1>2, <1>3 DEF FedInv, Remembered
<1>6. /\ pc' = "normal" /\ loc' \in Locals
      /\ \E f \in {"ok", "crash"} : loc' = [loc EXCEPT !.san_fault = f]
      /\ fed' \in Seq(Maps) /\ FedInv'
  <2>1. \A e \in Edges : virgin_bits'[e] \subseteq virgin_bits[e]
    BY <1>2 DEF virginVars
  <2>2. PICK yes \in BOOLEAN : yes <=> t \notin simplified_n_fuzz
    OBVIOUS
  <2>3. Feed(yes, t, loc)
    BY <1>1, <2>2 DEF Feed
  <2>4. simplified_n_fuzz \subseteq simplified_n_fuzz' /\ n_fuzz_dup \subseteq n_fuzz_dup'
    BY <1>1, <1>2
  <2> QED
    BY <1>2, <1>3, <1>4, <1>5, <2>1, <2>2, <2>3, <2>4, FeedKeeps
<1>7. Flagged(loc', trace', raw') /\ ~loc'.bits_counted
  <2>1. Flagged(loc, trace, raw) /\ ~loc.bits_counted
    BY <1>2 DEF VerdictInv, FlagsInv
  <2>2. /\ loc'.classified = loc.classified /\ loc'.bits_counted = loc.bits_counted
        /\ loc'.cksumed = loc.cksumed /\ loc'.cksum = loc.cksum /\ loc'.new_bits = loc.new_bits
    BY <1>3, <1>6 DEF Locals
  <2> QED
    BY <1>2, <2>1, <2>2 DEF Flagged
<1>8. Typed' /\ FlagsInv'
  BY <1>2, <1>6, <1>7 DEF VerdictInv, Typed, FlagsInv, virginVars, keptVars
<1>9. CoverInv' /\ ChecksumIsTrace'
  BY <1>2, QuietCover, QuietEntries DEF VerdictInv, Pending, keptVars, virginVars
<1>10. CrashInv' /\ HangInv'
  BY <1>2, QuietCrash, QuietHang DEF VerdictInv, keptVars, virginVars
<1> QED
  BY <1>6, <1>8, <1>9, <1>10 DEF VerdictInv

\* Counting the new bits early leaves coverage pending.
LEMMA SanCoverageKeeps == VerdictInv /\ SanCoverage => VerdictInv'
<1> SUFFICES ASSUME VerdictInv, SanCoverage PROVE VerdictInv'
  OBVIOUS
<1> DEFINE s == [l |-> loc, t |-> trace]
<1>1. PICK u : /\ u = NewBitsIfNecessary(s)
               /\ trace' = u.t /\ virgin_bits' = VirginAfter(s, u)
               /\ Feed(u.l.new_bits > 0, u.t, u.l)
  BY DEF SanCoverage
<1>2. /\ pc = "san" /\ cfg.san = "coverage"
      /\ UNCHANGED <<cfg, raw, virgin_tmout, virgin_crash, simplified_n_fuzz, n_fuzz_dup,
                     calls, keptVars>>
  BY DEF SanCoverage
<1>3. /\ loc \in Locals /\ raw \in Maps /\ Typed /\ FedInv /\ CoverInv /\ ~Pending
      /\ Flagged(loc, trace, raw) /\ ~loc.bits_counted
  BY <1>2, MapFacts DEF VerdictInv, Typed, FlagsInv, Pending
<1>4. /\ u.l \in Locals /\ u.t \in Maps /\ virgin_bits' \in [Edges -> SUBSET Bits]
      /\ Flagged(u.l, u.t, raw) /\ u.l.bits_counted
      /\ u.l.new_bits = 0 => virgin_bits' = virgin_bits
      /\ u.l.new_bits > 0 =>
           /\ \A e \in Edges : virgin_bits'[e] = virgin_bits[e] \ BitsOf[u.t[e]]
           /\ \E e \in Edges : BitsOf[u.t[e]] \cap virgin_bits[e] # {}
  <2>1. virgin_bits \in [Edges -> SUBSET Bits]
    BY <1>3 DEF Typed
  <2> QED
    BY <1>1, <1>3, <2>1, CountEffect
<1>5. u.l.new_bits \in 0..2 /\ \A e \in Edges : virgin_bits'[e] \subseteq virgin_bits[e]
  BY <1>4 DEF Locals
<1>6. u.l.new_bits > 0 => /\ Remembered(u.t)'
                          /\ \A i \in DOMAIN fed : fed[i] # u.t
  BY <1>2, <1>3, <1>4 DEF FedInv, Remembered
<1>7. /\ pc' = "normal" /\ loc' \in Locals
      /\ \E f \in {"ok", "crash"} : loc' = [u.l EXCEPT !.san_fault = f]
      /\ fed' \in Seq(Maps) /\ FedInv'
  <2>1. PICK yes \in BOOLEAN : yes <=> u.l.new_bits > 0
    OBVIOUS
  <2>2. Feed(yes, u.t, u.l)
    BY <1>1, <2>1 DEF Feed
  <2>3. simplified_n_fuzz \subseteq simplified_n_fuzz' /\ n_fuzz_dup \subseteq n_fuzz_dup'
    BY <1>2
  <2> QED
    BY <1>2, <1>3, <1>4, <1>5, <1>6, <2>1, <2>2, <2>3, FeedKeeps
<1>8. /\ loc'.classified = u.l.classified /\ loc'.bits_counted = u.l.bits_counted
      /\ loc'.cksumed = u.l.cksumed /\ loc'.cksum = u.l.cksum /\ loc'.new_bits = u.l.new_bits
  BY <1>4, <1>7 DEF Locals
<1>9. Flagged(loc', trace', raw')
  BY <1>1, <1>2, <1>4, <1>8 DEF Flagged
<1>10. Typed' /\ FlagsInv'
  <2>1. trace' \in {raw', Classify(raw')}
    BY <1>9 DEF Flagged
  <2> QED
    BY <1>1, <1>2, <1>3, <1>4, <1>7, <1>9, <2>1 DEF Typed, FlagsInv, keptVars
<1>11. CoverInv'
  <2>1. /\ \A e : Covered(e)' = Covered(e) /\ Varies(e)' = Varies(e)
        /\ \A e \in Edges \ var_bytes : Bits \ virgin_bits[e] \subseteq Covered(e)
        /\ var_bytes' = var_bytes
    BY <1>2, <1>3 DEF Covered, KeptTraces, Varies, CoverInv, keptVars
  <2>2. CASE u.l.new_bits = 0
    BY <1>3, <1>4, <2>1, <2>2 DEF CoverInv
  <2>3. CASE u.l.new_bits > 0
    <3>1. Pending'
      BY <1>4, <1>7, <1>8, <2>3 DEF Pending
    <3> QED
      BY <1>1, <1>3, <1>4, <2>1, <2>3, <3>1 DEF CoverInv
  <2> QED
    BY <1>5, <2>2, <2>3
<1>12. ChecksumIsTrace' /\ CrashInv' /\ HangInv'
  BY <1>2, QuietEntries, QuietCrash, QuietHang DEF VerdictInv, keptVars
<1> QED
  BY <1>7, <1>10, <1>11, <1>12 DEF VerdictInv

\* The classified trace is marked; if there is a checksum, that is what is looked up.
LEMMA SanUniqueKeeps == VerdictInv /\ SanUnique => VerdictInv'
<1> SUFFICES ASSUME VerdictInv, SanUnique PROVE VerdictInv'
  OBVIOUS
<1>1. PICK u : /\ u = ClassifyIfNecessary([l |-> loc, t |-> trace])
               /\ trace' = u.t
               /\ n_fuzz_dup' = IF u.l.cksumed /\ u.l.cksum \in n_fuzz_dup THEN n_fuzz_dup
                                ELSE n_fuzz_dup \cup {u.t}
               /\ Feed(~(u.l.cksumed /\ u.l.cksum \in n_fuzz_dup), u.t, u.l)
  BY DEF SanUnique
<1>2. /\ pc = "san" /\ cfg.san = "unique"
      /\ UNCHANGED <<cfg, raw, virginVars, simplified_n_fuzz, calls, keptVars>>
  BY DEF SanUnique
<1>3. /\ loc \in Locals /\ raw \in Maps /\ Typed /\ FedInv
      /\ Flagged(loc, trace, raw) /\ ~loc.bits_counted /\ (cfg.fast => loc.cksumed)
  BY <1>2, MapFacts DEF VerdictInv, Typed, FlagsInv
<1> DEFINE k == [loc EXCEPT !.classified = TRUE]
           c == Classify(raw)
<1>4. u = [l |-> k, t |-> c]
  BY <1>1, <1>3, Classifies DEF Flagged
<1>5. /\ k \in Locals /\ k.classified /\ ~k.bits_counted /\ k.cksumed = loc.cksumed
      /\ k.cksum = loc.cksum
  BY <1>3 DEF Locals
<1>6. c \in Maps
  BY <1>3, MapFacts
<1> HIDE DEF k, c
<1>7. u.l = k /\ u.t = c
  BY <1>4
<1>8. Flagged(k, c, raw)
  BY <1>3, <1>5 DEF Flagged, c
<1>9. PICK yes \in BOOLEAN : yes <=> ~(k.cksumed /\ k.cksum \in n_fuzz_dup)
  OBVIOUS
<1>10. yes /\ cfg.fast => \A i \in DOMAIN fed : fed[i] # c
  <2>1. cfg.fast => k.cksumed /\ k.cksum = c
    BY <1>3, <1>5 DEF Flagged, c
  <2>2. \A i \in DOMAIN fed : fed[i] \in n_fuzz_dup
    BY <1>2, <1>3 DEF FedInv, Remembered
  <2> QED
    BY <1>9, <2>1, <2>2
<1>11. /\ pc' = "normal" /\ loc' \in Locals
       /\ \E f \in {"ok", "crash"} : loc' = [k EXCEPT !.san_fault = f]
       /\ fed' \in Seq(Maps) /\ FedInv'
  <2>1. \A e \in Edges : virgin_bits'[e] \subseteq virgin_bits[e]
    BY <1>2 DEF virginVars
  <2>2. Feed(yes, c, k)
    BY <1>1, <1>7, <1>9 DEF Feed
  <2>3. simplified_n_fuzz \subseteq simplified_n_fuzz' /\ n_fuzz_dup \subseteq n_fuzz_dup'
    BY <1>1, <1>2
  <2>4. PICK w \in Maps : w = c
    BY <1>6
  <2>5. yes => Remembered(w)'
    BY <1>1, <1>2, <1>7, <1>9, <2>4 DEF Remembered
  <2> QED
    BY <1>2, <1>3, <1>5, <1>10, <2>1, <2>2, <2>3, <2>4, <2>5, FeedKeeps
<1>12. /\ loc'.classified = k.classified /\ loc'.bits_counted = k.bits_counted
       /\ loc'.cksumed = k.cksumed /\ loc'.cksum = k.cksum /\ loc'.new_bits = k.new_bits
  BY <1>5, <1>11 DEF Locals
<1>13. Flagged(loc', trace', raw')
  BY <1>1, <1>2, <1>7, <1>8, <1>12 DEF Flagged
<1>14. Typed' /\ FlagsInv'
  <2>1. trace' \in {raw', Classify(raw')}
    BY <1>13 DEF Flagged
  <2> QED
    BY <1>1, <1>2, <1>3, <1>6, <1>7, <1>11, <1>13, <2>1 DEF Typed, FlagsInv, keptVars, virginVars
<1>15. CoverInv' /\ ChecksumIsTrace' /\ CrashInv' /\ HangInv'
  BY <1>2, QuietCover, QuietEntries, QuietCrash, QuietHang
  DEF VerdictInv, Pending, keptVars, virginVars
<1> QED
  BY <1>11, <1>14, <1>15 DEF VerdictInv

\* The verdict on a run without a fault: what is marked as seen is on its way to the
\* queue.
LEMMA NormalKeeps == VerdictInv /\ Normal => VerdictInv'
<1> SUFFICES ASSUME VerdictInv, Normal PROVE VerdictInv'
  OBVIOUS
<1> DEFINE s == [l |-> loc, t |-> trace]
<1>1. PICK u : /\ u = NewBitsIfNecessary(s)
               /\ trace' = u.t /\ virgin_bits' = VirginAfter(s, u)
               /\ \/ u.l.new_bits = 0 /\ u.l.san_fault = "ok" /\ Return
                  \/ /\ u.l.new_bits = 0 /\ pc' = "fault"
                     /\ loc' = [u.l EXCEPT !.fault = u.l.san_fault]
                  \/ /\ u.l.new_bits > 0 /\ pc' = "queue"
                     /\ loc' = [u.l EXCEPT !.fault = u.l.san_fault]
  BY DEF Normal
<1>2. /\ pc = "normal"
      /\ UNCHANGED <<cfg, raw, virgin_tmout, virgin_crash, sanVars, calls, keptVars>>
  BY DEF Normal
<1>3. /\ loc \in Locals /\ raw \in Maps /\ Typed /\ FedInv /\ CoverInv
      /\ Flagged(loc, trace, raw) /\ virgin_bits \in [Edges -> SUBSET Bits]
  BY <1>2, MapFacts DEF VerdictInv, Typed, FlagsInv
<1>4. /\ u.l \in Locals /\ u.t \in Maps /\ virgin_bits' \in [Edges -> SUBSET Bits]
      /\ Flagged(u.l, u.t, raw) /\ u.l.bits_counted
      /\ loc.bits_counted => u.l = loc /\ u.t = trace /\ virgin_bits' = virgin_bits
      /\ ~loc.bits_counted /\ u.l.new_bits = 0 => virgin_bits' = virgin_bits
      /\ ~loc.bits_counted /\ u.l.new_bits > 0 =>
           \A e \in Edges : virgin_bits'[e] = virgin_bits[e] \ BitsOf[u.t[e]]
  BY <1>1, <1>3, CountEffect
<1>5. u.l.new_bits \in 0..2 /\ \A e \in Edges : virgin_bits'[e] \subseteq virgin_bits[e]
  BY <1>4 DEF Locals
<1>6. ChecksumIsTrace' /\ CrashInv' /\ HangInv' /\ FedInv'
  BY <1>2, <1>5, QuietEntries, QuietCrash, QuietHang, QuietFed DEF VerdictInv, keptVars
<1>7. var_bytes' = var_bytes /\ \A e : Covered(e)' = Covered(e) /\ Varies(e)' = Varies(e)
  BY <1>2 DEF Covered, KeptTraces, Varies, keptVars
<1>8. CASE u.l.new_bits = 0
  <2>1. ~Pending /\ virgin_bits' = virgin_bits
    BY <1>4, <1>5, <1>8 DEF Pending
  <2>2. CoverInv'
    BY <1>2, <1>3, <2>1, QuietCover DEF keptVars
  <2>3. pc' \in {"idle", "fault"} /\ loc' \in Locals
    BY <1>1, <1>4, <1>8, FreshFacts DEF Return, Locals, Faults
  <2>4. trace' \in {raw', Classify(raw')}
    BY <1>1, <1>2, <1>4 DEF Flagged
  <2>5. Typed' /\ FlagsInv'
    BY <1>1, <1>2, <1>3, <1>4, <2>3, <2>4 DEF Typed, FlagsInv, keptVars, sanVars
  <2> QED
    BY <1>6, <2>2, <2>5 DEF VerdictInv
<1>9. CASE u.l.new_bits > 0
  <2>1. pc' = "queue" /\ loc' = [u.l EXCEPT !.fault = u.l.san_fault]
    BY <1>1, <1>5, <1>9
  <2>2. /\ loc' \in Locals
        /\ loc'.classified = u.l.classified /\ loc'.bits_counted = u.l.bits_counted
        /\ loc'.cksumed = u.l.cksumed /\ loc'.cksum = u.l.cksum /\ loc'.new_bits = u.l.new_bits
    BY <1>4, <2>1 DEF Locals, Faults
  <2>3. Flagged(loc', trace', raw')
    BY <1>1, <1>2, <1>4, <2>2 DEF Flagged
  <2>4. trace' \in {raw', Classify(raw')}
    BY <2>3 DEF Flagged
  <2>5. Typed' /\ FlagsInv'
    BY <1>1, <1>2, <1>3, <1>4, <2>1, <2>2, <2>3, <2>4 DEF Typed, FlagsInv, keptVars, sanVars
  <2>6. Pending'
    BY <1>4, <1>9, <2>1, <2>2 DEF Pending
  <2>7. CASE loc.bits_counted
    <3>1. Pending /\ trace' = trace /\ virgin_bits' = virgin_bits
      BY <1>1, <1>2, <1>4, <1>9, <2>7 DEF Pending
    <3>2. CoverInv'
      BY <1>3, <1>7, <2>6, <3>1 DEF CoverInv
    <3> QED
      BY <1>6, <2>5, <3>2 DEF VerdictInv
  <2>8. CASE ~loc.bits_counted
    <3>1. \A e \in Edges \ var_bytes : Bits \ virgin_bits[e] \subseteq Covered(e)
      BY <1>3, <2>8 DEF CoverInv, Pending
    <3>2. CoverInv'
      BY <1>1, <1>3, <1>4, <1>7, <1>9, <2>6, <2>8, <3>1 DEF CoverInv
    <3> QED
      BY <1>6, <2>5, <3>2 DEF VerdictInv
  <2> QED
    BY <2>7, <2>8
<1> QED
  BY <1>5, <1>8, <1>9

\* The entry is queued with the checksum of its own run, and with all that was
\* marked as seen for it; its calibration adds its own, and the bytes it varies in.
LEMMA SaveToQueueKeeps == VerdictInv /\ SaveToQueue => VerdictInv'
<1> SUFFICES ASSUME VerdictInv, SaveToQueue PROVE VerdictInv'
  OBVIOUS
<1>1. PICK s : s = CksumIfNecessary([l |-> loc, t |-> trace])
  OBVIOUS
<1>2. PICK u : u = NewBitsIfNecessary(s)
  OBVIOUS
<1>3. PICK v : v = VirginAfter(s, u)
  OBVIOUS
<1>4. /\ pc = "queue" /\ pc' = "fault" /\ loc' = [u.l EXCEPT !.keeping = TRUE]
      /\ UNCHANGED <<cfg, virgin_tmout, virgin_crash, sanVars, calls, hangs, crashes>>
  BY <1>1, <1>2 DEF SaveToQueue
<1>5. PICK good \in SUBSET Traces, t \in Traces, shown \in SUBSET {Classify(r) : r \in Traces} :
         /\ shown = {Classify(r) : r \in good}
         /\ trace' \in {t, Classify(t)}
         /\ raw' = t
         /\ virgin_bits' = Calibrated(v, u.t, shown)
         /\ var_bytes' = var_bytes \cup Varying(u.t, shown)
         /\ queue' = queue \cup
               {[call |-> calls, cksum |-> u.l.cksum, new |-> u.l.new_bits, raw |-> raw,
                 traces |-> {u.t} \cup shown]}
  <2>1. PICK good \in SUBSET {r \in Traces : \E e \in Edges : r[e] # 0}, t \in Traces,
             aborted \in BOOLEAN :
           LET shown == {Classify(r) : r \in good} IN
           /\ aborted \/ t \in good
           /\ trace' = IF aborted THEN t ELSE Classify(t)
           /\ raw' = t
           /\ virgin_bits' = Calibrated(v, u.t, shown)
           /\ var_bytes' = var_bytes \cup Varying(u.t, shown)
           /\ queue' = queue \cup
                 {[call |-> calls, cksum |-> u.l.cksum, new |-> u.l.new_bits, raw |-> raw,
                   traces |-> {u.t} \cup shown]}
    BY <1>1, <1>2, <1>3 DEF SaveToQueue
  <2>2. good \in SUBSET Traces /\ trace' \in {t, Classify(t)}
    BY <2>1
  <2> QED
    BY <2>1, <2>2
<1>6. /\ loc \in Locals /\ raw \in Maps /\ Typed /\ FedInv /\ CoverInv
      /\ Flagged(loc, trace, raw) /\ virgin_bits \in [Edges -> SUBSET Bits]
  BY <1>4, MapFacts DEF VerdictInv, Typed, FlagsInv
<1>7. /\ s.l \in Locals /\ s.t = Classify(raw) /\ Flagged(s.l, s.t, raw)
      /\ s.l.classified /\ s.l.cksum = Classify(raw)
      /\ s.l.bits_counted = loc.bits_counted /\ s.l.new_bits = loc.new_bits
      /\ s = [l |-> s.l, t |-> s.t]
  BY <1>1, <1>6, CksumEffect
<1>8. /\ u.l \in Locals /\ u.t = Classify(raw) /\ u.l.cksum = Classify(raw)
      /\ v \in [Edges -> SUBSET Bits]
      /\ loc.bits_counted => v = virgin_bits
      /\ ~loc.bits_counted => \A e \in Edges : v[e] = virgin_bits[e] \/
                                               v[e] = virgin_bits[e] \ BitsOf[u.t[e]]
  <2>1. PICK l \in Locals, w \in Maps : l = s.l /\ w = s.t
    BY <1>6, <1>7, MapFacts
  <2>2. u = NewBitsIfNecessary([l |-> l, t |-> w]) /\ v = VirginAfter([l |-> l, t |-> w], u)
    BY <1>2, <1>3, <1>7, <2>1
  <2>3. /\ u.l \in Locals /\ v \in [Edges -> SUBSET Bits] /\ u.l.cksum = l.cksum
        /\ l.classified => u.t = w
        /\ l.bits_counted => v = virgin_bits
        /\ ~l.bits_counted /\ u.l.new_bits = 0 => v = virgin_bits
        /\ ~l.bits_counted /\ u.l.new_bits > 0 =>
             \A e \in Edges : v[e] = virgin_bits[e] \ BitsOf[u.t[e]]
    BY <1>6, <1>7, <2>1, <2>2, CountEffect
  <2>4. u.l.new_bits = 0 \/ u.l.new_bits > 0
    BY <2>3 DEF Locals
  <2> QED
    BY <1>7, <2>1, <2>3, <2>4
<1>9. t \in Maps /\ Classify(t) \in Maps
  BY MapFacts
<1>10. /\ virgin_bits' \in [Edges -> SUBSET Bits]
       /\ \A e \in Edges :
            /\ virgin_bits'[e] \subseteq v[e]
            /\ e \notin Varying(u.t, shown) =>
                 virgin_bits'[e] = v[e] \ UNION {BitsOf[g[e]] : g \in shown}
  BY <1>5, <1>8 DEF Calibrated
<1>11. \A e \in Edges : v[e] \subseteq virgin_bits[e]
  BY <1>8
<1>12. loc' \in Locals
  BY <1>4, <1>8 DEF Locals
<1>13. Typed' /\ FlagsInv'
  <2>1. var_bytes' \subseteq Edges
    BY <1>5, <1>6 DEF Typed, Varying
  <2> QED
    BY <1>4, <1>5, <1>6, <1>9, <1>10, <1>12, <2>1 DEF Typed, FlagsInv, sanVars
<1>14. ChecksumIsTrace'
  BY <1>5, <1>8 DEF VerdictInv, ChecksumIsTrace
<1>15. CrashInv' /\ HangInv' /\ FedInv'
  BY <1>4, <1>10, <1>11, QuietCrash, QuietHang, QuietFed DEF VerdictInv
<1>16. PICK n : n \in queue' /\ n.traces = {u.t} \cup shown
  <2>1. PICK n : n = [call |-> calls, cksum |-> u.l.cksum, new |-> u.l.new_bits, raw |-> raw,
                      traces |-> {u.t} \cup shown]
    OBVIOUS
  <2> QED
    BY <1>5, <2>1
<1>17. ASSUME NEW e \in Edges \ var_bytes' PROVE Bits \ virgin_bits'[e] \subseteq Covered(e)'
  <2>1. e \in Edges \ var_bytes /\ e \notin Varying(u.t, shown)
    BY <1>5
  <2>2. \A w \in {u.t} \cup shown : BitsOf[w[e]] \subseteq Covered(e)'
    BY <1>16 DEF Covered, KeptTraces
  <2>3. Covered(e) \subseteq Covered(e)'
    BY <1>5 DEF Covered, KeptTraces
  <2>4. Pending => u.t = trace
    BY <1>6, <1>8 DEF Pending, Flagged
  <2>5. Bits \ virgin_bits[e] \subseteq Covered(e)'
    BY <1>6, <2>1, <2>2, <2>3, <2>4 DEF CoverInv
  <2>6. virgin_bits[e] \ v[e] \subseteq Covered(e)'
    BY <1>8, <2>2
  <2>7. v[e] \ virgin_bits'[e] \subseteq Covered(e)'
    BY <1>10, <2>1, <2>2
  <2> QED
    BY <2>5, <2>6, <2>7
<1>18. ASSUME NEW e \in var_bytes' PROVE Varies(e)'
  <2>1. CASE e \in var_bytes
    BY <1>5, <1>6, <2>1 DEF CoverInv, Varies
  <2>2. CASE e \in Varying(u.t, shown)
    <3>1. \E t1, w \in n.traces : t1[e] # w[e]
      BY <1>16, <2>2 DEF Varying
    <3> QED
      BY <1>16, <3>1 DEF Varies
  <2> QED
    BY <1>5, <2>1, <2>2
<1>19. CoverInv'
  <2>1. ~Pending'
    BY <1>4 DEF Pending
  <2> QED
    BY <1>17, <1>18, <2>1 DEF CoverInv
<1> QED
  BY <1>13, <1>14, <1>15, <1>19 DEF VerdictInv

\* Nothing to save.
LEMMA NoFaultKeeps == VerdictInv /\ NoFault => VerdictInv'
<1> SUFFICES ASSUME VerdictInv, NoFault PROVE VerdictInv'
  OBVIOUS
<1>1. /\ pc = "fault" /\ Return
      /\ UNCHANGED <<cfg, trace, raw, virginVars, sanVars, calls, keptVars>>
  BY DEF NoFault
<1>2. /\ pc' = "idle" /\ loc' \in Locals /\ fed' \in Seq(Maps)
      /\ ChecksumIsTrace' /\ FlagsInv' /\ CoverInv' /\ FedInv'
  BY <1>1, ReturnKeeps DEF VerdictInv, Typed, Pending, virginVars, keptVars
<1>3. CrashInv' /\ HangInv'
  BY <1>1, QuietCrash, QuietHang DEF VerdictInv, virginVars, keptVars
<1>4. Typed'
  BY <1>1, <1>2 DEF VerdictInv, Typed, virginVars, keptVars
<1> QED
  BY <1>2, <1>3, <1>4 DEF VerdictInv

\* A time-out that is thrown away.
LEMMA HangDroppedKeeps == VerdictInv /\ HangDropped => VerdictInv'
<1> SUFFICES ASSUME VerdictInv, HangDropped PROVE VerdictInv'
  OBVIOUS
<1>1. /\ pc = "fault" /\ Return /\ trace' \in {Simplify(trace), trace}
      /\ UNCHANGED <<cfg, raw, virginVars, sanVars, calls, keptVars>>
  BY DEF HangDropped
<1>2. trace' \in Maps
  BY <1>1, MapFacts DEF VerdictInv, Typed
<1>3. /\ pc' = "idle" /\ loc' \in Locals /\ fed' \in Seq(Maps)
      /\ ChecksumIsTrace' /\ FlagsInv' /\ CoverInv' /\ FedInv'
  BY <1>1, <1>2, ReturnKeeps DEF VerdictInv, Typed, Pending, virginVars, keptVars
<1>4. CrashInv' /\ HangInv'
  BY <1>1, QuietCrash, QuietHang DEF VerdictInv, virginVars, keptVars
<1>5. Typed'
  BY <1>1, <1>2, <1>3 DEF VerdictInv, Typed, virginVars, keptVars
<1> QED
  BY <1>3, <1>4, <1>5 DEF VerdictInv

\* A new time-out is marked, and may be saved as a hang: no other is like it.
LEMMA HangAdded ==
    ASSUME Typed, HangInv, NEW t \in Maps, NewBits(virgin_tmout, t) > 0, HangsLeft,
           virgin_tmout' = Seen(virgin_tmout, t), hangs' \in {hangs, Append(hangs, t)}
    PROVE  /\ HangInv' /\ virgin_tmout' \in [Edges -> SUBSET Bits]
           /\ hangs' \in Seq(Maps) /\ Len(hangs') <= KeepHangs
<1>1. /\ hangs \in Seq(Maps) /\ Len(hangs) < KeepHangs /\ KeepHangs \in Nat
      /\ virgin_tmout \in [Edges -> SUBSET Bits]
  BY SaveAssumption DEF Typed, HangsLeft
<1>2. /\ virgin_tmout' \in [Edges -> SUBSET Bits]
      /\ \A e \in Edges : virgin_tmout'[e] = virgin_tmout[e] \ BitsOf[t[e]]
      /\ \E e \in Edges : BitsOf[t[e]] \cap virgin_tmout[e] # {}
  BY <1>1, NewBitsFacts
<1>3. CASE hangs' = hangs
  BY <1>1, <1>2, <1>3 DEF HangInv, Typed
<1>4. CASE hangs' = Append(hangs, t)
  <2>1. \A i \in DOMAIN hangs : hangs[i] # t
    BY <1>2 DEF HangInv
  <2>2. /\ hangs' \in Seq(Maps) /\ Len(hangs') = Len(hangs) + 1
        /\ DOMAIN hangs' = DOMAIN hangs \cup {Len(hangs) + 1}
        /\ \A i \in DOMAIN hangs : hangs'[i] = hangs[i]
        /\ hangs'[Len(hangs) + 1] = t
        /\ IsInjective(hangs) /\ (\A i \in DOMAIN hangs : hangs[i] # t) => IsInjective(hangs')
    BY <1>1, <1>4, AppendNew
  <2>3. ASSUME NEW i \in DOMAIN hangs', NEW e \in Edges
        PROVE  BitsOf[hangs'[i][e]] \cap virgin_tmout'[e] = {}
    BY <1>2, <2>2 DEF HangInv
  <2> QED
    BY <1>1, <1>2, <2>1, <2>2, <2>3 DEF HangInv
<1> QED
  BY <1>3, <1>4

\* The flags after the second run, for whatever trace it has left.
LEMMA RerunFacts ==
    ASSUME NEW l \in Locals
    PROVE  /\ RerunFlags(l) \in Locals /\ ~RerunFlags(l).bits_counted
           /\ \A t : Flagged(RerunFlags(l), t, t)
<1>1. /\ RerunFlags(l) \in Locals /\ ~RerunFlags(l).bits_counted
      /\ ~RerunFlags(l).classified /\ ~RerunFlags(l).cksumed
  BY DEF RerunFlags, Locals
<1> QED
  BY <1>1 DEF Flagged

\* A suspected hang runs a second time, and its trace replaces the first one.
LEMMA HangJudgedKeeps == VerdictInv /\ HangJudged => VerdictInv'
<1> SUFFICES ASSUME VerdictInv, HangJudged PROVE VerdictInv'
  OBVIOUS
<1>1. PICK w : w = Simplify(trace)
  OBVIOUS
<1>2. /\ pc = "fault" /\ HangsLeft /\ NewBits(virgin_tmout, w) > 0
      /\ virgin_tmout' = Seen(virgin_tmout, w)
      /\ UNCHANGED <<cfg, virgin_bits, virgin_crash, sanVars, calls, queue, var_bytes, crashes>>
  BY <1>1 DEF HangJudged, TmoutSeen
<1>3. w \in Maps /\ Typed /\ HangInv /\ loc \in Locals /\ ~Pending
  BY <1>1, <1>2, MapFacts DEF VerdictInv, Typed, Pending
<1>4. /\ hangs' \in {hangs, Append(hangs, w)}
      /\ \/ trace' = w /\ raw' = raw /\ Return
         \/ \E t \in Traces : /\ trace' = t /\ raw' = t
                              /\ \/ Return
                                 \/ pc' \in {"crash", "queue"} /\ loc' = RerunFlags(loc)
  BY <1>1 DEF HangJudged
<1>5. /\ HangInv' /\ virgin_tmout' \in [Edges -> SUBSET Bits]
      /\ hangs' \in Seq(Maps) /\ Len(hangs') <= KeepHangs
  BY <1>2, <1>3, <1>4, HangAdded
<1>6. trace' \in Maps /\ raw' \in Traces
  BY <1>3, <1>4, MapFacts DEF Typed
<1>7. CrashInv'
  BY <1>2, QuietCrash DEF VerdictInv
<1>8. CASE Return
  <2>1. /\ pc' = "idle" /\ loc' \in Locals /\ fed' \in Seq(Maps)
        /\ ChecksumIsTrace' /\ FlagsInv' /\ CoverInv' /\ FedInv'
    BY <1>2, <1>3, <1>6, <1>8, ReturnKeeps
  <2>2. Typed'
    BY <1>2, <1>3, <1>5, <1>6, <2>1 DEF Typed
  <2> QED
    BY <1>5, <1>7, <2>1, <2>2 DEF VerdictInv
<1>9. CASE ~Return
  <2>1. /\ trace' = raw' /\ pc' \in {"crash", "queue"} /\ loc' = RerunFlags(loc)
    BY <1>4, <1>9
  <2>2. loc' \in Locals /\ ~loc'.bits_counted /\ Flagged(loc', trace', raw')
    BY <1>3, <2>1, RerunFacts
  <2>3. ChecksumIsTrace' /\ CoverInv' /\ FedInv'
    BY <1>2, <1>3, QuietEntries, QuietCover, QuietFed DEF VerdictInv
  <2>4. FlagsInv'
    BY <2>1, <2>2 DEF FlagsInv
  <2>5. Typed'
    BY <1>2, <1>3, <1>5, <1>6, <2>1, <2>2 DEF Typed, sanVars
  <2> QED
    BY <1>5, <1>7, <2>3, <2>4, <2>5 DEF VerdictInv
<1> QED
  BY <1>8, <1>9

\* keep_as_crash: what is marked as seen is what is saved, unless nothing is new.
LEMMA CrashKeeps == VerdictInv /\ Crash => VerdictInv'
<1> SUFFICES ASSUME VerdictInv, Crash PROVE VerdictInv'
  OBVIOUS
<1>1. PICK t : t = Simplify(trace)
  OBVIOUS
<1>2. PICK c : c = [e \in Edges |-> raw[e] > 0]
  OBVIOUS
<1>3. /\ pc \in {"crash", "fault"} /\ Return /\ trace' \in {trace, t}
      /\ virgin_crash' = IF Len(crashes) >= KeepCrashes THEN virgin_crash
                         ELSE Seen(virgin_crash, t)
      /\ crashes' = IF Len(crashes) < KeepCrashes /\ NewBits(virgin_crash, t) > 0
                    THEN Append(crashes, c) ELSE crashes
      /\ UNCHANGED <<cfg, raw, virgin_bits, virgin_tmout, sanVars, calls, queue, var_bytes, hangs>>
  BY <1>1, <1>2 DEF Crash, CrashSeen
<1>4. /\ Typed /\ trace \in Maps /\ t \in Maps /\ raw \in Traces /\ raw \in Maps
      /\ trace \in {raw, Classify(raw)} /\ ~Pending
  BY <1>1, <1>3, MapFacts DEF VerdictInv, Typed, FlagsInv, Pending
<1>5. /\ c \in [Edges -> BOOLEAN]
      /\ \A e \in Edges : BitsOf[t[e]] = {CrashBit(c, e)} /\ CrashBit(c, e) \in Bits
  <2> SUFFICES ASSUME NEW e \in Edges
               PROVE  BitsOf[t[e]] = {CrashBit(c, e)} /\ CrashBit(c, e) \in Bits
    BY <1>2
  <2>1. raw[e] \in 0..4
    BY <1>4, SaveAssumption DEF Traces
  <2>2. trace[e] = 0 <=> raw[e] = 0
    BY <1>4, MapFacts
  <2>3. BitsOf[t[e]] = IF trace[e] = 0 THEN {1} ELSE {128}
    BY <1>1, <1>4, MapFacts
  <2>4. c[e] <=> raw[e] > 0
    BY <1>2
  <2> QED
    BY <2>1, <2>2, <2>3, <2>4 DEF CrashBit, Bits
<1>6. /\ pc' = "idle" /\ loc' \in Locals /\ fed' \in Seq(Maps)
      /\ ChecksumIsTrace' /\ FlagsInv' /\ CoverInv' /\ FedInv'
  BY <1>3, <1>4, ReturnKeeps
<1>7. HangInv'
  BY <1>3, QuietHang DEF VerdictInv
<1>8. /\ crashes \in Seq([Edges -> BOOLEAN]) /\ Len(crashes) <= KeepCrashes /\ KeepCrashes \in Nat
      /\ virgin_crash \in [Edges -> SUBSET Bits] /\ CrashInv
  BY SaveAssumption DEF VerdictInv, Typed
<1>9. /\ NewBits(virgin_crash, t) \in 0..2
      /\ NewBits(virgin_crash, t) = 0 => Seen(virgin_crash, t) = virgin_crash
      /\ NewBits(virgin_crash, t) # 0 => \E e \in Edges : BitsOf[t[e]] \cap virgin_crash[e] # {}
      /\ Seen(virgin_crash, t) \in [Edges -> SUBSET Bits]
      /\ \A e \in Edges : Seen(virgin_crash, t)[e] = virgin_crash[e] \ BitsOf[t[e]]
  BY <1>4, <1>8, NewBitsFacts
<1>10. /\ CrashInv' /\ virgin_crash' \in [Edges -> SUBSET Bits]
       /\ crashes' \in Seq([Edges -> BOOLEAN]) /\ Len(crashes') <= KeepCrashes
  <2>1. CASE ~(Len(crashes) < KeepCrashes /\ NewBits(virgin_crash, t) > 0)
    <3>1. virgin_crash' = virgin_crash /\ crashes' = crashes
      BY <1>3, <1>8, <1>9, <2>1
    <3> QED
      BY <1>8, <3>1, QuietCrash
  <2>2. CASE Len(crashes) < KeepCrashes /\ NewBits(virgin_crash, t) > 0
    <3>1. crashes' = Append(crashes, c) /\ virgin_crash' = Seen(virgin_crash, t)
      BY <1>3, <1>8, <2>2
    <3>2. PICK e \in Edges : CrashBit(c, e) \in virgin_crash[e]
      BY <1>5, <1>9, <2>2
    <3>3. ASSUME NEW i \in DOMAIN crashes PROVE crashes[i] # c
      <4>1. CrashBit(crashes[i], e) \notin virgin_crash[e]
        BY <1>8 DEF CrashInv
      <4> QED
        BY <3>2, <4>1
    <3>4. /\ crashes' \in Seq([Edges -> BOOLEAN]) /\ Len(crashes') = Len(crashes) + 1
          /\ DOMAIN crashes' = DOMAIN crashes \cup {Len(crashes) + 1}
          /\ \A i \in DOMAIN crashes : crashes'[i] = crashes[i]
          /\ crashes'[Len(crashes) + 1] = c /\ IsInjective(crashes')
      BY <1>5, <1>8, <3>1, <3>3, AppendNew DEF CrashInv
    <3>5. ASSUME NEW d \in Edges
          PROVE  Bits \ virgin_crash'[d] = {CrashBit(crashes'[i], d) : i \in DOMAIN crashes'}
      <4>1. Bits \ virgin_crash'[d] = (Bits \ virgin_crash[d]) \cup {CrashBit(c, d)}
        BY <1>5, <1>9, <3>1
      <4>2. Bits \ virgin_crash[d] = {CrashBit(crashes[i], d) : i \in DOMAIN crashes}
        BY <1>8 DEF CrashInv
      <4>3. {CrashBit(crashes'[i], d) : i \in DOMAIN crashes'} =
              {CrashBit(crashes[i], d) : i \in DOMAIN crashes} \cup {CrashBit(c, d)}
        BY <3>4
      <4> QED
        BY <4>1, <4>2, <4>3
    <3>6. CrashInv'
      BY <3>4, <3>5 DEF CrashInv, CrashBit
    <3> QED
      BY <1>8, <1>9, <2>2, <3>1, <3>4, <3>6
  <2> QED
    BY <2>1, <2>2
<1>11. Typed'
  BY <1>3, <1>4, <1>6, <1>10 DEF Typed
<1> QED
  BY <1>6, <1>7, <1>10, <1>11 DEF VerdictInv

--------------------------------------------------------------------------------
(* The theorems                                                             *)

\* The invariant of the function: what the flags, virgin maps and lists say about the
\* trace and about each other, wherever the verdict stands.
THEOREM VerdictHolds == Spec => []VerdictInv
<1>1. VerdictInv /\ [Next]_vars => VerdictInv'
  <2> SUFFICES ASSUME VerdictInv, [Next]_vars PROVE VerdictInv'
    OBVIOUS
  <2>1. CASE UNCHANGED vars
    BY <2>1
    DEF vars, virginVars, sanVars, keptVars, VerdictInv, Typed, ChecksumIsTrace, FlagsInv,
        CoverInv, Covered, KeptTraces, Varies, Pending, CrashInv, HangInv, FedInv,
        Remembered
  <2> QED
    BY <2>1, CallKeeps, SanSimplifyKeeps, SanCoverageKeeps, SanUniqueKeeps, NormalKeeps,
       SaveToQueueKeeps, NoFaultKeeps, HangDroppedKeeps, HangJudgedKeeps, CrashKeeps
    DEF Next, Judge, Done
<1> QED
  BY <1>1, InitHolds, PTL DEF Spec

\* The records of kept inputs are sound: typed, within the limits, and every entry has
\* the checksum of the run it is kept for, classified exactly once.
THEOREM EntriesCorrect == Spec => []EntriesSound
<1>1. VerdictInv => EntriesSound
  <2> SUFFICES ASSUME VerdictInv PROVE EntriesSound
    OBVIOUS
  <2>1. DOMAIN BitsOf = Values
    BY DEF BitsOf, Values
  <2>2. loc.fault \in Faults /\ loc.new_bits \in 0..2
    BY DEF VerdictInv, Typed, Locals
  <2>3. TypeOK
    BY <2>1, <2>2 DEF VerdictInv, Typed, TypeOK, Maps
  <2> QED
    BY <2>3 DEF VerdictInv, EntriesSound
<1> QED
  BY <1>1, VerdictHolds, PTL

\* Between two calls nothing is marked as seen that is not kept, neither coverage in
\* the queue nor a crash among the crashes, but for the bytes that calibrate_case()
\* has seen an entry of the queue vary in.
THEOREM SeenCorrect == Spec => []SeenIsKept
<1>1. VerdictInv => SeenIsKept
  BY DEF VerdictInv, SeenIsKept, CoverInv, Covered, Varies, Pending, CrashInv, CrashBit
<1> QED
  BY <1>1, VerdictHolds, PTL

\* No two saved crashes and no two saved hangs are alike, and the sanitizers do not see
\* an execution pattern twice.
THEOREM NoveltyCorrect == Spec => []NothingTwice
<1>1. VerdictInv => NothingTwice
  BY DEF VerdictInv, NothingTwice, CrashInv, HangInv, FedInv
<1> QED
  BY <1>1, VerdictHolds, PTL

================================================================================
