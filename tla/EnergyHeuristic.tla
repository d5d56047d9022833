---------------------------- MODULE EnergyHeuristic ----------------------------
(***************************************************************************)
(* The energy terms of GreenAFL's scoring: energy_bonus() and its use in   *)
(* the favourability factor of a queue entry (afl-fuzz-queue.c).           *)
(*                                                                         *)
(* The code computes in doubles.  A bonus is kept here as the exact        *)
(* rational <<numerator, denominator>>, and log1p() is a strictly          *)
(* increasing integer table Log1p (the logarithm times some scale).        *)
(***************************************************************************)
EXTENDS Integers

CONSTANTS
    MaxEnergy,  \* the largest energy sum the instance produces
    Log1p       \* scaled log1p() over 0..MaxEnergy

ASSUME EnergyAssumption ==
    /\ MaxEnergy \in Nat
    /\ Log1p \in [0..MaxEnergy -> Nat]
    /\ Log1p[0] = 0
    /\ \A x, y \in 0..MaxEnergy : x < y => Log1p[x] < Log1p[y]

\* The rational r limited to [4/5, 5/4].
ClampBonus(r) ==
    IF 5 * r[1] < 4 * r[2] THEN <<4, 5>>
    ELSE IF 4 * r[1] > 5 * r[2] THEN <<5, 4>>
    ELSE r

\* Fault: the pivot's sign reversed, 1 + a * (norm - 0.5).
RawBonusReversed(num, den) == <<7 * den + 2 * num, 8 * den>>

\* 1 + a * (0.5 - norm) with a = 0.25 and norm = num / den, before the clamps.
RawBonus(num, den) == <<9 * den - 2 * num, 8 * den>>

\* energy_bonus(): log-min-max normalisation of e over [eMin, eMax].  Above 1 an
\* entry is rewarded, below 1 punished; 1 when there is nothing to compare with.
EnergyBonus(e, eMin, eMax) ==
    IF e = 0 \/ eMax <= eMin
    THEN <<1, 1>>
    ELSE LET den == Log1p[eMax - eMin]
             log == Log1p[IF e > eMin THEN e - eMin ELSE 0]
             num == IF log > den THEN den ELSE log
         IN  ClampBonus(RawBonus(num, den))

\* A bonus within [7/8, 9/8].
InBand(b) == /\ b[1] > 0 /\ b[2] > 0
             /\ 7 * b[2] <= 8 * b[1] /\ 8 * b[1] <= 9 * b[2]

\* (u64)((double)factor / bonus)
DividedBy(factor, bonus) == (factor * bonus[2]) \div bonus[1]

\* Fault: the line rises with the cost.
LineRising(c, lo, hi) == <<(hi - lo) + 24 * (c - lo), 5 * (hi - lo)>>

\* m * cost + b: the line through (lo, 5.0) and (hi, 0.2).
Line(c, lo, hi) == <<25 * (hi - lo) - 24 * (c - lo), 5 * (hi - lo)>>

\* cpu_multiplier and mem_multiplier of calculate_score(): the line cut to
\* [0.2, 5], and neutral for an entry without a cost or a range without width.
Multiplier(c, lo, hi) ==
    LET r == Line(c, lo, hi)
    IN  IF hi = lo \/ c = 0 THEN <<1, 1>>
        ELSE IF 5 * r[1] < r[2] THEN <<1, 5>>
        ELSE IF r[1] > 5 * r[2] THEN <<5, 1>>
        ELSE r

\* The bounds calculate_score() puts on its result: limit is
\* havoc_max_mult * 100, and only COE may give an entry no time at all.
LimitScore(score, limit, coe) ==
    IF score > limit THEN limit
    ELSE IF ~coe /\ score < 1 THEN 1 ELSE score

\* The energy step at the end of calculate_score().
EnergyScore(perf, cpu, mem, limit, coe) ==
    LimitScore((perf * cpu[1] * mem[1]) \div (cpu[2] * mem[2]), limit, coe)

================================================================================
