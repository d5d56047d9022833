--------------------------- MODULE MCEnergyHeuristic ---------------------------
(***************************************************************************)
(* The energy terms over all small inputs: each initial state is one       *)
(* comparison of two entries that differ in their energy only.             *)
(***************************************************************************)
EXTENDS EnergyHeuristic

VARIABLE case

\* 10 * ln(1 + x), rounded.
MCLog1p == [x \in 0..6 |-> <<0, 7, 11, 14, 16, 18, 19>>[x + 1]]

Limit == 40           \* stands for havoc_max_mult * 100

\* e and f are the energies of the two entries, lo and hi the range; both ends
\* of a range are set or neither is.
Init == case \in {c \in [factor : {0, 1, 3, 8, 20}, e : 0..MaxEnergy, f : 0..MaxEnergy,
                         lo : 0..MaxEnergy, hi : 0..MaxEnergy, coe : BOOLEAN] :
                     c.lo <= c.hi /\ (c.lo = 0 <=> c.hi = 0)}

Next == UNCHANGED case

Spec == Init /\ [][Next]_case

Bonus(e) == EnergyBonus(e, case.lo, case.hi)
Score(e) == EnergyScore(case.factor, Multiplier(e, case.lo, case.hi), <<1, 1>>,
                        Limit, case.coe)

\* Of two measured entries of equal speed and size the frugal one never has the
\* larger (worse) factor in update_bitmap_score().
FrugalNeverWorse ==
    0 < case.e /\ case.e <= case.f =>
        DividedBy(case.factor, Bonus(case.e)) <= DividedBy(case.factor, Bonus(case.f))

\* Of two measured entries that score alike otherwise calculate_score() gives
\* the frugal one at least as much air time.
FrugalScoresMore == 0 < case.e /\ case.e <= case.f => Score(case.e) >= Score(case.f)
================================================================================
