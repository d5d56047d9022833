-------------------------- MODULE EnergyHeuristicProofs --------------------------
(***************************************************************************)
(* The energy term of the favourability factor, for every energy, every    *)
(* range and every strictly increasing log1p table.                        *)
(***************************************************************************)
EXTENDS MCEnergyHeuristic, TLAPS

\* The normalised energy is a fraction: num of den with 0 <= num <= den.
Norm(e, eMin, eMax) ==
    LET log == Log1p[IF e > eMin THEN e - eMin ELSE 0]
    IN  IF log > Log1p[eMax - eMin] THEN Log1p[eMax - eMin] ELSE log

\* Where there is a range to compare with, energy_bonus() is the pivot formula
\* and its two clamps have no effect.
LEMMA BonusIsRaw ==
    ASSUME NEW e \in 0..MaxEnergy, NEW eMin \in 0..MaxEnergy, NEW eMax \in 0..MaxEnergy,
           e # 0, eMin < eMax
    PROVE  LET num == Norm(e, eMin, eMax)
               den == Log1p[eMax - eMin]
           IN  /\ num \in Nat /\ den \in Nat /\ den > 0 /\ num <= den
               /\ EnergyBonus(e, eMin, eMax) = <<9 * den - 2 * num, 8 * den>>
<1> DEFINE num == Norm(e, eMin, eMax)
           den == Log1p[eMax - eMin]
           x   == IF e > eMin THEN e - eMin ELSE 0
<1>1. MaxEnergy \in Nat
  BY EnergyAssumption
<1>2. eMax - eMin \in 0..MaxEnergy /\ 0 \in 0..MaxEnergy /\ 0 < eMax - eMin
  BY <1>1
<1>3. den \in Nat /\ den > 0
  <2>1. den \in Nat /\ Log1p[0] < den /\ Log1p[0] = 0
    BY <1>2, EnergyAssumption
  <2> QED
    BY <2>1
<1>4. x \in 0..MaxEnergy
  BY <1>1
<1>5. Log1p[x] \in Nat
  BY <1>4, EnergyAssumption
<1>6. num = IF Log1p[x] > den THEN den ELSE Log1p[x]
  BY DEF Norm
<1>7. EnergyBonus(e, eMin, eMax) = ClampBonus(RawBonus(num, den))
  BY DEF EnergyBonus, Norm
<1> HIDE DEF num, den, x
<1>8. num \in Nat /\ num <= den
  BY <1>3, <1>5, <1>6
<1>9. ClampBonus(RawBonus(num, den)) = <<9 * den - 2 * num, 8 * den>>
  <2>1. /\ 9 * den - 2 * num \in Int /\ 8 * den \in Int
        /\ ~(5 * (9 * den - 2 * num) < 4 * (8 * den))
        /\ ~(4 * (9 * den - 2 * num) > 5 * (8 * den))
    BY <1>3, <1>8
  <2> QED
    BY <2>1 DEF ClampBonus, RawBonus
<1> QED
  BY <1>3, <1>7, <1>8, <1>9 DEF num, den

\* energy_bonus() never leaves [7/8, 9/8]: energy shifts the speed-times-size
\* factor by an eighth at most, and the limits 0.8 and 1.25 never act.
THEOREM BonusBand ==
    ASSUME NEW e \in 0..MaxEnergy, NEW eMin \in 0..MaxEnergy, NEW eMax \in 0..MaxEnergy
    PROVE  InBand(EnergyBonus(e, eMin, eMax))
<1>0. MaxEnergy \in Nat /\ e \in Int /\ eMin \in Int /\ eMax \in Int
  BY EnergyAssumption
<1>1. CASE e = 0 \/ eMax <= eMin
  <2>1. EnergyBonus(e, eMin, eMax) = <<1, 1>>
    BY <1>1 DEF EnergyBonus
  <2> QED
    BY <2>1 DEF InBand
<1>2. CASE e # 0 /\ eMin < eMax
  <2> DEFINE num == Norm(e, eMin, eMax)
             den == Log1p[eMax - eMin]
  <2>1. /\ num \in Nat /\ den \in Nat /\ den > 0 /\ num <= den
        /\ EnergyBonus(e, eMin, eMax) = <<9 * den - 2 * num, 8 * den>>
    BY <1>2, BonusIsRaw
  <2> HIDE DEF num, den
  <2> QED
    BY <2>1 DEF InBand
<1> QED
  BY <1>0, <1>1, <1>2

\* A larger divisor leaves a smaller quotient.
LEMMA DivMonotone ==
    ASSUME NEW a \in Nat, NEW c \in Nat, NEW d \in Nat, 0 < c, c <= d
    PROVE  a \div d <= a \div c
<1> DEFINE p == a \div d
           q == a \div c
<1>1. p \in Int /\ q \in Int /\ d * p <= a /\ a < c * (q + 1) /\ p >= 0 /\ q >= 0
  OBVIOUS
<1> HIDE DEF p, q
<1>2. ASSUME p >= q + 1 PROVE FALSE
  <2>1. c * (q + 1) <= c * p
    BY <1>1, <1>2
  <2>2. c * p <= d * p
    BY <1>1
  <2> QED
    BY <1>1, <2>1, <2>2
<1>3. p <= q
  BY <1>1, <1>2
<1> QED
  BY <1>3 DEF p, q

\* Of two measured entries equal in speed and size, the one that uses less
\* energy never has the larger factor, so it never loses a byte to the other.
THEOREM FrugalWins ==
    ASSUME NEW factor \in Nat, NEW e \in 0..MaxEnergy, NEW f \in 0..MaxEnergy,
           NEW eMin \in 0..MaxEnergy, NEW eMax \in 0..MaxEnergy, 0 < e, e <= f
    PROVE  DividedBy(factor, EnergyBonus(e, eMin, eMax))
             <= DividedBy(factor, EnergyBonus(f, eMin, eMax))
<1>0. MaxEnergy \in Nat /\ e \in Int /\ f \in Int /\ eMin \in Int /\ eMax \in Int
  BY EnergyAssumption
<1>1. CASE eMax <= eMin
  <2>1. /\ EnergyBonus(e, eMin, eMax) = <<1, 1>>
        /\ EnergyBonus(f, eMin, eMax) = <<1, 1>>
    BY <1>1 DEF EnergyBonus
  <2> QED
    BY <2>1 DEF DividedBy
<1>2. CASE eMin < eMax
  <2> DEFINE n   == Norm(e, eMin, eMax)
             m   == Norm(f, eMin, eMax)
             den == Log1p[eMax - eMin]
  <2>1. /\ n \in Nat /\ den \in Nat /\ den > 0 /\ n <= den
        /\ EnergyBonus(e, eMin, eMax) = <<9 * den - 2 * n, 8 * den>>
    BY <1>0, <1>2, BonusIsRaw
  <2>2. /\ m \in Nat /\ m <= den
        /\ EnergyBonus(f, eMin, eMax) = <<9 * den - 2 * m, 8 * den>>
    BY <1>0, <1>2, BonusIsRaw
  <2>3. n <= m
    <3> DEFINE x == IF e > eMin THEN e - eMin ELSE 0
               y == IF f > eMin THEN f - eMin ELSE 0
    <3>1. x \in 0..MaxEnergy /\ y \in 0..MaxEnergy /\ x <= y
      BY <1>0
    <3>2. Log1p[x] \in Nat /\ Log1p[y] \in Nat /\ Log1p[x] <= Log1p[y]
      <4>1. CASE x = y
        BY <3>1, <4>1, EnergyAssumption
      <4>2. CASE x < y
        <5>1. Log1p[x] \in Nat /\ Log1p[y] \in Nat /\ Log1p[x] < Log1p[y]
          BY <3>1, <4>2, EnergyAssumption
        <5> QED
          BY <5>1
      <4> QED
        BY <3>1, <4>1, <4>2
    <3>3. /\ n = IF Log1p[x] > den THEN den ELSE Log1p[x]
          /\ m = IF Log1p[y] > den THEN den ELSE Log1p[y]
      BY DEF Norm
    <3> HIDE DEF x, y, n, m, den
    <3> QED
      BY <2>1, <3>2, <3>3
  <2> HIDE DEF n, m, den
  <2>4. /\ 9 * den - 2 * m \in Nat /\ 9 * den - 2 * n \in Nat /\ 0 < 9 * den - 2 * m
        /\ 9 * den - 2 * m <= 9 * den - 2 * n /\ factor * (8 * den) \in Nat
    BY <2>1, <2>2, <2>3
  <2>5. (factor * (8 * den)) \div (9 * den - 2 * n)
          <= (factor * (8 * den)) \div (9 * den - 2 * m)
    BY <2>4, DivMonotone
  <2> QED
    BY <2>1, <2>2, <2>5 DEF DividedBy
<1> QED
  BY <1>0, <1>1, <1>2


--------------------------------------------------------------------------------
(* calculate_score()                                                        *)

\* The multiplier is a positive rational, and no larger for a larger cost.
LEMMA MultiplierFalls ==
    ASSUME NEW c \in Nat, NEW d \in Nat, NEW lo \in Nat, NEW hi \in Nat,
           lo <= hi, 0 < c, c <= d
    PROVE  LET m == Multiplier(c, lo, hi)
               n == Multiplier(d, lo, hi)
           IN  /\ m[1] \in Nat /\ m[2] \in Nat \ {0} /\ n[1] \in Nat /\ n[2] \in Nat \ {0}
               /\ m[1] * n[2] >= n[1] * m[2]
<1>1. CASE hi = lo
  <2>1. Multiplier(c, lo, hi) = <<1, 1>> /\ Multiplier(d, lo, hi) = <<1, 1>>
    BY <1>1 DEF Multiplier
  <2> QED
    BY <2>1
<1>2. CASE hi # lo
  <2> DEFINE den  == 5 * (hi - lo)
             x    == 25 * (hi - lo) - 24 * (c - lo)
             y    == 25 * (hi - lo) - 24 * (d - lo)
  <2>1. den \in Nat \ {0} /\ x \in Int /\ y \in Int /\ y <= x
    BY <1>2
  <2>2. /\ Multiplier(c, lo, hi) = IF 5 * x < den THEN <<1, 5>>
                                   ELSE IF x > 5 * den THEN <<5, 1>> ELSE <<x, den>>
        /\ Multiplier(d, lo, hi) = IF 5 * y < den THEN <<1, 5>>
                                   ELSE IF y > 5 * den THEN <<5, 1>> ELSE <<y, den>>
    BY <1>2 DEF Multiplier, Line
  <2> HIDE DEF den, x, y
  <2>3. CASE 5 * x < den
    <3>1. Multiplier(c, lo, hi) = <<1, 5>> /\ Multiplier(d, lo, hi) = <<1, 5>>
      BY <2>1, <2>2, <2>3
    <3> QED
      BY <3>1
  <2>4. CASE x > 5 * den
    <3>1. Multiplier(c, lo, hi) = <<5, 1>>
      BY <2>1, <2>2, <2>4
    <3>2. CASE 5 * y < den
      BY <2>1, <2>2, <3>1, <3>2
    <3>3. CASE y > 5 * den
      BY <2>1, <2>2, <3>1, <3>3
    <3>4. CASE ~(5 * y < den) /\ ~(y > 5 * den)
      <4>1. Multiplier(d, lo, hi) = <<y, den>>
        BY <2>2, <3>4
      <4> QED
        BY <2>1, <3>1, <3>4, <4>1
    <3> QED
      BY <3>2, <3>3, <3>4
  <2>5. CASE ~(5 * x < den) /\ ~(x > 5 * den)
    <3>1. Multiplier(c, lo, hi) = <<x, den>>
      BY <2>2, <2>5
    <3>2. CASE 5 * y < den
      BY <2>1, <2>2, <2>5, <3>1, <3>2
    <3>3. CASE ~(5 * y < den)
      <4>1. Multiplier(d, lo, hi) = <<y, den>> /\ y \in Nat /\ x \in Nat
        BY <2>1, <2>2, <2>5, <3>3
      <4>2. y * den <= x * den
        BY <2>1, <4>1
      <4> QED
        BY <2>1, <3>1, <4>1, <4>2
    <3> QED
      BY <3>2, <3>3
  <2> QED
    BY <2>3, <2>4, <2>5
<1> QED
  BY <1>1, <1>2

\* Dividing by the smaller of two rationals leaves no less.
LEMMA QuotientsOrdered ==
    ASSUME NEW a \in Nat, NEW b \in Nat, NEW c \in Nat \ {0}, NEW d \in Nat \ {0},
           b * c <= a * d
    PROVE  b \div d <= a \div c
<1> DEFINE p == b \div d
           q == a \div c
<1>1. p \in Int /\ q \in Int /\ d * p <= b /\ a < c * (q + 1) /\ p >= 0 /\ q >= 0
  OBVIOUS
<1> HIDE DEF p, q
<1>2. ASSUME p >= q + 1 PROVE FALSE
  <2>1. c * (q + 1) <= c * p
    BY <1>1, <1>2
  <2>2. a < c * p
    BY <1>1, <2>1
  <2>3. a * d < (c * p) * d
    BY <1>1, <2>2
  <2>4. (c * p) * d = c * (d * p) /\ c * (d * p) <= c * b
    BY <1>1
  <2> QED
    BY <1>1, <2>3, <2>4
<1>3. p <= q
  BY <1>1, <1>2
<1> QED
  BY <1>3 DEF p, q

\* Cutting both scores to the same limits keeps their order.
LEMMA LimitOrdered ==
    ASSUME NEW s \in Nat, NEW t \in Nat, s <= t, NEW limit \in Nat, limit >= 1, NEW coe \in BOOLEAN
    PROVE  LimitScore(s, limit, coe) <= LimitScore(t, limit, coe)
  BY DEF LimitScore

\* Of two entries alike in all but their energy calculate_score() gives the one
\* that uses less at least as much time, whatever the rest of the score, the
\* multiplier of the other domain and the limit.
THEOREM FrugalScores ==
    ASSUME NEW perf \in Nat, NEW e \in Nat, NEW f \in Nat, NEW lo \in Nat, NEW hi \in Nat,
           lo <= hi, 0 < e, e <= f, NEW mem \in Nat \X (Nat \ {0}),
           NEW limit \in Nat, limit >= 1, NEW coe \in BOOLEAN
    PROVE  EnergyScore(perf, Multiplier(f, lo, hi), mem, limit, coe)
             <= EnergyScore(perf, Multiplier(e, lo, hi), mem, limit, coe)
<1> DEFINE m == Multiplier(e, lo, hi)
           n == Multiplier(f, lo, hi)
           a == perf * m[1] * mem[1]
           b == perf * n[1] * mem[1]
           c == m[2] * mem[2]
           d == n[2] * mem[2]
<1>1. /\ m[1] \in Nat /\ m[2] \in Nat \ {0} /\ n[1] \in Nat /\ n[2] \in Nat \ {0}
      /\ m[1] * n[2] >= n[1] * m[2]
  BY MultiplierFalls
<1>2. mem[1] \in Nat /\ mem[2] \in Nat \ {0}
  OBVIOUS
<1> HIDE DEF m, n
<1>3. a \in Nat /\ b \in Nat /\ c \in Nat \ {0} /\ d \in Nat \ {0}
  <2>1. \A i, j \in Nat : i * j \in Nat
    OBVIOUS
  <2>2. \A i, j \in Nat \ {0} : i * j \in Nat \ {0}
    OBVIOUS
  <2> QED
    BY <1>1, <1>2, <2>1, <2>2
<1>4. b * c <= a * d
  <2> DEFINE k == perf * mem[1] * mem[2]
  <2>1. k \in Nat
    BY <1>2
  <2>2. b * c = k * (n[1] * m[2]) /\ a * d = k * (m[1] * n[2])
    BY <1>1, <1>2
  <2>3. \A i, j, l \in Nat : i <= j => l * i <= l * j
    OBVIOUS
  <2>4. m[1] * n[2] \in Nat /\ n[1] * m[2] \in Nat
    BY <1>1
  <2> HIDE DEF k
  <2> QED
    BY <1>1, <2>1, <2>2, <2>3, <2>4
<1> HIDE DEF a, b, c, d
<1>5. b \div d <= a \div c /\ a \div c \in Nat /\ b \div d \in Nat
  <2>1. \A i \in Nat, j \in Nat \ {0} : i \div j \in Nat
    OBVIOUS
  <2>2. b \div d <= a \div c
    BY <1>3, <1>4, QuotientsOrdered
  <2> QED
    BY <1>3, <2>1, <2>2
<1>6. LimitScore(b \div d, limit, coe) <= LimitScore(a \div c, limit, coe)
  BY <1>5, LimitOrdered
<1> QED
  BY <1>6 DEF EnergyScore, a, b, c, d, m, n

--------------------------------------------------------------------------------
(* The comparisons of MCEnergyHeuristic                                     *)

\* What the cases have in common.
CaseOK ==
    /\ case.factor \in Nat /\ case.e \in 0..MaxEnergy /\ case.f \in 0..MaxEnergy
    /\ case.lo \in 0..MaxEnergy /\ case.hi \in 0..MaxEnergy /\ case.coe \in BOOLEAN
    /\ case.lo <= case.hi

\* The case stays the same.
LEMMA CasesHold == Spec => []CaseOK
<1>1. Init => CaseOK
  BY DEF Init, CaseOK
<1>2. CaseOK /\ [Next]_case => CaseOK'
  BY DEF CaseOK, Next
<1> QED
  BY <1>1, <1>2, PTL DEF Spec

\* The frugal entry never has the larger factor, for every log1p table.
THEOREM FactorCorrect == Spec => []FrugalNeverWorse
<1>1. CaseOK => FrugalNeverWorse
  BY FrugalWins DEF CaseOK, FrugalNeverWorse, Bonus
<1> QED
  BY <1>1, CasesHold, PTL

\* The frugal entry gets at least as much time.
THEOREM ScoreCorrect == Spec => []FrugalScoresMore
<1>1. CaseOK => FrugalScoresMore
  <2> SUFFICES ASSUME CaseOK, 0 < case.e, case.e <= case.f
               PROVE  Score(case.e) >= Score(case.f)
    BY DEF FrugalScoresMore
  <2>1. /\ case.e \in Nat /\ case.f \in Nat /\ case.lo \in Nat /\ case.hi \in Nat
        /\ case.factor \in Nat /\ case.lo <= case.hi /\ case.coe \in BOOLEAN
    BY EnergyAssumption DEF CaseOK
  <2>2. <<1, 1>> \in Nat \X (Nat \ {0})
    OBVIOUS
  <2>3. Limit \in Nat /\ Limit >= 1
    BY DEF Limit
  <2>4. Score(case.f) <= Score(case.e)
    BY <2>1, <2>2, <2>3, FrugalScores DEF Score
  <2> QED
    BY <2>4
<1> QED
  BY <1>1, CasesHold, PTL

================================================================================
