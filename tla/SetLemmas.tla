------------------------------- MODULE SetLemmas -------------------------------
(***************************************************************************)
(* Facts about finite sets of numbers and sums that the library does not   *)
(* have in a form the provers can use.  An induction is an appeal to the   *)
(* least counterexample.                                                   *)
(***************************************************************************)
EXTENDS Naturals, FiniteSets, Functions, FiniteSetTheorems, TLAPS

\* A set of natural numbers has a least element.
LEMMA LeastOf ==
    ASSUME NEW S \in SUBSET Nat, S # {}
    PROVE  \E x \in S : \A y \in S : x <= y
<1>1. \E x \in S : \A y \in S : ~(<<y, x>> \in OpToRel(<, Nat))
  BY WFMin, NatLessThanWellFounded
<1>2. OpToRel(<, Nat) = {ss \in Nat \X Nat : ss[1] < ss[2]}
  BY Zenon DEF OpToRel
<1>3. PICK x \in S : \A y \in S : ~(<<y, x>> \in {ss \in Nat \X Nat : ss[1] < ss[2]})
  BY <1>1, <1>2, Zenon
<1>4. ASSUME NEW y \in S PROVE x <= y
  <2>1. x \in Nat /\ y \in Nat /\ <<y, x>> \in Nat \X Nat
    OBVIOUS
  <2>2. ~(<<y, x>>[1] < <<y, x>>[2])
    BY <1>3, <2>1, Zenon
  <2> QED
    BY <2>1, <2>2
<1> QED
  BY <1>4

--------------------------------------------------------------------------------
(* Sums                                                                     *)

\* The element that SumFunctionOnSet() takes next.
OneOf(s) == CHOOSE y \in s : TRUE

\* The function by which SumFunctionOnSet() adds up f, over a family of sets.
IsSum(g, f, family) ==
    g = [s \in family |-> IF s = {} THEN 0 ELSE f[OneOf(s)] + g[s \ {OneOf(s)}]]

\* The subsets of S with at most n elements.
UpTo(n, S) == {s \in SUBSET S : Cardinality(s) <= n}

\* Taking an element out of a finite set makes it smaller.
LEMMA Smaller ==
    ASSUME NEW S, IsFiniteSet(S), S # {}
    PROVE  /\ OneOf(S) \in S
           /\ \A x \in S : /\ IsFiniteSet(S \ {x}) /\ Cardinality(S) \in Nat \ {0}
                           /\ Cardinality(S \ {x}) = Cardinality(S) - 1
<1>1. OneOf(S) \in S
  BY DEF OneOf
<1>2. Cardinality(S) \in Nat \ {0}
  BY FS_CardinalityType, FS_EmptySet
<1> QED
  BY <1>1, <1>2, FS_RemoveElement

\* There is such a function over all subsets of a finite set.
LEMMA SumExists ==
    ASSUME NEW f, NEW S, IsFiniteSet(S)
    PROVE  \E g : IsSum(g, f, SUBSET S)
<1>0. \A s \in SUBSET S : IsFiniteSet(s) /\ Cardinality(s) \in Nat
  BY FS_Subset, FS_CardinalityType
<1> DEFINE bad == {n \in Nat : ~ \E g : IsSum(g, f, UpTo(n, S))}
<1>1. bad = {}
  <2>1. SUFFICES ASSUME bad # {} PROVE FALSE
    OBVIOUS
  <2>2. PICK n \in bad : \A m \in bad : n <= m
    BY <2>1, LeastOf
  <2>3. CASE n = 0
    <3>1. UpTo(0, S) = {{}}
      BY <1>0, FS_EmptySet DEF UpTo
    <3> DEFINE g == [s \in {{}} |-> 0]
    <3>2. IsSum(g, f, {{}})
      BY DEF IsSum
    <3> QED
      BY <2>2, <2>3, <3>1, <3>2
  <2>4. CASE n # 0
    <3>1. n - 1 \in Nat /\ n - 1 \notin bad
      BY <2>2, <2>4
    <3>2. PICK h : IsSum(h, f, UpTo(n - 1, S))
      BY <3>1
    <3> DEFINE g == [s \in UpTo(n, S) |->
                       IF s = {} THEN 0 ELSE f[OneOf(s)] + h[s \ {OneOf(s)}]]
    <3>3. ASSUME NEW s \in UpTo(n - 1, S) PROVE s \in UpTo(n, S) /\ g[s] = h[s]
      <4>1. s \in UpTo(n, S)
        BY <1>0, <3>1 DEF UpTo
      <4>2. h[s] = IF s = {} THEN 0 ELSE f[OneOf(s)] + h[s \ {OneOf(s)}]
        BY <3>2 DEF IsSum
      <4> QED
        BY <4>1, <4>2
    <3>4. ASSUME NEW s \in UpTo(n, S), s # {} PROVE g[s \ {OneOf(s)}] = h[s \ {OneOf(s)}]
      <4>1. IsFiniteSet(s) /\ Cardinality(s) \in Nat /\ Cardinality(s) <= n
        BY <1>0 DEF UpTo
      <4>2. Cardinality(s \ {OneOf(s)}) = Cardinality(s) - 1
        BY <3>4, <4>1, Smaller
      <4>3. s \ {OneOf(s)} \in UpTo(n - 1, S)
        BY <2>2, <4>1, <4>2 DEF UpTo
      <4> QED
        BY <3>3, <4>3
    <3>5. IsSum(g, f, UpTo(n, S))
      BY <3>4 DEF IsSum
    <3> QED
      BY <2>2, <3>5
  <2> QED
    BY <2>3, <2>4
<1>2. Cardinality(S) \in Nat /\ UpTo(Cardinality(S), S) = SUBSET S
  <2>1. \A s \in SUBSET S : Cardinality(s) <= Cardinality(S)
    BY FS_Subset
  <2> QED
    BY <2>1, FS_CardinalityType DEF UpTo
<1>3. \E g : IsSum(g, f, UpTo(Cardinality(S), S))
  BY <1>1, <1>2
<1> QED
  BY <1>2, <1>3

\* The sum is what such a function says of the whole set.
LEMMA SumIs ==
    ASSUME NEW f, NEW S, IsFiniteSet(S)
    PROVE  \E g : IsSum(g, f, SUBSET S) /\ SumFunctionOnSet(f, S) = g[S]
<1> DEFINE iter == CHOOSE g : IsSum(g, f, SUBSET S)
<1>1. IsSum(iter, f, SUBSET S)
  BY SumExists
<1>2. SumFunctionOnSet(f, S) = iter[S]
  BY DEF SumFunctionOnSet, FoldFunctionOnSet, MapThenFoldSet, IsSum, OneOf
<1> QED
  BY <1>1, <1>2

\* Two such functions agree, over whatever set they are made for.
LEMMA SumsAgree ==
    ASSUME NEW f, NEW S, NEW T \in SUBSET S, IsFiniteSet(S),
           NEW P, P = SUBSET S, NEW g, IsSum(g, f, P),
           NEW Q, Q = SUBSET T, NEW h, IsSum(h, f, Q)
    PROVE  g[T] = h[T]
<1>0. \A s \in SUBSET T : IsFiniteSet(s) /\ Cardinality(s) \in Nat /\ s \in SUBSET S
  BY FS_Subset, FS_CardinalityType
<1> DEFINE bad == {n \in Nat : \E s \in SUBSET T : Cardinality(s) = n /\ g[s] # h[s]}
<1>1. SUFFICES ASSUME bad # {} PROVE FALSE
  BY <1>0
<1>2. PICK n \in bad : \A m \in bad : n <= m
  BY <1>1, LeastOf
<1>3. PICK s \in SUBSET T : Cardinality(s) = n /\ g[s] # h[s]
  BY <1>2
<1>4. /\ g[s] = IF s = {} THEN 0 ELSE f[OneOf(s)] + g[s \ {OneOf(s)}]
      /\ h[s] = IF s = {} THEN 0 ELSE f[OneOf(s)] + h[s \ {OneOf(s)}]
  BY <1>0 DEF IsSum
<1>5. s # {} /\ g[s \ {OneOf(s)}] # h[s \ {OneOf(s)}]
  BY <1>3, <1>4
<1>6. Cardinality(s \ {OneOf(s)}) = n - 1 /\ n - 1 \in Nat
  BY <1>0, <1>3, <1>5, Smaller
<1>7. s \ {OneOf(s)} \in SUBSET T
  OBVIOUS
<1>8. n - 1 \in bad
  BY <1>5, <1>6, <1>7
<1> QED
  BY <1>2, <1>6, <1>8

\* The sum over no elements, and over one more than some.
LEMMA SumUnfolds ==
    ASSUME NEW f, NEW S, IsFiniteSet(S)
    PROVE  SumFunctionOnSet(f, S) =
             IF S = {} THEN 0 ELSE f[OneOf(S)] + SumFunctionOnSet(f, S \ {OneOf(S)})
<1>1. PICK g : IsSum(g, f, SUBSET S) /\ SumFunctionOnSet(f, S) = g[S]
  BY SumIs
<1>2. PICK T \in SUBSET S : T = S \ {OneOf(S)}
  OBVIOUS
<1>3. g[S] = IF S = {} THEN 0 ELSE f[OneOf(S)] + g[T]
  BY <1>1, <1>2 DEF IsSum
<1>4. IsFiniteSet(T)
  BY FS_Subset
<1>5. PICK h : IsSum(h, f, SUBSET T) /\ SumFunctionOnSet(f, T) = h[T]
  BY <1>4, SumIs
<1>6. ASSUME NEW P, P = SUBSET S, NEW Q, Q = SUBSET T PROVE g[T] = h[T]
  <2>1. IsSum(g, f, P) /\ IsSum(h, f, Q)
    BY <1>1, <1>5, <1>6
  <2> QED
    BY <1>6, <2>1, SumsAgree, SMTT(60)
<1>7. g[T] = h[T]
  BY <1>6
<1> QED
  BY <1>1, <1>2, <1>3, <1>5, <1>7

\* A sum of natural numbers is one.
LEMMA SumNat ==
    ASSUME NEW T, NEW f \in [T -> Nat], NEW S \in SUBSET T, IsFiniteSet(S)
    PROVE  SumFunctionOnSet(f, S) \in Nat
<1> DEFINE bad == {n \in Nat : \E s \in SUBSET S : /\ Cardinality(s) = n
                                                   /\ SumFunctionOnSet(f, s) \notin Nat}
<1>0. \A s \in SUBSET S : IsFiniteSet(s) /\ Cardinality(s) \in Nat
  BY FS_Subset, FS_CardinalityType
<1>1. SUFFICES ASSUME bad # {} PROVE FALSE
  BY <1>0
<1>2. PICK n \in bad : \A m \in bad : n <= m
  BY <1>1, LeastOf
<1>3. PICK s \in SUBSET S : Cardinality(s) = n /\ SumFunctionOnSet(f, s) \notin Nat
  BY <1>2
<1>4. s # {} /\ SumFunctionOnSet(f, s) = f[OneOf(s)] + SumFunctionOnSet(f, s \ {OneOf(s)})
  BY <1>0, <1>3, SumUnfolds
<1>5. /\ OneOf(s) \in s /\ Cardinality(s \ {OneOf(s)}) = n - 1 /\ n - 1 \in Nat
      /\ s \ {OneOf(s)} \in SUBSET S
  BY <1>0, <1>3, <1>4, Smaller
<1>6. n - 1 \notin bad
  BY <1>2, <1>5
<1>7. SumFunctionOnSet(f, s \ {OneOf(s)}) \in Nat
  BY <1>5, <1>6
<1>8. f[OneOf(s)] \in Nat
  BY <1>5
<1> QED
  BY <1>3, <1>4, <1>7, <1>8

\* Any element may be taken out first.
LEMMA SumRemove ==
    ASSUME NEW T, NEW f \in [T -> Nat], NEW S \in SUBSET T, IsFiniteSet(S), NEW x \in S
    PROVE  SumFunctionOnSet(f, S) = f[x] + SumFunctionOnSet(f, S \ {x})
<1> DEFINE Sum(s) == SumFunctionOnSet(f, s)
           bad    == {n \in Nat : \E s \in SUBSET S : /\ Cardinality(s) = n
                                      /\ \E y \in s : Sum(s) # f[y] + Sum(s \ {y})}
<1>0. \A s \in SUBSET S : IsFiniteSet(s) /\ Cardinality(s) \in Nat /\ Sum(s) \in Nat
  <2> TAKE s \in SUBSET S
  <2>1. IsFiniteSet(s)
    BY FS_Subset
  <2> QED
    BY <2>1, FS_CardinalityType, SumNat
<1>1. SUFFICES ASSUME bad # {} PROVE FALSE
  BY <1>0
<1>2. PICK n \in bad : \A m \in bad : n <= m
  BY <1>1, LeastOf
<1>3. PICK s \in SUBSET S : /\ Cardinality(s) = n
                            /\ \E y \in s : Sum(s) # f[y] + Sum(s \ {y})
  BY <1>2
<1>4. PICK y \in s : Sum(s) # f[y] + Sum(s \ {y})
  BY <1>3
<1> DEFINE a == OneOf(s)
<1>5. Sum(s) = f[a] + Sum(s \ {a})
  BY <1>0, <1>4, SumUnfolds
<1>6. a \in s /\ a # y
  BY <1>0, <1>4, <1>5, Smaller
<1>7. \A z \in s : Cardinality(s \ {z}) = n - 1 /\ n - 1 \in Nat
  BY <1>0, <1>3, Smaller
<1>8. \A z \in s : s \ {z} \in SUBSET S
  OBVIOUS
<1>9. n - 1 \notin bad
  BY <1>2, <1>6, <1>7
<1> HIDE DEF a, Sum
<1>10. \A z \in s : \A v \in s \ {z} : Sum(s \ {z}) = f[v] + Sum((s \ {z}) \ {v})
  BY <1>7, <1>8, <1>9
<1>11. /\ Sum(s \ {a}) = f[y] + Sum((s \ {a}) \ {y})
       /\ Sum(s \ {y}) = f[a] + Sum((s \ {y}) \ {a})
  BY <1>6, <1>10
<1>12. (s \ {a}) \ {y} = (s \ {y}) \ {a} /\ (s \ {a}) \ {y} \in SUBSET S
  OBVIOUS
<1>13. f[a] \in Nat /\ f[y] \in Nat /\ Sum((s \ {a}) \ {y}) \in Nat
  BY <1>0, <1>6, <1>12
<1> QED
  BY <1>4, <1>5, <1>11, <1>12, <1>13

\* The sum looks at nothing but the elements.
LEMMA SumSame ==
    ASSUME NEW f, NEW g, NEW S, IsFiniteSet(S), \A x \in S : f[x] = g[x]
    PROVE  SumFunctionOnSet(f, S) = SumFunctionOnSet(g, S)
<1> DEFINE bad == {n \in Nat : \E s \in SUBSET S :
                      Cardinality(s) = n /\ SumFunctionOnSet(f, s) # SumFunctionOnSet(g, s)}
<1>0. \A s \in SUBSET S : IsFiniteSet(s) /\ Cardinality(s) \in Nat
  BY FS_Subset, FS_CardinalityType
<1>1. SUFFICES ASSUME bad # {} PROVE FALSE
  BY <1>0
<1>2. PICK n \in bad : \A m \in bad : n <= m
  BY <1>1, LeastOf
<1>3. PICK s \in SUBSET S :
         Cardinality(s) = n /\ SumFunctionOnSet(f, s) # SumFunctionOnSet(g, s)
  BY <1>2
<1>4. /\ s # {}
      /\ SumFunctionOnSet(f, s) = f[OneOf(s)] + SumFunctionOnSet(f, s \ {OneOf(s)})
      /\ SumFunctionOnSet(g, s) = g[OneOf(s)] + SumFunctionOnSet(g, s \ {OneOf(s)})
  BY <1>0, <1>3, SumUnfolds
<1>5. /\ OneOf(s) \in s /\ Cardinality(s \ {OneOf(s)}) = n - 1 /\ n - 1 \in Nat
      /\ s \ {OneOf(s)} \in SUBSET S
  BY <1>0, <1>3, <1>4, Smaller
<1>6. SumFunctionOnSet(f, s \ {OneOf(s)}) # SumFunctionOnSet(g, s \ {OneOf(s)})
  BY <1>3, <1>4, <1>5
<1> QED
  BY <1>2, <1>5, <1>6

\* The sum of zeros is zero.
LEMMA SumZero ==
    ASSUME NEW S, IsFiniteSet(S), NEW f, f = [x \in S |-> 0]
    PROVE  SumFunctionOnSet(f, S) = 0
<1>0. \A s \in SUBSET S : IsFiniteSet(s) /\ Cardinality(s) \in Nat
  BY FS_Subset, FS_CardinalityType
<1>1. PICK g : IsSum(g, f, SUBSET S) /\ SumFunctionOnSet(f, S) = g[S]
  BY SumIs
<1> DEFINE bad == {n \in Nat : \E s \in SUBSET S : Cardinality(s) = n /\ g[s] # 0}
<1>2. SUFFICES ASSUME bad # {} PROVE FALSE
  BY <1>0, <1>1
<1>3. PICK n \in bad : \A m \in bad : n <= m
  BY <1>2, LeastOf
<1>4. PICK s \in SUBSET S : Cardinality(s) = n /\ g[s] # 0
  BY <1>3
<1>5. g[s] = IF s = {} THEN 0 ELSE f[OneOf(s)] + g[s \ {OneOf(s)}]
  BY <1>1 DEF IsSum
<1>6. s # {}
  BY <1>4, <1>5
<1>7. OneOf(s) \in s /\ Cardinality(s \ {OneOf(s)}) = n - 1 /\ n - 1 \in Nat
  BY <1>0, <1>4, <1>6, Smaller
<1>8. f[OneOf(s)] = 0 /\ s \ {OneOf(s)} \in SUBSET S
  BY <1>7
<1>9. g[s \ {OneOf(s)}] # 0
  <2>1. CASE g[s \ {OneOf(s)}] = 0
    BY <1>4, <1>5, <1>6, <1>8, <2>1
  <2> QED
    BY <2>1
<1>10. n - 1 \in bad
  BY <1>7, <1>8, <1>9
<1> QED
  BY <1>3, <1>7, <1>10

================================================================================
