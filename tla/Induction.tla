------------------------------ MODULE Induction ------------------------------
(***************************************************************************)
(* Induction over the natural numbers for sets instead of predicates, and   *)
(* what it gives for functions defined by recursion and for sums over 1..n. *)
(***************************************************************************)
EXTENDS Integers, FiniteSetTheorems, Functions, TLAPS

\* A set of naturals that is not empty has a least element: the intervals from
\* 0 to its elements have one under inclusion.
LEMMA LeastNatural ==
  ASSUME NEW T \in SUBSET Nat, T # {}
  PROVE  \E m \in T : \A n \in T : m <= n
<1> DEFINE I == {0 .. k : k \in T}
<1>1. IsWellFoundedOn(StrictSubsetOrdering(Nat), FiniteSubsetsOf(Nat))
  BY FS_StrictSubsetOrderingWellFounded
<1>2. I \subseteq FiniteSubsetsOf(Nat)
  <2> SUFFICES ASSUME NEW k \in T PROVE 0 .. k \in FiniteSubsetsOf(Nat)
    OBVIOUS
  <2>1. IsFiniteSet(0 .. k)
    BY FS_Interval
  <2> QED BY <2>1 DEF FiniteSubsetsOf
<1>3. I # {}
  OBVIOUS
<1>4. \E x \in I : \A y \in I : <<y, x>> \notin StrictSubsetOrdering(Nat)
  <2> HIDE DEF I
  <2> QED BY <1>1, <1>2, <1>3, WFMin
<1>5. PICK m \in T : \A n \in T : <<0 .. n, 0 .. m>> \notin StrictSubsetOrdering(Nat)
  BY <1>4
<1>6. ASSUME NEW n \in T, n < m PROVE FALSE
  <2>1. 0 .. n \in SUBSET Nat /\ 0 .. m \in SUBSET Nat
    OBVIOUS
  <2>2. 0 .. n \subseteq 0 .. m /\ 0 .. n # 0 .. m
    <3>1. m \in 0 .. m /\ m \notin 0 .. n
      BY <1>6
    <3> QED BY <1>6, <3>1
  <2> QED BY <2>1, <2>2, <1>5 DEF StrictSubsetOrdering
<1> QED BY <1>5, <1>6

LEMMA SetInduction ==
  ASSUME NEW S, 0 \in S, \A n \in Nat : n \in S => n + 1 \in S
  PROVE  Nat \subseteq S
<1> SUFFICES ASSUME Nat \ S # {} PROVE FALSE
  OBVIOUS
<1>1. PICK m \in Nat \ S : \A n \in Nat \ S : m <= n
  BY LeastNatural
<1>2. m # 0 /\ m - 1 \in Nat
  BY <1>1
<1>3. m - 1 \in S
  BY <1>1, <1>2
<1> QED BY <1>1, <1>2, <1>3

-----------------------------------------------------------------------------
\* The first n values of a sequence that starts with b and goes on with step.
Begins(f, n, b, step) == f[0] = b /\ \A k \in 1 .. n : f[k] = step[k][f[k - 1]]

\* They exist ...
LEMMA PartialRecursion ==
  ASSUME NEW T, NEW b \in T, NEW step \in [Nat -> [T -> T]], NEW n \in Nat
  PROVE  \E f \in [Nat -> T] : Begins(f, n, b, step)
<1> DEFINE S == {k \in Nat : \E f \in [Nat -> T] : Begins(f, k, b, step)}
<1>1. 0 \in S
  <2>1. Begins([k \in Nat |-> b], 0, b, step)
    BY DEF Begins
  <2> QED BY <2>1
<1>2. ASSUME NEW k \in Nat, k \in S PROVE k + 1 \in S
  <2>1. PICK f \in [Nat -> T] : Begins(f, k, b, step)
    BY <1>2
  <2> DEFINE g == [f EXCEPT ![k + 1] = step[k + 1][f[k]]]
  <2>2. step[k + 1][f[k]] \in T
    BY <2>1
  <2>3. g \in [Nat -> T]
    BY <2>2
  <2>4. g[0] = b
    BY <2>1 DEF Begins
  <2>5. ASSUME NEW i \in 1 .. k + 1 PROVE g[i] = step[i][g[i - 1]]
    <3>1. g[i - 1] = f[i - 1]
      BY <2>1
    <3>2. CASE i = k + 1
      BY <3>1, <3>2, <2>1
    <3>3. CASE i # k + 1
      <4>1. i \in 1 .. k /\ g[i] = f[i]
        BY <3>3, <2>1
      <4> QED BY <3>1, <4>1, <2>1 DEF Begins
    <3> QED BY <3>2, <3>3
  <2>6. Begins(g, k + 1, b, step)
    <3> HIDE DEF g
    <3> QED BY <2>4, <2>5 DEF Begins
  <2>7. \E h \in [Nat -> T] : Begins(h, k + 1, b, step)
    <3> HIDE DEF g
    <3> QED BY <2>3, <2>6
  <2> QED BY <2>7
<1> HIDE DEF S
<1>3. Nat \subseteq S
  BY <1>1, <1>2, SetInduction
<1> QED BY <1>3 DEF S

\* ... and are the same whichever function they are taken from.
LEMMA RecursionUnique ==
  ASSUME NEW b, NEW step, NEW n \in Nat, NEW f, NEW g,
         Begins(f, n, b, step), Begins(g, n, b, step)
  PROVE  \A k \in 0 .. n : f[k] = g[k]
<1> DEFINE S == {k \in Nat : k <= n => f[k] = g[k]}
<1>1. 0 \in S
  BY DEF Begins
<1>2. ASSUME NEW k \in Nat, k \in S PROVE k + 1 \in S
  <2> SUFFICES ASSUME k + 1 <= n PROVE f[k + 1] = g[k + 1]
    OBVIOUS
  <2>1. k + 1 \in 1 .. n /\ (k + 1) - 1 = k /\ f[k] = g[k]
    BY <1>2
  <2>2. f[k + 1] = step[k + 1][f[k]] /\ g[k + 1] = step[k + 1][g[k]]
    BY <2>1 DEF Begins
  <2> QED BY <2>1, <2>2
<1> HIDE DEF S
<1>3. Nat \subseteq S
  BY <1>1, <1>2, SetInduction
<1> QED BY <1>3 DEF S

Recurs(f, b, step) == f[0] = b /\ \A k \in Nat \ {0} : f[k] = step[k][f[k - 1]]

\* A function over the naturals may be defined by recursion.
LEMMA Recursion ==
  ASSUME NEW T, NEW b \in T, NEW step \in [Nat -> [T -> T]]
  PROVE  \E f \in [Nat -> T] : Recurs(f, b, step)
<1> DEFINE Part(n) == CHOOSE f \in [Nat -> T] : Begins(f, n, b, step)
           f == [n \in Nat |-> Part(n)[n]]
<1>1. ASSUME NEW n \in Nat PROVE Part(n) \in [Nat -> T] /\ Begins(Part(n), n, b, step)
  BY PartialRecursion
<1> HIDE DEF Part
<1>2. f \in [Nat -> T]
  BY <1>1
<1>3. f[0] = b
  BY <1>1 DEF Begins
<1>4. ASSUME NEW k \in Nat \ {0} PROVE f[k] = step[k][f[k - 1]]
  <2>1. k - 1 \in Nat /\ k \in Nat /\ k - 1 \in 0 .. k - 1 /\ k \in 1 .. k
    OBVIOUS
  <2>2. Begins(Part(k), k, b, step) /\ Begins(Part(k - 1), k - 1, b, step)
    BY <1>1, <2>1
  <2>3. Begins(Part(k), k - 1, b, step)
    BY <2>2 DEF Begins
  <2>4. Part(k)[k - 1] = Part(k - 1)[k - 1]
    BY <2>1, <2>2, <2>3, RecursionUnique
  <2>5. Part(k)[k] = step[k][Part(k)[k - 1]]
    BY <2>1, <2>2 DEF Begins
  <2> QED BY <2>1, <2>4, <2>5
<1> HIDE DEF f
<1> QED BY <1>2, <1>3, <1>4 DEF Recurs

-----------------------------------------------------------------------------
(* The sum of a sequence of numbers, taken by SumFunctionOnSet in any order.  *)

\* What the values of f at the naturals of s add up to, so far.
AddsUp(h, f, s) ==
  /\ h \in [Nat -> Int] /\ h[0] = 0
  /\ \A k \in Nat \ {0} : h[k] = IF k \in s THEN h[k - 1] + f[k] ELSE h[k - 1]

UpToN(f, s) == CHOOSE h : AddsUp(h, f, s)

LEMMA UpToNIs ==
  ASSUME NEW n \in Nat, NEW f \in [1 .. n -> Int], NEW s \in SUBSET (1 .. n)
  PROVE  AddsUp(UpToN(f, s), f, s)
<1> DEFINE T == Int
           b == 0
           step == [k \in Nat |-> [t \in T |-> IF k \in s THEN t + f[k] ELSE t]]
<1>1. step \in [Nat -> [T -> T]]
  <2> SUFFICES ASSUME NEW k \in Nat, NEW t \in Int PROVE (IF k \in s THEN t + f[k] ELSE t) \in Int
    OBVIOUS
  <2> QED OBVIOUS
<1>2. \A k \in Nat, t \in Int : step[k][t] = IF k \in s THEN t + f[k] ELSE t
  OBVIOUS
<1>3. b \in T
  OBVIOUS
<1> HIDE DEF step, T, b
<1>4. PICK h \in [Nat -> T] : Recurs(h, b, step)
  BY <1>1, <1>3, Recursion
<1>5. h \in [Nat -> Int] /\ h[0] = 0 /\ \A k \in Nat \ {0} : h[k] = step[k][h[k - 1]]
  BY <1>4 DEF Recurs, T, b
<1>6. \A k \in Nat \ {0} : h[k] = IF k \in s THEN h[k - 1] + f[k] ELSE h[k - 1]
  <2> SUFFICES ASSUME NEW k \in Nat \ {0} PROVE h[k] = IF k \in s THEN h[k - 1] + f[k] ELSE h[k - 1]
    OBVIOUS
  <2>1. k - 1 \in Nat /\ h[k - 1] \in Int
    BY <1>5
  <2> QED BY <2>1, <1>2, <1>5
<1>7. AddsUp(h, f, s)
  BY <1>5, <1>6 DEF AddsUp
<1> QED BY <1>7 DEF UpToN

LEMMA UpToNRemove ==
  ASSUME NEW n \in Nat, NEW f \in [1 .. n -> Int], NEW s \in SUBSET (1 .. n), NEW x \in s
  PROVE  UpToN(f, s)[n] = f[x] + UpToN(f, s \ {x})[n]
<1> DEFINE r == s \ {x}
           h == UpToN(f, s)
           g == UpToN(f, r)
           T == {k \in Nat : h[k] = IF k >= x THEN f[x] + g[k] ELSE g[k]}
<1>0. r \in SUBSET (1 .. n) /\ \A k : k \in r <=> k \in s /\ k # x
  OBVIOUS
<1> HIDE DEF r
<1>1. AddsUp(h, f, s) /\ AddsUp(g, f, r)
  BY <1>0, UpToNIs
<1> HIDE DEF h, g
<1>2. /\ h \in [Nat -> Int] /\ h[0] = 0 /\ g \in [Nat -> Int] /\ g[0] = 0
      /\ \A k \in Nat \ {0} : h[k] = IF k \in s THEN h[k - 1] + f[k] ELSE h[k - 1]
      /\ \A k \in Nat \ {0} : g[k] = IF k \in r THEN g[k - 1] + f[k] ELSE g[k - 1]
  BY <1>1 DEF AddsUp
<1>3. x \in 1 .. n /\ f[x] \in Int
  OBVIOUS
<1>4. 0 \in T
  BY <1>2, <1>3
<1>5. ASSUME NEW k \in Nat, k \in T PROVE k + 1 \in T
  <2>1. k + 1 \in Nat \ {0} /\ (k + 1) - 1 = k /\ h[k] \in Int /\ g[k] \in Int
    BY <1>2
  <2>2. h[k + 1] = IF k + 1 \in s THEN h[k] + f[k + 1] ELSE h[k]
    BY <1>2, <2>1
  <2>3. g[k + 1] = IF k + 1 \in r THEN g[k] + f[k + 1] ELSE g[k]
    BY <1>2, <2>1
  <2>4. h[k] = IF k >= x THEN f[x] + g[k] ELSE g[k]
    BY <1>5
  <2>5. k + 1 \in s => f[k + 1] \in Int
    OBVIOUS
  <2>6. CASE k + 1 = x
    <3>1. ~(k >= x) /\ k + 1 >= x /\ k + 1 \in s /\ k + 1 \notin r
      BY <2>6, <1>0, <1>3
    <3>2. h[k + 1] = g[k] + f[x] /\ g[k + 1] = g[k]
      BY <2>2, <2>3, <2>4, <3>1, <2>6
    <3> QED BY <3>1, <3>2, <2>1, <1>3
  <2>7. CASE k + 1 # x
    <3>1. (k >= x) <=> (k + 1 >= x)
      BY <2>7, <1>3
    <3>2. k + 1 \in s <=> k + 1 \in r
      BY <2>7, <1>0
    <3>3. h[k + 1] = IF k + 1 >= x THEN f[x] + g[k + 1] ELSE g[k + 1]
      BY <2>1, <2>2, <2>3, <2>4, <2>5, <3>1, <3>2, <1>3
    <3> QED BY <3>3
  <2> QED BY <2>6, <2>7
<1> HIDE DEF T
<1>6. Nat \subseteq T
  BY <1>4, <1>5, SetInduction
<1>7. n \in T /\ n >= x
  BY <1>6, <1>3
<1> QED BY <1>7 DEF T, h, g, r

LEMMA SumIsUpToN ==
  ASSUME NEW n \in Nat, NEW f \in [1 .. n -> Int]
  PROVE  SumFunctionOnSet(f, 1 .. n) = UpToN(f, 1 .. n)[n]
<1> DEFINE S == 1 .. n
           next(g) == [s \in SUBSET S |-> IF s = {} THEN 0
                                          ELSE f[CHOOSE y \in s : TRUE] + g[s \ {CHOOSE y \in s : TRUE}]]
           iter == CHOOSE g : g = next(g)
           sum == [s \in SUBSET S |-> UpToN(f, s)[n]]
<1>1. SumFunctionOnSet(f, S) = iter[S]
  BY DEF SumFunctionOnSet, FoldFunctionOnSet, MapThenFoldSet
<1>2. \A s \in SUBSET S : s # {} => (CHOOSE y \in s : TRUE) \in s
  OBVIOUS
<1>3. UpToN(f, {})[n] = 0
  <2> DEFINE r == {}
             h == UpToN(f, r)
             T == {k \in Nat : h[k] = 0}
  <2>1. r \in SUBSET (1 .. n) /\ \A k : k \notin r
    OBVIOUS
  <2> HIDE DEF r
  <2>2. AddsUp(h, f, r)
    BY <2>1, UpToNIs
  <2> HIDE DEF h
  <2>3. 0 \in T
    BY <2>2 DEF AddsUp
  <2>4. ASSUME NEW k \in Nat, k \in T PROVE k + 1 \in T
    <3>1. k + 1 \in Nat \ {0} /\ (k + 1) - 1 = k
      OBVIOUS
    <3> QED BY <2>1, <2>2, <2>4, <3>1 DEF AddsUp
  <2> HIDE DEF T
  <2>5. Nat \subseteq T
    BY <2>3, <2>4, SetInduction
  <2> QED BY <2>5 DEF T, h, r
<1>4. \A s \in SUBSET S : s # {} =>
        sum[s] = f[CHOOSE y \in s : TRUE] + sum[s \ {CHOOSE y \in s : TRUE}]
  <2> SUFFICES ASSUME NEW s \in SUBSET S, NEW x \in s PROVE sum[s] = f[x] + sum[s \ {x}]
    BY <1>2
  <2> QED BY UpToNRemove
<1>5. sum = next(sum)
  BY <1>3, <1>4
<1> HIDE DEF sum
<1>6. iter = next(iter)
  BY <1>5
<1> HIDE DEF iter
<1> DEFINE T == {m \in Nat : \A s \in SUBSET S : Cardinality(s) = m => iter[s] = sum[s]}
<1>7. IsFiniteSet(S) /\ \A s \in SUBSET S : IsFiniteSet(s) /\ Cardinality(s) \in Nat
  <2>1. IsFiniteSet(S)
    BY FS_Interval
  <2> HIDE DEF S
  <2>2. \A s \in SUBSET S : IsFiniteSet(s)
    BY <2>1, FS_Subset
  <2> QED BY <2>1, <2>2, FS_CardinalityType
<1>8. 0 \in T
  <2> SUFFICES ASSUME NEW s \in SUBSET S, Cardinality(s) = 0 PROVE iter[s] = sum[s]
    OBVIOUS
  <2>1. s = {}
    BY <1>7, FS_EmptySet
  <2> QED BY <2>1, <1>5, <1>6
<1>9. ASSUME NEW m \in Nat, m \in T PROVE m + 1 \in T
  <2> SUFFICES ASSUME NEW s \in SUBSET S, Cardinality(s) = m + 1 PROVE iter[s] = sum[s]
    OBVIOUS
  <2> DEFINE x == CHOOSE y \in s : TRUE
  <2>1. s # {} /\ x \in s
    BY <1>7, FS_EmptySet
  <2>2. s \ {x} \in SUBSET S /\ Cardinality(s \ {x}) = m
    <3>1. s \ {x} \in SUBSET S /\ IsFiniteSet(s)
      BY <1>7
    <3> HIDE DEF x
    <3>2. Cardinality(s \ {x}) = IF x \in s THEN Cardinality(s) - 1 ELSE Cardinality(s)
      BY <3>1, FS_RemoveElement
    <3> QED BY <2>1, <3>1, <3>2
  <2>3. iter[s \ {x}] = sum[s \ {x}]
    BY <2>2, <1>9
  <2>4. iter[s] = f[x] + iter[s \ {x}] /\ sum[s] = f[x] + sum[s \ {x}]
    BY <2>1, <1>5, <1>6
  <2> QED BY <2>3, <2>4
<1> HIDE DEF T
<1>10. Nat \subseteq T
  BY <1>8, <1>9, SetInduction
<1>11. iter[S] = sum[S]
  BY <1>7, <1>10 DEF T
<1> QED BY <1>1, <1>11 DEF sum, iter

\* Of one number and of two.
LEMMA SumOfOne ==
  ASSUME NEW f \in [1 .. 1 -> Int]
  PROVE  SumFunctionOnSet(f, 1 .. 1) = f[1]
<1>1. SumFunctionOnSet(f, 1 .. 1) = UpToN(f, 1 .. 1)[1] /\ AddsUp(UpToN(f, 1 .. 1), f, 1 .. 1)
  BY SumIsUpToN, UpToNIs
<1> QED BY <1>1 DEF AddsUp

LEMMA SumOfTwo ==
  ASSUME NEW f \in [1 .. 2 -> Int]
  PROVE  SumFunctionOnSet(f, 1 .. 2) = f[1] + f[2]
<1> DEFINE h == UpToN(f, 1 .. 2)
<1>1. SumFunctionOnSet(f, 1 .. 2) = h[2] /\ AddsUp(h, f, 1 .. 2)
  BY SumIsUpToN, UpToNIs
<1> HIDE DEF h
<1>2. h[0] = 0 /\ h[1] = h[0] + f[1] /\ h[2] = h[1] + f[2]
  BY <1>1 DEF AddsUp
<1> QED BY <1>1, <1>2
=============================================================================
