-------------------------- MODULE ChunkScore_proofs --------------------------
(***************************************************************************)
(* The heap of the chunk scores, for any number of retries and blocks, any  *)
(* capacity of the channel and any counts: after every report the size on   *)
(* top is worth at least what each other size is.                           *)
(***************************************************************************)
EXTENDS ChunkScore, SequenceTheorems, TLAPS

-----------------------------------------------------------------------------
(* Priorities are fractions, and "not higher" is a total order of them. *)

Fractions == Nat \X (Nat \ {0})

LEMMA HigherTotal ==
  ASSUME NEW a \in Fractions, NEW b \in Fractions
  PROVE  Higher(a, b) => ~Higher(b, a)
<1>1. a[1] \in Nat /\ a[2] \in Nat /\ b[1] \in Nat /\ b[2] \in Nat
  BY DEF Fractions
<1>2. a[1] * b[2] \in Int /\ b[1] * a[2] \in Int
  BY <1>1
<1> QED BY <1>2 DEF Higher

\* Of three fractions n/d the first is at least the last.
LEMMA CrossMultiply ==
  ASSUME NEW n1 \in Nat, NEW n2 \in Nat, NEW n3 \in Nat,
         NEW d1 \in Nat \ {0}, NEW d2 \in Nat \ {0}, NEW d3 \in Nat \ {0},
         n2 * d1 <= n1 * d2, n3 * d2 <= n2 * d3
  PROVE  n3 * d1 <= n1 * d3
<1>1. (n3 * d2) * d1 <= (n2 * d3) * d1
  BY Z3
<1>2. (n2 * d1) * d3 <= (n1 * d2) * d3
  BY Z3
<1>3. d2 * (n3 * d1) <= d2 * (n1 * d3)
  <2>1. d2 * (n3 * d1) = (n3 * d2) * d1 /\ (n2 * d3) * d1 = (n2 * d1) * d3
        /\ d2 * (n1 * d3) = (n1 * d2) * d3
    BY Z3
  <2>2. (n3 * d2) * d1 \in Int /\ (n2 * d3) * d1 \in Int /\ (n1 * d2) * d3 \in Int
    BY Z3
  <2> QED BY <1>1, <1>2, <2>1, <2>2
<1>4. \A x, y \in Nat, d \in Nat \ {0} : d * x <= d * y => x <= y
  BY Z3
<1>5. n3 * d1 \in Nat /\ n1 * d3 \in Nat
  BY Z3
<1> HIDE DEF Fractions
<1> QED BY <1>3, <1>4, <1>5

LEMMA HigherTransitive ==
  ASSUME NEW a \in Fractions, NEW b \in Fractions, NEW c \in Fractions,
         ~Higher(b, a), ~Higher(c, b)
  PROVE  ~Higher(c, a)
<1> DEFINE n1 == a[1]
           n2 == b[1]
           n3 == c[1]
           d1 == a[2]
           d2 == b[2]
           d3 == c[2]
<1>1. /\ n1 \in Nat /\ n2 \in Nat /\ n3 \in Nat
      /\ d1 \in Nat \ {0} /\ d2 \in Nat \ {0} /\ d3 \in Nat \ {0}
  BY DEF Fractions
<1>2. ~(n2 * d1 > n1 * d2) /\ ~(n3 * d2 > n2 * d3)
  BY DEF Higher
<1>3. ~(n3 * d1 > n1 * d3) => ~Higher(c, a)
  BY DEF Higher
<1> HIDE DEF n1, n2, n3, d1, d2, d3
<1>4. n2 * d1 \in Int /\ n1 * d2 \in Int /\ n3 * d2 \in Int /\ n2 * d3 \in Int
      /\ n3 * d1 \in Int /\ n1 * d3 \in Int
  BY <1>1
<1>5. n2 * d1 <= n1 * d2 /\ n3 * d2 <= n2 * d3
  BY <1>2, <1>4
<1>6. n3 * d1 <= n1 * d3
  BY <1>1, <1>5, CrossMultiply
<1> QED BY <1>3, <1>4, <1>6

-----------------------------------------------------------------------------
(* The heap. *)

Geq(pr, s, t) == ~Higher(pr[t], pr[s])

LEMMA GeqOrder ==
  ASSUME NEW pr \in [Sizes -> Fractions]
  PROVE  /\ \A s, t \in Sizes : Geq(pr, s, t) \/ Geq(pr, t, s)
         /\ \A s, t, u \in Sizes : Geq(pr, s, t) /\ Geq(pr, t, u) => Geq(pr, s, u)
<1>1. \A s, t \in Sizes : Geq(pr, s, t) \/ Geq(pr, t, s)
  BY HigherTotal DEF Geq
<1>2. \A s, t, u \in Sizes : Geq(pr, s, t) /\ Geq(pr, t, u) => Geq(pr, s, u)
  BY HigherTransitive DEF Geq
<1> QED BY <1>1, <1>2

\* The index of every item is the position it is at.
Indexed(h) ==
  /\ h.at \in [Positions -> Sizes] /\ h.index \in [Sizes -> Positions]
  /\ \A i \in Positions : h.index[h.at[i]] = i
  /\ \A s \in Sizes : h.at[h.index[s]] = s

\* No item is above one that is worth more.
Above(h, pr, i, j) == Geq(pr, h.at[i], h.at[j])
Ordered(h, pr) == Above(h, pr, 0, 1) /\ Above(h, pr, 0, 2) /\ Above(h, pr, 1, 3)

LEMMA SwapFacts ==
  ASSUME NEW h, Indexed(h), NEW i \in Positions, NEW j \in Positions, i # j
  PROVE  /\ Indexed(Swap(h, i, j))
         /\ Swap(h, i, j).at[i] = h.at[j] /\ Swap(h, i, j).at[j] = h.at[i]
         /\ \A k \in Positions : k # i /\ k # j => Swap(h, i, j).at[k] = h.at[k]
<1> DEFINE at == [h.at EXCEPT ![i] = h.at[j], ![j] = h.at[i]]
           index == [h.index EXCEPT ![h.at[i]] = j, ![h.at[j]] = i]
<1>1. Swap(h, i, j).at = at /\ Swap(h, i, j).index = index
  BY DEF Swap
<1>2. h.at[i] # h.at[j] /\ h.at[i] \in Sizes /\ h.at[j] \in Sizes
  BY DEF Indexed
<1>3. /\ at \in [Positions -> Sizes] /\ at[i] = h.at[j] /\ at[j] = h.at[i]
      /\ \A k \in Positions : k # i /\ k # j => at[k] = h.at[k]
  BY DEF Indexed
<1>4. /\ index \in [Sizes -> Positions] /\ index[h.at[i]] = j /\ index[h.at[j]] = i
      /\ \A s \in Sizes : s # h.at[i] /\ s # h.at[j] => index[s] = h.index[s]
  BY <1>2 DEF Indexed
<1> HIDE DEF at, index
<1>5. ASSUME NEW k \in Positions PROVE index[at[k]] = k
  <2>1. CASE k # i /\ k # j
    <3>1. at[k] = h.at[k] /\ h.at[k] \in Sizes /\ h.at[k] # h.at[i] /\ h.at[k] # h.at[j]
      BY <1>3, <2>1 DEF Indexed
    <3> QED BY <1>4, <3>1 DEF Indexed
  <2>2. CASE k = i
    BY <1>3, <1>4, <2>2
  <2>3. CASE k = j
    BY <1>3, <1>4, <2>3
  <2> QED BY <2>1, <2>2, <2>3
<1>6. ASSUME NEW s \in Sizes PROVE at[index[s]] = s
  <2>1. CASE s # h.at[i] /\ s # h.at[j]
    <3>1. index[s] = h.index[s] /\ h.index[s] \in Positions /\ h.index[s] # i /\ h.index[s] # j
      BY <1>4, <2>1 DEF Indexed
    <3> QED BY <1>3, <3>1 DEF Indexed
  <2>2. CASE s = h.at[i]
    BY <1>3, <1>4, <2>2
  <2>3. CASE s = h.at[j]
    BY <1>3, <1>4, <2>3
  <2> QED BY <2>1, <2>2, <2>3
<1>7. Indexed(Swap(h, i, j))
  BY <1>1, <1>3, <1>4, <1>5, <1>6 DEF Indexed
<1> QED BY <1>1, <1>3, <1>7

LEMMA LessIs ==
  ASSUME NEW h, NEW pr, NEW i, NEW j
  PROVE  Less(h, pr, i, j) <=> ~Above(h, pr, j, i)
BY DEF Less, Above, Geq

\* What the loops do from each of the four positions.
LEMMA DownSteps ==
  ASSUME NEW h, NEW pr
  PROVE  /\ Down(h, pr, 2) = h /\ Down(h, pr, 3) = h
         /\ Down(h, pr, 1) = IF Above(h, pr, 1, 3) THEN h ELSE Swap(h, 1, 3)
         /\ Down(h, pr, 0) =
              IF ~Above(h, pr, 1, 2)
              THEN IF Above(h, pr, 0, 2) THEN h ELSE Swap(h, 0, 2)
              ELSE IF Above(h, pr, 0, 1) THEN h
              ELSE IF Above(Swap(h, 0, 1), pr, 1, 3) THEN Swap(h, 0, 1)
              ELSE Swap(Swap(h, 0, 1), 1, 3)
<1>1. \A g : ~Sinks(g, pr, 2) /\ ~Sinks(g, pr, 3)
  BY DEF Sinks, Positions
<1>2. \A g : Child(g, pr, 1) = 3 /\ Child(g, pr, 0) = IF ~Above(g, pr, 1, 2) THEN 2 ELSE 1
  BY LessIs DEF Child, Positions
<1>3. \A g : Sinks(g, pr, 1) <=> ~Above(g, pr, 1, 3)
  BY <1>2, LessIs DEF Sinks, Positions
<1>4. \A g : Sinks(g, pr, 0) <=> IF ~Above(g, pr, 1, 2) THEN ~Above(g, pr, 0, 2) ELSE ~Above(g, pr, 0, 1)
  BY <1>2, LessIs DEF Sinks, Positions
<1> HIDE DEF Swap
<1>5. Down(h, pr, 2) = h /\ Down(h, pr, 3) = h
  BY <1>1 DEF Down
<1>6. Down(h, pr, 1) = IF Above(h, pr, 1, 3) THEN h ELSE Swap(h, 1, 3)
  BY <1>1, <1>2, <1>3 DEF Down
<1>7. CASE ~Above(h, pr, 1, 2)
  <2>1. Child(h, pr, 0) = 2 /\ (Sinks(h, pr, 0) <=> ~Above(h, pr, 0, 2)) /\ ~Sinks(Swap(h, 0, 2), pr, 2)
    BY <1>1, <1>2, <1>4, <1>7
  <2>2. Down(h, pr, 0) = IF Above(h, pr, 0, 2) THEN h ELSE Swap(h, 0, 2)
    BY <2>1 DEF Down
  <2> QED BY <1>5, <1>6, <1>7, <2>2
<1>8. CASE Above(h, pr, 1, 2)
  <2>1. /\ Child(h, pr, 0) = 1 /\ (Sinks(h, pr, 0) <=> ~Above(h, pr, 0, 1))
        /\ (Sinks(Swap(h, 0, 1), pr, 1) <=> ~Above(Swap(h, 0, 1), pr, 1, 3))
        /\ Child(Swap(h, 0, 1), pr, 1) = 3
    BY <1>2, <1>3, <1>4, <1>8
  <2>2. Down(h, pr, 0) = IF Above(h, pr, 0, 1) THEN h
                         ELSE IF Above(Swap(h, 0, 1), pr, 1, 3) THEN Swap(h, 0, 1)
                         ELSE Swap(Swap(h, 0, 1), 1, 3)
    BY <2>1 DEF Down
  <2> QED BY <1>5, <1>6, <1>8, <2>2
<1> QED BY <1>7, <1>8

LEMMA UpSteps ==
  ASSUME NEW h, NEW pr
  PROVE  /\ Up(h, pr, 0) = h
         /\ Up(h, pr, 1) = IF Above(h, pr, 0, 1) THEN h ELSE Swap(h, 1, 0)
         /\ Up(h, pr, 2) = IF Above(h, pr, 0, 2) THEN h ELSE Swap(h, 2, 0)
         /\ Up(h, pr, 3) =
              IF Above(h, pr, 1, 3) THEN h
              ELSE IF Above(Swap(h, 3, 1), pr, 0, 1) THEN Swap(h, 3, 1)
              ELSE Swap(Swap(h, 3, 1), 1, 0)
<1>1. Parent(1) = 0 /\ Parent(2) = 0 /\ Parent(3) = 1
  BY DEF Parent
<1>2. \A g : /\ ~Rises(g, pr, 0)
             /\ Rises(g, pr, 1) <=> ~Above(g, pr, 0, 1)
             /\ Rises(g, pr, 2) <=> ~Above(g, pr, 0, 2)
             /\ Rises(g, pr, 3) <=> ~Above(g, pr, 1, 3)
  BY <1>1, LessIs DEF Rises
<1> HIDE DEF Swap, Parent
<1> QED BY <1>1, <1>2 DEF Up

\* The order of the items of one heap, by position.
LEMMA AboveOrder ==
  ASSUME NEW h, Indexed(h), NEW pr \in [Sizes -> Fractions]
  PROVE  /\ \A i, j \in Positions : Above(h, pr, i, j) \/ Above(h, pr, j, i)
         /\ \A i, j, k \in Positions : Above(h, pr, i, j) /\ Above(h, pr, j, k) => Above(h, pr, i, k)
<1>1. \A i \in Positions : h.at[i] \in Sizes
  BY DEF Indexed
<1> HIDE DEF Sizes, Positions
<1> QED BY <1>1, GeqOrder DEF Above

\* The items of g are those of h at the positions a, b, c and d.
Moved(g, h, a, b, c, d) ==
  /\ Indexed(g)
  /\ g.at[0] = h.at[a] /\ g.at[1] = h.at[b] /\ g.at[2] = h.at[c] /\ g.at[3] = h.at[d]

LEMMA SwapMoves ==
  ASSUME NEW h, Indexed(h)
  PROVE  /\ Moved(Swap(h, 0, 1), h, 1, 0, 2, 3) /\ Moved(Swap(h, 1, 0), h, 1, 0, 2, 3)
         /\ Moved(Swap(h, 0, 2), h, 2, 1, 0, 3) /\ Moved(Swap(h, 2, 0), h, 2, 1, 0, 3)
         /\ Moved(Swap(h, 1, 3), h, 0, 3, 2, 1) /\ Moved(Swap(h, 3, 1), h, 0, 3, 2, 1)
<1>0. 0 \in Positions /\ 1 \in Positions /\ 2 \in Positions /\ 3 \in Positions
  BY DEF Positions
<1> HIDE DEF Swap, Positions
<1>1. ASSUME NEW i \in Positions, NEW j \in Positions, i # j
      PROVE  /\ Indexed(Swap(h, i, j))
             /\ Swap(h, i, j).at[i] = h.at[j] /\ Swap(h, i, j).at[j] = h.at[i]
             /\ \A k \in Positions : k # i /\ k # j => Swap(h, i, j).at[k] = h.at[k]
  BY <1>1, SwapFacts
<1>2. Moved(Swap(h, 0, 1), h, 1, 0, 2, 3)
  BY <1>0, <1>1 DEF Moved
<1>3. Moved(Swap(h, 1, 0), h, 1, 0, 2, 3)
  BY <1>0, <1>1 DEF Moved
<1>4. Moved(Swap(h, 0, 2), h, 2, 1, 0, 3)
  BY <1>0, <1>1 DEF Moved
<1>5. Moved(Swap(h, 2, 0), h, 2, 1, 0, 3)
  BY <1>0, <1>1 DEF Moved
<1>6. Moved(Swap(h, 1, 3), h, 0, 3, 2, 1)
  BY <1>0, <1>1 DEF Moved
<1>7. Moved(Swap(h, 3, 1), h, 0, 3, 2, 1)
  BY <1>0, <1>1 DEF Moved
<1> QED BY <1>2, <1>3, <1>4, <1>5, <1>6, <1>7

LEMMA DownOrdered ==
  ASSUME NEW h, Indexed(h), NEW pr \in [Sizes -> Fractions], Above(h, pr, 1, 3)
  PROVE  Indexed(Down(h, pr, 0)) /\ Ordered(Down(h, pr, 0), pr)
<1>0. /\ 0 \in Positions /\ 1 \in Positions /\ 2 \in Positions /\ 3 \in Positions
  BY DEF Positions
<1>1. /\ \A i, j \in Positions : Above(h, pr, i, j) \/ Above(h, pr, j, i)
      /\ \A i, j, k \in Positions : Above(h, pr, i, j) /\ Above(h, pr, j, k) => Above(h, pr, i, k)
  BY AboveOrder
<1> HIDE DEF Swap, Positions
<1>2. CASE ~Above(h, pr, 1, 2) /\ ~Above(h, pr, 0, 2)
  <2>1. Down(h, pr, 0) = Swap(h, 0, 2)
    BY <1>2, DownSteps
  <2>2. /\ Indexed(Swap(h, 0, 2))
        /\ Above(Swap(h, 0, 2), pr, 0, 2) <=> Above(h, pr, 2, 0)
        /\ Above(Swap(h, 0, 2), pr, 0, 1) <=> Above(h, pr, 2, 1)
        /\ Above(Swap(h, 0, 2), pr, 1, 3) <=> Above(h, pr, 1, 3)
    BY SwapMoves DEF Moved, Above
  <2> QED BY <1>0, <1>1, <1>2, <2>1, <2>2 DEF Ordered
<1>3. CASE ~Above(h, pr, 1, 2) /\ Above(h, pr, 0, 2)
  BY <1>0, <1>1, <1>3, DownSteps DEF Ordered
<1>4. CASE Above(h, pr, 1, 2) /\ Above(h, pr, 0, 1)
  BY <1>0, <1>1, <1>4, DownSteps DEF Ordered
<1>5. CASE Above(h, pr, 1, 2) /\ ~Above(h, pr, 0, 1)
  <2> DEFINE g == Swap(h, 0, 1)
  <2>1. /\ Indexed(g)
        /\ Above(g, pr, 0, 1) <=> Above(h, pr, 1, 0)
        /\ Above(g, pr, 0, 2) <=> Above(h, pr, 1, 2)
        /\ Above(g, pr, 0, 3) <=> Above(h, pr, 1, 3)
        /\ Above(g, pr, 1, 3) <=> Above(h, pr, 0, 3)
        /\ Above(g, pr, 3, 1) <=> Above(h, pr, 3, 0)
    BY SwapMoves DEF Moved, Above
  <2>2. CASE Above(g, pr, 1, 3)
    <3>1. Down(h, pr, 0) = g
      BY <1>5, <2>2, DownSteps
    <3> QED BY <1>0, <1>1, <1>5, <2>1, <2>2, <3>1 DEF Ordered
  <2>3. CASE ~Above(g, pr, 1, 3)
    <3>1. Down(h, pr, 0) = Swap(g, 1, 3)
      BY <1>5, <2>3, DownSteps
    <3> HIDE DEF g
    <3>2. /\ Indexed(Swap(g, 1, 3))
          /\ Above(Swap(g, 1, 3), pr, 1, 3) <=> Above(g, pr, 3, 1)
          /\ Above(Swap(g, 1, 3), pr, 0, 1) <=> Above(g, pr, 0, 3)
          /\ Above(Swap(g, 1, 3), pr, 0, 2) <=> Above(g, pr, 0, 2)
      BY <2>1, SwapMoves DEF Moved, Above
    <3> QED BY <1>0, <1>1, <1>5, <2>1, <2>3, <3>1, <3>2 DEF Ordered
  <2> QED BY <2>2, <2>3
<1> QED BY <1>2, <1>3, <1>4, <1>5

LEMMA InitOrdered ==
  ASSUME NEW h, Indexed(h), NEW pr \in [Sizes -> Fractions]
  PROVE  Indexed(HeapInit(h, pr)) /\ Ordered(HeapInit(h, pr), pr)
<1> DEFINE g == Down(h, pr, 1)
<1>0. 1 \in Positions /\ 3 \in Positions
  BY DEF Positions
<1> HIDE DEF Swap, Positions
<1>1. Indexed(g) /\ Above(g, pr, 1, 3)
  <2>1. CASE Above(h, pr, 1, 3)
    BY <2>1, DownSteps
  <2>2. CASE ~Above(h, pr, 1, 3)
    <3>1. g = Swap(h, 1, 3) /\ Above(h, pr, 3, 1)
      BY <1>0, <2>2, DownSteps, AboveOrder
    <3>2. Indexed(Swap(h, 1, 3)) /\ Above(Swap(h, 1, 3), pr, 1, 3)
      BY <3>1, SwapMoves DEF Moved, Above
    <3> QED BY <3>1, <3>2
  <2> QED BY <2>1, <2>2
<1> HIDE DEF g
<1>2. Indexed(Down(g, pr, 0)) /\ Ordered(Down(g, pr, 0), pr)
  BY <1>1, DownOrdered
<1> QED BY <1>2 DEF HeapInit, g

\* The repair at the position of the item whose priority has changed: the others
\* are in order, and so are the items around it.
LEMMA FixOrdered ==
  ASSUME NEW h, Indexed(h), NEW pr \in [Sizes -> Fractions], NEW i \in Positions,
         i \notin {0, 1} => Above(h, pr, 0, 1),
         i \notin {0, 2} => Above(h, pr, 0, 2),
         i \notin {1, 3} => Above(h, pr, 1, 3),
         i = 1 => Above(h, pr, 0, 3)
  PROVE  Indexed(Fix(h, pr, i)) /\ Ordered(Fix(h, pr, i), pr)
<1>0. /\ 0 \in Positions /\ 1 \in Positions /\ 2 \in Positions /\ 3 \in Positions
      /\ i = 0 \/ i = 1 \/ i = 2 \/ i = 3
  BY DEF Positions
<1>1. /\ \A j, k \in Positions : Above(h, pr, j, k) \/ Above(h, pr, k, j)
      /\ \A j, k, l \in Positions : Above(h, pr, j, k) /\ Above(h, pr, k, l) => Above(h, pr, j, l)
  BY AboveOrder
<1> HIDE DEF Swap, Positions
<1>2. Fix(h, pr, i) = IF Down(h, pr, i) # h THEN Down(h, pr, i) ELSE Up(h, pr, i)
  BY DEF Fix
<1>3. CASE i = 0
  <2>1. Indexed(Down(h, pr, 0)) /\ Ordered(Down(h, pr, 0), pr)
    BY <1>3, DownOrdered
  <2>2. Up(h, pr, 0) = h
    BY UpSteps
  <2> QED BY <1>2, <1>3, <2>1, <2>2
<1>4. CASE i = 1
  <2>1. CASE Above(h, pr, 1, 3)
    <3>1. Down(h, pr, 1) = h
      BY <2>1, DownSteps
    <3>2. CASE Above(h, pr, 0, 1)
      BY <1>2, <1>4, <2>1, <3>1, <3>2, UpSteps DEF Ordered
    <3>3. CASE ~Above(h, pr, 0, 1)
      <4>1. Fix(h, pr, i) = Swap(h, 1, 0)
        BY <1>2, <1>4, <3>1, <3>3, UpSteps
      <4>2. /\ Indexed(Swap(h, 1, 0))
            /\ Above(Swap(h, 1, 0), pr, 0, 2) <=> Above(h, pr, 1, 2)
            /\ Above(Swap(h, 1, 0), pr, 1, 3) <=> Above(h, pr, 0, 3)
        BY SwapMoves DEF Moved, Above
      <4>3. Above(Swap(h, 1, 0), pr, 0, 1) <=> Above(h, pr, 1, 0)
        BY SwapMoves DEF Moved, Above
      <4> QED BY <1>0, <1>1, <1>4, <3>3, <4>1, <4>2, <4>3 DEF Ordered
    <3> QED BY <3>2, <3>3
  <2>2. CASE ~Above(h, pr, 1, 3)
    <3>1. Down(h, pr, 1) = Swap(h, 1, 3)
      BY <2>2, DownSteps
    <3>2. /\ Indexed(Swap(h, 1, 3))
          /\ Above(Swap(h, 1, 3), pr, 1, 3) <=> Above(h, pr, 3, 1)
          /\ Above(Swap(h, 1, 3), pr, 0, 1) <=> Above(h, pr, 0, 3)
          /\ Above(Swap(h, 1, 3), pr, 0, 2) <=> Above(h, pr, 0, 2)
      BY SwapMoves DEF Moved, Above
    <3>3. Swap(h, 1, 3) # h
      <4>1. Above(h, pr, 3, 1)
        BY <1>0, <1>1, <2>2
      <4> QED BY <2>2, <3>2, <4>1
    <3> QED BY <1>0, <1>1, <1>2, <1>4, <2>2, <3>1, <3>2, <3>3 DEF Ordered
  <2> QED BY <2>1, <2>2
<1>5. CASE i = 2
  <2>1. Fix(h, pr, i) = IF Above(h, pr, 0, 2) THEN h ELSE Swap(h, 2, 0)
    BY <1>2, <1>5, DownSteps, UpSteps
  <2>2. CASE Above(h, pr, 0, 2)
    BY <1>5, <2>1, <2>2 DEF Ordered
  <2>3. CASE ~Above(h, pr, 0, 2)
    <3>1. /\ Indexed(Swap(h, 2, 0))
          /\ Above(Swap(h, 2, 0), pr, 0, 1) <=> Above(h, pr, 2, 1)
          /\ Above(Swap(h, 2, 0), pr, 1, 3) <=> Above(h, pr, 1, 3)
      BY SwapMoves DEF Moved, Above
    <3>2. Above(Swap(h, 2, 0), pr, 0, 2) <=> Above(h, pr, 2, 0)
      BY SwapMoves DEF Moved, Above
    <3> QED BY <1>0, <1>1, <1>5, <2>1, <2>3, <3>1, <3>2 DEF Ordered
  <2> QED BY <2>2, <2>3
<1>6. CASE i = 3
  <2> DEFINE g == Swap(h, 3, 1)
  <2>1. Fix(h, pr, i) = IF Above(h, pr, 1, 3) THEN h
                        ELSE IF Above(g, pr, 0, 1) THEN g ELSE Swap(g, 1, 0)
    BY <1>2, <1>6, DownSteps, UpSteps
  <2>2. CASE Above(h, pr, 1, 3)
    BY <1>6, <2>1, <2>2 DEF Ordered
  <2>3. CASE ~Above(h, pr, 1, 3)
    <3>1. /\ Indexed(g)
          /\ Above(g, pr, 0, 1) <=> Above(h, pr, 0, 3)
          /\ Above(g, pr, 1, 0) <=> Above(h, pr, 3, 0)
          /\ Above(g, pr, 0, 2) <=> Above(h, pr, 0, 2)
          /\ Above(g, pr, 1, 2) <=> Above(h, pr, 3, 2)
          /\ Above(g, pr, 0, 3) <=> Above(h, pr, 0, 1)
      BY SwapMoves DEF Moved, Above
    <3>2. Above(g, pr, 1, 3) <=> Above(h, pr, 3, 1)
      BY SwapMoves DEF Moved, Above
    <3>3. CASE Above(g, pr, 0, 1)
      BY <1>0, <1>1, <1>6, <2>1, <2>3, <3>1, <3>2, <3>3 DEF Ordered
    <3>4. CASE ~Above(g, pr, 0, 1)
      <4> HIDE DEF g
      <4>1. /\ Indexed(Swap(g, 1, 0))
            /\ Above(Swap(g, 1, 0), pr, 0, 2) <=> Above(g, pr, 1, 2)
            /\ Above(Swap(g, 1, 0), pr, 1, 3) <=> Above(g, pr, 0, 3)
        BY <3>1, SwapMoves DEF Moved, Above
      <4>2. Above(Swap(g, 1, 0), pr, 0, 1) <=> Above(g, pr, 1, 0)
        BY <1>0, <3>1, SwapFacts DEF Above
      <4> QED BY <1>0, <1>1, <1>6, <2>1, <2>3, <3>1, <3>2, <3>4, <4>1, <4>2 DEF Ordered
    <3> QED BY <3>3, <3>4
  <2> QED BY <2>2, <2>3
<1> QED BY <1>0, <1>3, <1>4, <1>5, <1>6

-----------------------------------------------------------------------------
(* The inductive invariant: the queue is in order and knows where its items  *)
(* are, and a priority is what the counts make it.                           *)

HeapInv == Indexed(heap) /\ Ordered(heap, priority)
WorthInv == \A s \in Sizes : priority[s] = Worth(s)
RetryInv == pc = "sleep" => attempt < MaxTry

IInv == TypeOK /\ HeapInv /\ WorthInv /\ RetryInv

\* TypeOK by those who write the variables: the manager, the channel, the part.
ManagerType ==
  /\ heap.at \in [Positions -> Sizes] /\ heap.index \in [Sizes -> Positions]
  /\ success \in [Sizes -> Nat] /\ failure \in [Sizes -> Nat]
  /\ priority \in [Sizes -> Fractions]
QueueType == queries \in Seq(Queries) /\ Len(queries) <= Capacity
PartType ==
  /\ pc \in {"ask", "wait", "run", "sleep", "return", "done"}
  /\ chunk \in Sizes /\ attempt \in 0..MaxTry /\ blocks \in 0..MaxBlocks
  /\ timeout \in 0..MaxTimeout
FlagType ==
  /\ serve \in {"recv", "reply", "ended"} /\ retryPuts \in [Sizes -> Nat]
  /\ flashes \in Nat
  /\ closed \in BOOLEAN /\ canceled \in BOOLEAN /\ panicked \in BOOLEAN

LEMMA TypeParts == TypeOK <=> ManagerType /\ QueueType /\ PartType /\ FlagType
BY DEF TypeOK, ManagerType, QueueType, PartType, FlagType, Fractions

LEMMA TypePartsNext == ManagerType' /\ QueueType' /\ PartType' /\ FlagType' => TypeOK'
BY DEF TypeOK, ManagerType, QueueType, PartType, FlagType, Fractions

LEMMA WeightType == \A s \in Sizes : Weight(s) \in Nat /\ Weight(s) - 50 \in Nat
BY DEF Sizes, Weight

LEMMA InitInv == Init => IInv
<1> SUFFICES ASSUME Init PROVE IInv
  OBVIOUS
<1> USE DEF Init
<1>1. priority \in [Sizes -> Fractions]
  BY WeightType DEF Fractions
<1>2. PICK at \in [Positions -> Sizes] :
        /\ \A s \in Sizes : \E i \in Positions : at[i] = s
        /\ heap = HeapInit([at |-> at, index |-> [s \in Sizes |-> CHOOSE i \in Positions : at[i] = s]],
                           priority)
  OBVIOUS
<1> DEFINE index == [s \in Sizes |-> CHOOSE i \in Positions : at[i] = s]
           h == [at |-> at, index |-> index]
<1>3. \A s \in Sizes : index[s] \in Positions /\ at[index[s]] = s
  BY <1>2
<1>4. index \in [Sizes -> Positions]
  BY <1>3
<1> HIDE DEF index
<1>5. ASSUME NEW i \in Positions PROVE index[at[i]] = i
  <2>1. i = index[8] \/ i = index[16] \/ i = index[32] \/ i = index[64]
    BY <1>3 DEF Sizes, Positions
  <2> QED BY <1>3, <2>1 DEF Sizes
<1>6. Indexed(h)
  BY <1>3, <1>4, <1>5 DEF Indexed
<1>7. heap = HeapInit(h, priority)
  BY <1>2 DEF index
<1> HIDE DEF h
<1>8. HeapInv
  BY <1>1, <1>6, <1>7, InitOrdered DEF HeapInv
<1>9. TypeOK
  <2>1. ManagerType
    BY <1>1, <1>8 DEF HeapInv, Indexed, ManagerType
  <2>2. QueueType
    BY ChunkScoreAssumption DEF QueueType
  <2>3. PartType /\ FlagType
    <3>1. 0 \in 0 .. MaxTry /\ 0 \in 0 .. MaxBlocks /\ 64 \in Sizes
      BY ChunkScoreAssumption DEF Sizes
    <3>3. retryPuts \in [Sizes -> Nat]
      OBVIOUS
    <3> QED BY <3>1, <3>3 DEF PartType, FlagType
  <2> QED BY <2>1, <2>2, <2>3, TypeParts
<1>10. WorthInv
  BY DEF WorthInv, Worth
<1>11. RetryInv
  BY DEF RetryInv
<1> QED BY <1>8, <1>9, <1>10, <1>11 DEF IInv

\* A report: the item it is about is moved to its place.
LEMMA PutInv == IInv /\ ServePut => IInv'
<1> SUFFICES ASSUME IInv, ServePut PROVE IInv'
  OBVIOUS
<1> USE DEF ServePut
<1>0. ManagerType /\ QueueType /\ PartType /\ FlagType /\ WorthInv
  BY TypeParts DEF IInv
<1>1. Head(queries) \in Queries /\ Head(queries).cmd = "put"
  BY <1>0, HeadTailProperties DEF QueueType
<1>2. PICK s \in Sizes, failed \in BOOLEAN : Head(queries) = [cmd |-> "put", size |-> s, failure |-> failed]
  BY <1>1 DEF Queries
<1> DEFINE i == heap.index[s]
<1>3. /\ success' = [success EXCEPT ![s] = @ + (IF failed THEN 0 ELSE 1)]
      /\ failure' = [failure EXCEPT ![s] = @ + (IF failed THEN 1 ELSE 0)]
      /\ priority' = [priority EXCEPT ![s] = Priority(s, success'[s], failure'[s])]
      /\ heap' = IF success'[s] = 0 /\ s = 8 THEN heap ELSE Fix(heap, priority', heap.index[s])
  <2>1. Head(queries).size = s /\ Head(queries).failure = failed
    BY <1>2
  <2>2. /\ success' = [success EXCEPT ![Head(queries).size] = @ + (IF Head(queries).failure THEN 0 ELSE 1)]
        /\ failure' = [failure EXCEPT ![Head(queries).size] = @ + (IF Head(queries).failure THEN 1 ELSE 0)]
        /\ priority' = [priority EXCEPT ![Head(queries).size] =
             Priority(Head(queries).size, success'[Head(queries).size], failure'[Head(queries).size])]
        /\ heap' = IF success'[Head(queries).size] = 0 /\ Head(queries).size = 8 THEN heap
                   ELSE Fix(heap, priority', heap.index[Head(queries).size])
    BY Zenon
  <2> HIDE DEF ServePut
  <2>3. /\ success' = [success EXCEPT ![s] = @ + (IF failed THEN 0 ELSE 1)]
        /\ failure' = [failure EXCEPT ![s] = @ + (IF failed THEN 1 ELSE 0)]
    BY <2>1, <2>2
  <2>4. priority' = [priority EXCEPT ![s] = Priority(s, success'[s], failure'[s])]
    BY <2>1, <2>2
  <2>5. heap' = IF success'[s] = 0 /\ s = 8 THEN heap ELSE Fix(heap, priority', heap.index[s])
    BY <2>1, <2>2
  <2> QED BY <2>3, <2>4, <2>5
<1> HIDE DEF ServePut
<1>4. /\ success' \in [Sizes -> Nat] /\ failure' \in [Sizes -> Nat]
      /\ success'[s] # 0 \/ failure'[s] # 0
      /\ success'[s] = 0 => success[s] = 0
      /\ \A t \in Sizes : t # s => success'[t] = success[t] /\ failure'[t] = failure[t]
  <2>1. success[s] \in Nat /\ failure[s] \in Nat
    BY <1>0, <1>2 DEF ManagerType
  <2>2. /\ success'[s] = success[s] + (IF failed THEN 0 ELSE 1)
        /\ failure'[s] = failure[s] + (IF failed THEN 1 ELSE 0)
        /\ \A t \in Sizes : t # s => success'[t] = success[t] /\ failure'[t] = failure[t]
    BY <1>0, <1>2, <1>3 DEF ManagerType
  <2>3. success'[s] \in Nat /\ failure'[s] \in Nat
    BY <1>2, <2>1, <2>2
  <2>4. success' \in [Sizes -> Nat] /\ failure' \in [Sizes -> Nat]
    BY <1>0, <1>2, <1>3, <2>1 DEF ManagerType
  <2>5. (success'[s] # 0 \/ failure'[s] # 0) /\ (success'[s] = 0 => success[s] = 0)
    BY <1>2, <2>1, <2>2
  <2> QED BY <2>2, <2>4, <2>5
<1>5. priority'[s] = Worth(s)' /\ priority'[s] \in Fractions
  <2>1. priority'[s] = Priority(s, success'[s], failure'[s]) /\ priority[s] \in Fractions
    BY <1>0, <1>2, <1>3 DEF ManagerType
  <2>2. success'[s] \in Nat /\ failure'[s] \in Nat /\ Weight(s) \in Nat /\ Weight(s) - 50 \in Nat
    BY <1>2, <1>4, WeightType
  <2>3. CASE success'[s] # 0
    <3>1. success'[s] * Weight(s) \in Nat /\ success'[s] + failure'[s] \in Nat \ {0}
      <4>1. \A x, y \in Nat : x * y \in Nat
        OBVIOUS
      <4> QED BY <2>2, <2>3, <4>1
    <3>2. priority'[s] = <<success'[s] * Weight(s), success'[s] + failure'[s]>>
      BY <2>1, <2>3 DEF Priority
    <3>3. Worth(s)' = <<success'[s] * Weight(s), success'[s] + failure'[s]>>
      BY <2>3 DEF Worth
    <3> QED BY <3>1, <3>2, <3>3 DEF Fractions
  <2>4. CASE success'[s] = 0 /\ s # 8
    <3>1. priority'[s] = <<Weight(s) - 50, 1>>
      BY <2>1, <2>4 DEF Priority
    <3>2. Worth(s)' = <<Weight(s) - 50, 1>>
      BY <1>4, <2>4 DEF Worth
    <3> QED BY <2>2, <3>1, <3>2 DEF Fractions
  <2>5. CASE success'[s] = 0 /\ s = 8
    <3>1. priority[s] = <<Weight(s), 1>>
      <4>1. priority[s] = Worth(s) /\ success[s] = 0
        BY <1>0, <1>2, <1>4, <2>5 DEF WorthInv
      <4> QED BY <2>5, <4>1 DEF Worth
    <3>2. Worth(s)' = <<Weight(s), 1>>
      BY <2>5 DEF Worth
    <3>3. priority'[s] = priority[s]
      BY <2>1, <2>5 DEF Priority
    <3> QED BY <2>1, <3>1, <3>2, <3>3
  <2> QED BY <2>3, <2>4, <2>5
<1>6. priority' \in [Sizes -> Fractions] /\ \A t \in Sizes : t # s => priority'[t] = priority[t]
  BY <1>0, <1>2, <1>3, <1>5 DEF ManagerType
<1>7. WorthInv'
  <2> SUFFICES ASSUME NEW t \in Sizes PROVE priority'[t] = Worth(t)'
    BY DEF WorthInv
  <2>1. CASE t # s
    <3>1. Worth(t)' = Worth(t)
      BY <1>4, <2>1 DEF Worth
    <3> QED BY <1>0, <1>6, <2>1, <3>1 DEF WorthInv
  <2>2. CASE t = s
    BY <1>5, <2>2
  <2> QED BY <2>1, <2>2
<1>8. HeapInv'
  <2>1. Indexed(heap) /\ Ordered(heap, priority) /\ priority \in [Sizes -> Fractions]
    BY <1>0 DEF IInv, HeapInv, ManagerType
  <2>2. CASE success'[s] = 0 /\ s = 8
    <3>1. priority'[s] = priority[s]
      BY <1>0, <1>2, <1>3, <2>2 DEF ManagerType, Priority
    <3>2. \A t \in Sizes : priority'[t] = priority[t]
      BY <1>6, <3>1
    <3>3. \A k \in Positions : heap.at[k] \in Sizes
      BY <2>1 DEF Indexed
    <3>4. Ordered(heap, priority')
      BY <2>1, <3>2, <3>3 DEF Ordered, Above, Geq, Positions
    <3>5. heap' = heap
      BY <1>3, <2>2
    <3> QED BY <2>1, <3>4, <3>5 DEF HeapInv
  <2>3. CASE ~(success'[s] = 0 /\ s = 8)
    <3>1. heap' = Fix(heap, priority', i)
      BY <1>3, <2>3
    <3>2. i \in Positions /\ heap.at[i] = s /\ \A k \in Positions : heap.at[k] \in Sizes
      BY <1>2, <2>1 DEF Indexed
    <3>3. \A k \in Positions : k # i => priority'[heap.at[k]] = priority[heap.at[k]]
      <4> TAKE k \in Positions
      <4>1. k # i => heap.at[k] # s
        BY <2>1 DEF Indexed
      <4> QED BY <1>6, <3>2, <4>1
    <3> HIDE DEF i
    <3>4. \A k, l \in Positions : k # i /\ l # i =>
            (Above(heap, priority', k, l) <=> Above(heap, priority, k, l))
      BY <3>3 DEF Above, Geq
    <3>5. Above(heap, priority, 0, 3)
      BY <2>1, AboveOrder DEF Ordered, Positions
    <3>6. 0 \in Positions /\ 1 \in Positions /\ 2 \in Positions /\ 3 \in Positions
      BY DEF Positions
    <3>9. i = 0 \/ i = 1 \/ i = 2 \/ i = 3
      BY <3>2 DEF Positions
    <3>7. /\ i \notin {0, 1} => Above(heap, priority', 0, 1)
          /\ i \notin {0, 2} => Above(heap, priority', 0, 2)
          /\ i \notin {1, 3} => Above(heap, priority', 1, 3)
          /\ i = 1 => Above(heap, priority', 0, 3)
      BY <2>1, <3>4, <3>5, <3>6, <3>9 DEF Ordered
    <3>8. Indexed(Fix(heap, priority', i)) /\ Ordered(Fix(heap, priority', i), priority')
      BY <1>6, <2>1, <3>2, <3>7, FixOrdered
    <3> QED BY <3>1, <3>8 DEF HeapInv
  <2> QED BY <2>2, <2>3
<1>9. TypeOK'
  <2>1. heap'.at \in [Positions -> Sizes] /\ heap'.index \in [Sizes -> Positions]
    BY <1>8 DEF HeapInv, Indexed
  <2>2. ManagerType'
    BY <1>4, <1>6, <2>1 DEF ManagerType
  <2>3. QueueType'
    <3>1. Len(queries') = Len(queries) - 1 /\ queries' \in Seq(Queries)
      BY <1>0, HeadTailProperties DEF QueueType, ServePut
    <3>2. Len(queries) \in Nat /\ Len(queries) <= Capacity /\ Capacity \in Nat
      BY <1>0, LenProperties, ChunkScoreAssumption DEF QueueType
    <3> QED BY <3>1, <3>2 DEF QueueType
  <2>4. PartType' /\ FlagType'
    <3>1. UNCHANGED <<serve, closed, pc, chunk, attempt, blocks, timeout, retryPuts, flashes, canceled, panicked>>
      BY DEF ServePut, partVars
    <3> QED BY <1>0, <3>1 DEF PartType, FlagType
  <2> QED BY <2>2, <2>3, <2>4, TypePartsNext
<1>10. RetryInv'
  BY DEF IInv, RetryInv, ServePut, partVars
<1> QED BY <1>7, <1>8, <1>9, <1>10 DEF IInv

LEMMA StepInv == IInv /\ [Next]_vars => IInv'
<1> SUFFICES ASSUME IInv, [Next]_vars, ~ServePut PROVE IInv'
  BY PutInv
<1>0. Capacity \in Nat \ {0} /\ MaxTry \in Nat \ {0} /\ MaxBlocks \in Nat /\ MaxTimeout \in Nat
  BY ChunkScoreAssumption
<1>1. ManagerType /\ QueueType /\ PartType /\ FlagType /\ RetryInv
  BY TypeParts DEF IInv
<1>2. ASSUME UNCHANGED <<heap, success, failure, priority>>
      PROVE  HeapInv' /\ WorthInv' /\ ManagerType'
  BY <1>1, <1>2 DEF IInv, HeapInv, WorthInv, Worth, ManagerType
<1>3. ASSUME NEW x \in Queries, Send(x) PROVE QueueType'
  <2>1. Len(queries') = Len(queries) + 1 /\ queries' \in Seq(Queries)
    BY <1>1, <1>3, AppendProperties DEF Send, QueueType
  <2>2. Len(queries) < Capacity /\ Len(queries) \in Nat
    BY <1>1, <1>3, LenProperties DEF Send, QueueType
  <2> QED BY <1>0, <2>1, <2>2 DEF QueueType
<1>4. ASSUME queries # <<>>, queries' = Tail(queries) PROVE QueueType'
  <2>1. Len(queries') = Len(queries) - 1 /\ queries' \in Seq(Queries)
    BY <1>1, <1>4, HeadTailProperties DEF QueueType
  <2>2. Len(queries) \in Nat /\ Len(queries) <= Capacity
    BY <1>1, LenProperties DEF QueueType
  <2> QED BY <1>0, <2>1, <2>2 DEF QueueType
<1>5. ASSUME HeapInv', WorthInv', ManagerType', QueueType', PartType', FlagType', RetryInv' PROVE IInv'
  BY <1>5, TypePartsNext DEF IInv
<1>6. CASE ServeGet \/ ServeEnds
  <2>1. UNCHANGED <<heap, success, failure, priority>> /\ UNCHANGED partVars
    BY <1>6 DEF ServeGet, ServeEnds
  <2>2. QueueType'
    BY <1>1, <1>4, <1>6 DEF ServeGet, ServeEnds, QueueType
  <2>3. PartType' /\ RetryInv'
    BY <1>1, <2>1 DEF PartType, RetryInv, partVars
  <2>4. FlagType'
    BY <1>1, <1>6 DEF ServeGet, ServeEnds, FlagType
  <2> QED BY <1>2, <1>5, <2>1, <2>2, <2>3, <2>4
<1>7. CASE Ask \/ Block
  <2>1. UNCHANGED <<heap, success, failure, priority>>
    BY <1>7 DEF Ask, Block, managerVars
  <2>2. [cmd |-> "get"] \in Queries /\ PutQuery(chunk, FALSE) \in Queries
    BY <1>1 DEF Queries, PutQuery, PartType
  <2>3. QueueType'
    BY <1>3, <1>7, <2>2 DEF Ask, Block
  <2>4. PartType' /\ RetryInv'
    <3>1. CASE Ask
      BY <1>1, <3>1 DEF Ask, PartType, RetryInv
    <3>2. CASE Block
      <4>1. blocks' \in 0 .. MaxBlocks
        BY <1>0, <1>1, <3>2 DEF Block, PartType
      <4> QED BY <1>1, <3>2, <4>1 DEF Block, PartType, RetryInv
    <3> QED BY <1>7, <3>1, <3>2
  <2>5. FlagType'
    BY <1>1, <1>7 DEF Ask, Block, FlagType, managerVars
  <2> QED BY <1>2, <1>5, <2>1, <2>3, <2>4, <2>5
<1>8. CASE Answer \/ Retry \/ EndAttempt \/ Wake \/ Return
  <2>1. UNCHANGED <<heap, success, failure, priority>> /\ UNCHANGED queries
    BY <1>8 DEF Answer, Retry, EndAttempt, Wake, Return, managerVars
  <2>2. QueueType'
    BY <1>1, <2>1 DEF QueueType
  <2>3. PartType'
    <3>1. CASE Answer
      BY <1>0, <1>1, <3>1 DEF Answer, PartType, ManagerType, Positions
    <3>2. CASE Retry
      <4>1. timeout' \in 0 .. MaxTimeout
        BY <1>0, <1>1, <3>2 DEF Retry, Longer, PartType
      <4> QED BY <1>1, <3>2, <4>1 DEF Retry, PartType
    <3>3. CASE Wake
      BY <1>0, <1>1, <3>3 DEF Wake, PartType, RetryInv
    <3>4. CASE EndAttempt \/ Return
      BY <1>1, <3>4 DEF EndAttempt, Return, PartType
    <3> QED BY <1>8, <3>1, <3>2, <3>3, <3>4
  <2>4. RetryInv'
    BY <1>0, <1>1, <1>8 DEF Answer, Retry, EndAttempt, Wake, Return, RetryInv, PartType
  <2>5. FlagType'
    <3>1. CASE Answer \/ EndAttempt \/ Wake \/ Return
      <4>1. UNCHANGED <<retryPuts, flashes, canceled, panicked>>
        BY <3>1 DEF Answer, EndAttempt, Wake, Return
      <4>2. serve' \in {serve, "recv"} /\ closed' \in {closed, TRUE}
        BY <3>1 DEF Answer, EndAttempt, Wake, Return, Close, managerVars
      <4> QED BY <1>1, <4>1, <4>2 DEF FlagType
    <3>2. CASE Retry
      <4>1. retryPuts' \in [Sizes -> Nat]
        <5>1. chunk \in Sizes /\ retryPuts \in [Sizes -> Nat]
          BY <1>1 DEF PartType, FlagType
        <5>2. retryPuts[chunk] + 1 \in Nat
          BY <5>1
        <5>3. retryPuts' = [retryPuts EXCEPT ![chunk] = retryPuts[chunk] + 1]
          BY <3>2 DEF Retry
        <5> QED BY <5>1, <5>2, <5>3
      <4> QED BY <1>1, <3>2, <4>1 DEF Retry, FlagType, managerVars
    <3> QED BY <1>8, <3>1, <3>2
  <2> QED BY <1>2, <1>5, <2>1, <2>2, <2>3, <2>4, <2>5
<1>9. ASSUME NEW s \in Sizes, RetryPut(s) PROVE IInv'
  <2>1. UNCHANGED <<heap, success, failure, priority>> /\ UNCHANGED partVars
    BY <1>9 DEF RetryPut, managerVars
  <2>2. PutQuery(s, TRUE) \in Queries
    BY DEF Queries, PutQuery
  <2>3. QueueType'
    BY <1>1, <1>3, <1>9, <2>2 DEF RetryPut, QueueType
  <2>4. retryPuts' \in [Sizes -> Nat]
    <3>1. retryPuts[s] - 1 \in Nat
      BY <1>1, <1>9 DEF RetryPut, FlagType
    <3> QED BY <1>1, <1>9, <3>1 DEF RetryPut, FlagType
  <2>5. FlagType'
    <3>1. flashes' \in {flashes, flashes + 1}
      <4>1. CASE closed
        BY <1>9, <4>1 DEF RetryPut
      <4>2. CASE ~closed
        BY <1>9, <4>2 DEF RetryPut
      <4> QED BY <4>1, <4>2
    <3>2. flashes \in Nat
      BY <1>1 DEF FlagType
    <3>3. flashes' \in Nat
      BY <3>1, <3>2
    <3>4. serve' = serve /\ closed' = closed /\ canceled' = canceled /\ panicked' \in {panicked, TRUE}
      BY <1>9 DEF RetryPut, managerVars
    <3> QED BY <1>1, <2>4, <3>3, <3>4 DEF FlagType
  <2>6. PartType' /\ RetryInv'
    BY <1>1, <2>1 DEF PartType, RetryInv, partVars
  <2> QED BY <1>2, <1>5, <2>1, <2>3, <2>5, <2>6
<1>10. CASE Cancel \/ Draw \/ UNCHANGED vars
  <2>1. UNCHANGED <<heap, success, failure, priority>> /\ UNCHANGED partVars /\ UNCHANGED queries
    BY <1>10 DEF Cancel, Draw, vars, managerVars
  <2>2. PartType' /\ RetryInv' /\ QueueType'
    BY <1>1, <2>1 DEF PartType, RetryInv, QueueType, partVars
  <2>3. FlagType'
    <3>1. CASE Cancel \/ UNCHANGED vars
      BY <1>1, <3>1 DEF Cancel, vars, managerVars, FlagType
    <3>2. CASE Draw
      <4>1. flashes \in Nat /\ flashes > 0 /\ flashes' = flashes - 1
        BY <1>1, <3>2 DEF Draw, FlagType
      <4>2. flashes' \in Nat
        BY <4>1
      <4>3. UNCHANGED <<serve, closed, retryPuts, canceled, panicked>>
        BY <3>2 DEF Draw, managerVars
      <4> QED BY <1>1, <4>2, <4>3 DEF FlagType
    <3> QED BY <1>10, <3>1, <3>2
  <2> QED BY <1>2, <1>5, <2>1, <2>2, <2>3
<1> QED BY <1>6, <1>7, <1>8, <1>9, <1>10 DEF Next, PartStep, ServeStep

\* What the score manager keeps in every state: a heap, its index and priorities that
\* follow from the counts (chunk_scoring.go:53-63).
THEOREM Invariant == Spec => []IInv
<1> QED BY InitInv, StepInv, PTL DEF Spec

\* The values of the variables of the score manager and of the part that asks it.
THEOREM TypeCorrect == Spec => []TypeOK
<1>1. IInv => TypeOK
  BY DEF IInv
<1> QED BY <1>1, Invariant, PTL

LEMMA TopInv == IInv => BestOnTop
<1> SUFFICES ASSUME IInv, NEW s \in Sizes PROVE ~Higher(Worth(s), Worth(heap.at[0]))
  BY DEF BestOnTop
<1>1. Indexed(heap) /\ Ordered(heap, priority) /\ priority \in [Sizes -> Fractions]
  BY DEF IInv, HeapInv, TypeOK, Fractions
<1>2. \A k \in Positions : Above(heap, priority, 0, k)
  <2>1. Above(heap, priority, 0, 1) /\ Above(heap, priority, 0, 2) /\ Above(heap, priority, 1, 3)
    BY <1>1 DEF Ordered
  <2>2. Above(heap, priority, 0, 0)
    BY <1>1, AboveOrder DEF Positions
  <2>3. Above(heap, priority, 0, 3)
    BY <1>1, <2>1, AboveOrder DEF Positions
  <2> QED BY <2>1, <2>2, <2>3 DEF Positions
<1>3. heap.index[s] \in Positions /\ heap.at[heap.index[s]] = s /\ heap.at[0] \in Sizes
  BY <1>1 DEF Indexed, Positions
<1>4. ~Higher(priority[s], priority[heap.at[0]])
  BY <1>2, <1>3 DEF Above, Geq
<1> QED BY <1>3, <1>4 DEF IInv, WorthInv

\* The size served next is worth at least what each other size is
\* (chunk_scoring.go:114), after any reports in any order.
THEOREM TopIsBest == Spec => []BestOnTop
<1> QED BY TopInv, Invariant, PTL

LEMMA ReduceInv == IInv => FailuresReduce
<1> SUFFICES ASSUME IInv, \A s \in Sizes : success[s] = 0
             PROVE  heap.at[0] = CHOOSE s \in Sizes :
                      /\ s = 8 \/ failure[s] = 0
                      /\ \A t \in Sizes : (t = 8 \/ failure[t] = 0) => t <= s
  BY DEF FailuresReduce
<1> DEFINE top == heap.at[0]
           Usable(s) == s = 8 \/ failure[s] = 0
<1>1. top \in Sizes
  BY DEF IInv, TypeOK, Positions
<1>2. \A s \in Sizes : ~Higher(Worth(s), Worth(top))
  BY TopInv DEF BestOnTop
<1>3. \A s \in Sizes : Worth(s) = IF Usable(s) THEN <<Weight(s), 1>> ELSE <<Weight(s) - 50, 1>>
  BY DEF Worth
<1> HIDE DEF top, Usable
<1>4. ASSUME NEW s \in Sizes
      PROVE  (IF Usable(s) THEN Weight(s) ELSE Weight(s) - 50)
               <= (IF Usable(top) THEN Weight(top) ELSE Weight(top) - 50)
  <2>1. Worth(s)[1] = (IF Usable(s) THEN Weight(s) ELSE Weight(s) - 50) /\ Worth(s)[2] = 1
    BY <1>3
  <2>2. Worth(top)[1] = (IF Usable(top) THEN Weight(top) ELSE Weight(top) - 50) /\ Worth(top)[2] = 1
    BY <1>1, <1>3
  <2>3. ~(Worth(s)[1] * Worth(top)[2] > Worth(top)[1] * Worth(s)[2])
    BY <1>2 DEF Higher
  <2>4. Worth(s)[1] \in Int /\ Worth(top)[1] \in Int
    BY <1>1, <2>1, <2>2, WeightType
  <2>5. ~(Worth(s)[1] > Worth(top)[1])
    BY <2>1, <2>2, <2>3, <2>4
  <2> QED BY <2>1, <2>2, <2>4, <2>5
<1>5. Usable(8)
  BY DEF Usable
<1>6. Usable(top)
  BY <1>1, <1>4, <1>5 DEF Sizes, Weight
<1>7. \A t \in Sizes : Usable(t) => t <= top
  <2> SUFFICES ASSUME NEW t \in Sizes, Usable(t) PROVE t <= top
    OBVIOUS
  <2>1. Weight(t) <= Weight(top)
    BY <1>4, <1>6
  <2> QED BY <1>1, <2>1 DEF Sizes, Weight
<1>8. \A s \in Sizes : Usable(s) /\ (\A t \in Sizes : Usable(t) => t <= s) => s = top
  BY <1>1, <1>6, <1>7 DEF Sizes
<1> QED BY <1>1, <1>6, <1>7, <1>8 DEF top, Usable

\* Before a first block arrives the size goes down as failures are reported
\* (chunk_scoring.go:59), to the largest that has not failed.
THEOREM FailuresLeadDown == Spec => []FailuresReduce
<1> QED BY ReduceInv, Invariant, PTL
=============================================================================
