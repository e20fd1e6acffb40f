---------------------------- MODULE Concat_proofs ----------------------------
(***************************************************************************)
(* The rounds of concat, for any number of parts of any length, with or    *)
(* without failing system calls: what the first file holds when merge      *)
(* returns nil, what the sizes tell after an error, and that the whole is  *)
(* the joining of neighbouring pieces that Merge describes.                *)
(***************************************************************************)
EXTENDS Concat, Induction, SequenceTheorems

Blocky == Ids \X Nat

\* Where part p starts in the body, counted in blocks.
Off(p) == Len(BodyUpTo[p - 1])

-----------------------------------------------------------------------------
(* The body. *)

LEMMA PartBodyType ==
  ASSUME NEW p \in Ids
  PROVE  /\ PartBody(p) \in Seq(Blocky) /\ Len(PartBody(p)) = Blocks[p]
         /\ \A k \in 1 .. Blocks[p] : PartBody(p)[k] = <<p, k>>
<1>1. Blocks[p] \in Nat
  BY ConcatAssumption DEF Ids
<1>2. \A k \in 1 .. Blocks[p] : <<p, k>> \in Blocky
  BY <1>1 DEF Blocky
<1> QED BY <1>1, <1>2 DEF PartBody

\* The recursive definition of BodyUpTo defines a function, and it is that one.
LEMMA BodyUpToDef ==
  /\ BodyUpTo = [n \in 0 .. N |-> IF n = 0 THEN <<>> ELSE BodyUpTo[n - 1] \o PartBody(n)]
  /\ \A n \in 0 .. N : BodyUpTo[n] \in Seq(Blocky)
<1> DEFINE T == Seq(Blocky)
           step == [n \in Nat |-> [s \in T |-> IF n \in Ids THEN s \o PartBody(n) ELSE s]]
<1>1. <<>> \in T
  OBVIOUS
<1>2. step \in [Nat -> [T -> T]]
  <2> SUFFICES ASSUME NEW n \in Nat, NEW s \in T
               PROVE  (IF n \in Ids THEN s \o PartBody(n) ELSE s) \in T
    OBVIOUS
  <2> QED BY PartBodyType
<1>3. \A n \in Ids, s \in T : step[n][s] = s \o PartBody(n)
  BY DEF Ids
<1> HIDE DEF step, T
<1>4. PICK g \in [Nat -> T] : g[0] = <<>> /\ \A k \in Nat \ {0} : g[k] = step[k][g[k - 1]]
  BY <1>1, <1>2, Recursion DEF Recurs
<1> DEFINE f == [n \in 0 .. N |-> g[n]]
<1>5. f = [n \in 0 .. N |-> IF n = 0 THEN <<>> ELSE f[n - 1] \o PartBody(n)]
  <2> SUFFICES ASSUME NEW n \in 0 .. N, n # 0 PROVE g[n] = g[n - 1] \o PartBody(n)
    <3>1. g[0] = <<>>
      BY <1>4
    <3>2. \A n \in 0 .. N : n # 0 => n - 1 \in 0 .. N
      BY ConcatAssumption
    <3> QED BY <3>1, <3>2
  <2>1. n \in Ids /\ n \in Nat \ {0} /\ n - 1 \in Nat
    BY ConcatAssumption DEF Ids
  <2> QED BY <2>1, <1>3, <1>4
<1> HIDE DEF f
<1>6. BodyUpTo = [n \in 0 .. N |-> IF n = 0 THEN <<>> ELSE BodyUpTo[n - 1] \o PartBody(n)]
  BY <1>5 DEF BodyUpTo
<1> DEFINE S == {n \in Nat : n <= N => BodyUpTo[n] \in Seq(Blocky)}
<1>7. 0 \in S
  BY <1>6, ConcatAssumption
<1>8. ASSUME NEW n \in Nat, n \in S PROVE n + 1 \in S
  <2> SUFFICES ASSUME n + 1 <= N PROVE BodyUpTo[n + 1] \in Seq(Blocky)
    OBVIOUS
  <2>1. n + 1 \in 0 .. N /\ n + 1 # 0 /\ (n + 1) - 1 = n /\ n + 1 \in Ids /\ n <= N
    BY ConcatAssumption DEF Ids
  <2>2. BodyUpTo[n + 1] = BodyUpTo[n] \o PartBody(n + 1)
    BY <2>1, <1>6
  <2> QED BY <2>1, <2>2, <1>8, PartBodyType
<1> HIDE DEF S
<1>9. Nat \subseteq S
  BY <1>7, <1>8, SetInduction
<1>10. ASSUME NEW n \in 0 .. N PROVE BodyUpTo[n] \in Seq(Blocky)
  <2>1. n \in Nat /\ n <= N
    BY ConcatAssumption
  <2> QED BY <2>1, <1>9 DEF S
<1> QED BY <1>6, <1>10

\* The parts lie one after the other.
LEMMA OffStep ==
  /\ Off(1) = 0 /\ Off(N + 1) = Len(Body)
  /\ \A p \in 1 .. (N + 1) : Off(p) \in Nat
  /\ \A p \in Ids : Off(p + 1) = Off(p) + Blocks[p]
  /\ \A p \in Ids : BodyUpTo[p] = BodyUpTo[p - 1] \o PartBody(p)
<1>1. N \in Nat /\ BodyUpTo[0] = <<>>
  BY BodyUpToDef, ConcatAssumption
<1>2. ASSUME NEW p \in Ids PROVE BodyUpTo[p] = BodyUpTo[p - 1] \o PartBody(p)
  <2>1. p \in 0 .. N /\ p # 0
    BY <1>1 DEF Ids
  <2> QED BY <2>1, BodyUpToDef
<1>3. ASSUME NEW p \in 1 .. (N + 1) PROVE Off(p) \in Nat
  <2>1. BodyUpTo[p - 1] \in Seq(Blocky)
    BY <1>1, BodyUpToDef
  <2> QED BY <2>1 DEF Off
<1>4. ASSUME NEW p \in Ids PROVE Off(p + 1) = Off(p) + Blocks[p]
  <2>1. (p + 1) - 1 = p /\ BodyUpTo[p - 1] \in Seq(Blocky)
    BY <1>1, BodyUpToDef DEF Ids
  <2>2. PartBody(p) \in Seq(Blocky) /\ Len(PartBody(p)) = Blocks[p]
    BY PartBodyType
  <2>3. Off(p + 1) = Len(BodyUpTo[p]) /\ Off(p) = Len(BodyUpTo[p - 1])
    BY <2>1 DEF Off
  <2>4. Len(BodyUpTo[p - 1] \o PartBody(p)) = Len(BodyUpTo[p - 1]) + Len(PartBody(p))
    BY <2>1, <2>2
  <2> QED BY <2>2, <2>3, <2>4, <1>2
<1>5. Off(1) = 0 /\ Off(N + 1) = Len(Body)
  BY <1>1 DEF Off, Body
<1> QED BY <1>2, <1>3, <1>4, <1>5

LEMMA BlocksType == \A p \in Ids : Blocks[p] \in Nat /\ Blocks[p] > 0
  BY ConcatAssumption DEF Ids

LEMMA OffMonotone ==
  ASSUME NEW a \in Ids, NEW b \in 1 .. (N + 1), a < b
  PROVE  Off(a) + Blocks[a] <= Off(b)
<1> DEFINE S == {n \in Nat : a < n /\ n <= N + 1 => Off(a) + Blocks[a] <= Off(n)}
<1>1. N \in Nat /\ a \in Nat /\ a >= 1 /\ b \in Nat
  BY ConcatAssumption DEF Ids
<1>2. 0 \in S
  BY <1>1
<1>3. ASSUME NEW n \in Nat, n \in S PROVE n + 1 \in S
  <2> SUFFICES ASSUME a < n + 1, n + 1 <= N + 1 PROVE Off(a) + Blocks[a] <= Off(n + 1)
    OBVIOUS
  <2>1. n \in Ids /\ n \in 1 .. (N + 1) /\ a \in 1 .. (N + 1)
    BY <1>1 DEF Ids
  <2>2. Off(n + 1) = Off(n) + Blocks[n] /\ Off(n) \in Nat /\ Off(a) \in Nat
    BY <2>1, OffStep
  <2>3. CASE a = n
    BY <2>1, <2>2, <2>3, BlocksType
  <2>4. CASE a < n
    <3>1. Off(a) + Blocks[a] <= Off(n)
      BY <1>1, <1>3, <2>1, <2>4 DEF Ids
    <3> QED BY <2>1, <2>2, <3>1, BlocksType
  <2> QED BY <1>1, <2>3, <2>4
<1> HIDE DEF S
<1>4. Nat \subseteq S
  BY <1>2, <1>3, SetInduction
<1> QED BY <1>1, <1>4 DEF S

\* The body is the blocks of the parts, each part at its place.
LEMMA BodyAt ==
  /\ Body \in Seq(Blocky)
  /\ \A p \in Ids, k \in Nat \ {0} : k <= Blocks[p] =>
       Off(p) + k \in 1 .. Len(Body) /\ Body[Off(p) + k] = <<p, k>>
  /\ \A i \in 1 .. Len(Body) : \E p \in Ids, k \in Nat \ {0} : k <= Blocks[p] /\ i = Off(p) + k
<1> DEFINE At(n) ==
      /\ \A p \in Ids, k \in Nat \ {0} : p <= n /\ k <= Blocks[p] =>
           Off(p) + k \in 1 .. Len(BodyUpTo[n]) /\ BodyUpTo[n][Off(p) + k] = <<p, k>>
      /\ \A i \in 1 .. Len(BodyUpTo[n]) :
           \E p \in Ids, k \in Nat \ {0} : k <= Blocks[p] /\ i = Off(p) + k
    S == {n \in Nat : n <= N => At(n)}
<1>1. N \in Nat /\ BodyUpTo[0] = <<>> /\ \A n \in 0 .. N : BodyUpTo[n] \in Seq(Blocky)
  BY BodyUpToDef, ConcatAssumption
<1>2. 0 \in S
  BY <1>1 DEF Ids
<1>3. ASSUME NEW n \in Nat, n \in S PROVE n + 1 \in S
  <2> SUFFICES ASSUME n + 1 <= N PROVE At(n + 1)
    OBVIOUS
  <2>1. n + 1 \in Ids /\ (n + 1) - 1 = n /\ n \in 0 .. N /\ At(n)
    BY <1>1, <1>3 DEF Ids
  <2>2. BodyUpTo[n + 1] = BodyUpTo[n] \o PartBody(n + 1) /\ Len(BodyUpTo[n]) = Off(n + 1)
    BY <2>1, OffStep DEF Off
  <2>3. /\ PartBody(n + 1) \in Seq(Blocky) /\ Len(PartBody(n + 1)) = Blocks[n + 1]
        /\ \A k \in 1 .. Blocks[n + 1] : PartBody(n + 1)[k] = <<n + 1, k>>
    BY <2>1, PartBodyType
  <2>4. BodyUpTo[n] \in Seq(Blocky) /\ Off(n + 1) \in Nat /\ Blocks[n + 1] \in Nat
    BY <1>1, <2>1, <2>2, BlocksType
  <2>5. /\ Len(BodyUpTo[n + 1]) = Off(n + 1) + Blocks[n + 1]
        /\ \A i \in 1 .. (Off(n + 1) + Blocks[n + 1]) :
             BodyUpTo[n + 1][i] = IF i <= Off(n + 1) THEN BodyUpTo[n][i]
                                  ELSE PartBody(n + 1)[i - Off(n + 1)]
    <3> DEFINE s == BodyUpTo[n]
               t == PartBody(n + 1)
    <3>1. s \in Seq(Blocky) /\ t \in Seq(Blocky)
      BY <2>3, <2>4
    <3> HIDE DEF s, t
    <3>2. /\ Len(s \o t) = Len(s) + Len(t)
          /\ \A i \in 1 .. (Len(s) + Len(t)) :
               (s \o t)[i] = IF i <= Len(s) THEN s[i] ELSE t[i - Len(s)]
      BY <3>1, ConcatProperties
    <3>3. BodyUpTo[n + 1] = s \o t /\ Len(s) = Off(n + 1) /\ Len(t) = Blocks[n + 1]
      BY <2>2, <2>3 DEF s, t
    <3>4. /\ Len(s \o t) = Off(n + 1) + Blocks[n + 1]
          /\ \A i \in 1 .. (Off(n + 1) + Blocks[n + 1]) :
               (s \o t)[i] = IF i <= Off(n + 1) THEN s[i] ELSE t[i - Off(n + 1)]
      BY <3>2, <3>3
    <3> QED BY <3>3, <3>4 DEF s, t
  <2>6. ASSUME NEW p \in Ids, NEW k \in Nat \ {0}, p <= n + 1, k <= Blocks[p]
        PROVE  /\ Off(p) + k \in 1 .. Len(BodyUpTo[n + 1])
               /\ BodyUpTo[n + 1][Off(p) + k] = <<p, k>>
    <3>1. CASE p = n + 1
      <4>1. k \in 1 .. Blocks[n + 1] /\ Off(n + 1) + k \in 1 .. (Off(n + 1) + Blocks[n + 1])
            /\ ~(Off(n + 1) + k <= Off(n + 1)) /\ (Off(n + 1) + k) - Off(n + 1) = k
        BY <2>4, <2>6, <3>1
      <4> QED BY <2>3, <2>5, <3>1, <4>1
    <3>2. CASE p <= n
      <4>1. Off(p) + k \in 1 .. Off(n + 1) /\ BodyUpTo[n][Off(p) + k] = <<p, k>>
        BY <2>1, <2>2, <2>6, <3>2
      <4> QED BY <2>4, <2>5, <4>1
    <3> QED BY <2>6, <3>1, <3>2 DEF Ids
  <2>7. ASSUME NEW i \in 1 .. Len(BodyUpTo[n + 1])
        PROVE  \E p \in Ids, k \in Nat \ {0} : k <= Blocks[p] /\ i = Off(p) + k
    <3>1. CASE i <= Off(n + 1)
      BY <2>1, <2>2, <2>4, <2>5, <3>1
    <3>2. CASE i > Off(n + 1)
      <4>1. i - Off(n + 1) \in Nat \ {0} /\ i - Off(n + 1) <= Blocks[n + 1]
            /\ i = Off(n + 1) + (i - Off(n + 1))
        BY <2>4, <2>5, <3>2
      <4> QED BY <2>1, <4>1
    <3> QED BY <2>4, <2>5, <3>1, <3>2
  <2> QED BY <2>6, <2>7
<1> HIDE DEF S, At
<1>4. Nat \subseteq S
  BY <1>2, <1>3, SetInduction
<1>5. At(N)
  BY <1>1, <1>4 DEF S
<1>6. \A p \in Ids : p <= N
  BY <1>1 DEF Ids
<1> QED BY <1>1, <1>5, <1>6 DEF Body, At

-----------------------------------------------------------------------------
(* The files of a round. *)

Increasing(ps) == \A i, j \in 1 .. Len(ps) : i < j => ps[i] < ps[j]

\* q holds the files of the first n entries of ps that are open, in their order.
Keeps(q, ps, n) ==
  /\ q \in Seq(Ids) /\ Len(q) <= n /\ Increasing(q)
  /\ \A j \in 1 .. Len(q) : \E i \in 1 .. n : q[j] = ps[i] /\ handle[ps[i]] # "nil"
  /\ \A i \in 1 .. n : handle[ps[i]] # "nil" => \E j \in 1 .. Len(q) : q[j] = ps[i]

LEMMA KeepsAppend ==
  ASSUME NEW ps \in Seq(Ids), Increasing(ps), NEW n \in Nat, n + 1 <= Len(ps),
         NEW q, Keeps(q, ps, n), handle[ps[n + 1]] # "nil"
  PROVE  Keeps(Append(q, ps[n + 1]), ps, n + 1)
<1> DEFINE x == ps[n + 1]
           r == Append(q, x)
<1>1. x \in Ids /\ q \in Seq(Ids) /\ Len(q) \in Nat
  BY DEF Keeps
<1> HIDE DEF x
<1>2. /\ r \in Seq(Ids) /\ Len(r) = Len(q) + 1 /\ r[Len(q) + 1] = x
      /\ \A i \in 1 .. Len(q) : r[i] = q[i]
  BY <1>1, AppendProperties
<1> HIDE DEF r
<1>3. \A j \in 1 .. Len(q) : q[j] < x
  <2> TAKE j \in 1 .. Len(q)
  <2>1. PICK i \in 1 .. n : q[j] = ps[i]
    BY DEF Keeps
  <2>2. i \in 1 .. Len(ps) /\ n + 1 \in 1 .. Len(ps) /\ i < n + 1
    OBVIOUS
  <2> QED BY <2>1, <2>2 DEF Increasing, x
<1>4. Increasing(r)
  <2> SUFFICES ASSUME NEW i \in 1 .. Len(r), NEW j \in 1 .. Len(r), i < j PROVE r[i] < r[j]
    BY DEF Increasing
  <2>1. i \in 1 .. Len(q) /\ (j \in 1 .. Len(q) \/ j = Len(q) + 1)
    BY <1>1, <1>2
  <2> QED BY <1>2, <1>3, <2>1 DEF Keeps, Increasing
<1>5. ASSUME NEW j \in 1 .. Len(r)
      PROVE  \E i \in 1 .. (n + 1) : r[j] = ps[i] /\ handle[ps[i]] # "nil"
  <2>1. CASE j = Len(q) + 1
    BY <1>2, <2>1 DEF x
  <2>2. CASE j \in 1 .. Len(q)
    <3>1. PICK i \in 1 .. n : q[j] = ps[i] /\ handle[ps[i]] # "nil"
      BY <2>2 DEF Keeps
    <3>2. i \in 1 .. (n + 1) /\ r[j] = q[j]
      BY <1>2, <2>2
    <3> QED BY <3>1, <3>2
  <2> QED BY <1>1, <1>2, <2>1, <2>2
<1>6. ASSUME NEW i \in 1 .. (n + 1), handle[ps[i]] # "nil"
      PROVE  \E j \in 1 .. Len(r) : r[j] = ps[i]
  <2>1. CASE i = n + 1
    <3>1. Len(q) + 1 \in 1 .. Len(r)
      BY <1>1, <1>2
    <3> QED BY <1>2, <2>1, <3>1 DEF x
  <2>2. CASE i # n + 1
    <3>1. i \in 1 .. n
      BY <2>2
    <3>2. PICK j \in 1 .. Len(q) : q[j] = ps[i]
      BY <1>6, <3>1 DEF Keeps
    <3>3. j \in 1 .. Len(r)
      BY <1>1, <1>2
    <3> QED BY <1>2, <3>2, <3>3
  <2> QED BY <2>1, <2>2
<1>7. Len(r) <= n + 1
  BY <1>1, <1>2 DEF Keeps
<1>8. Keeps(r, ps, n + 1)
  BY <1>2, <1>4, <1>5, <1>6, <1>7 DEF Keeps
<1> QED BY <1>8 DEF r, x

\* The loop of Compact, when the files have the handles h.
Kept(g, h, ps, m) ==
  /\ g[0] = <<>>
  /\ \A i \in 1 .. m : g[i] = IF h[ps[i]] # "nil" THEN Append(g[i - 1], ps[i]) ELSE g[i - 1]

LEMMA KeptExists ==
  ASSUME NEW h, NEW m \in Nat, NEW ps, \A i \in 1 .. m : ps[i] \in Ids
  PROVE  \E g : Kept(g, h, ps, m)
<1> DEFINE T == Seq(Ids)
           step == [n \in Nat |-> [q \in T |->
                      IF n \in 1 .. m /\ h[ps[n]] # "nil" THEN Append(q, ps[n]) ELSE q]]
           b == <<>>
<1>1. b \in T
  OBVIOUS
<1>2. step \in [Nat -> [T -> T]]
  <2> SUFFICES ASSUME NEW n \in Nat, NEW q \in T
               PROVE  (IF n \in 1 .. m /\ h[ps[n]] # "nil"
                       THEN Append(q, ps[n]) ELSE q) \in T
    OBVIOUS
  <2> QED BY AppendProperties
<1>3. \A n \in 1 .. m, q \in T :
        step[n][q] = IF h[ps[n]] # "nil" THEN Append(q, ps[n]) ELSE q
  OBVIOUS
<1> HIDE DEF step, T, b
<1>4. PICK g \in [Nat -> T] : g[0] = b /\ \A k \in Nat \ {0} : g[k] = step[k][g[k - 1]]
  BY <1>1, <1>2, Recursion DEF Recurs
<1>5. ASSUME NEW i \in 1 .. m
      PROVE  g[i] = IF h[ps[i]] # "nil" THEN Append(g[i - 1], ps[i]) ELSE g[i - 1]
  <2>1. i \in Nat \ {0} /\ i - 1 \in Nat
    OBVIOUS
  <2> QED BY <2>1, <1>3, <1>4
<1>6. Kept(g, h, ps, m)
  BY <1>4, <1>5 DEF b, Kept
<1> QED BY <1>6

\* What slices.DeleteFunc leaves of a round.
LEMMA CompactKeeps ==
  ASSUME NEW ps \in Seq(Ids), Increasing(ps)
  PROVE  Keeps(Compact(ps), ps, Len(ps))
<1> DEFINE kept[i \in 0 .. Len(ps)] ==
             IF i = 0 THEN <<>>
             ELSE IF handle[ps[i]] # "nil" THEN Append(kept[i - 1], ps[i]) ELSE kept[i - 1]
<1>1. Len(ps) \in Nat /\ \A i \in 1 .. Len(ps) : ps[i] \in Ids
  OBVIOUS
<1> HIDE DEF kept
<1>4. PICK g : Kept(g, handle, ps, Len(ps))
  BY <1>1, KeptExists
<1> DEFINE f == [i \in 0 .. Len(ps) |-> g[i]]
<1>5. f = [i \in 0 .. Len(ps) |->
             IF i = 0 THEN <<>>
             ELSE IF handle[ps[i]] # "nil" THEN Append(f[i - 1], ps[i]) ELSE f[i - 1]]
  <2>1. \A i \in 0 .. Len(ps) : i # 0 => i \in 1 .. Len(ps) /\ i - 1 \in 0 .. Len(ps)
    BY <1>1
  <2> QED BY <1>4, <2>1 DEF Kept
<1> HIDE DEF f
<1>6. kept = [i \in 0 .. Len(ps) |->
                IF i = 0 THEN <<>>
                ELSE IF handle[ps[i]] # "nil" THEN Append(kept[i - 1], ps[i]) ELSE kept[i - 1]]
  BY <1>5 DEF kept
<1>7. Compact(ps) = kept[Len(ps)]
  BY DEF Compact, kept
<1> DEFINE S == {n \in Nat : n <= Len(ps) => Keeps(kept[n], ps, n)}
<1>8. 0 \in S
  BY <1>1, <1>6 DEF Keeps, Increasing
<1>9. ASSUME NEW n \in Nat, n \in S PROVE n + 1 \in S
  <2> SUFFICES ASSUME n + 1 <= Len(ps) PROVE Keeps(kept[n + 1], ps, n + 1)
    OBVIOUS
  <2>1. n + 1 \in 0 .. Len(ps) /\ n + 1 # 0 /\ (n + 1) - 1 = n /\ n <= Len(ps)
    BY <1>1
  <2>2. Keeps(kept[n], ps, n)
    BY <1>9, <2>1
  <2>3. CASE handle[ps[n + 1]] # "nil"
    <3>1. kept[n + 1] = Append(kept[n], ps[n + 1])
      BY <1>6, <2>1, <2>3
    <3> QED BY <2>2, <2>3, <3>1, KeepsAppend
  <2>4. CASE handle[ps[n + 1]] = "nil"
    <3>1. kept[n + 1] = kept[n]
      BY <1>6, <2>1, <2>4
    <3>2. Len(kept[n]) \in Nat
      BY <2>2 DEF Keeps
    <3>3. \A i \in 1 .. (n + 1) : i \in 1 .. n \/ i = n + 1
      OBVIOUS
    <3> QED BY <2>2, <2>4, <3>1, <3>2, <3>3 DEF Keeps
  <2> QED BY <2>3, <2>4
<1> HIDE DEF S
<1>10. Nat \subseteq S
  BY <1>8, <1>9, SetInduction
<1> QED BY <1>1, <1>7, <1>10 DEF S

\* The file a goroutine copies is the one behind its own.
LEMMA SourceIsNext ==
  ASSUME parts \in Seq(Ids), Increasing(parts),
         NEW i \in 1 .. Len(parts), i + 1 <= Len(parts)
  PROVE  SourceOf(parts[i]) = parts[i + 1]
<1>1. i + 1 \in 2 .. Len(parts) /\ parts[(i + 1) - 1] = parts[i]
  OBVIOUS
<1> DEFINE c == CHOOSE c \in 2 .. Len(parts) : parts[c - 1] = parts[i]
<1>2. c \in 2 .. Len(parts) /\ parts[c - 1] = parts[i]
  BY <1>1
<1> HIDE DEF c
<1>3. c = i + 1
  <2>1. c - 1 \in 1 .. Len(parts) /\ c \in Nat
    BY <1>2
  <2>2. \A j \in 1 .. Len(parts) : parts[j] \in Ids
    OBVIOUS
  <2>3. \A x \in Ids : x \in Nat
    BY DEF Ids
  <2> QED BY <1>2, <2>1, <2>2, <2>3 DEF Increasing
<1> QED BY <1>3 DEF SourceOf, c

-----------------------------------------------------------------------------
(* The inductive invariant.                                                *)

\* Something has gone wrong, and merge will not return nil.
Failed == errCh \/ pc = "error" \/ \E d \in Ids : worker[d] = "report"

Copying(d) == worker[d] \in {"copy", "remove"}

\* The files of a round are in the order of the body, and no other file lies
\* between them.
OrderInv ==
  /\ Increasing(parts) /\ parts[1] = 1 /\ 1 \in exists
  /\ next <= Len(parts) + 1
  /\ \A i \in 1 .. Len(parts), r \in exists :
       r <= parts[i] => \E j \in 1 .. Len(parts) : parts[j] = r

PhaseInv ==
  /\ pc = "check" => next = 1
  /\ pc = "wait" => next >= Len(parts) /\ Len(parts) >= 2
  /\ next = 1 /\ pc # "error" => ~errCh
  /\ pc = "ok" => Len(parts) = 1 /\ SizeAgrees
  /\ Len(parts) = 1 => next = 1

\* A goroutine has its own file and the next one, which no other touches, and has
\* copied as much as its file has grown.
WorkerOK(i) ==
  /\ i + 1 < next /\ worker[parts[i + 1]] = "none" /\ parts[i] \in exists
  /\ Copying(parts[i]) =>
       /\ parts[i + 1] \in exists /\ handle[parts[i + 1]] = "read"
       /\ pos[parts[i]] <= Len(disk[parts[i + 1]])
       /\ Len(disk[parts[i]]) = Off(parts[i + 1]) - Off(parts[i]) + pos[parts[i]]
       /\ worker[parts[i]] = "remove" => pos[parts[i]] = Len(disk[parts[i + 1]])

WorkerInv ==
  /\ \A d \in Ids : worker[d] # "none" => \E i \in 1 .. Len(parts) : parts[i] = d
  /\ \A i \in 1 .. Len(parts) : worker[parts[i]] # "none" => WorkerOK(i)

\* The pairs not launched yet are whole; the others are merged, being merged, or
\* something has failed.
RoundOK(i) ==
  /\ i >= next =>
       /\ parts[i] \in exists /\ worker[parts[i]] = "none"
       /\ i < Len(parts) => Len(disk[parts[i]]) = Off(parts[i + 1]) - Off(parts[i])
  /\ i < next /\ handle[parts[i]] = "nil" => parts[i] \notin exists
  /\ i < next /\ handle[parts[i]] # "nil" /\ ~Failed =>
       /\ parts[i] \in exists
       /\ handle[parts[i]] = "write" \/ (i > 1 /\ Copying(parts[i - 1]))

RoundInv == \A i \in 1 .. Len(parts) : RoundOK(i)

\* A file is the body from the start of its part on, and has that part at least.
FileOK(p) ==
  /\ Off(p) + Len(disk[p]) <= Len(Body)
  /\ \A k \in 1 .. Len(disk[p]) : disk[p][k] = Body[Off(p) + k]
  /\ Len(disk[p]) >= Blocks[p]

FileInv == \A p \in Ids : FileOK(p)

\* No file lies between a and b, or between a and the end when b is N + 1.
Adjacent(a, b) == a < b /\ \A r \in exists : r <= a \/ r >= b

\* No file has a gap behind it, and before a failure none has more than it needs.
LenOK(a, b) ==
  /\ Len(disk[a]) >= Off(b) - Off(a)
  /\ ~Failed => Len(disk[a]) = Off(b) - Off(a) + (IF Copying(a) THEN pos[a] ELSE 0)

LenInv == \A a \in exists, b \in exists \cup {N + 1} : Adjacent(a, b) => LenOK(a, b)

\* Every increment but the last is a file removed.
BarInv == bar + Cardinality(exists) <= N + (IF pc \in {"ok", "error"} THEN 1 ELSE 0)

IInv == /\ TypeOK /\ OrderInv /\ PhaseInv /\ WorkerInv
        /\ RoundInv /\ FileInv /\ LenInv /\ BarInv

-----------------------------------------------------------------------------
(* What the conjuncts say of the parts of a round. *)

LEMMA IdsFacts == N \in Nat /\ N >= 2 /\ 1 \in Ids /\ N + 1 \notin Ids /\ \A p \in Ids : p \in Nat
  BY ConcatAssumption DEF Ids

LEMMA PartFacts ==
  ASSUME TypeOK, OrderInv
  PROVE  /\ Len(parts) \in Nat /\ Len(parts) >= 1 /\ Len(parts) <= N /\ next \in Nat /\ next >= 1
         /\ \A i \in 1 .. Len(parts) : parts[i] \in Ids
         /\ \A i, j \in 1 .. Len(parts) : parts[i] = parts[j] => i = j
         /\ \A i, j \in 1 .. Len(parts) : parts[i] < parts[j] => i < j
         /\ \A p \in Ids : Len(disk[p]) \in Nat /\ pos[p] \in Nat
<1>1. Len(parts) \in Nat /\ Len(parts) >= 1 /\ Len(parts) <= N /\ next \in Nat /\ next >= 1
  BY ConcatAssumption DEF TypeOK
<1>2. \A i \in 1 .. Len(parts) : parts[i] \in Ids
  BY DEF TypeOK
<1>3. ASSUME NEW i \in 1 .. Len(parts), NEW j \in 1 .. Len(parts)
      PROVE  (parts[i] = parts[j] => i = j) /\ (parts[i] < parts[j] => i < j)
  <2>1. parts[i] \in Nat /\ parts[j] \in Nat
    BY <1>2, IdsFacts
  <2>2. (i < j => parts[i] < parts[j]) /\ (j < i => parts[j] < parts[i])
    BY DEF OrderInv, Increasing
  <2> QED BY <2>1, <2>2
<1>4. ASSUME NEW p \in Ids PROVE Len(disk[p]) \in Nat /\ pos[p] \in Nat
  <2>1. disk[p] \in Seq(Blocky) /\ pos[p] \in 0 .. Len(Body)
    BY DEF TypeOK, Blocky
  <2> QED BY <2>1, BodyAt
<1> QED BY <1>1, <1>2, <1>3, <1>4

LEMMA WorkerFacts ==
  ASSUME TypeOK, OrderInv, WorkerInv, NEW d \in Ids, worker[d] # "none"
  PROVE  \E i \in 1 .. Len(parts) :
           /\ parts[i] = d /\ i + 1 \in 1 .. Len(parts) /\ WorkerOK(i)
           /\ SourceOf(d) = parts[i + 1] /\ parts[i + 1] # d
           /\ d < parts[i + 1] /\ Adjacent(d, parts[i + 1])
<1>1. PICK i \in 1 .. Len(parts) : parts[i] = d
  BY DEF WorkerInv
<1>2. WorkerOK(i)
  BY <1>1 DEF WorkerInv
<1>3. i + 1 \in 1 .. Len(parts) /\ i + 1 <= Len(parts)
  BY <1>2, PartFacts DEF WorkerOK, OrderInv
<1>4. SourceOf(d) = parts[i + 1]
  BY <1>1, <1>3, SourceIsNext DEF TypeOK, OrderInv
<1>5. parts[i + 1] # d
  BY <1>1, <1>3, PartFacts
<1>6. d < parts[i + 1]
  BY <1>1, <1>3 DEF OrderInv, Increasing
<1>7. Adjacent(d, parts[i + 1])
  <2> SUFFICES ASSUME NEW r \in exists, ~(r <= d) PROVE r >= parts[i + 1]
    BY <1>6 DEF Adjacent
  <2>1. r \in Ids /\ parts[i + 1] \in Ids
    BY <1>3, PartFacts DEF TypeOK
  <2> SUFFICES ASSUME r <= parts[i + 1] PROVE r = parts[i + 1]
    BY <2>1, IdsFacts
  <2>2. PICK j \in 1 .. Len(parts) : parts[j] = r
    BY <1>3 DEF OrderInv
  <2>3. i < j /\ ~(i + 1 < j)
    <3>1. parts[i] < parts[j]
      BY <1>1, <2>1, <2>2, IdsFacts
    <3>2. i < j
      BY <3>1, PartFacts
    <3>3. ASSUME i + 1 < j PROVE FALSE
      <4>1. parts[i + 1] < parts[j]
        BY <1>3, <3>3 DEF OrderInv, Increasing
      <4> QED BY <4>1, <2>1, <2>2, IdsFacts
    <3> QED BY <3>2, <3>3
  <2> QED BY <2>2, <2>3
<1> QED BY <1>1, <1>2, <1>3, <1>4, <1>5, <1>6, <1>7

-----------------------------------------------------------------------------
(* The steps of merge. *)

LEMMA InitInv == Init => IInv
<1> SUFFICES ASSUME Init PROVE IInv
  OBVIOUS
<1> USE DEF Init
<1>1. Len(parts) = N /\ parts \in Seq(Ids) /\ \A i \in Ids : parts[i] = i
  BY IdsFacts DEF Ids
<1>2. \A p \in Ids : disk[p] \in Seq(Blocky) /\ Len(disk[p]) = Blocks[p]
                     /\ \A k \in 1 .. Blocks[p] : disk[p][k] = <<p, k>>
  BY PartBodyType
<1>3. TypeOK
  <2>1. disk \in [Ids -> Seq(Ids \X Nat)]
    BY <1>2 DEF Blocky
  <2>2. pos \in [Ids -> 0 .. Len(Body)]
    BY BodyAt, LenProperties
  <2>3. handle \in [Ids -> {"nil", "write", "read", "closed"}]
    OBVIOUS
  <2>4. worker \in [Ids -> {"none", "copy", "remove", "report"}]
    OBVIOUS
  <2>5. Len(parts) \in 1 .. N /\ next \in 1 .. (N + 2) /\ bar \in 0 .. N
    BY <1>1, IdsFacts
  <2> QED BY <1>1, <2>1, <2>2, <2>3, <2>4, <2>5 DEF TypeOK
<1>4. OrderInv
  BY <1>1, IdsFacts DEF OrderInv, Increasing, Ids
<1>5. PhaseInv
  BY <1>1, IdsFacts DEF PhaseInv
<1>6. WorkerInv
  BY <1>1, IdsFacts DEF WorkerInv, Ids
<1>7. RoundInv
  <2> SUFFICES ASSUME NEW i \in 1 .. Len(parts) PROVE RoundOK(i)
    BY DEF RoundInv
  <2>1. i \in Ids /\ i \in Nat /\ i >= 1 /\ parts[i] = i
    BY <1>1, IdsFacts DEF Ids
  <2>2. ASSUME i < Len(parts) PROVE Len(disk[parts[i]]) = Off(parts[i + 1]) - Off(parts[i])
    <3>1. i + 1 \in Ids /\ i + 1 \in 1 .. (N + 1) /\ i \in 1 .. (N + 1)
      BY <1>1, <2>1, <2>2, IdsFacts DEF Ids
    <3>2. parts[i + 1] = i + 1
      BY <1>1, <3>1
    <3>3. Off(i) \in Nat /\ Blocks[i] \in Nat /\ Off(i + 1) = Off(i) + Blocks[i]
      BY <2>1, <3>1, OffStep, BlocksType
    <3> QED BY <1>2, <2>1, <3>2, <3>3
  <2> QED BY <2>1, <2>2 DEF RoundOK
<1>8. FileInv
  <2> SUFFICES ASSUME NEW p \in Ids PROVE FileOK(p)
    BY DEF FileInv
  <2>1. p \in 1 .. (N + 1) /\ p + 1 \in 1 .. (N + 1)
    BY IdsFacts DEF Ids
  <2>2. Off(p) + Blocks[p] <= Len(Body)
    <3>1. Off(p) + Blocks[p] <= Off(N + 1)
      BY <2>1, IdsFacts, OffMonotone DEF Ids
    <3> QED BY <3>1, OffStep
  <2>3. ASSUME NEW k \in 1 .. Len(disk[p]) PROVE disk[p][k] = Body[Off(p) + k]
    <3>1. k \in Nat \ {0} /\ k <= Blocks[p] /\ k \in 1 .. Blocks[p]
      BY <1>2, BlocksType
    <3>2. disk[p][k] = <<p, k>>
      BY <1>2, <3>1
    <3> QED BY <3>1, <3>2, BodyAt
  <2>4. Blocks[p] \in Nat
    BY BlocksType
  <2>5. Len(disk[p]) = Blocks[p]
    BY <1>2
  <2> HIDE DEF Init
  <2> QED BY <2>2, <2>3, <2>4, <2>5 DEF FileOK
<1>9. LenInv
  <2> SUFFICES ASSUME NEW a \in exists, NEW b \in exists \cup {N + 1}, Adjacent(a, b)
               PROVE  LenOK(a, b)
    BY DEF LenInv
  <2>1. a \in Ids /\ a \in 1 .. (N + 1) /\ b \in 1 .. (N + 1) /\ a < b
    BY IdsFacts DEF Ids, Adjacent
  <2>2. b = a + 1
    <3>1. a + 1 \in exists => b <= a + 1
      BY <2>1 DEF Adjacent
    <3> QED BY <2>1, <3>1, IdsFacts DEF Ids
  <2>3. Off(a) \in Nat /\ Blocks[a] \in Nat /\ Off(a + 1) = Off(a) + Blocks[a]
    BY <2>1, OffStep, BlocksType
  <2>4. Len(disk[a]) = Off(b) - Off(a)
    BY <1>2, <2>1, <2>2, <2>3
  <2>5. ~Copying(a) /\ Len(disk[a]) \in Nat
    BY <1>2, <2>1, BlocksType DEF Copying
  <2> QED BY <2>4, <2>5 DEF LenOK
<1>10. BarInv
  <2>1. IsFiniteSet(Ids) /\ Cardinality(Ids) = N
    BY IdsFacts, FS_Interval DEF Ids
  <2> QED BY <2>1, IdsFacts DEF BarInv
<1> QED BY <1>3, <1>4, <1>5, <1>6, <1>7, <1>8, <1>9, <1>10 DEF IInv

\* A step of merge itself that touches no file that a goroutine may have.
LEMMA MainFrame ==
  ASSUME IInv, UNCHANGED <<parts, next, exists, disk, worker, pos>>, Failed => Failed',
         \A i \in 1 .. Len(parts) : i < next => handle'[parts[i]] = handle[parts[i]]
  PROVE  OrderInv' /\ WorkerInv' /\ RoundInv' /\ FileInv' /\ LenInv'
<1> USE DEF IInv
<1>1. OrderInv'
  BY DEF OrderInv
<1>2. WorkerInv'
  <2> SUFFICES ASSUME NEW i \in 1 .. Len(parts), worker[parts[i]] # "none" PROVE WorkerOK(i)'
    BY DEF WorkerInv
  <2>1. WorkerOK(i) /\ i + 1 \in 1 .. Len(parts) /\ i + 1 < next
    BY PartFacts DEF WorkerInv, WorkerOK, OrderInv
  <2>2. handle'[parts[i + 1]] = handle[parts[i + 1]]
    BY <2>1
  <2> QED BY <2>1, <2>2 DEF WorkerOK, Copying
<1>3. RoundInv'
  <2> SUFFICES ASSUME NEW i \in 1 .. Len(parts) PROVE RoundOK(i)'
    BY DEF RoundInv
  <2> QED BY DEF RoundInv, RoundOK, Copying
<1>4. FileInv'
  BY DEF FileInv, FileOK
<1>5. LenInv'
  BY DEF LenInv, LenOK, Adjacent, Copying
<1> QED BY <1>1, <1>2, <1>3, <1>4, <1>5

\* Some file is left.
LEMMA ExistsFinite ==
  ASSUME TypeOK, OrderInv
  PROVE  IsFiniteSet(exists) /\ Cardinality(exists) \in Nat /\ Cardinality(exists) >= 1
<1>1. IsFiniteSet(Ids)
  BY IdsFacts, FS_Interval DEF Ids
<1>2. IsFiniteSet(exists)
  BY <1>1, FS_Subset DEF TypeOK
<1>3. Cardinality(exists) \in Nat
  BY <1>2, FS_CardinalityType
<1>4. Cardinality(exists) # 0
  BY <1>2, FS_EmptySet DEF OrderInv
<1> QED BY <1>2, <1>3, <1>4

LEMMA BarFrame ==
  ASSUME TypeOK, OrderInv, BarInv, UNCHANGED <<exists, bar>>, pc' \in {"ok", "error"} \/ pc \notin {"ok", "error"}
  PROVE  BarInv'
<1>1. Cardinality(exists) \in Nat /\ bar \in Nat /\ N \in Nat
  BY ExistsFinite, IdsFacts DEF TypeOK
<1> QED BY <1>1 DEF BarInv

LEMMA BeginInv == IInv /\ (Begin \/ BarFails \/ AllLaunched) => IInv'
<1> SUFFICES ASSUME IInv, Begin \/ BarFails \/ AllLaunched PROVE IInv'
  OBVIOUS
<1> USE DEF Begin, BarFails, AllLaunched
<1>1. OrderInv' /\ WorkerInv' /\ RoundInv' /\ FileInv' /\ LenInv'
  BY MainFrame DEF Failed
<1>2. TypeOK'
  BY DEF IInv, TypeOK
<1>3. PhaseInv'
  BY DEF IInv, PhaseInv
<1>4. BarInv'
  BY BarFrame DEF IInv
<1> QED BY <1>1, <1>2, <1>3, <1>4 DEF IInv

LEMMA LaunchFailsInv == IInv /\ LaunchFails => IInv'
<1> SUFFICES ASSUME IInv, LaunchFails PROVE IInv'
  OBVIOUS
<1> USE DEF LaunchFails, HasPair, Dst, Src
<1>1. parts[next] \in Ids /\ parts[next + 1] \in Ids
      /\ \A i \in 1 .. Len(parts) : i < next => parts[i] # parts[next] /\ parts[i] # parts[next + 1]
  <2>1. next \in 1 .. Len(parts) /\ next + 1 \in 1 .. Len(parts) /\ next \in Nat
    BY PartFacts DEF IInv
  <2> QED BY <2>1, PartFacts DEF IInv
<1>2. \A i \in 1 .. Len(parts) : i < next => handle'[parts[i]] = handle[parts[i]]
  BY <1>1, PartFacts DEF IInv, TypeOK
<1>3. OrderInv' /\ WorkerInv' /\ RoundInv' /\ FileInv' /\ LenInv'
  BY <1>2, MainFrame DEF Failed
<1>4. TypeOK'
  BY <1>1 DEF IInv, TypeOK
<1>5. PhaseInv'
  BY DEF IInv, PhaseInv
<1>6. BarInv'
  BY BarFrame DEF IInv
<1> QED BY <1>3, <1>4, <1>5, <1>6 DEF IInv

LEMMA FinishInv == IInv /\ Finish => IInv'
<1> SUFFICES ASSUME IInv, Finish PROVE IInv'
  OBVIOUS
<1> USE DEF Finish
<1>1. OrderInv' /\ WorkerInv' /\ RoundInv' /\ FileInv' /\ LenInv'
  BY MainFrame DEF Failed
<1>2. Cardinality(exists) \in Nat /\ Cardinality(exists) >= 1
  BY ExistsFinite DEF IInv
<1>3. bar' \in 0 .. N /\ BarInv'
  BY <1>2, IdsFacts DEF IInv, BarInv, TypeOK
<1>4. TypeOK'
  BY <1>3 DEF IInv, TypeOK
<1>5. PhaseInv'
  <2>1. Len(parts) = 1
    <3>1. Len(parts) \in Nat /\ Len(parts) >= 1
      BY PartFacts DEF IInv
    <3>2. Len(parts) < 2
      OBVIOUS
    <3>3. \A n \in Nat : n >= 1 /\ n < 2 => n = 1
      OBVIOUS
    <3> HIDE DEF Finish
    <3> QED BY <3>1, <3>2, <3>3
  <2> QED BY <2>1 DEF IInv, PhaseInv, SizeAgrees
<1> QED BY <1>1, <1>3, <1>4, <1>5 DEF IInv

LEMMA LaunchInv == IInv /\ Launch => IInv'
<1> SUFFICES ASSUME IInv, Launch PROVE IInv'
  OBVIOUS
<1> USE DEF Launch, HasPair
<1> DEFINE D == parts[next]
           S == parts[next + 1]
<1>1. next \in 1 .. Len(parts) /\ next + 1 \in 1 .. Len(parts) /\ next \in Nat /\ next + 2 <= Len(parts) + 1
  BY PartFacts DEF IInv
<1>2. /\ D \in Ids /\ S \in Ids /\ D # S
      /\ \A i \in 1 .. Len(parts) : i # next => parts[i] # D
      /\ \A i \in 1 .. Len(parts) : i # next + 1 => parts[i] # S
  BY <1>1, PartFacts DEF IInv
<1>3. /\ worker[D] = "none" /\ D \in exists /\ Len(disk[D]) = Off(S) - Off(D)
      /\ worker[S] = "none" /\ S \in exists
  BY <1>1 DEF IInv, RoundInv, RoundOK
<1>4. /\ handle' = [handle EXCEPT ![D] = "write", ![S] = "read"]
      /\ worker' = [worker EXCEPT ![D] = "copy"] /\ pos' = [pos EXCEPT ![D] = 0]
  BY DEF Dst, Src
<1>5. /\ handle'[D] = "write" /\ handle'[S] = "read" /\ worker'[D] = "copy" /\ pos'[D] = 0
      /\ \A p \in Ids : p # D /\ p # S => handle'[p] = handle[p]
      /\ \A p \in Ids : p # D => worker'[p] = worker[p] /\ pos'[p] = pos[p]
  BY <1>2, <1>4 DEF IInv, TypeOK
<1>6. Failed' <=> Failed
  BY <1>2, <1>3, <1>5 DEF Failed
<1>7. \A i \in 1 .. Len(parts) : parts[i] \in Ids
  BY PartFacts DEF IInv
<1>8. TypeOK'
  <2>1. Len(Body) \in Nat
    BY BodyAt, LenProperties
  <2>2. pos' \in [Ids -> 0 .. Len(Body)]
    <3>1. pos \in [Ids -> 0 .. Len(Body)] /\ 0 \in 0 .. Len(Body)
      BY <2>1 DEF IInv, TypeOK
    <3>2. pos' = [pos EXCEPT ![D] = 0]
      BY <1>4
    <3> HIDE DEF Launch, HasPair
    <3> QED BY <1>2, <3>1, <3>2
  <2>3. handle' \in [Ids -> {"nil", "write", "read", "closed"}]
        /\ worker' \in [Ids -> {"none", "copy", "remove", "report"}]
    BY <1>2, <1>4 DEF IInv, TypeOK
  <2>4. next' \in 1 .. (N + 2)
    <3>1. Len(parts) \in Nat /\ Len(parts) <= N /\ next' = next + 2
      BY PartFacts DEF IInv
    <3> HIDE DEF Launch, HasPair
    <3> QED BY <1>1, <3>1, IdsFacts
  <2> QED BY <2>2, <2>3, <2>4 DEF IInv, TypeOK
<1>9. OrderInv'
  BY <1>1 DEF IInv, OrderInv
<1>10. PhaseInv'
  BY <1>1, PartFacts DEF IInv, PhaseInv
<1> HIDE DEF D, S
<1>11. WorkerInv'
  <2>1. ASSUME NEW d \in Ids, worker'[d] # "none" PROVE \E i \in 1 .. Len(parts) : parts[i] = d
    BY <1>1, <1>5, <2>1 DEF IInv, WorkerInv, D
  <2>2. ASSUME NEW i \in 1 .. Len(parts), worker'[parts[i]] # "none" PROVE WorkerOK(i)'
    <3>1. CASE i = next
      <4>1. parts[i] = D /\ parts[i + 1] = S /\ i + 1 < next'
        BY <1>1, <3>1 DEF D, S
      <4>2. Len(disk[S]) \in Nat /\ Off(S) - Off(D) \in Int
        <5>1. D \in 1 .. (N + 1) /\ S \in 1 .. (N + 1)
          BY <1>2, IdsFacts DEF Ids
        <5>2. Off(D) \in Nat /\ Off(S) \in Nat
          BY <5>1, OffStep
        <5> QED BY <1>2, <5>2, PartFacts DEF IInv
      <4>3. Len(disk[D]) = Off(S) - Off(D) + 0
        BY <1>3, <4>2
      <4> QED BY <1>2, <1>3, <1>5, <4>1, <4>2, <4>3 DEF WorkerOK
    <3>2. CASE i # next
      <4>1. worker[parts[i]] # "none" /\ worker'[parts[i]] = worker[parts[i]]
            /\ pos'[parts[i]] = pos[parts[i]]
        BY <1>2, <1>5, <1>7, <2>2, <3>2
      <4>2. WorkerOK(i)
        BY <4>1 DEF IInv, WorkerInv
      <4>3. i + 1 < next /\ i + 1 \in 1 .. Len(parts)
        BY <1>1, <4>2 DEF WorkerOK
      <4>4. parts[i + 1] \in Ids /\ parts[i + 1] # D /\ parts[i + 1] # S
        BY <1>1, <1>2, <1>7, <4>3
      <4>5. handle'[parts[i + 1]] = handle[parts[i + 1]] /\ worker'[parts[i + 1]] = worker[parts[i + 1]]
        BY <1>5, <4>4
      <4>6. i + 1 < next'
        BY <1>1, <4>3
      <4> QED BY <4>1, <4>2, <4>5, <4>6 DEF WorkerOK, Copying
    <3> QED BY <3>1, <3>2
  <2> QED BY <2>1, <2>2 DEF WorkerInv
<1>12. RoundInv'
  <2> SUFFICES ASSUME NEW i \in 1 .. Len(parts) PROVE RoundOK(i)'
    BY DEF RoundInv
  <2>1. RoundOK(i) /\ parts[i] \in Ids
    BY <1>7 DEF IInv, RoundInv
  <2>2. CASE i = next
    BY <1>1, <1>3, <1>5, <2>2 DEF RoundOK, D
  <2>3. CASE i = next + 1
    BY <1>1, <1>3, <1>5, <2>3 DEF RoundOK, D, S, Copying
  <2>4. CASE i # next /\ i # next + 1
    <3>1. handle'[parts[i]] = handle[parts[i]] /\ worker'[parts[i]] = worker[parts[i]]
      BY <1>2, <1>5, <2>1, <2>4
    <3>2. i > 1 /\ i < next => worker'[parts[i - 1]] = worker[parts[i - 1]]
      <4> SUFFICES ASSUME i > 1, i < next PROVE worker'[parts[i - 1]] = worker[parts[i - 1]]
        OBVIOUS
      <4>1. i - 1 \in 1 .. Len(parts) /\ i - 1 # next
        BY <1>1
      <4> QED BY <1>2, <1>5, <1>7, <4>1
    <3>3. i >= next' => i >= next /\ (i < next' => i < next)
      BY <1>1
    <3>4. i < next' => i < next
      BY <1>1, <2>4
    <3> QED BY <1>6, <2>1, <3>1, <3>2, <3>3, <3>4 DEF RoundOK, Copying
  <2> QED BY <2>2, <2>3, <2>4
<1>13. FileInv'
  BY DEF IInv, FileInv, FileOK
<1>14. LenInv'
  <2> SUFFICES ASSUME NEW a \in exists, NEW b \in exists \cup {N + 1}, Adjacent(a, b)
               PROVE  LenOK(a, b)'
    BY DEF LenInv, Adjacent
  <2>1. LenOK(a, b) /\ a \in Ids
    BY DEF IInv, LenInv, TypeOK
  <2>2. CASE a = D
    BY <1>3, <1>5, <1>6, <2>1, <2>2 DEF LenOK, Copying
  <2>3. CASE a # D
    BY <1>5, <1>6, <2>1, <2>3 DEF LenOK, Copying
  <2> QED BY <2>2, <2>3
<1>15. BarInv'
  BY DEF IInv, BarInv
<1> QED BY <1>8, <1>9, <1>10, <1>11, <1>12, <1>13, <1>14, <1>15 DEF IInv

LEMMA RoundFailedInv == IInv /\ RoundFailed => IInv'
<1> SUFFICES ASSUME IInv, RoundFailed PROVE IInv'
  OBVIOUS
<1> USE DEF RoundFailed
<1>1. \A p \in Ids : worker[p] = "none"
  BY DEF Quiet
<1>2. \A i \in 1 .. Len(parts) : parts[i] \in Ids /\ worker[parts[i]] = "none"
  BY <1>1, PartFacts DEF IInv
<1>3. Failed' /\ \A p \in Ids : handle'[p] = "nil" <=> handle[p] = "nil"
  BY DEF Failed
<1>4. TypeOK'
  <2>1. handle' \in [Ids -> {"nil", "write", "read", "closed"}]
    BY DEF IInv, TypeOK
  <2> QED BY <2>1 DEF IInv, TypeOK
<1>5. OrderInv' /\ PhaseInv'
  BY DEF IInv, OrderInv, PhaseInv
<1>6. WorkerInv'
  BY <1>1, <1>2 DEF WorkerInv
<1>7. RoundInv'
  BY <1>2, <1>3 DEF IInv, RoundInv, RoundOK
<1>8. FileInv'
  BY DEF IInv, FileInv, FileOK
<1>9. LenInv'
  BY <1>3 DEF IInv, LenInv, LenOK, Adjacent
<1>10. BarInv'
  BY BarFrame DEF IInv
<1> QED BY <1>4, <1>5, <1>6, <1>7, <1>8, <1>9, <1>10 DEF IInv

\* The files that stay for the next round are whole and in order: only the last
\* can be dropped without having been merged.
LEMMA NextRoundInv == IInv /\ NextRound => IInv'
<1> SUFFICES ASSUME IInv, NextRound PROVE IInv'
  OBVIOUS
<1> USE DEF NextRound
<1> DEFINE n == Len(parts)
           m == Len(parts')
<1>1. /\ \A p \in Ids : worker[p] = "none" /\ ~Copying(p)
      /\ ~Failed
  BY DEF Quiet, Copying, Failed
<1>2. /\ n \in Nat /\ n >= 2 /\ n <= N /\ next \in Nat /\ next >= n
      /\ \A i \in 1 .. n : parts[i] \in Ids
      /\ \A i, j \in 1 .. n : parts[i] < parts[j] => i < j
  BY PartFacts DEF IInv, PhaseInv
<1>3. Keeps(parts', parts, n)
  BY CompactKeeps DEF IInv, TypeOK, OrderInv
<1>4. /\ parts' \in Seq(Ids) /\ m \in Nat /\ m <= n /\ Increasing(parts')
      /\ \A j \in 1 .. m : \E i \in 1 .. n : parts'[j] = parts[i] /\ handle[parts[i]] # "nil"
      /\ \A i \in 1 .. n : handle[parts[i]] # "nil" => \E j \in 1 .. m : parts'[j] = parts[i]
  BY <1>3 DEF Keeps
<1> HIDE DEF n, m
<1>5. ASSUME NEW i \in 1 .. n, parts[i] \in exists, handle[parts[i]] = "nil" PROVE i = n
  <2>1. ~(i < next)
    BY <1>5 DEF IInv, RoundInv, RoundOK, n
  <2> QED BY <1>2, <2>1
<1>6. ASSUME NEW j \in 1 .. m PROVE parts'[j] \in exists
  <2>1. PICK i \in 1 .. n : parts'[j] = parts[i] /\ handle[parts[i]] # "nil"
    BY <1>4
  <2>2. RoundOK(i)
    BY DEF IInv, RoundInv, n
  <2> QED BY <1>1, <1>2, <2>1, <2>2 DEF RoundOK
<1>7. ASSUME NEW j \in 1 .. m, NEW r \in exists, r <= parts'[j]
      PROVE  \E k \in 1 .. m : parts'[k] = r
  <2>1. PICK i \in 1 .. n : parts'[j] = parts[i] /\ handle[parts[i]] # "nil"
    BY <1>4
  <2>2. PICK k \in 1 .. n : parts[k] = r
    BY <1>7, <2>1 DEF IInv, OrderInv, n
  <2>3. handle[r] # "nil"
    <3> SUFFICES ASSUME handle[r] = "nil" PROVE FALSE
      OBVIOUS
    <3>1. k = n /\ i # n
      BY <1>5, <2>1, <2>2
    <3>2. parts[i] < parts[k]
      BY <1>2, <3>1 DEF IInv, OrderInv, Increasing, n
    <3>3. parts[i] \in Nat /\ r \in Nat
      BY <1>2, <2>2, IdsFacts
    <3> QED BY <1>7, <2>1, <2>2, <3>2, <3>3
  <2> QED BY <1>4, <2>2, <2>3
<1>8. m >= 1 /\ parts'[1] = 1
  <2>1. \A j \in 1 .. m : parts'[j] \in Ids
    BY <1>4 DEF m
  <2>2. 1 \in 1 .. n /\ parts[1] = 1 /\ 1 \in exists
    BY <1>2 DEF IInv, OrderInv
  <2>3. handle[1] # "nil"
    BY <1>2, <1>5, <2>2
  <2>4. PICK j \in 1 .. m : parts'[j] = 1
    BY <1>4, <2>2, <2>3
  <2>5. 1 \in 1 .. m
    BY <1>4
  <2>6. j = 1
    <3> SUFFICES ASSUME 1 < j PROVE FALSE
      OBVIOUS
    <3>1. parts'[1] < parts'[j]
      BY <1>4, <2>5 DEF Increasing, m
    <3> QED BY <2>1, <2>4, <2>5, <3>1, IdsFacts DEF Ids
  <2> QED BY <1>4, <2>4, <2>6
<1>9. \A j \in 1 .. m : parts'[j] \in Ids
  BY <1>4 DEF m
<1>10. TypeOK'
  <2>1. Len(parts') \in 1 .. N /\ next' \in 1 .. (N + 2)
    BY <1>2, <1>4, <1>8, IdsFacts DEF m
  <2> QED BY <1>4, <2>1 DEF IInv, TypeOK
<1>11. OrderInv'
  <2>1. Increasing(parts)' /\ next' <= Len(parts') + 1 /\ 1 \in exists
    BY <1>4, <1>8 DEF IInv, OrderInv, Increasing, m
  <2>2. \A j \in 1 .. Len(parts'), r \in exists :
          r <= parts'[j] => \E k \in 1 .. Len(parts') : parts'[k] = r
    BY <1>7 DEF m
  <2> QED BY <1>8, <2>1, <2>2 DEF OrderInv
<1>12. PhaseInv'
  BY DEF IInv, PhaseInv
<1>13. WorkerInv'
  BY <1>1, <1>9 DEF WorkerInv, m
<1>14. RoundInv'
  <2> SUFFICES ASSUME NEW j \in 1 .. m PROVE RoundOK(j)'
    BY DEF RoundInv, m
  <2>1. parts'[j] \in exists /\ worker[parts'[j]] = "none" /\ ~(j < next')
    BY <1>1, <1>6, <1>9
  <2>2. ASSUME j < m PROVE Len(disk[parts'[j]]) = Off(parts'[j + 1]) - Off(parts'[j])
    <3> DEFINE a == parts'[j]
               b == parts'[j + 1]
    <3>1. j + 1 \in 1 .. m /\ j \in Nat
      BY <1>4, <2>2
    <3>2. a \in exists /\ b \in exists /\ a \in Ids /\ b \in Ids /\ a < b
      BY <1>4, <1>6, <1>9, <3>1 DEF Increasing, m
    <3>3. Adjacent(a, b)
      <4> SUFFICES ASSUME NEW r \in exists, ~(r >= b) PROVE r <= a
        BY <3>2 DEF Adjacent
      <4>1. r \in Nat /\ a \in Nat /\ b \in Nat
        BY <3>2, IdsFacts DEF IInv, TypeOK
      <4>2. PICK k \in 1 .. m : parts'[k] = r
        BY <1>7, <3>1, <4>1
      <4>3. (j + 1 < k => b < r) /\ (k < j => r < a)
        BY <1>4, <3>1, <4>2 DEF Increasing, m
      <4>4. k = j \/ k < j \/ k = j + 1 \/ j + 1 < k
        BY <3>1
      <4> QED BY <4>1, <4>2, <4>3, <4>4
    <3> HIDE DEF a, b
    <3>4. LenOK(a, b) /\ ~Copying(a)
      BY <1>1, <3>2, <3>3 DEF IInv, LenInv
    <3>5. Len(disk[a]) \in Nat /\ Off(a) \in Nat /\ Off(b) \in Nat
      <4>1. a \in 1 .. (N + 1) /\ b \in 1 .. (N + 1)
        BY <3>2, IdsFacts DEF Ids
      <4> QED BY <3>2, <4>1, PartFacts, OffStep DEF IInv
    <3>6. Len(disk[a]) = Off(b) - Off(a)
      BY <1>1, <3>4, <3>5 DEF LenOK
    <3> QED BY <3>6 DEF a, b
  <2> QED BY <2>1, <2>2 DEF RoundOK, m
<1>15. FileInv'
  BY DEF IInv, FileInv, FileOK
<1>16. LenInv'
  BY DEF IInv, LenInv, LenOK, Adjacent, Failed, Copying
<1>17. BarInv'
  BY BarFrame DEF IInv
<1> QED BY <1>10, <1>11, <1>12, <1>13, <1>14, <1>15, <1>16, <1>17 DEF IInv

-----------------------------------------------------------------------------
(* The steps of a goroutine. *)

\* Two goroutines have no file in common.
LEMMA OtherWorker ==
  ASSUME IInv, NEW i \in 1 .. Len(parts), worker[parts[i]] # "none",
         NEW j \in 1 .. Len(parts), worker[parts[j]] # "none", j # i
  PROVE  /\ WorkerOK(j) /\ i + 1 \in 1 .. Len(parts) /\ j + 1 \in 1 .. Len(parts)
         /\ parts[j] # parts[i] /\ parts[j] # parts[i + 1]
         /\ parts[j + 1] # parts[i] /\ parts[j + 1] # parts[i + 1]
<1>1. WorkerOK(i) /\ WorkerOK(j)
  BY DEF IInv, WorkerInv
<1>2. i + 1 \in 1 .. Len(parts) /\ j + 1 \in 1 .. Len(parts)
  BY <1>1, PartFacts DEF IInv, WorkerOK, OrderInv
<1>3. parts[j] # parts[i + 1] /\ parts[j + 1] # parts[i]
  BY <1>1 DEF WorkerOK
<1>4. parts[j] # parts[i] /\ parts[j + 1] # parts[i + 1]
  BY <1>2, PartFacts DEF IInv
<1> QED BY <1>1, <1>2, <1>3, <1>4

LEMMA CopyBlockInv == \A d \in Ids : IInv /\ CopyBlock(d) => IInv'
<1> SUFFICES ASSUME IInv, NEW d \in Ids, CopyBlock(d) PROVE IInv'
  OBVIOUS
<1> USE DEF CopyBlock
<1>1. PICK i \in 1 .. Len(parts) :
        /\ parts[i] = d /\ i + 1 \in 1 .. Len(parts) /\ WorkerOK(i)
        /\ SourceOf(d) = parts[i + 1] /\ parts[i + 1] # d
  BY WorkerFacts DEF IInv
<1> DEFINE S == parts[i + 1]
           e == disk[S][pos[d] + 1]
           L == Len(disk[d])
<1>2. /\ \A j \in 1 .. Len(parts) : parts[j] \in Ids
      /\ \A p \in Ids : Len(disk[p]) \in Nat /\ pos[p] \in Nat /\ Off(p) \in Nat
  <2>1. \A p \in Ids : p \in 1 .. (N + 1)
    BY IdsFacts DEF Ids
  <2> QED BY <2>1, PartFacts, OffStep DEF IInv
<1>3. S \in Ids /\ pos[d] < Len(disk[S]) /\ L = Off(S) - Off(d) + pos[d]
  BY <1>1, <1>2 DEF WorkerOK, Copying
<1>4. disk' = [disk EXCEPT ![d] = Append(disk[d], e)] /\ pos' = [pos EXCEPT ![d] = pos[d] + 1]
  BY <1>1 DEF Put
<1>5. disk[d] \in Seq(Blocky) /\ e \in Blocky
  <2>1. disk[d] \in Seq(Blocky) /\ disk[S] \in Seq(Blocky)
    BY <1>3 DEF IInv, TypeOK, Blocky
  <2>2. pos[d] + 1 \in 1 .. Len(disk[S])
    BY <1>2, <1>3
  <2> QED BY <2>1, <2>2, ElementOfSeq
<1> HIDE DEF S, e, L
<1>6. /\ Append(disk[d], e) \in Seq(Blocky) /\ Len(Append(disk[d], e)) = L + 1
      /\ Append(disk[d], e)[L + 1] = e
      /\ \A k \in 1 .. L : Append(disk[d], e)[k] = disk[d][k]
  BY <1>5, AppendProperties DEF L
<1>7. /\ disk'[d] = Append(disk[d], e) /\ pos'[d] = pos[d] + 1
      /\ \A p \in Ids : p # d => disk'[p] = disk[p] /\ pos'[p] = pos[p]
  BY <1>4 DEF IInv, TypeOK
<1>8. L \in Nat /\ Len(disk'[d]) = L + 1
  BY <1>2, <1>6, <1>7 DEF L
<1>9. Off(S) + Len(disk[S]) <= Len(Body) /\ Len(Body) \in Nat
      /\ \A k \in 1 .. Len(disk[S]) : disk[S][k] = Body[Off(S) + k]
  BY <1>3, BodyAt, LenProperties DEF IInv, FileInv, FileOK
<1>10. Failed' <=> Failed
  BY DEF Failed
<1>11. TypeOK'
  <2>1. pos[d] + 1 \in 0 .. Len(Body)
    BY <1>2, <1>3, <1>9
  <2>2. pos' \in [Ids -> 0 .. Len(Body)]
    BY <1>4, <2>1 DEF IInv, TypeOK
  <2>3. disk' \in [Ids -> Seq(Blocky)]
    BY <1>4, <1>6 DEF IInv, TypeOK, Blocky
  <2> QED BY <2>2, <2>3 DEF IInv, TypeOK, Blocky
<1>12. OrderInv'
  BY DEF IInv, OrderInv
<1>13. PhaseInv'
  <2>1. Len(parts) # 1
    BY <1>1, PartFacts DEF IInv
  <2> QED BY <2>1 DEF IInv, PhaseInv
<1>14. WorkerInv'
  <2> SUFFICES ASSUME NEW j \in 1 .. Len(parts), worker[parts[j]] # "none" PROVE WorkerOK(j)'
    BY DEF IInv, WorkerInv
  <2>1. CASE j = i
    <3>1. Len(disk'[d]) = Off(S) - Off(d) + pos'[d] /\ pos'[d] <= Len(disk'[S])
      <4>1. S # d /\ disk'[S] = disk[S] /\ pos'[d] = pos[d] + 1
        BY <1>1, <1>3, <1>7 DEF S
      <4>2. /\ Off(S) \in Nat /\ Off(d) \in Nat /\ pos[d] \in Nat /\ Len(disk[S]) \in Nat
            /\ pos[d] < Len(disk[S]) /\ L = Off(S) - Off(d) + pos[d]
        BY <1>2, <1>3
      <4> HIDE DEF CopyBlock
      <4> QED BY <1>8, <4>1, <4>2
    <3> QED BY <1>1, <2>1, <3>1 DEF WorkerOK, Copying, S
  <2>2. CASE j # i
    <3>1. WorkerOK(j) /\ parts[j] # d /\ parts[j + 1] # d /\ j + 1 \in 1 .. Len(parts)
      BY <1>1, <2>2, OtherWorker
    <3>2. disk'[parts[j]] = disk[parts[j]] /\ disk'[parts[j + 1]] = disk[parts[j + 1]]
          /\ pos'[parts[j]] = pos[parts[j]]
      BY <1>2, <1>7, <3>1
    <3> QED BY <3>1, <3>2 DEF WorkerOK, Copying
  <2> QED BY <2>1, <2>2
<1>15. RoundInv'
  <2> SUFFICES ASSUME NEW j \in 1 .. Len(parts) PROVE RoundOK(j)'
    BY DEF RoundInv
  <2>1. RoundOK(j)
    BY DEF IInv, RoundInv
  <2>2. j >= next => disk'[parts[j]] = disk[parts[j]]
    BY <1>2, <1>7, <2>1 DEF RoundOK
  <2> QED BY <1>10, <2>1, <2>2 DEF RoundOK, Copying
<1>16. FileInv'
  <2> SUFFICES ASSUME NEW p \in Ids PROVE FileOK(p)'
    BY DEF FileInv
  <2>1. FileOK(p)
    BY DEF IInv, FileInv
  <2>2. CASE p # d
    BY <1>7, <2>1, <2>2 DEF FileOK
  <2>3. CASE p = d
    <3>1. Off(d) + (L + 1) = Off(S) + (pos[d] + 1)
      BY <1>2, <1>3
    <3>2. Off(d) + Len(disk'[d]) <= Len(Body)
      <4>1. Off(S) \in Nat /\ Off(d) \in Nat /\ Len(disk[S]) \in Nat /\ pos[d] \in Nat
        BY <1>2, <1>3
      <4>2. Off(S) + (pos[d] + 1) <= Len(Body)
        BY <1>3, <1>9, <4>1
      <4>3. Off(d) + Len(disk'[d]) = Off(S) + (pos[d] + 1)
        BY <1>8, <3>1
      <4> QED BY <4>2, <4>3
    <3>3. ASSUME NEW k \in 1 .. Len(disk'[d]) PROVE disk'[d][k] = Body[Off(d) + k]
      <4>1. CASE k = L + 1
        <5>1. pos[d] + 1 \in 1 .. Len(disk[S])
          BY <1>2, <1>3
        <5>2. e = Body[Off(S) + (pos[d] + 1)]
          BY <1>9, <5>1 DEF e
        <5> QED BY <1>6, <1>7, <3>1, <4>1, <5>2
      <4>2. CASE k # L + 1
        <5>1. k \in 1 .. L
          BY <1>8, <4>2
        <5> QED BY <1>6, <1>7, <2>1, <2>3, <5>1 DEF FileOK, L
      <4> QED BY <4>1, <4>2
    <3>4. Len(disk'[d]) >= Blocks[d]
      BY <1>8, <2>1, <2>3, BlocksType DEF FileOK, L
    <3> QED BY <2>3, <3>2, <3>3, <3>4 DEF FileOK
  <2> QED BY <2>2, <2>3
<1>17. LenInv'
  <2> SUFFICES ASSUME NEW a \in exists, NEW b \in exists \cup {N + 1}, Adjacent(a, b)
               PROVE  LenOK(a, b)'
    BY DEF LenInv, Adjacent
  <2>1. LenOK(a, b) /\ a \in Ids
    BY DEF IInv, LenInv, TypeOK
  <2>2. CASE a # d
    BY <1>7, <1>10, <2>1, <2>2 DEF LenOK, Copying
  <2>3. CASE a = d
    <3>1. Off(b) \in Nat /\ Off(d) \in Nat /\ pos[d] \in Nat
      <4>1. b \in Ids \/ b = N + 1
        BY DEF IInv, TypeOK
      <4>2. b \in 1 .. (N + 1)
        BY <4>1, IdsFacts DEF Ids
      <4> QED BY <4>2, <1>2, OffStep
    <3>2. Copying(d) /\ Copying(d)'
      BY DEF Copying
    <3>3. L >= Off(b) - Off(d) /\ (~Failed => L = Off(b) - Off(d) + pos[d])
      BY <2>1, <2>3, <3>2 DEF LenOK, L
    <3>4. Len(disk'[d]) >= Off(b) - Off(d)
          /\ (~Failed => Len(disk'[d]) = Off(b) - Off(d) + pos'[d])
      BY <1>7, <1>8, <3>1, <3>3
    <3> QED BY <1>10, <2>3, <3>2, <3>4 DEF LenOK
  <2> QED BY <2>2, <2>3
<1>18. BarInv'
  BY BarFrame DEF IInv
<1> QED BY <1>11, <1>12, <1>13, <1>14, <1>15, <1>16, <1>17, <1>18 DEF IInv

\* A goroutine that has copied all, or has failed, or reports that.
LEMMA TurnInv == \A d \in Ids : IInv /\ (CopyEnds(d) \/ CopyFails(d) \/ Report(d)) => IInv'
<1> SUFFICES ASSUME IInv, NEW d \in Ids, CopyEnds(d) \/ CopyFails(d) \/ Report(d) PROVE IInv'
  OBVIOUS
<1>1. /\ worker[d] # "none" /\ UNCHANGED <<pc, parts, next, handle, exists, disk, pos, bar>>
      /\ errCh' \in BOOLEAN /\ worker' \in [Ids -> {"none", "copy", "remove", "report"}]
      /\ \A p \in Ids : p # d => worker'[p] = worker[p]
  BY DEF CopyEnds, CopyFails, Report, Send, IInv, TypeOK
<1>2. \/ Copying(d) /\ Copying(d)' /\ (Failed' <=> Failed) /\ AtEnd(d)
      \/ ~Copying(d)' /\ Failed'
  <2>1. CASE CopyEnds(d)
    <3>1. worker[d] = "copy" /\ worker'[d] = "remove" /\ errCh' = errCh
      BY <2>1 DEF CopyEnds, IInv, TypeOK
    <3>2. \A p \in Ids : worker'[p] = "report" <=> worker[p] = "report"
      BY <1>1, <3>1
    <3> QED BY <1>1, <2>1, <3>1, <3>2 DEF CopyEnds, Copying, Failed
  <2>2. CASE CopyFails(d)
    <3>1. worker'[d] = "report"
      BY <2>2 DEF CopyFails, IInv, TypeOK
    <3> QED BY <3>1 DEF Copying, Failed
  <2>3. CASE Report(d)
    <3>1. worker'[d] = "none" /\ errCh'
      BY <2>3 DEF Report, Send, IInv, TypeOK
    <3> QED BY <3>1 DEF Copying, Failed
  <2> QED BY <2>1, <2>2, <2>3
<1>3. PICK i \in 1 .. Len(parts) :
        /\ parts[i] = d /\ i + 1 \in 1 .. Len(parts) /\ WorkerOK(i)
        /\ SourceOf(d) = parts[i + 1] /\ parts[i + 1] # d
  BY <1>1, WorkerFacts DEF IInv
<1>4. \A j \in 1 .. Len(parts) : parts[j] \in Ids
  BY PartFacts DEF IInv
<1>5. TypeOK'
  BY <1>1 DEF IInv, TypeOK
<1>6. OrderInv'
  BY <1>1 DEF IInv, OrderInv
<1>7. PhaseInv'
  <2>1. Len(parts) # 1 /\ next # 1
    BY <1>3, PartFacts DEF IInv, WorkerOK
  <2> QED BY <1>1, <2>1 DEF IInv, PhaseInv, SizeAgrees
<1>8. WorkerInv'
  <2>1. ASSUME NEW p \in Ids, worker'[p] # "none" PROVE \E j \in 1 .. Len(parts) : parts[j] = p
    BY <1>1, <1>3, <2>1 DEF IInv, WorkerInv
  <2>2. ASSUME NEW j \in 1 .. Len(parts), worker'[parts[j]] # "none" PROVE WorkerOK(j)'
    <3>1. CASE j = i
      <4>1. worker'[parts[i + 1]] = worker[parts[i + 1]]
        BY <1>1, <1>3, <1>4
      <4>2. Copying(d)' => Copying(d) /\ pos[d] = Len(disk[parts[i + 1]])
        BY <1>2, <1>3 DEF AtEnd
      <4> QED BY <1>1, <1>3, <3>1, <4>1, <4>2 DEF WorkerOK, Copying
    <3>2. CASE j # i
      <4>1. parts[j] # d /\ worker'[parts[j]] = worker[parts[j]]
        BY <1>1, <1>3, <1>4, <3>2, PartFacts DEF IInv
      <4>2. WorkerOK(j) /\ parts[j + 1] # d /\ j + 1 \in 1 .. Len(parts)
        BY <1>1, <1>3, <2>2, <3>2, <4>1, OtherWorker
      <4>3. worker'[parts[j + 1]] = worker[parts[j + 1]]
        BY <1>1, <1>4, <4>2
      <4> QED BY <1>1, <4>1, <4>2, <4>3 DEF WorkerOK, Copying
    <3> QED BY <3>1, <3>2
  <2> QED BY <1>1, <2>1, <2>2 DEF WorkerInv
<1>9. RoundInv'
  <2> SUFFICES ASSUME NEW j \in 1 .. Len(parts) PROVE RoundOK(j)'
    BY <1>1 DEF RoundInv
  <2>1. RoundOK(j)
    BY DEF IInv, RoundInv
  <2>2. j >= next => worker'[parts[j]] = "none"
    BY <1>1, <1>4, <2>1 DEF RoundOK
  <2>3. ~Failed' => ~Failed /\ (j > 1 /\ Copying(parts[j - 1]) => Copying(parts[j - 1])')
    <3> SUFFICES ASSUME ~Failed'
                 PROVE  ~Failed /\ (j > 1 /\ Copying(parts[j - 1]) => Copying(parts[j - 1])')
      OBVIOUS
    <3>1. Copying(d)' /\ ~Failed
      BY <1>2
    <3>2. ASSUME j > 1, Copying(parts[j - 1]) PROVE Copying(parts[j - 1])'
      <4>1. j - 1 \in 1 .. Len(parts)
        BY <3>2
      <4>2. parts[j - 1] = d \/ worker'[parts[j - 1]] = worker[parts[j - 1]]
        BY <1>1, <1>4, <4>1
      <4> QED BY <1>1, <3>1, <3>2, <4>2 DEF Copying
    <3> QED BY <3>1, <3>2
  <2> QED BY <1>1, <2>1, <2>2, <2>3 DEF RoundOK
<1>10. FileInv'
  BY <1>1 DEF IInv, FileInv, FileOK
<1>11. LenInv'
  <2> SUFFICES ASSUME NEW a \in exists, NEW b \in exists \cup {N + 1}, Adjacent(a, b)
               PROVE  LenOK(a, b)'
    BY <1>1 DEF LenInv, Adjacent
  <2>1. LenOK(a, b) /\ a \in Ids
    BY DEF IInv, LenInv, TypeOK
  <2>2. ~Failed' => ~Failed /\ (Copying(a)' <=> Copying(a))
    BY <1>1, <1>2, <2>1 DEF Copying
  <2> QED BY <1>1, <2>1, <2>2 DEF LenOK
<1>12. BarInv'
  BY <1>1, BarFrame DEF IInv
<1> QED BY <1>5, <1>6, <1>7, <1>8, <1>9, <1>10, <1>11, <1>12 DEF IInv

\* The removal of a file, with or without a failing call: what it held is in the
\* file of the goroutine, which now reaches to the next file left.
LEMMA RemoveInv == \A d \in Ids : IInv /\ (RemoveSource(d) \/ RemoveFails(d)) => IInv'
<1> SUFFICES ASSUME IInv, NEW d \in Ids, RemoveSource(d) \/ RemoveFails(d) PROVE IInv'
  OBVIOUS
<1>1. worker[d] = "remove" /\ UNCHANGED <<pc, parts, next, disk, pos, errCh>>
  BY DEF RemoveSource, RemoveFails
<1>2. PICK i \in 1 .. Len(parts) :
        /\ parts[i] = d /\ i + 1 \in 1 .. Len(parts) /\ WorkerOK(i)
        /\ SourceOf(d) = parts[i + 1] /\ parts[i + 1] # d
        /\ d < parts[i + 1] /\ Adjacent(d, parts[i + 1])
  BY <1>1, WorkerFacts DEF IInv
<1> DEFINE S == parts[i + 1]
<1>3. \A j \in 1 .. Len(parts) : parts[j] \in Ids
  BY PartFacts DEF IInv
<1>4. /\ S \in Ids /\ S \in exists /\ d \in exists /\ Copying(d) /\ worker[S] = "none"
      /\ pos[d] = Len(disk[S]) /\ Len(disk[d]) = Off(S) - Off(d) + pos[d]
  BY <1>1, <1>2, <1>3 DEF WorkerOK, Copying
<1>5. SourceOf(d) = S /\ d # S /\ d < S /\ Adjacent(d, S)
  BY <1>2
<1> HIDE DEF S
<1>6. /\ exists' = exists \ {S} \/ (exists' = exists /\ Failed')
      /\ (handle'[S] = "nil" /\ exists' = exists \ {S}) \/ (handle'[S] = "closed" /\ Failed')
      /\ \A p \in Ids : p # S => handle'[p] = handle[p]
      /\ handle' \in [Ids -> {"nil", "write", "read", "closed"}]
      /\ worker' \in [Ids -> {"none", "copy", "remove", "report"}]
      /\ ~Copying(d)' /\ \A p \in Ids : p # d => worker'[p] = worker[p]
      /\ Failed => Failed'
      /\ bar' = bar \/ (bar' = bar + 1 /\ exists' = exists \ {S})
  <2>1. CASE RemoveSource(d)
    <3>1. exists' = exists \ {S} /\ handle' = [handle EXCEPT ![S] = "nil"]
          /\ worker' = [worker EXCEPT ![d] = "none"] /\ bar' = bar + 1
      BY <1>5, <2>1 DEF RemoveSource
    <3>2. /\ handle'[S] = "nil" /\ \A p \in Ids : p # S => handle'[p] = handle[p]
          /\ worker'[d] = "none" /\ \A p \in Ids : p # d => worker'[p] = worker[p]
          /\ handle' \in [Ids -> {"nil", "write", "read", "closed"}]
          /\ worker' \in [Ids -> {"none", "copy", "remove", "report"}]
      BY <1>4, <3>1 DEF IInv, TypeOK
    <3>3. Failed => Failed'
      <4>1. \A p \in Ids : worker[p] = "report" => worker'[p] = "report"
        BY <1>1, <3>2
      <4> QED BY <1>1, <4>1 DEF Failed
    <3>4. ~Copying(d)'
      BY <3>2 DEF Copying
    <3> QED BY <3>1, <3>2, <3>3, <3>4
  <2>2. CASE RemoveFails(d)
    <3>1. exists' \in {exists, exists \ {S}} /\ handle' = [handle EXCEPT ![S] = "closed"]
          /\ worker' = [worker EXCEPT ![d] = "report"] /\ bar' = bar
      BY <1>5, <2>2 DEF RemoveFails
    <3>2. /\ handle'[S] = "closed" /\ \A p \in Ids : p # S => handle'[p] = handle[p]
          /\ worker'[d] = "report" /\ \A p \in Ids : p # d => worker'[p] = worker[p]
          /\ handle' \in [Ids -> {"nil", "write", "read", "closed"}]
          /\ worker' \in [Ids -> {"none", "copy", "remove", "report"}]
      BY <1>4, <3>1 DEF IInv, TypeOK
    <3> QED BY <3>1, <3>2 DEF Copying, Failed
  <2> QED BY <2>1, <2>2
<1>7. exists' \subseteq exists /\ \A r \in exists : r # S => r \in exists'
  BY <1>6
<1>8. 1 \in exists'
  <2>1. parts[1] = 1 /\ 1 \in 1 .. Len(parts) /\ i + 1 # 1
    BY <1>2, PartFacts DEF IInv, OrderInv
  <2>2. S # 1
    BY <1>2, <2>1, PartFacts DEF IInv, S
  <2> QED BY <1>7, <2>2 DEF IInv, OrderInv
<1>9. BarInv' /\ bar' \in 0 .. N
  <2>1. Cardinality(exists) \in Nat /\ IsFiniteSet(exists) /\ bar \in Nat /\ N \in Nat
    <3>1. bar \in Nat /\ N \in Nat
      BY IdsFacts DEF IInv, TypeOK
    <3> QED BY <3>1, ExistsFinite DEF IInv
  <2>2. exists' = exists \ {S} => Cardinality(exists') = Cardinality(exists) - 1
    BY <1>4, <2>1, FS_RemoveElement
  <2>3. Cardinality(exists') \in Nat /\ Cardinality(exists') >= 1
    <3>1. IsFiniteSet(exists')
      BY <1>7, <2>1, FS_Subset
    <3>2. Cardinality(exists') \in Nat /\ Cardinality(exists') # 0
      BY <1>8, <3>1, FS_CardinalityType, FS_EmptySet
    <3> QED BY <3>2
  <2>4. bar + Cardinality(exists) <= N + (IF pc \in {"ok", "error"} THEN 1 ELSE 0)
    BY DEF IInv, BarInv
  <2>5. bar' + Cardinality(exists') <= N + (IF pc \in {"ok", "error"} THEN 1 ELSE 0)
        /\ bar' \in 0 .. N
    <3>1. CASE exists' = exists \ {S}
      BY <1>6, <2>1, <2>2, <2>3, <2>4, <3>1
    <3>2. CASE exists' # exists \ {S}
      BY <1>6, <2>1, <2>3, <2>4, <3>2
    <3> QED BY <3>1, <3>2
  <2> QED BY <1>1, <2>5 DEF BarInv
<1>10. TypeOK'
  BY <1>1, <1>6, <1>7, <1>9 DEF IInv, TypeOK
<1>11. OrderInv'
  BY <1>1, <1>7, <1>8 DEF IInv, OrderInv
<1>12. PhaseInv'
  <2>1. Len(parts) # 1 /\ next # 1
    BY <1>2, PartFacts DEF IInv, WorkerOK
  <2> QED BY <1>1, <2>1 DEF IInv, PhaseInv, SizeAgrees
<1>13. WorkerInv'
  <2>1. ASSUME NEW p \in Ids, worker'[p] # "none" PROVE \E j \in 1 .. Len(parts) : parts[j] = p
    BY <1>1, <1>2, <1>6, <2>1 DEF IInv, WorkerInv
  <2>2. ASSUME NEW j \in 1 .. Len(parts), worker'[parts[j]] # "none" PROVE WorkerOK(j)'
    <3>1. CASE j = i
      <4>1. worker'[S] = worker[S]
        BY <1>4, <1>5, <1>6
      <4>2. ~Copying(parts[i])'
        BY <1>1, <1>2, <1>6 DEF Copying
      <4> QED BY <1>1, <1>2, <1>4, <1>5, <1>7, <3>1, <4>1, <4>2 DEF WorkerOK, Copying, S
    <3>2. CASE j # i
      <4>1. parts[j] # d /\ worker'[parts[j]] = worker[parts[j]]
        BY <1>2, <1>3, <1>6, <3>2, PartFacts DEF IInv
      <4>2. /\ WorkerOK(j) /\ j + 1 \in 1 .. Len(parts) /\ parts[j + 1] # d
            /\ parts[j] # S /\ parts[j + 1] # S
        BY <1>1, <1>2, <2>2, <3>2, <4>1, OtherWorker DEF S
      <4>3. worker'[parts[j + 1]] = worker[parts[j + 1]] /\ handle'[parts[j + 1]] = handle[parts[j + 1]]
        BY <1>3, <1>6, <4>2
      <4> QED BY <1>1, <1>7, <4>1, <4>2, <4>3 DEF WorkerOK, Copying
    <3> QED BY <3>1, <3>2
  <2> QED BY <1>1, <2>1, <2>2 DEF WorkerInv
<1>14. RoundInv'
  <2> SUFFICES ASSUME NEW j \in 1 .. Len(parts) PROVE RoundOK(j)'
    BY <1>1 DEF RoundInv
  <2>1. RoundOK(j) /\ parts[j] \in Ids
    BY <1>3 DEF IInv, RoundInv
  <2>2. CASE j = i + 1
    <3>1. parts[j] = S /\ j < next
      BY <1>2, <2>2 DEF WorkerOK, S
    <3>2. next \in Nat /\ ~(j >= next)
      BY <3>1, PartFacts DEF IInv
    <3> QED BY <1>1, <1>6, <3>1, <3>2 DEF RoundOK
  <2>3. CASE j # i + 1
    <3>1. parts[j] # S /\ handle'[parts[j]] = handle[parts[j]]
      BY <1>2, <1>6, <2>1, <2>3, PartFacts DEF IInv, S
    <3>2. parts[j] \in exists' <=> parts[j] \in exists
      BY <1>7, <3>1
    <3>3. j >= next => worker'[parts[j]] = "none"
      BY <1>1, <1>6, <2>1 DEF RoundOK
    <3>4. j > 1 /\ Copying(parts[j - 1]) => Copying(parts[j - 1])'
      <4> SUFFICES ASSUME j > 1, Copying(parts[j - 1]) PROVE Copying(parts[j - 1])'
        OBVIOUS
      <4>1. j - 1 \in 1 .. Len(parts) /\ j - 1 # i
        BY <2>3
      <4>2. parts[j - 1] # d /\ parts[j - 1] \in Ids
        BY <1>2, <1>3, <4>1, PartFacts DEF IInv
      <4> QED BY <1>1, <1>6, <4>2 DEF Copying
    <3> QED BY <1>1, <1>6, <2>1, <3>1, <3>2, <3>3, <3>4 DEF RoundOK
  <2> QED BY <2>2, <2>3
<1>15. FileInv'
  BY <1>1 DEF IInv, FileInv, FileOK
<1>16. LenInv'
  <2> SUFFICES ASSUME NEW a \in exists', NEW b \in exists' \cup {N + 1}, Adjacent(a, b)'
               PROVE  LenOK(a, b)'
    BY DEF LenInv
  <2>1. a \in exists /\ b \in exists \cup {N + 1} /\ a \in Ids /\ a \in Nat /\ b \in Nat
        /\ S \in Nat /\ d \in Nat
    <3>1. exists \subseteq Ids
      BY DEF IInv, TypeOK
    <3> QED BY <1>4, <1>7, <3>1, IdsFacts
  <2>2. a < b /\ \A r \in exists : r # S => r <= a \/ r >= b
    BY <1>7 DEF Adjacent
  <2>3. CASE Adjacent(a, b)
    <3>1. LenOK(a, b)
      BY <2>1, <2>3 DEF IInv, LenInv
    <3>2. a # d \/ Failed'
      <4> SUFFICES ASSUME a = d, ~Failed' PROVE FALSE
        OBVIOUS
      <4>1. exists' = exists \ {S}
        BY <1>6
      <4>2. S >= b
        BY <1>4, <1>5, <2>1, <2>3 DEF Adjacent
      <4>3. b <= d \/ b >= S
        <5>1. CASE b \in exists
          BY <1>5, <5>1 DEF Adjacent
        <5>2. CASE b = N + 1
          BY <1>4, <5>2, IdsFacts DEF Ids
        <5> QED BY <2>1, <5>1, <5>2
      <4>4. b = S
        BY <2>1, <2>2, <4>2, <4>3
      <4> QED BY <1>4, <2>1, <4>1, <4>4, IdsFacts
    <3>3. ~Failed' => Copying(a)' = Copying(a)
      BY <1>1, <1>6, <2>1, <3>2 DEF Copying
    <3> QED BY <1>1, <1>6, <3>1, <3>3 DEF LenOK
  <2>4. CASE ~Adjacent(a, b)
    <3>1. a < S /\ S < b
      BY <1>4, <2>1, <2>2, <2>4 DEF Adjacent
    <3>2. a = d
      <4>1. d <= a \/ d >= b
        BY <1>4, <1>5, <2>2
      <4>2. a <= d \/ a >= S
        BY <1>5, <2>1 DEF Adjacent
      <4> QED BY <1>5, <2>1, <3>1, <4>1, <4>2
    <3>3. Adjacent(S, b)
      <4>1. \A r \in exists : r # S => r <= S \/ r >= b
        <5> TAKE r \in exists
        <5>1. r \in Nat
          BY IdsFacts DEF IInv, TypeOK
        <5> QED BY <2>1, <2>2, <3>1, <5>1
      <4> QED BY <2>1, <3>1, <4>1 DEF Adjacent
    <3>4. LenOK(S, b) /\ ~Copying(S)
      BY <1>4, <2>1, <3>3 DEF IInv, LenInv, Copying
    <3>5. Len(disk[S]) \in Nat /\ Off(S) \in Nat /\ Off(b) \in Nat /\ Off(d) \in Nat
      <4>1. \A x \in Ids \cup {N + 1} : x \in 1 .. (N + 1)
        BY IdsFacts DEF Ids
      <4>2. b \in Ids \cup {N + 1}
        BY <2>1 DEF IInv, TypeOK
      <4> QED BY <1>4, <4>1, <4>2, PartFacts, OffStep DEF IInv
    <3>6. Len(disk[d]) >= Off(b) - Off(d)
      BY <1>4, <3>4, <3>5 DEF LenOK
    <3>7. ~Failed' => Len(disk[d]) = Off(b) - Off(d) + 0
      BY <1>4, <1>6, <3>4, <3>5 DEF LenOK
    <3> QED BY <1>1, <1>6, <3>2, <3>6, <3>7 DEF LenOK
  <2> QED BY <2>3, <2>4
<1> QED BY <1>9, <1>10, <1>11, <1>12, <1>13, <1>14, <1>15, <1>16 DEF IInv

-----------------------------------------------------------------------------
(* The invariant, and what follows from it. *)

LEMMA StepInv == IInv /\ [Next]_vars => IInv'
<1> SUFFICES ASSUME IInv, [Next]_vars PROVE IInv'
  OBVIOUS
<1>1. CASE Begin \/ BarFails \/ AllLaunched
  BY <1>1, BeginInv
<1>2. CASE Launch
  BY <1>2, LaunchInv
<1>3. CASE LaunchFails
  BY <1>3, LaunchFailsInv
<1>4. CASE NextRound
  BY <1>4, NextRoundInv
<1>5. CASE RoundFailed
  BY <1>5, RoundFailedInv
<1>6. CASE Finish
  BY <1>6, FinishInv
<1>7. ASSUME NEW d \in Ids, WorkerStep(d) PROVE IInv'
  BY <1>7, CopyBlockInv, TurnInv, RemoveInv DEF WorkerStep
<1>8. CASE UNCHANGED vars
  <2>1. OrderInv' /\ WorkerInv' /\ RoundInv' /\ FileInv' /\ LenInv'
    BY <1>8, MainFrame DEF vars, Failed
  <2>2. TypeOK' /\ PhaseInv' /\ BarInv'
    BY <1>8 DEF vars, IInv, TypeOK, PhaseInv, SizeAgrees, BarInv
  <2> QED BY <2>1, <2>2 DEF IInv
<1> QED BY <1>1, <1>2, <1>3, <1>4, <1>5, <1>6, <1>7, <1>8 DEF Next, MainStep

\* What concat keeps in every state: the order of the files, what each holds and
\* what its goroutine has copied (getparty.go:894-956).
THEOREM Invariant == Spec => []IInv
<1> QED BY InitInv, StepInv, PTL DEF Spec

\* The values of the variables of concat, for any number and lengths of the parts.
THEOREM TypeCorrect == Spec => []TypeOK
<1>1. IInv => TypeOK
  BY DEF IInv
<1> QED BY <1>1, Invariant, PTL

LEMMA MergedInv == IInv => MergedIsWhole
<1> SUFFICES ASSUME IInv, pc = "ok" PROVE disk[1] = Body /\ exists = {1}
  BY DEF MergedIsWhole
<1>1. Len(disk[1]) = Len(Body) /\ Len(parts) = 1 /\ next = 1
  BY DEF IInv, PhaseInv, SizeAgrees
<1>2. Off(1) = 0 /\ Body \in Seq(Blocky) /\ disk[1] \in Seq(Blocky) /\ Len(Body) \in Nat
  BY OffStep, BodyAt, LenProperties, IdsFacts DEF IInv, TypeOK, Blocky
<1>3. disk[1] = Body
  <2>1. \A k \in 1 .. Len(disk[1]) : disk[1][k] = Body[Off(1) + k]
    BY IdsFacts DEF IInv, FileInv, FileOK
  <2>2. \A k \in 1 .. Len(disk[1]) : disk[1][k] = Body[k]
    BY <1>1, <1>2, <2>1
  <2> QED BY <1>1, <1>2, <2>2, SeqEqual
<1>4. ~Failed
  <2>1. ~errCh
    BY <1>1 DEF IInv, PhaseInv
  <2>2. \A d \in Ids : worker[d] = "none"
    <3> SUFFICES ASSUME NEW d \in Ids, worker[d] # "none" PROVE FALSE
      OBVIOUS
    <3>1. PICK i \in 1 .. Len(parts) : i + 1 \in 1 .. Len(parts)
      BY WorkerFacts DEF IInv
    <3> QED BY <1>1, <3>1
  <2> QED BY <2>1, <2>2 DEF Failed
<1>5. ASSUME NEW x \in exists, x # 1 PROVE FALSE
  <2> DEFINE T == {r \in exists : r # 1}
  <2>1. T \in SUBSET Nat /\ T # {}
    BY <1>5, IdsFacts DEF IInv, TypeOK
  <2>2. PICK b \in T : \A r \in T : b <= r
    BY <2>1, LeastNatural
  <2>3. b \in Ids /\ 1 < b /\ 1 \in exists
    BY <2>2, IdsFacts DEF IInv, TypeOK, OrderInv, Ids
  <2>4. Adjacent(1, b)
    <3> SUFFICES ASSUME NEW r \in exists, r # 1 PROVE r >= b
      BY <2>3, IdsFacts DEF Adjacent
    <3>1. r \in Nat /\ b \in Nat
      BY <2>1, <2>2
    <3> QED BY <2>2, <3>1
  <2>5. LenOK(1, b)
    BY <2>2, <2>3, <2>4 DEF IInv, LenInv
  <2>6. worker[1] = "none"
    <3> SUFFICES ASSUME worker[1] # "none" PROVE FALSE
      BY DEF IInv, TypeOK
    <3>1. PICK i \in 1 .. Len(parts) : i + 1 \in 1 .. Len(parts)
      BY WorkerFacts, IdsFacts DEF IInv
    <3> QED BY <1>1, <3>1
  <2>7. Off(b) + Blocks[b] <= Len(Body) /\ Off(b) \in Nat /\ Blocks[b] > 0 /\ Blocks[b] \in Nat
    <3>1. b \in 1 .. (N + 1) /\ N + 1 \in 1 .. (N + 1) /\ b < N + 1
      BY <2>3, IdsFacts DEF Ids
    <3> QED BY <2>3, <3>1, OffStep, OffMonotone, BlocksType
  <2>8. Len(disk[1]) = Off(b) - 0 + 0
    BY <1>2, <1>4, <2>5, <2>6 DEF LenOK, Copying
  <2> QED BY <1>1, <1>2, <2>7, <2>8
<1> QED BY <1>3, <1>5 DEF IInv, OrderInv

\* Session.merge returns nil only when the body is in the first file and the
\* others are gone (session.go:133), for any number of parts and any rounds.
THEOREM MergeWhole == Spec => []MergedIsWhole
<1> QED BY MergedInv, Invariant, PTL

LEMMA SizeInv == IInv => SizeStillTells
<1> SUFFICES ASSUME IInv, NEW p \in exists, Len(disk[p]) = Blocks[p]
             PROVE  disk[p] = PartBody(p)
  BY DEF SizeStillTells
<1>1. p \in Ids /\ disk[p] \in Seq(Blocky)
  BY DEF IInv, TypeOK, Blocky
<1>2. PartBody(p) \in Seq(Blocky) /\ Len(PartBody(p)) = Blocks[p]
      /\ \A k \in 1 .. Blocks[p] : PartBody(p)[k] = <<p, k>>
  BY <1>1, PartBodyType
<1>3. ASSUME NEW k \in 1 .. Len(disk[p]) PROVE disk[p][k] = PartBody(p)[k]
  <2>1. k \in Nat \ {0} /\ k <= Blocks[p] /\ k \in 1 .. Blocks[p]
    BY <1>1, BlocksType
  <2>2. disk[p][k] = Body[Off(p) + k]
    BY <1>1 DEF IInv, FileInv, FileOK
  <2> QED BY <1>1, <1>2, <2>1, <2>2, BodyAt
<1> HIDE DEF PartBody
<1> QED BY <1>1, <1>2, <1>3, SeqEqual

\* After an error of merge the sizes of the files, which is all the next run
\* looks at (part.go:131), do not take a merged file for a part.
THEOREM SizesTell == Spec => []SizeStillTells
<1> QED BY SizeInv, Invariant, PTL

-----------------------------------------------------------------------------
(* The refinement of Merge.  Which file has a part depends on the files that *)
(* are left only: the last one that is not behind the part.                  *)

Own(E, p) == {q \in Ids : p <= q /\ \A r \in E : r <= q => r <= p}

\* A file holds no part that comes before its own.
LEMMA HoldsBehind ==
  ASSUME IInv, NEW p \in Ids, NEW q \in Ids, Holds(p, q)
  PROVE  p <= q
<1>1. Blocks[q] \in Nat /\ Blocks[q] > 0 /\ Blocks[p] \in Nat /\ Blocks[p] > 0
  BY BlocksType
<1>2. Len(PartBody(q)) = Blocks[q] /\ PartBody(q)[1] = <<q, 1>> /\ PartBody(q) \in Seq(Blocky)
  BY <1>1, PartBodyType
<1>3. <<q, 1>> \in ToSet(PartBody(q))
  <2> HIDE DEF PartBody
  <2>1. 1 \in DOMAIN PartBody(q)
    BY <1>1, <1>2
  <2> QED BY <1>2, <2>1 DEF ToSet
<1>4. disk[p] \in Seq(Blocky) /\ Len(disk[p]) \in Nat
  BY PartFacts DEF IInv, TypeOK, Blocky
<1>5. PICK j \in 1 .. Len(disk[p]) : disk[p][j] = <<q, 1>>
  <2>1. <<q, 1>> \in ToSet(disk[p])
    BY <1>3 DEF Holds
  <2> QED BY <1>4, <2>1 DEF ToSet
<1>6. Body[Off(p) + j] = <<q, 1>> /\ Off(p) + Len(disk[p]) <= Len(Body)
  BY <1>5 DEF IInv, FileInv, FileOK
<1>7. Off(p) \in Nat /\ Off(q) \in Nat /\ Len(Body) \in Nat
  <2>1. p \in 1 .. (N + 1) /\ q \in 1 .. (N + 1)
    BY IdsFacts DEF Ids
  <2> QED BY <2>1, OffStep, BodyAt, LenProperties
<1>8. PICK x \in Ids, k \in Nat \ {0} : k <= Blocks[x] /\ Off(p) + j = Off(x) + k
  <2>1. Off(p) + j \in 1 .. Len(Body)
    BY <1>4, <1>6, <1>7
  <2> QED BY <2>1, BodyAt
<1>9. x = q /\ k = 1
  <2>1. Body[Off(x) + k] = <<x, k>>
    BY <1>8, BodyAt
  <2> QED BY <1>6, <1>8, <2>1
<1>10. Off(q) >= Off(p)
  BY <1>7, <1>8, <1>9
<1> SUFFICES ASSUME q < p PROVE FALSE
  BY IdsFacts
<1>11. Off(q) + Blocks[q] <= Off(p)
  <2>1. p \in 1 .. (N + 1)
    BY IdsFacts DEF Ids
  <2> QED BY <2>1, OffMonotone
<1> QED BY <1>1, <1>7, <1>10, <1>11

\* The last file that is not behind a part has it whole.
LEMMA LastHolds ==
  ASSUME IInv, NEW m \in exists, NEW q \in Ids, m <= q, \A r \in exists : r <= q => r <= m
  PROVE  Holds(m, q)
<1>1. m \in Ids /\ m \in Nat /\ q \in Nat /\ N \in Nat /\ q <= N /\ exists \subseteq Ids
  BY IdsFacts DEF IInv, TypeOK, Ids
<1> DEFINE T == {r \in exists \cup {N + 1} : r > m}
<1>2. T \in SUBSET Nat /\ T # {}
  <2>1. N + 1 \in T
    BY <1>1
  <2>2. \A x \in exists \cup {N + 1} : x \in Nat
    BY <1>1, IdsFacts
  <2> QED BY <2>1, <2>2
<1>3. PICK b \in T : \A r \in T : b <= r
  <2> HIDE DEF T
  <2> QED BY <1>2, LeastNatural
<1>4. b \in exists \cup {N + 1} /\ m < b /\ b \in Nat
  BY <1>2, <1>3
<1>5. q < b
  BY <1>1, <1>4
<1>6. Adjacent(m, b)
  <2> SUFFICES ASSUME NEW r \in exists, ~(r <= m) PROVE r >= b
    BY <1>4 DEF Adjacent
  <2>1. r \in Nat
    BY <1>1, IdsFacts
  <2> QED BY <1>1, <1>3, <2>1
<1>7. Len(disk[m]) >= Off(b) - Off(m)
  BY <1>4, <1>6 DEF IInv, LenInv, LenOK
<1>8. Off(q) + Blocks[q] <= Off(b) /\ Off(m) <= Off(q)
      /\ Off(b) \in Nat /\ Off(m) \in Nat /\ Off(q) \in Nat /\ Blocks[q] \in Nat
  <2>1. \A x \in Ids \cup {N + 1} : x \in 1 .. (N + 1)
    BY IdsFacts DEF Ids
  <2>2. b \in 1 .. (N + 1) /\ m \in 1 .. (N + 1) /\ q \in 1 .. (N + 1)
    BY <1>1, <1>4, <2>1
  <2>3. Off(b) \in Nat /\ Off(m) \in Nat /\ Off(q) \in Nat /\ Blocks[m] \in Nat
    BY <1>1, <2>2, OffStep, BlocksType
  <2>4. m < q => Off(m) + Blocks[m] <= Off(q)
    BY <1>1, <2>2, OffMonotone
  <2>5. Off(m) <= Off(q)
    <3>1. CASE m = q
      BY <2>3, <3>1
    <3>2. CASE m < q
      BY <2>3, <2>4, <3>2
    <3> QED BY <1>1, <3>1, <3>2
  <2> QED BY <1>5, <2>2, <2>3, <2>5, OffMonotone, BlocksType
<1>9. disk[m] \in Seq(Blocky) /\ Len(disk[m]) \in Nat
  BY <1>1, PartFacts DEF IInv, TypeOK, Blocky
<1>10. ASSUME NEW k \in 1 .. Blocks[q] PROVE <<q, k>> \in ToSet(disk[m])
  <2> DEFINE j == (Off(q) - Off(m)) + k
  <2>1. j \in 1 .. Len(disk[m]) /\ Off(m) + j = Off(q) + k
    BY <1>7, <1>8, <1>9
  <2> HIDE DEF j
  <2>2. k \in Nat \ {0} /\ k <= Blocks[q]
    BY <1>8
  <2>3. disk[m][j] = Body[Off(m) + j]
    BY <1>1, <2>1 DEF IInv, FileInv, FileOK
  <2>4. disk[m][j] = <<q, k>>
    BY <2>1, <2>2, <2>3, BodyAt
  <2> QED BY <1>9, <2>1, <2>4 DEF ToSet
<1> QED BY <1>10 DEF Holds, ToSet, PartBody

LEMMA PieceIsOwn == IInv => \A p \in exists : Piece(p) = Own(exists, p)
<1> SUFFICES ASSUME IInv, NEW p \in exists PROVE Piece(p) = Own(exists, p)
  OBVIOUS
<1>1. p \in Ids /\ exists \subseteq Ids /\ 1 \in exists
  BY DEF IInv, TypeOK, OrderInv
<1>2. ASSUME NEW q \in Piece(p) PROVE q \in Own(exists, p)
  <2>1. q \in Ids /\ p <= q
    BY <1>1, HoldsBehind DEF Piece
  <2> SUFFICES ASSUME NEW r \in exists, r <= q PROVE r <= p
    BY <2>1 DEF Own
  <2> DEFINE T == {q - x : x \in {y \in exists : y <= q}}
  <2>2. T \in SUBSET Nat /\ T # {}
    <3>1. \A x \in exists : x \in Nat
      BY <1>1, IdsFacts
    <3>2. q \in Nat
      BY <2>1, IdsFacts
    <3>3. q - r \in T
      OBVIOUS
    <3> QED BY <3>1, <3>2, <3>3
  <2>3. PICK t \in T : \A u \in T : t <= u
    <3> HIDE DEF T
    <3> QED BY <2>2, LeastNatural
  <2>4. PICK m \in exists : m <= q /\ t = q - m
    BY <2>3
  <2>5. ASSUME NEW x \in exists, x <= q PROVE x <= m
    <3>1. q - m <= q - x
      BY <2>3, <2>4, <2>5
    <3>2. x \in Nat /\ m \in Nat /\ q \in Nat
      BY <1>1, <2>1, IdsFacts
    <3> QED BY <3>1, <3>2
  <2>6. Holds(m, q)
    BY <2>1, <2>4, <2>5, LastHolds
  <2>7. m <= p /\ r <= m
    BY <2>5, <2>6 DEF Piece
  <2>8. r \in Nat /\ m \in Nat /\ p \in Nat
    BY <1>1, IdsFacts
  <2> QED BY <2>7, <2>8
<1>3. ASSUME NEW q \in Own(exists, p) PROVE q \in Piece(p)
  <2>1. Holds(p, q)
    BY <1>3, LastHolds DEF Own
  <2>2. ASSUME NEW r \in exists, Holds(r, q) PROVE r <= p
    BY <1>1, <1>3, <2>2, HoldsBehind DEF Own
  <2> QED BY <1>3, <2>1, <2>2 DEF Piece, Own
<1> QED BY <1>2, <1>3

\* What removing the file s does to the pieces, when d is the file before it.
LEMMA OwnJoin ==
  ASSUME NEW E \in SUBSET Ids, NEW d \in E, NEW s \in E, d < s,
         \A r \in E : r <= d \/ r >= s
  PROVE  /\ {Own(E \ {s}, p) : p \in E \ {s}} =
              ({Own(E, p) : p \in E} \ {Own(E, d), Own(E, s)}) \cup {Own(E, d) \cup Own(E, s)}
         /\ Abstract!Neighbours(Own(E, d), Own(E, s))
<1>1. \A p \in Ids : p \in Nat
  BY IdsFacts
<1>2. \A p \in E : p \in Nat /\ p \in Ids
  BY <1>1
<1>3. Own(E \ {s}, d) = Own(E, d) \cup Own(E, s)
  BY <1>1, <1>2 DEF Own
<1>4. ASSUME NEW p \in E, p # s, p # d PROVE Own(E \ {s}, p) = Own(E, p)
  <2>1. p < d \/ p > s
    BY <1>2, <1>4
  <2> QED BY <1>1, <1>2, <1>4, <2>1 DEF Own
<1>5. ASSUME NEW p \in E PROVE p \in Own(E, p)
  BY <1>2 DEF Own
<1>6. ASSUME NEW p \in E, NEW x \in E, p # x PROVE Own(E, p) # Own(E, x)
  <2> SUFFICES ASSUME Own(E, p) = Own(E, x) PROVE FALSE
    OBVIOUS
  <2>1. p \in Own(E, x)
    BY <1>5
  <2> QED BY <1>2, <1>6, <2>1 DEF Own
<1>7. Abstract!Neighbours(Own(E, d), Own(E, s))
  <2>1. s - 1 \in Own(E, d)
    <3>1. s - 1 \in Ids /\ d <= s - 1
      BY <1>2, IdsFacts DEF Ids
    <3>2. ASSUME NEW r \in E, r <= s - 1 PROVE r <= d
      BY <1>2, <3>2
    <3> QED BY <3>1, <3>2 DEF Own
  <2>2. (s - 1) + 1 \in Own(E, s)
    BY <1>2, <1>5
  <2>3. \A q \in Own(E, d) : q <= s - 1
    BY <1>1, <1>2 DEF Own
  <2> QED BY <2>1, <2>2, <2>3 DEF Abstract!Neighbours
<1>8. {Own(E \ {s}, p) : p \in E \ {s}} =
        ({Own(E, p) : p \in E} \ {Own(E, d), Own(E, s)}) \cup {Own(E, d) \cup Own(E, s)}
  <2> HIDE DEF Own
  <2>1. ASSUME NEW p \in E \ {s}
        PROVE  Own(E \ {s}, p) \in ({Own(E, x) : x \in E} \ {Own(E, d), Own(E, s)})
                                   \cup {Own(E, d) \cup Own(E, s)}
    <3>1. CASE p = d
      BY <1>3, <3>1
    <3>2. CASE p # d
      BY <1>4, <1>6, <3>2
    <3> QED BY <3>1, <3>2
  <2>2. ASSUME NEW p \in E, Own(E, p) # Own(E, d), Own(E, p) # Own(E, s)
        PROVE  Own(E, p) \in {Own(E \ {s}, x) : x \in E \ {s}}
    BY <1>4, <2>2
  <2>3. Own(E, d) \cup Own(E, s) \in {Own(E \ {s}, x) : x \in E \ {s}}
    <3>1. d \in E \ {s}
      BY <1>2
    <3> QED BY <1>3, <3>1
  <2> QED BY <2>1, <2>2, <2>3
<1> QED BY <1>7, <1>8

Pieces == {Piece(p) : p \in exists}
OwnPieces == {Own(exists, p) : p \in exists}

PiecesOwned == Pieces = OwnPieces

LEMMA PiecesAreOwn == IInv => PiecesOwned
<1> QED BY PieceIsOwn DEF PiecesOwned, Pieces, OwnPieces

LEMMA RefinesInit == Init => Abstract!MergeInit
<1> SUFFICES ASSUME Init PROVE Abstract!MergeInit
  OBVIOUS
<1>1. exists = Ids /\ pc = "check"
  BY DEF Init
<1>2. \A p \in Ids : Own(Ids, p) = {p}
  BY IdsFacts DEF Own
<1>3. Pieces = {{p} : p \in Ids}
  BY <1>1, <1>2, InitInv, PiecesAreOwn DEF PiecesOwned, OwnPieces
<1> QED BY <1>1, <1>3 DEF Abstract!MergeInit, Pieces, Ids

LEMMA RefinesStep == IInv /\ [Next]_vars => [Abstract!MergeNext]_(Abstract!mergeVars)
<1> SUFFICES ASSUME IInv, [Next]_vars PROVE [Abstract!MergeNext]_(Abstract!mergeVars)
  OBVIOUS
<1>1. Pieces = OwnPieces
  BY PiecesAreOwn DEF PiecesOwned
<1>2. IInv'
  BY StepInv
<1>3. Pieces' = OwnPieces'
  <2>1. PiecesOwned'
    BY <1>2, PiecesAreOwn, PTL
  <2> QED BY <2>1 DEF PiecesOwned
<1> DEFINE verdict == IF pc \in {"ok", "error"} THEN pc ELSE "none"
<1>4. ASSUME UNCHANGED exists PROVE Pieces' = Pieces
  BY <1>1, <1>3, <1>4 DEF OwnPieces, Own
<1>5. ASSUME UNCHANGED exists, verdict' = verdict PROVE UNCHANGED Abstract!mergeVars
  BY <1>4, <1>5 DEF Abstract!mergeVars, Pieces
<1>6. ASSUME UNCHANGED exists, verdict = "none", pc' = "error" PROVE Abstract!Fail
  BY <1>4, <1>6 DEF Abstract!Fail, Pieces
<1>7. CASE Begin \/ Launch \/ AllLaunched \/ NextRound \/ UNCHANGED vars
  BY <1>5, <1>7 DEF Begin, Launch, AllLaunched, NextRound, HasPair, vars
<1>8. CASE BarFails \/ LaunchFails \/ RoundFailed
  BY <1>6, <1>8 DEF BarFails, LaunchFails, RoundFailed, HasPair, Abstract!MergeNext
<1>9. CASE Finish
  <2>1. verdict = "none" /\ UNCHANGED exists
    BY <1>9 DEF Finish
  <2>2. CASE pc' = "error"
    BY <1>6, <2>1, <2>2 DEF Abstract!MergeNext
  <2>3. CASE pc' = "ok"
    <3>1. exists = {1}
      <4>1. MergedIsWhole'
        BY <1>2, MergedInv, PTL
      <4> QED BY <2>1, <2>3, <4>1 DEF MergedIsWhole
    <3>2. Pieces = {1 .. N}
      <4>1. Own({1}, 1) = Ids
        BY IdsFacts DEF Own, Ids
      <4> QED BY <1>1, <3>1, <4>1 DEF OwnPieces, Ids
    <3>3. Abstract!Succeed
      BY <1>4, <2>1, <2>3, <3>2 DEF Abstract!Succeed, Pieces
    <3> QED BY <3>3 DEF Abstract!MergeNext
  <2> QED BY <1>9, <2>2, <2>3 DEF Finish
<1>10. ASSUME NEW d \in Ids, CopyBlock(d) \/ CopyEnds(d) \/ CopyFails(d) \/ Report(d)
       PROVE  UNCHANGED Abstract!mergeVars
  BY <1>5, <1>10 DEF CopyBlock, CopyEnds, CopyFails, Report
<1>11. ASSUME NEW d \in Ids, RemoveSource(d) \/ RemoveFails(d)
       PROVE  [Abstract!MergeNext]_(Abstract!mergeVars)
  <2>1. worker[d] = "remove" /\ pc' = pc /\ (exists' = exists \/ exists' = exists \ {SourceOf(d)})
    BY <1>11 DEF RemoveSource, RemoveFails
  <2>2. CASE exists' = exists
    BY <1>5, <2>1, <2>2
  <2>3. CASE exists' = exists \ {SourceOf(d)}
    <3>1. PICK i \in 1 .. Len(parts) :
            /\ parts[i] = d /\ i + 1 \in 1 .. Len(parts) /\ WorkerOK(i)
            /\ SourceOf(d) = parts[i + 1] /\ d < parts[i + 1] /\ Adjacent(d, parts[i + 1])
      BY <2>1, WorkerFacts DEF IInv
    <3> DEFINE s == parts[i + 1]
    <3>2. d \in exists /\ s \in exists /\ exists \in SUBSET Ids /\ d < s
          /\ \A r \in exists : r <= d \/ r >= s
      BY <2>1, <3>1 DEF WorkerOK, Copying, Adjacent, IInv, TypeOK
    <3>3. exists' = exists \ {s}
      BY <2>3, <3>1
    <3> HIDE DEF s
    <3>4. /\ OwnPieces' = (OwnPieces \ {Own(exists, d), Own(exists, s)})
                            \cup {Own(exists, d) \cup Own(exists, s)}
          /\ Abstract!Neighbours(Own(exists, d), Own(exists, s))
      <4>1. /\ {Own(exists \ {s}, p) : p \in exists \ {s}} =
                 ({Own(exists, p) : p \in exists} \ {Own(exists, d), Own(exists, s)})
                   \cup {Own(exists, d) \cup Own(exists, s)}
            /\ Abstract!Neighbours(Own(exists, d), Own(exists, s))
        BY <3>2, OwnJoin
      <4>2. OwnPieces' = {Own(exists \ {s}, p) : p \in exists \ {s}}
        BY <3>3 DEF OwnPieces, Own
      <4> QED BY <4>1, <4>2 DEF OwnPieces
    <3>5. verdict # "ok"
      <4>1. Len(parts) # 1
        BY <3>1
      <4> QED BY <4>1 DEF IInv, PhaseInv
    <3>6. Abstract!Join(Own(exists, d), Own(exists, s))
      BY <1>1, <1>3, <2>1, <3>4, <3>5 DEF Abstract!Join, Pieces
    <3>7. Own(exists, d) \in Pieces /\ Own(exists, s) \in Pieces
      BY <1>1, <3>2 DEF OwnPieces
    <3> QED BY <3>6, <3>7 DEF Abstract!MergeNext, Pieces
  <2> QED BY <2>1, <2>2, <2>3
<1> QED BY <1>7, <1>8, <1>9, <1>10, <1>11 DEF Next, MainStep, WorkerStep

\* concat joins neighbouring files one pair at a time and fails or succeeds once
\* (getparty.go:925): Merge, for any number of parts and any schedule.
THEOREM MergeRefined == Spec => ImplementsMerge
<1> QED BY RefinesInit, RefinesStep, Invariant, PTL
        DEF Spec, ImplementsMerge, Abstract!MergeSpec
=============================================================================
