--------------------------- MODULE MakeParts_proofs ---------------------------
(***************************************************************************)
(* For every length, every --parts value and every minimal fragment, the    *)
(* loop of Session.makeParts computes the closed forms of Partition, and    *)
(* they cut the body so that every byte belongs to exactly one part.        *)
(***************************************************************************)
EXTENDS MakeParts, TLAPS

\* Division of a natural number by a positive one: the quotient and its product.
LEMMA DivisionBounds ==
  ASSUME NEW a \in Nat, NEW b \in Nat \ {0}
  PROVE  /\ TruncDiv(a, b) \in Nat
         /\ b * TruncDiv(a, b) <= a
         /\ a < b * TruncDiv(a, b) + b
<1>1. TruncDiv(a, b) = a \div b
  BY DEF TruncDiv
<1>2. a \div b \in Nat /\ b * (a \div b) <= a /\ a < b * (a \div b) + b
  <2>1. a \div b \in Nat
    BY Z3
  <2>2. a = b * (a \div b) + (a % b) /\ a % b \in 0 .. (b - 1)
    BY Z3
  <2> QED BY <2>1, <2>2, Z3
<1> QED BY <1>1, <1>2

-----------------------------------------------------------------------------
(* The inductive invariant. *)

\* The i-th part made by the loop, before the last one gets the remainder.
LoopPart(i) == [start |-> (i - 1) * fragment, stop |-> i * fragment - 1]

\* Several parts are only made of a known length, each of minFragment bytes at
\* least: n is then no more than length and int64(n) does not wrap.
CountInv ==
  /\ n >= 1
  /\ fragment = Fragment(length, n)
  /\ n # 1 => length \in Nat /\ fragment >= MinFragment

LoopInv ==
  /\ offset = Len(parts) * fragment
  /\ \A i \in 1 .. Len(parts) : parts[i] = LoopPart(i)

IInv ==
  /\ TypeOK
  /\ length \in Lengths /\ n < 2 * HalfWord
  /\ pc = "entry" => parts = <<>> /\ offset = 0
  /\ pc \in {"loop", "done"} => CountInv
  /\ pc = "loop" => LoopInv
  /\ ClosedForm

\* A count that does not wrap is itself, one that does is negative: the test of
\* minFragment lets none of those through.
LEMMA EnterLoopCount ==
  ASSUME IInv, EnterLoop
  PROVE  CountInv'
<1> DEFINE m == EffectiveCount
<1>1. m \in Nat /\ m >= 1 /\ m < 2 * HalfWord /\ HalfWord > 1
  BY HalfWordAssumption DEF IInv, TypeOK, EnterLoop, EffectiveCount
<1>2. n' = m /\ length' = length /\ fragment' = TruncDiv(length, ToInt64(m))
  BY DEF EnterLoop
<1>3. CASE m = 1
  <2>1. ToInt64(m) = 1
    BY <1>1, <1>3, HalfWordAssumption DEF ToInt64
  <2> QED BY <1>2, <1>3, <2>1 DEF CountInv, Fragment
<1>4. CASE m # 1
  <2>1. IsResumable /\ length \in Nat
    BY <1>4 DEF EffectiveCount, IsResumable, IInv, TypeOK
  <2>2. fragment' >= MinFragment
    BY <1>2, <1>4 DEF EnterLoop
  <2>3. ToInt64(m) = m
    <3>1. SUFFICES ASSUME m >= HalfWord PROVE FALSE
      BY <1>1, HalfWordAssumption DEF ToInt64
    <3>2. ToInt64(m) \in Int /\ ToInt64(m) < 0
      BY <1>1, <3>1, HalfWordAssumption DEF ToInt64
    <3>3. PICK k \in Nat \ {0} : ToInt64(m) = -k
      <4>1. -ToInt64(m) \in Nat \ {0} /\ ToInt64(m) = -(-ToInt64(m))
        BY <3>2
      <4> QED BY <4>1
    <3>4. TruncDiv(length, ToInt64(m)) = -(length \div k)
      BY <2>1, <3>3 DEF TruncDiv
    <3>5. length \div k \in Nat
      BY <2>1, <3>3, Z3
    <3> QED BY <1>2, <2>2, <3>4, <3>5, MinFragmentAssumption
  <2> QED BY <1>1, <1>2, <2>1, <2>2, <2>3 DEF CountInv, Fragment
<1> QED BY <1>3, <1>4

LEMMA InitIInv == Init => IInv
<1> SUFFICES ASSUME Init PROVE IInv
  OBVIOUS
<1>1. n \in Nat /\ n < 2 * HalfWord
  BY CountsAssumption, HalfWordAssumption DEF Init
<1>2. parts \in Seq([start : Int, stop : Int]) /\ Len(parts) = 0
  BY DEF Init
<1>3. length \in Nat \cup {-1} /\ Len(parts) <= n
  BY <1>1, <1>2, LengthsAssumption DEF Init
<1>4. single \in BOOLEAN /\ acceptsRanges \in BOOLEAN
  BY Zenon DEF Init
<1>5. TypeOK
  BY <1>1, <1>2, <1>3, <1>4 DEF Init, TypeOK
<1> QED BY <1>1, <1>5 DEF Init, IInv, ClosedForm

LEMMA NextIInv == IInv /\ [Next]_vars => IInv'
<1> SUFFICES ASSUME IInv, [Next]_vars PROVE IInv'
  OBVIOUS
<1> USE DEF IInv
<1>1. CASE RejectZero
  BY <1>1 DEF RejectZero, TypeOK, ClosedForm
<1>2. CASE RejectFragments
  BY <1>2 DEF RejectFragments, TypeOK, ClosedForm
<1>3. CASE EnterLoop
  <2>1. CountInv'
    BY <1>3, EnterLoopCount
  <2>2. n' \in Nat /\ n' < 2 * HalfWord /\ fragment' \in Int
    <3>1. EffectiveCount \in Nat /\ EffectiveCount < 2 * HalfWord
      BY HalfWordAssumption DEF EffectiveCount, TypeOK
    <3>2. fragment' \in Int
      <4>1. ToInt64(EffectiveCount) \in Int /\ ToInt64(EffectiveCount) # 0
        BY <1>3, <3>1, HalfWordAssumption DEF ToInt64, EffectiveCount, EnterLoop, TypeOK
      <4>2. ASSUME NEW a \in Int, NEW b \in Int, b # 0
            PROVE  TruncDiv(a, b) \in Int
        BY <4>2, Z3 DEF TruncDiv
      <4> QED BY <1>3, <4>1, <4>2 DEF EnterLoop, TypeOK
    <3> QED BY <1>3, <3>1, <3>2 DEF EnterLoop
  <2>3. parts' = <<>> /\ offset' = 0
    BY <1>3 DEF EnterLoop
  <2>4. LoopInv'
    <3>1. Len(parts') = 0
      BY <2>3
    <3>2. \A x \in Int : 0 * x = 0
      BY Z3
    <3>3. offset' = Len(parts') * fragment'
      BY <2>2, <2>3, <3>1, <3>2
    <3>4. \A i \in 1 .. Len(parts') : parts'[i] = LoopPart(i)'
      BY <3>1
    <3> QED BY <3>3, <3>4 DEF LoopInv
  <2> QED BY <1>3, <2>1, <2>2, <2>3, <2>4 DEF EnterLoop, TypeOK, ClosedForm
<1>4. CASE AddPart
  <2> DEFINE p == [start |-> offset, stop |-> offset + fragment - 1]
  <2>1. parts' = Append(parts, p) /\ offset' = offset + fragment
    BY <1>4 DEF AddPart, TypeOK
  <2>2. p \in [start : Int, stop : Int] /\ offset' \in Int
    BY <2>1 DEF TypeOK
  <2>3. parts' \in Seq([start : Int, stop : Int]) /\ Len(parts') = Len(parts) + 1
    BY <2>1, <2>2 DEF TypeOK
  <2>4. TypeOK'
    BY <1>4, <2>2, <2>3 DEF AddPart, TypeOK
  <2>5. CountInv' /\ n' < 2 * HalfWord
    BY <1>4 DEF AddPart, CountInv
  <2>6. LoopInv'
    <3> DEFINE l == Len(parts)
    <3>1. l \in Nat /\ fragment \in Int /\ offset = l * fragment
      BY <1>4 DEF AddPart, TypeOK, LoopInv
    <3>2. offset' = Len(parts') * fragment'
      <4>1. (l + 1) * fragment = l * fragment + fragment
        BY <3>1, Z3
      <4> QED BY <1>4, <2>1, <2>3, <3>1, <4>1 DEF AddPart
    <3>3. ASSUME NEW i \in 1 .. Len(parts') PROVE parts'[i] = LoopPart(i)'
      <4>1. CASE i = l + 1
        <5>1. parts'[i] = p
          BY <2>1, <4>1 DEF TypeOK
        <5>2. (l + 1) * fragment = l * fragment + fragment /\ i - 1 = l
          BY <3>1, <4>1, Z3
        <5> QED BY <1>4, <3>1, <4>1, <5>1, <5>2 DEF AddPart, LoopPart
      <4>2. CASE i \in 1 .. l
        <5>1. parts'[i] = parts[i]
          BY <2>1, <4>2 DEF TypeOK
        <5> QED BY <1>4, <4>2, <5>1 DEF AddPart, LoopPart, LoopInv
      <4> QED BY <2>3, <3>1, <4>1, <4>2
    <3> QED BY <3>2, <3>3 DEF LoopInv
  <2> QED BY <1>4, <2>4, <2>5, <2>6 DEF AddPart, ClosedForm
<1>5. CASE Assign
  <2>1. /\ n \in Nat /\ n >= 1 /\ Len(parts) = n
        /\ length \in Int /\ fragment = Fragment(length, n) /\ fragment \in Int
        /\ parts \in Seq([start : Int, stop : Int])
        /\ offset = n * fragment
        /\ \A i \in 1 .. n : parts[i] = LoopPart(i)
    BY <1>5 DEF Assign, TypeOK, CountInv, LoopInv
  <2>2. /\ parts' \in Seq([start : Int, stop : Int]) /\ Len(parts') = n
        /\ \A i \in 1 .. n : i # n => parts'[i] = LoopPart(i)
        /\ parts'[n] = [start |-> (n - 1) * fragment, stop |-> length - 1]
    <3>1. CASE offset = length
      BY <1>5, <2>1, <3>1 DEF Assign, LoopPart
    <3>2. CASE offset # length
      <4>3. parts[n] = [start |-> (n - 1) * fragment, stop |-> n * fragment - 1]
        BY <2>1 DEF LoopPart
      <4>4. parts' = [parts EXCEPT ![n] = [parts[n] EXCEPT !.stop = length - 1]]
        BY <1>5, <3>2 DEF Assign
      <4>5. [parts[n] EXCEPT !.stop = length - 1]
              = [start |-> (n - 1) * fragment, stop |-> length - 1]
        BY <4>3
      <4>1. parts' = [parts EXCEPT ![n] = [start |-> (n - 1) * fragment,
                                           stop |-> length - 1]]
        BY <4>4, <4>5
      <4>2. (n - 1) * fragment \in Int
        BY <2>1
      <4> QED BY <2>1, <4>1, <4>2
    <3> QED BY <3>1, <3>2
  <2>3. n' = n /\ length' = length /\ fragment' = fragment
    BY <1>5 DEF Assign
  <2>4. ClosedForm'
    BY <2>1, <2>2, <2>3 DEF ClosedForm, LoopPart, PartStart, PartStop
  <2>5. TypeOK'
    BY <1>5, <2>1, <2>2, <2>3 DEF Assign, TypeOK
  <2>6. CountInv' /\ n' < 2 * HalfWord /\ length' \in Lengths
    BY <1>5, <2>3 DEF CountInv, Assign
  <2> QED BY <1>5, <2>4, <2>5, <2>6 DEF Assign
<1>6. CASE Returned \/ UNCHANGED vars
  BY <1>6 DEF Returned, vars, TypeOK, ClosedForm, CountInv, LoopInv, LoopPart
<1> QED BY <1>1, <1>2, <1>3, <1>4, <1>5, <1>6 DEF Next

-----------------------------------------------------------------------------
(* The theorems. *)

LEMMA InvariantIInv == Spec => []IInv
<1> QED BY InitIInv, NextIInv, PTL DEF Spec

\* makeParts never makes more parts than it was asked for, on any session.
THEOREM TypeCorrect == Spec => []TypeOK
<1>1. IInv => TypeOK
  BY DEF IInv
<1> QED BY <1>1, InvariantIInv, PTL

\* The loop of makeParts computes the closed forms of Partition.
THEOREM LoopComputesClosedForm == Spec => []ClosedForm
<1>1. IInv => ClosedForm
  BY DEF IInv
<1> QED BY <1>1, InvariantIInv, PTL

-----------------------------------------------------------------------------
(* What the closed forms are worth. *)

LEMMA MultiplesGrow ==
  ASSUME NEW a \in Int, NEW b \in Int, NEW f \in Nat \ {0}, a < b
  PROVE  a * f \in Int /\ b * f \in Int /\ a * f + f <= b * f
<1>1. PICK d \in Nat : b = a + 1 + d
  <2>1. b - a - 1 \in Nat /\ b = a + 1 + (b - a - 1)
    OBVIOUS
  <2> QED BY <2>1
<1>2. b * f = a * f + f + d * f
  BY <1>1, Z3
<1>3. d * f >= 0
  BY <1>1, Z3
<1>4. a * f \in Int /\ b * f \in Int /\ d * f \in Int
  BY <1>1
<1> QED BY <1>2, <1>3, <1>4

\* Several parts: all of the same length but the last, which ends the body.
LEMMA SeveralParts ==
  ASSUME IInv, pc = "done", n # 1
  PROVE  /\ n \in Nat /\ n > 1 /\ length \in Nat /\ fragment \in Nat \ {0}
         /\ fragment >= MinFragment
         /\ n * fragment <= length /\ length < n * fragment + n
         /\ \A i \in 1 .. n :
              /\ parts[i].start = (i - 1) * fragment
              /\ parts[i].stop = IF i = n THEN length - 1 ELSE i * fragment - 1
<1>1. n \in Nat /\ n > 1 /\ length \in Nat /\ fragment = TruncDiv(length, n)
  BY DEF IInv, TypeOK, CountInv, Fragment
<1>2. fragment \in Nat \ {0} /\ fragment >= MinFragment
  BY <1>1, MinFragmentAssumption DEF IInv, TypeOK, CountInv
<1>3. n * fragment <= length /\ length < n * fragment + n
  BY <1>1, DivisionBounds
<1>4. \A i \in 1 .. n : parts[i] = [start |-> PartStart(length, n, i),
                                    stop  |-> PartStop(length, n, i)]
  BY DEF IInv, ClosedForm
<1>5. ASSUME NEW i \in 1 .. n
      PROVE  /\ parts[i].start = (i - 1) * fragment
             /\ parts[i].stop = IF i = n THEN length - 1 ELSE i * fragment - 1
  <2>1. parts[i] = [start |-> PartStart(length, n, i), stop |-> PartStop(length, n, i)]
    BY <1>4
  <2>2. parts[i].start = PartStart(length, n, i) /\ parts[i].stop = PartStop(length, n, i)
    BY <2>1
  <2> QED BY <1>1, <2>2 DEF PartStart, PartStop, Fragment
<1> QED BY <1>1, <1>2, <1>3, <1>5

LEMMA IInvEveryByteOnce == IInv => EveryByteOnce
<1> SUFFICES ASSUME IInv, pc = "done" PROVE EveryByteOnce!2
  BY DEF EveryByteOnce
<1> DEFINE holds(i, b) == b \in parts[i].start .. parts[i].stop
<1>1. CASE n = 1
  <2>1. length \in Int /\ fragment \in Int
    BY DEF IInv, TypeOK
  <2>2. parts[1].start = 0 /\ parts[1].stop = length - 1
    BY <1>1, <2>1 DEF IInv, ClosedForm, PartStart, PartStop, CountInv
  <2> QED BY <1>1, <2>1, <2>2
<1>2. CASE n # 1
  <2> DEFINE F == fragment
  <2>1. /\ n \in Nat /\ n > 1 /\ length \in Nat /\ F \in Nat \ {0}
        /\ n * F <= length
        /\ \A i \in 1 .. n : /\ parts[i].start = (i - 1) * F
                             /\ parts[i].stop = IF i = n THEN length - 1 ELSE i * F - 1
    BY <1>2, SeveralParts
  <2> HIDE DEF F
  <2>2. ASSUME NEW i \in 1 .. n, NEW j \in 1 .. n, i < j, NEW b \in Int,
               holds(i, b), holds(j, b)
        PROVE  FALSE
    <3>1. parts[i].stop = i * F - 1 /\ parts[j].start = (j - 1) * F
      BY <2>1, <2>2
    <3>2. i * F <= (j - 1) * F
      <4>1. CASE i = j - 1
        BY <2>1, <4>1
      <4>2. CASE i < j - 1
        BY <2>1, <4>2, MultiplesGrow
      <4> QED BY <2>2, <4>1, <4>2
    <3>3. i * F \in Int /\ (j - 1) * F \in Int
      BY <2>1
    <3> QED BY <2>2, <3>1, <3>2, <3>3
  <2>3. ASSUME NEW b \in 0 .. (length - 1) PROVE \E i \in 1 .. n : holds(i, b)
    <3> DEFINE q == b \div F
    <3>1. b \in Nat /\ q \in Nat /\ q * F <= b /\ b < (q + 1) * F
      <4>0. b \in Nat /\ F \in Nat \ {0}
        BY <2>1, <2>3
      <4>1. TruncDiv(b, F) = q
        BY <4>0 DEF TruncDiv
      <4> HIDE DEF q
      <4>2. q \in Nat /\ F * q <= b /\ b < F * q + F
        BY <4>0, <4>1, DivisionBounds
      <4>3. F * q = q * F /\ (q + 1) * F = q * F + F
        BY <2>1, <4>2, Z3
      <4> QED BY <4>0, <4>2, <4>3
    <3> HIDE DEF q
    <3>2. CASE q + 1 < n
      <4>1. parts[q + 1].start = q * F /\ parts[q + 1].stop = (q + 1) * F - 1
        BY <2>1, <3>1, <3>2
      <4>2. q * F \in Int /\ (q + 1) * F \in Int
        BY <2>1, <3>1
      <4>3. holds(q + 1, b)
        BY <3>1, <4>1, <4>2
      <4>4. q + 1 \in 1 .. n
        BY <2>1, <3>1, <3>2
      <4> QED BY <4>3, <4>4
    <3>3. CASE q + 1 >= n
      <4>1. parts[n].start = (n - 1) * F /\ parts[n].stop = length - 1
        BY <2>1
      <4>2. (n - 1) * F <= q * F
        <5>1. CASE n - 1 = q
          BY <2>1, <3>1, <5>1
        <5>2. CASE n - 1 < q
          BY <2>1, <3>1, <5>2, MultiplesGrow
        <5> QED BY <2>1, <3>1, <3>3, <5>1, <5>2
      <4>3. (n - 1) * F \in Int /\ q * F \in Int
        BY <2>1, <3>1
      <4>4. holds(n, b)
        BY <2>1, <2>3, <3>1, <4>1, <4>2, <4>3
      <4> QED BY <2>1, <4>4
    <3> QED BY <2>1, <3>1, <3>2, <3>3
  <2>4. ASSUME NEW i \in 1 .. n PROVE parts[i].start >= 0 /\ parts[i].stop < length
    <3>1. (i - 1) * F >= 0
      <4>1. i - 1 \in Nat
        OBVIOUS
      <4> QED BY <2>1, <4>1, Z3
    <3>2. i # n => i * F + F <= n * F
      BY <2>1, MultiplesGrow
    <3>3. i * F \in Int /\ n * F \in Int
      BY <2>1
    <3> QED BY <2>1, <3>1, <3>2, <3>3
  <2>5. ASSUME NEW b \in 0 .. (length - 1)
        PROVE  \E i \in 1 .. n : holds(i, b) /\ \A j \in 1 .. n : holds(j, b) => j = i
    <3>1. PICK i \in 1 .. n : holds(i, b)
      BY <2>3
    <3>2. ASSUME NEW j \in 1 .. n, holds(j, b) PROVE j = i
      <4>1. b \in Int /\ i \in Int /\ j \in Int
        BY <2>1
      <4>2. ~(i < j) /\ ~(j < i)
        BY <2>2, <3>1, <3>2, <4>1
      <4> QED BY <4>1, <4>2
    <3> QED BY <3>1, <3>2
  <2> QED BY <2>4, <2>5
<1> QED BY <1>1, <1>2

LEMMA IInvNoTinyPart == IInv => NoTinyPart
<1> SUFFICES ASSUME IInv, pc = "done", n > 1 PROVE NoTinyPart!2
  BY DEF NoTinyPart
<1>1. n # 1 /\ MinFragment \in Nat
  BY MinFragmentAssumption DEF IInv, TypeOK
<1>2. /\ n \in Nat /\ n > 1 /\ length \in Nat /\ fragment \in Nat \ {0}
      /\ fragment >= MinFragment
      /\ n * fragment <= length /\ length < n * fragment + n
      /\ \A i \in 1 .. n :
           /\ parts[i].start = (i - 1) * fragment
           /\ parts[i].stop = IF i = n THEN length - 1 ELSE i * fragment - 1
  BY <1>1, SeveralParts
<1>3. ASSUME NEW i \in Int
      PROVE  (i - 1) * fragment = i * fragment - fragment /\ i * fragment \in Int
  <2>1. (i - 1) * fragment = i * fragment - fragment
    BY <1>2, Z3
  <2> QED BY <1>2, <2>1
<1>4. ASSUME NEW i \in 1 .. n
      PROVE  parts[i].stop - parts[i].start + 1 >= MinFragment
  <2>1. (i - 1) * fragment = i * fragment - fragment /\ i * fragment \in Int
    BY <1>3
  <2>2. n * fragment \in Int
    BY <1>2, <1>3
  <2> QED BY <1>1, <1>2, <2>1, <2>2
<1>5. parts[n].stop - parts[n].start + 1 < fragment + n
  <2>1. (n - 1) * fragment = n * fragment - fragment /\ n * fragment \in Int
    BY <1>2, <1>3
  <2>2. parts[n].stop = length - 1 /\ parts[n].start = (n - 1) * fragment
    BY <1>2
  <2> QED BY <1>2, <2>1, <2>2
<1> QED BY <1>4, <1>5

\* No gap, no overlap and nothing beyond the body, on any session.
THEOREM PartsCutTheBody == Spec => []EveryByteOnce
<1> QED BY IInvEveryByteOnce, InvariantIInv, PTL

\* No part below minFragment and no last part much longer than the others.
THEOREM PartsAreBalanced == Spec => []NoTinyPart
<1> QED BY IInvNoTinyPart, InvariantIInv, PTL

=============================================================================
