---------------------------- MODULE Resume_proofs ----------------------------
(***************************************************************************)
(* Run after run with kills between any two steps, for any length of the    *)
(* body and any number of runs: what is called saved is the body, a stopped *)
(* run can be gone on with, and a file that does not fit is left alone.     *)
(***************************************************************************)
EXTENDS Resume, Induction, SequenceTheorems

USE DEF launchVars

-----------------------------------------------------------------------------
(* Parts and sessions.                                                     *)

Half == Fragment(Length, 2)

\* What makeParts cuts for two parts, or for one, and what a fallback resets a part to.
LowerHalf(p) == p.start = 0 /\ p.stop = Half - 1
UpperHalf(p) == p.start = Half /\ p.stop = Length - 1
WholeBody(p) == p.start = 0 /\ p.stop = Length - 1

PartRecords == [id : Ids, start : Nat, stop : Nat, written : Nat]

PartOK(p) ==
  /\ p \in PartRecords /\ p.written <= PartLen(p)
  /\ LowerHalf(p) \/ UpperHalf(p) \/ WholeBody(p)

SessionOK(one, ps) ==
  /\ one \in BOOLEAN
  /\ \/ one /\ ps \in [1 .. 1 -> PartRecords]
     \/ /\ ~one /\ ps \in [1 .. 2 -> PartRecords]
        /\ ps[1].id = 1 /\ ps[2].id = 2
        /\ ~UpperHalf(ps[1]) /\ ~LowerHalf(ps[2])
  /\ \A i \in DOMAIN ps : PartOK(ps[i])

LEMMA HalfIs ==
  /\ Length \in Nat /\ Half \in Nat /\ Half >= 2 /\ Half + 2 <= Length
  /\ PartStart(Length, 1, 1) = 0 /\ PartStop(Length, 1, 1) = Length - 1
  /\ PartStart(Length, 2, 1) = 0 /\ PartStop(Length, 2, 1) = Half - 1
  /\ PartStart(Length, 2, 2) = Half /\ PartStop(Length, 2, 2) = Length - 1
<1>1. Length \in Nat /\ Length >= 4
  BY ResumeAssumption
<1>2. Half = Length \div 2
  BY <1>1 DEF Half, Fragment, TruncDiv
<1>3. Half \in Nat /\ Half >= 2 /\ Half + 2 <= Length
  BY <1>1, <1>2, Z3
<1>4. Fragment(Length, 1) \in Int
  <2>1. Fragment(Length, 1) = Length \div 1
    BY <1>1 DEF Fragment, TruncDiv
  <2> QED BY <1>1, <2>1, Z3
<1> DEFINE one == Fragment(Length, 1)
           two == Fragment(Length, 2)
<1>5. one \in Int /\ two \in Int /\ two = Half
  BY <1>3, <1>4 DEF Half
<1> HIDE DEF one, two
<1>6. (1 - 1) * one = 0 /\ (1 - 1) * two = 0 /\ (2 - 1) * two = two /\ 1 * two = two
  BY <1>5, Z3
<1>7. PartStart(Length, 1, 1) = (1 - 1) * one /\ PartStart(Length, 2, 1) = (1 - 1) * two
      /\ PartStart(Length, 2, 2) = (2 - 1) * two
  BY DEF PartStart, one, two
<1>8. PartStop(Length, 1, 1) = Length - 1 /\ PartStop(Length, 2, 2) = Length - 1
      /\ PartStop(Length, 2, 1) = 1 * two - 1
  BY DEF PartStop, one, two
<1> QED BY <1>1, <1>3, <1>5, <1>6, <1>7, <1>8

LEMMA PartIs ==
  ASSUME NEW p, PartOK(p)
  PROVE  /\ p.id \in Ids /\ p.start \in Nat /\ p.stop \in Nat /\ p.written \in Nat
         /\ p.written <= PartLen(p) /\ PartLen(p) \in Nat /\ PartLen(p) >= 2
         /\ p.start <= p.stop /\ p.stop < Length /\ PartLen(p) <= Length
         /\ p.start + PartLen(p) = p.stop + 1
         /\ LowerHalf(p) => PartLen(p) = Half
         /\ UpperHalf(p) => PartLen(p) = Length - Half
         /\ WholeBody(p) => PartLen(p) = Length
BY HalfIs DEF PartOK, PartRecords, LowerHalf, UpperHalf, WholeBody, PartLen

LEMMA FunctionIsSeq ==
  ASSUME NEW S, NEW n \in Nat, NEW f \in [1 .. n -> S]
  PROVE  f \in Seq(S) /\ Len(f) = n
<1>1. f \in Seq(S)
  BY SeqDef
<1> QED BY <1>1, LenProperties

LEMMA SessionIs ==
  ASSUME NEW one, NEW ps, SessionOK(one, ps)
  PROVE  /\ ps \in Seq(PartRecords) /\ DOMAIN ps = 1 .. Len(ps)
         /\ Len(ps) = IF one THEN 1 ELSE 2
         /\ \A i \in DOMAIN ps : PartOK(ps[i])
         /\ \A i, j \in DOMAIN ps : ps[i].id = ps[j].id => i = j
<1>1. CASE one
  <2>1. ps \in [1 .. 1 -> PartRecords]
    BY <1>1 DEF SessionOK
  <2>2. ps \in Seq(PartRecords) /\ Len(ps) = 1
    BY <2>1, FunctionIsSeq
  <2> QED BY <1>1, <2>1, <2>2 DEF SessionOK
<1>2. CASE ~one
  <2>1. ps \in [1 .. 2 -> PartRecords] /\ ps[1].id = 1 /\ ps[2].id = 2
    BY <1>2 DEF SessionOK
  <2>2. ps \in Seq(PartRecords) /\ Len(ps) = 2
    BY <2>1, FunctionIsSeq
  <2> QED BY <1>2, <2>1, <2>2 DEF SessionOK
<1> QED BY <1>1, <1>2

LEMMA TotalIs ==
  ASSUME NEW one, NEW ps, SessionOK(one, ps)
  PROVE  /\ Total(ps) = IF one THEN ps[1].written ELSE ps[1].written + ps[2].written
         /\ Total(ps) \in Nat
<1> DEFINE f == [i \in DOMAIN ps |-> ps[i].written]
<1>1. \A i \in DOMAIN ps : ps[i].written \in Nat
  BY SessionIs, PartIs
<1>2. CASE one
  <2>0. DOMAIN ps = 1 .. 1 /\ 1 \in DOMAIN ps
    <3>1. Len(ps) = 1 /\ DOMAIN ps = 1 .. Len(ps)
      BY <1>2, SessionIs
    <3> QED BY <3>1
  <2>1. DOMAIN ps = 1 .. 1 /\ f \in [1 .. 1 -> Int] /\ f[1] = ps[1].written
    BY <1>1, <2>0
  <2> HIDE DEF f
  <2>2. SumFunctionOnSet(f, 1 .. 1) = f[1]
    BY <2>1, SumOfOne
  <2>3. Total(ps) = SumFunctionOnSet(f, 1 .. 1)
    BY <2>1 DEF Total, f
  <2> QED BY <1>1, <1>2, <2>1, <2>2, <2>3
<1>3. CASE ~one
  <2>1. DOMAIN ps = 1 .. 2 /\ f \in [1 .. 2 -> Int]
        /\ f[1] = ps[1].written /\ f[2] = ps[2].written
    <3>1. DOMAIN ps = 1 .. 2 /\ 1 \in DOMAIN ps /\ 2 \in DOMAIN ps
      BY <1>3, SessionIs
    <3> QED BY <1>1, <3>1
  <2> HIDE DEF f
  <2>2. SumFunctionOnSet(f, 1 .. 2) = f[1] + f[2]
    BY <2>1, SumOfTwo
  <2>3. Total(ps) = SumFunctionOnSet(f, 1 .. 2)
    BY <2>1 DEF Total, f
  <2> QED BY <1>1, <1>3, <2>1, <2>2, <2>3
<1> QED BY <1>2, <1>3

LEMMA MakePartsOK ==
  ASSUME NEW n \in Counts
  PROVE  /\ SessionOK(n = 1, MakeParts(n)) /\ Len(MakeParts(n)) = n
         /\ \A i \in DOMAIN MakeParts(n) : MakeParts(n)[i].written = 0
         /\ Total(MakeParts(n)) = 0
<1> DEFINE ps == MakeParts(n)
<1>1. n \in {1, 2}
  BY ResumeAssumption
<1>2. CASE n = 1
  <2>1. ps = [i \in 1 .. 1 |-> [id |-> i, start |-> PartStart(Length, 1, i),
                                stop |-> PartStop(Length, 1, i), written |-> 0]]
    BY <1>2 DEF MakeParts
  <2>2. DOMAIN ps = 1 .. 1
        /\ ps[1] = [id |-> 1, start |-> 0, stop |-> Length - 1, written |-> 0]
    BY <2>1, HalfIs
  <2>3. PartOK(ps[1])
    BY <2>2, HalfIs DEF PartOK, PartRecords, WholeBody, PartLen, Ids
  <2>4. ps \in [1 .. 1 -> PartRecords]
    BY <2>1, <2>2, <2>3 DEF PartOK
  <2> HIDE DEF ps
  <2>5. SessionOK(n = 1, ps)
    BY <1>2, <2>2, <2>3, <2>4 DEF SessionOK
  <2>6. Total(ps) = 0
    <3>1. Total(ps) = IF n = 1 THEN ps[1].written ELSE ps[1].written + ps[2].written
      BY <2>5, TotalIs
    <3> QED BY <1>2, <2>2, <3>1
  <2>7. Len(ps) = 1
    BY <1>2, <2>5, SessionIs
  <2> QED BY <1>2, <2>2, <2>5, <2>6, <2>7 DEF ps
<1>3. CASE n = 2
  <2>1. ps = [i \in 1 .. 2 |-> [id |-> i, start |-> PartStart(Length, 2, i),
                                stop |-> PartStop(Length, 2, i), written |-> 0]]
    BY <1>3 DEF MakeParts
  <2>2. DOMAIN ps = 1 .. 2
        /\ ps[1] = [id |-> 1, start |-> 0, stop |-> Half - 1, written |-> 0]
        /\ ps[2] = [id |-> 2, start |-> Half, stop |-> Length - 1, written |-> 0]
    BY <2>1, HalfIs
  <2>3. PartOK(ps[1]) /\ PartOK(ps[2])
    BY <2>2, HalfIs DEF PartOK, PartRecords, LowerHalf, UpperHalf, PartLen, Ids
  <2>4. ps \in [1 .. 2 -> PartRecords]
    BY <2>1, <2>2, <2>3 DEF PartOK
  <2> HIDE DEF ps
  <2>5. ~UpperHalf(ps[1]) /\ ~LowerHalf(ps[2])
    BY <2>2, HalfIs DEF UpperHalf, LowerHalf
  <2>6. SessionOK(n = 1, ps)
    BY <1>3, <2>2, <2>3, <2>4, <2>5 DEF SessionOK
  <2>7. Total(ps) = 0
    BY <1>3, <2>2, <2>6, TotalIs
  <2>8. Len(ps) = 2
    BY <1>3, <2>6, SessionIs
  <2> QED BY <1>3, <2>2, <2>6, <2>7, <2>8 DEF ps
<1> QED BY <1>1, <1>2, <1>3

-----------------------------------------------------------------------------
(* The files.                                                              *)

Offsets == 0 .. (Length - 1)
Files == [Ids -> Seq(Offsets) \cup {Absent}]
Put(f, i, v) == [f EXCEPT ![i] = v]
Held(f, id) == IF f[id] = Absent THEN <<>> ELSE f[id]

\* Bytes that nobody counted make a file too long, and so the size tells.
PartFits(f, p) ==
  /\ Len(Held(f, p.id)) >= p.written
  /\ Len(Held(f, p.id)) = p.written => Held(f, p.id) = Slice(p.start, p.start + p.written)

\* Or both parts were there and the first has taken the second: no part will be
\* asked for again, and the sizes do not agree.
Swallowed(f, ps) ==
  /\ Len(ps) = 2 /\ \A i \in DOMAIN ps : IsContentDownloaded(ps[i])
  /\ Len(Held(f, ps[1].id)) > ps[1].written

Fits(f, ps) == (\A i \in DOMAIN ps : PartFits(f, ps[i])) \/ Swallowed(f, ps)

SameHeld(f, g) == \A id \in Ids : Held(g, id) = Held(f, id)

LEMMA OffsetsIs ==
  /\ Offsets \subseteq Int /\ Seq(Offsets) \subseteq Seq(Int) /\ Absent \notin Seq(Offsets)
  /\ <<>> \in Seq(Offsets) /\ 1 \in Ids /\ 2 \in Ids
<1>1. Offsets \subseteq Int
  BY HalfIs DEF Offsets
<1>2. Seq(Offsets) \subseteq Seq(Int)
  <2> SUFFICES ASSUME NEW s \in Seq(Offsets) PROVE s \in Seq(Int)
    OBVIOUS
  <2>1. s \in [1 .. Len(s) -> Offsets] /\ Len(s) \in Nat
    BY LenProperties
  <2>2. s \in [1 .. Len(s) -> Int]
    BY <1>1, <2>1
  <2> QED BY <2>1, <2>2, FunctionIsSeq
<1> QED BY <1>1, <1>2, AbsenceAssumption DEF Ids

LEMMA HeldIs ==
  ASSUME NEW f \in Files, NEW id \in Ids
  PROVE  /\ Held(f, id) \in Seq(Offsets) /\ Len(Held(f, id)) \in Nat
         /\ f[id] # Absent => Held(f, id) = f[id] /\ f[id] \in Seq(Offsets)
         /\ f[id] = Absent => Held(f, id) = <<>>
<1>1. f[id] \in Seq(Offsets) \cup {Absent}
  BY DEF Files
<1>2. Held(f, id) \in Seq(Offsets)
  BY <1>1, OffsetsIs DEF Held
<1> QED BY <1>1, <1>2, LenProperties DEF Held

LEMMA HeldStep ==
  ASSUME NEW f \in Files, NEW c \in Ids, NEW v \in Seq(Offsets) \cup {Absent}, NEW g,
         g = Put(f, c, v)
  PROVE  /\ g \in Files /\ g[c] = v
         /\ v # Absent => Held(g, c) = v
         /\ v = Absent => Held(g, c) = <<>>
         /\ \A id \in Ids : id # c => Held(g, id) = Held(f, id) /\ g[id] = f[id]
BY DEF Files, Held, Put

LEMMA SliceIs ==
  ASSUME NEW a \in Nat, NEW b \in Nat, a <= b
  PROVE  /\ Slice(a, b) \in Seq(Int) /\ Len(Slice(a, b)) = b - a
         /\ \A k \in 1 .. (b - a) : Slice(a, b)[k] = a + k - 1
         /\ b <= Length => Slice(a, b) \in Seq(Offsets)
<1> DEFINE s == Slice(a, b)
<1>1. s = [k \in 1 .. (b - a) |-> a + k - 1] /\ b - a \in Nat
  BY DEF Slice
<1>2. s \in [1 .. (b - a) -> Int]
  BY <1>1
<1>3. ASSUME b <= Length PROVE s \in [1 .. (b - a) -> Offsets]
  BY <1>1, <1>3, HalfIs DEF Offsets
<1>4. \A k \in 1 .. (b - a) : s[k] = a + k - 1
  BY <1>1
<1> HIDE DEF s
<1>5. s \in Seq(Int) /\ Len(s) = b - a
  BY <1>1, <1>2, FunctionIsSeq
<1>6. b <= Length => s \in Seq(Offsets)
  BY <1>1, <1>3, FunctionIsSeq
<1> QED BY <1>4, <1>5, <1>6 DEF s

LEMMA SliceEmpty ==
  ASSUME NEW a \in Nat
  PROVE  Slice(a, a) = <<>> /\ Slice(a, a + 0) = <<>>
<1>1. Slice(a, a) \in Seq(Int) /\ Len(Slice(a, a)) = 0 /\ a + 0 = a
  <2>1. Slice(a, a) \in Seq(Int) /\ Len(Slice(a, a)) = a - a
    BY SliceIs
  <2> QED BY <2>1
<1> QED BY <1>1, EmptySeq

LEMMA SliceAppend ==
  ASSUME NEW a \in Nat, NEW b \in Nat, a <= b
  PROVE  Append(Slice(a, b), b) = Slice(a, b + 1)
<1> DEFINE s == Slice(a, b)
           t == Slice(a, b + 1)
<1>1. s \in Seq(Int) /\ Len(s) = b - a /\ \A k \in 1 .. (b - a) : s[k] = a + k - 1
  BY SliceIs
<1>2. t \in Seq(Int) /\ Len(t) = b + 1 - a /\ \A k \in 1 .. (b + 1 - a) : t[k] = a + k - 1
  BY SliceIs
<1> HIDE DEF s, t
<1> DEFINE u == Append(s, b)
<1>3. u \in Seq(Int) /\ Len(u) = Len(s) + 1 /\ u[Len(s) + 1] = b
      /\ \A k \in 1 .. Len(s) : u[k] = s[k]
  BY <1>1, AppendProperties
<1> HIDE DEF u
<1>4. Len(u) = Len(t)
  BY <1>1, <1>2, <1>3
<1>5. ASSUME NEW k \in 1 .. Len(u) PROVE u[k] = t[k]
  <2>1. CASE k = Len(s) + 1
    BY <2>1, <1>1, <1>2, <1>3, <1>4
  <2>2. CASE k # Len(s) + 1
    <3>1. k \in 1 .. Len(s) /\ k \in 1 .. (b - a) /\ k \in 1 .. (b + 1 - a)
      BY <2>2, <1>1, <1>3
    <3> QED BY <3>1, <1>1, <1>2, <1>3
  <2> QED BY <2>1, <2>2
<1>6. u = t
  BY <1>2, <1>3, <1>4, <1>5, SeqEqual
<1> QED BY <1>6 DEF u, s, t

\* What fits goes on fitting while files get longer.
LEMMA FitsGrow ==
  ASSUME NEW one, NEW ps, SessionOK(one, ps), NEW f \in Files, NEW g \in Files, Fits(f, ps),
         \A id \in Ids : Held(g, id) = Held(f, id) \/ Len(Held(g, id)) > Len(Held(f, id))
  PROVE  Fits(g, ps)
<1>1. \A i \in DOMAIN ps : ps[i].id \in Ids /\ ps[i].written \in Nat
  BY SessionIs, PartIs
<1>2. \A id \in Ids : Len(Held(f, id)) \in Nat /\ Len(Held(g, id)) \in Nat
  BY HeldIs
<1>3. CASE \A i \in DOMAIN ps : PartFits(f, ps[i])
  <2>1. ASSUME NEW i \in DOMAIN ps PROVE PartFits(g, ps[i])
    BY <1>1, <1>2, <1>3 DEF PartFits
  <2> QED BY <2>1 DEF Fits
<1>4. CASE Swallowed(f, ps)
  <2>1. 1 \in DOMAIN ps
    <3>1. DOMAIN ps = 1 .. Len(ps)
      BY SessionIs
    <3> QED BY <1>4, <3>1 DEF Swallowed
  <2>2. Swallowed(g, ps)
    BY <2>1, <1>1, <1>2, <1>4 DEF Swallowed
  <2> QED BY <2>2 DEF Fits
<1> QED BY <1>3, <1>4 DEF Fits

\* A file that no part counts on may be truncated or removed.
LEMMA FitsCut ==
  ASSUME NEW one, NEW ps, SessionOK(one, ps), NEW f \in Files, NEW g \in Files, Fits(f, ps),
         NEW c \in Ids, Held(g, c) = <<>>, \A id \in Ids : id # c => Held(g, id) = Held(f, id),
         \A i \in DOMAIN ps : ps[i].id = c => ps[i].written = 0
  PROVE  Fits(g, ps)
<1>1. \A i \in DOMAIN ps : ps[i].id \in Ids /\ ps[i].written \in Nat /\ ps[i].start \in Nat
  BY SessionIs, PartIs
<1>2. Len(<<>>) = 0 /\ \A a \in Nat : Slice(a, a + 0) = <<>>
  BY SliceEmpty
<1>3. CASE \A i \in DOMAIN ps : PartFits(f, ps[i])
  <2>1. ASSUME NEW i \in DOMAIN ps PROVE PartFits(g, ps[i])
    <3>1. CASE ps[i].id = c
      BY <3>1, <1>1, <1>2 DEF PartFits
    <3>2. CASE ps[i].id # c
      BY <3>2, <1>1, <1>3 DEF PartFits
    <3> QED BY <3>1, <3>2
  <2> QED BY <2>1 DEF Fits
<1>4. CASE Swallowed(f, ps)
  <2>1. DOMAIN ps = 1 .. 2 /\ Len(ps) = 2 /\ ~one
    <3>1. DOMAIN ps = 1 .. Len(ps) /\ Len(ps) = IF one THEN 1 ELSE 2
      BY SessionIs
    <3> QED BY <3>1, <1>4 DEF Swallowed
  <2>2. ps[1].id = 1 /\ ps[2].id = 2
    BY <2>1 DEF SessionOK
  <2>3. ps[1].written # 0 /\ ps[2].written # 0
    BY <1>4, <2>1 DEF Swallowed, IsContentDownloaded
  <2> QED BY <2>1, <2>2, <2>3 DEF Ids
<1> QED BY <1>3, <1>4 DEF Fits

-----------------------------------------------------------------------------
(* The invariant.                                                          *)

Phases == {"idle", "launch", "download", "merge", "concat", "finish", "end", "save", "close"}
Running == phase \notin {"idle", "save", "close"}

TypeInv ==
  /\ file \in Files
  /\ phase \in Phases
  /\ name \in Kinds \cup {"none"} /\ restored \in BOOLEAN /\ single \in BOOLEAN
  /\ mode \in {"none", "partial", "fallback"} /\ canceled \in BOOLEAN
  /\ begun \in Nat /\ next \in Nat /\ elected \in Nat
  /\ suspect \subseteq Kinds \cup {"run"}
  /\ state = [k \in Kinds |-> state[k]]
  /\ \A k \in Kinds : Loaded(k) => SessionOK(state[k].single, state[k].parts)
  /\ \/ parts = <<>> /\ phase = "idle" /\ open = {}
     \/ SessionOK(single, parts)

\* Where the run is.
ControlInv ==
  /\ open \subseteq DOMAIN parts
  /\ phase # "idle" =>
       /\ next >= 1
       /\ mode = "none" => open = {}
       /\ mode # "none" => elected \in DOMAIN parts
       /\ mode = "fallback" => open \subseteq {elected}
  /\ phase \in {"download", "merge", "concat", "finish"} => next > Len(parts)
  /\ phase \in {"launch", "download"} =>
       /\ err = "nil" => ~canceled
       /\ \A i \in open : i < next /\ file[parts[i].id] # Absent
  /\ phase \in {"merge", "concat", "finish"} =>
       ~canceled /\ err = "nil" /\ \A i \in DOMAIN parts : IsDone(parts[i])
  /\ phase = "concat" =>
       /\ ~single /\ SizeIs(2, parts[2].written)
       /\ file[1] # Absent /\ Len(file[1]) >= parts[1].written

FirstIsBody == Total(parts) = Length /\ HasLength => file[First] = Body

AnswerFits ==
  phase \in {"launch", "download"} /\ mode # "none" =>
    \A i \in DOMAIN parts : PartFits(file, parts[i])
ConcatFits ==
  phase = "concat" =>
    /\ \A i \in DOMAIN parts : PartFits(file, parts[i])
    /\ Total(parts) = Length => file[1] = Slice(0, Len(file[1])) /\ file[2] = Slice(Half, Length)
FinishFits == phase = "finish" => FirstIsBody
EndFits == phase = "end" /\ err = "nil" /\ ~canceled => HasLength /\ FirstIsBody

\* As long as no other run has truncated a file that a state counts on, its files fit;
\* and those of the run, until what was merged is the body.
DiskFits == \A k \in Kinds : Loaded(k) /\ k \notin suspect => Fits(file, state[k].parts)
RunFits ==
  phase # "idle" /\ "run" \notin suspect =>
    Fits(file, parts) /\ AnswerFits /\ ConcatFits /\ FinishFits /\ EndFits

\* The state a run started from and the session it has made of it.
Continues(old) ==
  /\ Len(parts) = Len(old)
  /\ \A i \in DOMAIN old :
       /\ parts[i].id = old[i].id /\ parts[i].written >= old[i].written
       /\ old[i].written # 0 => parts[i].start = old[i].start

ProgressInv ==
  /\ \A k \in Kinds : Loaded(k) /\ Len(state[k].parts) = 2 => Total(state[k].parts) > 0
  /\ phase # "idle" =>
       /\ Len(parts) = 2 => Total(parts) >= begun
       /\ phase = "save" /\ Len(parts) = 2 => Total(parts) > 0
       /\ sound => Matches(parts) /\ Total(parts) >= begun

LastInv ==
  /\ Running /\ name # "none" =>
       /\ Loaded(name) /\ Total(state[name].parts) = begun
       /\ sound => Continues(state[name].parts)
  /\ phase \notin {"idle", "close"} => last = "none"
  /\ last # "none" => /\ last \in Kinds /\ Loaded(last) /\ Matches(state[last].parts)
                      /\ Total(state[last].parts) >= begun

\* The loop does not get beyond a file that was refused, and the run ends there.
RefusedInv ==
  phase # "idle" =>
    \A id \in refused :
      /\ restored /\ phase \in {"launch", "end", "save", "close"}
      /\ phase = "end" => err # "nil"
      /\ \E i \in DOMAIN parts :
           /\ parts[i].id = id /\ i >= next /\ parts[i].written # 0
           /\ phase = "launch" => ~SizeIs(id, parts[i].written)

IInv == TypeInv /\ ControlInv /\ DiskFits /\ RunFits /\ ProgressInv /\ LastInv /\ RefusedInv

\* What is sound cuts the body, until a fallback makes one of two parts the whole of it.
\* A session that has no bytes is reset before it can collapse.
CutsInv ==
  /\ phase # "idle" =>
       /\ mode = "none" => Total(parts) = begun
       /\ mode = "fallback" => WholeBody(parts[elected]) \/ begun > 0
       /\ sound /\ ~Overlapping => CutsBody(parts)
  /\ Running /\ name # "none" /\ sound => CutsBody(state[name].parts)
  /\ last # "none" /\ ~Overlapping => CutsBody(state[last].parts)

-----------------------------------------------------------------------------
(* The initial states, and what follows from the invariant.                 *)

LEMMA InitInv == Init => IInv
<1> SUFFICES ASSUME Init PROVE IInv
  OBVIOUS
<1>1. file \in Files
  BY DEF Init, Files
<1>2. \A k \in Kinds : ~Loaded(k)
  BY DEF Init, Loaded
<1>3. TypeInv
  BY <1>1, <1>2 DEF Init, TypeInv, Phases, Kinds
<1>4. ControlInv /\ LastInv
  BY <1>2 DEF Init, ControlInv, LastInv, Running
<1>5. DiskFits /\ RunFits /\ ProgressInv /\ RefusedInv
  BY <1>2 DEF Init, DiskFits, RunFits, ProgressInv, RefusedInv
<1> QED BY <1>3, <1>4, <1>5 DEF IInv

LEMMA RunIs ==
  ASSUME IInv, phase # "idle"
  PROVE  /\ SessionOK(single, parts) /\ single \in BOOLEAN
         /\ parts \in Seq(PartRecords) /\ DOMAIN parts = 1 .. Len(parts)
         /\ Len(parts) = IF single THEN 1 ELSE 2
         /\ \A i \in DOMAIN parts : PartOK(parts[i])
         /\ \A i, j \in DOMAIN parts : parts[i].id = parts[j].id => i = j
<1>1. SessionOK(single, parts) /\ single \in BOOLEAN
  BY DEF IInv, TypeInv
<1> QED BY <1>1, SessionIs

LEMMA NoneRefused ==
  ASSUME IInv, phase \in {"download", "merge", "concat", "finish"}
  PROVE  refused = {}
BY DEF IInv, RefusedInv

\* A part that is not there yet: none has been swallowed.
LEMMA WantedFits ==
  ASSUME IInv, "run" \notin suspect, NEW i \in DOMAIN parts, Downloading(i)
  PROVE  \A j \in DOMAIN parts : PartFits(file, parts[j])
BY DEF Downloading, IInv, RunFits, Fits, Swallowed

-----------------------------------------------------------------------------
(* Steps that move the run and nothing else.                               *)

Quiet == UNCHANGED <<diskVars, sessionVars, begun, open, historyVars>>

LEMMA QuietStep ==
  ASSUME IInv, Quiet, Running, Running', phase' \in Phases,
         next' \in Nat, elected' \in Nat, mode' \in {"none", "partial", "fallback"},
         canceled' \in BOOLEAN, ControlInv', RefusedInv',
         "run" \notin suspect => AnswerFits' /\ ConcatFits' /\ FinishFits' /\ EndFits'
  PROVE  IInv'
<1> USE DEF Quiet, diskVars, sessionVars, historyVars
<1>1. TypeInv'
  BY DEF IInv, TypeInv, Running, Loaded
<1>2. DiskFits'
  BY DEF IInv, DiskFits, Loaded
<1>3. RunFits'
  BY DEF IInv, RunFits, Running
<1>4. ProgressInv'
  BY DEF IInv, ProgressInv, Running, Loaded, Matches, Bytes
<1>5. LastInv'
  BY DEF IInv, LastInv, Running, Loaded, Matches, Bytes, Continues
<1> QED BY <1>1, <1>2, <1>3, <1>4, <1>5 DEF IInv

LEMMA InitPartInv == IInv /\ InitPart => IInv'
<1> SUFFICES ASSUME IInv, InitPart PROVE IInv'
  OBVIOUS
<1>1. Quiet /\ phase = "launch" /\ phase' = "launch" /\ next' = next + 1 /\ next <= Len(parts)
      /\ FileFits(parts[next]) /\ UNCHANGED <<mode, elected, canceled, err>>
  BY DEF InitPart, Quiet, endVars
<1>2. TypeInv /\ ControlInv /\ RefusedInv
  BY DEF IInv
<1>3. DOMAIN parts = 1 .. Len(parts) /\ Len(parts) \in Nat
      /\ \A i \in DOMAIN parts : parts[i].id \in Ids /\ parts[i].written \in Nat
  BY <1>1, RunIs, PartIs
<1>4. ControlInv'
  BY <1>1, <1>2, <1>3 DEF Quiet, diskVars, sessionVars, TypeInv, ControlInv
<1>5. RefusedInv'
  <2> SUFFICES ASSUME NEW id \in refused
               PROVE  restored /\ \E i \in DOMAIN parts :
                        /\ parts[i].id = id /\ i >= next + 1 /\ parts[i].written # 0
                        /\ ~SizeIs(id, parts[i].written)
    BY <1>1 DEF RefusedInv, Quiet, diskVars, sessionVars, historyVars, SizeIs
  <2>1. PICK i \in DOMAIN parts : parts[i].id = id /\ i >= next /\ parts[i].written # 0
                                  /\ ~SizeIs(id, parts[i].written)
    BY <1>1, <1>2 DEF RefusedInv
  <2>2. restored
    BY <1>1, <1>2 DEF RefusedInv
  <2>3. i # next
    BY <1>1, <2>1, <2>2 DEF FileFits
  <2>4. i >= next + 1
    BY <1>2, <1>3, <2>1, <2>3 DEF TypeInv
  <2> QED BY <2>1, <2>2, <2>4
<1>6. "run" \notin suspect => AnswerFits' /\ ConcatFits' /\ FinishFits' /\ EndFits'
  BY <1>1 DEF IInv, RunFits, AnswerFits, ConcatFits, FinishFits, EndFits, Quiet, diskVars, sessionVars
<1> QED BY <1>1, <1>2, <1>4, <1>5, <1>6, QuietStep DEF TypeInv, Running

LEMMA InitPartFailsInv == IInv /\ InitPartFails => IInv'
<1> SUFFICES ASSUME IInv, InitPartFails PROVE IInv'
  OBVIOUS
<1>1. Quiet /\ phase = "launch" /\ phase' = "end" /\ canceled' = TRUE /\ err' = "size"
      /\ UNCHANGED <<mode, elected, next>>
  BY DEF InitPartFails, Quiet
<1>2. TypeInv /\ ControlInv /\ RefusedInv
  BY DEF IInv
<1>3. ControlInv'
  BY <1>1, <1>2 DEF Quiet, diskVars, sessionVars, ControlInv
<1>4. RefusedInv'
  BY <1>1, <1>2 DEF RefusedInv, Quiet, diskVars, sessionVars, historyVars
<1>5. AnswerFits' /\ ConcatFits' /\ FinishFits' /\ EndFits'
  BY <1>1 DEF AnswerFits, ConcatFits, FinishFits, EndFits
<1> QED BY <1>1, <1>2, <1>3, <1>4, <1>5, QuietStep DEF TypeInv, Running, Phases

LEMMA LaunchedInv == IInv /\ Launched => IInv'
<1> SUFFICES ASSUME IInv, Launched PROVE IInv'
  OBVIOUS
<1>1. Quiet /\ phase = "launch" /\ phase' = "download" /\ next > Len(parts)
      /\ UNCHANGED <<mode, elected, next, canceled, err>>
  BY DEF Launched, Quiet, endVars
<1>2. TypeInv /\ ControlInv /\ RefusedInv
  BY DEF IInv
<1>3. ControlInv'
  BY <1>1, <1>2 DEF Quiet, diskVars, sessionVars, ControlInv
<1>4. refused = {}
  <2>1. DOMAIN parts = 1 .. Len(parts) /\ Len(parts) \in Nat /\ next \in Nat
    BY <1>1, <1>2, RunIs DEF TypeInv
  <2> QED BY <1>1, <1>2, <2>1 DEF RefusedInv
<1>5. RefusedInv'
  BY <1>1, <1>4 DEF RefusedInv, Quiet, historyVars
<1>6. "run" \notin suspect => AnswerFits' /\ ConcatFits' /\ FinishFits' /\ EndFits'
  BY <1>1 DEF IInv, RunFits, AnswerFits, ConcatFits, FinishFits, EndFits, Quiet, diskVars, sessionVars
<1> QED BY <1>1, <1>2, <1>3, <1>5, <1>6, QuietStep DEF TypeInv, Running, Phases

LEMMA Answer200PanicsInv ==
  ASSUME IInv, NEW i \in Ids, Answer200Panics(i) PROVE IInv'
<1>1. Quiet /\ phase \in {"launch", "download"} /\ phase' = phase /\ Downloading(i)
      /\ mode = "none" /\ mode' = "fallback" /\ elected' = i /\ i \in DOMAIN parts
      /\ canceled' = TRUE /\ err' = "panic of a part" /\ next' = next
  BY DEF Answer200Panics, Quiet, Downloading
<1>2. TypeInv /\ ControlInv /\ RefusedInv
  BY DEF IInv
<1>3. ControlInv'
  BY <1>1, <1>2 DEF Quiet, diskVars, sessionVars, ControlInv
<1>4. RefusedInv'
  BY <1>1, <1>2 DEF RefusedInv, Quiet, diskVars, sessionVars, historyVars, SizeIs
<1>5. "run" \notin suspect => AnswerFits' /\ ConcatFits' /\ FinishFits' /\ EndFits'
  <2> SUFFICES ASSUME "run" \notin suspect PROVE AnswerFits' /\ ConcatFits' /\ FinishFits' /\ EndFits'
    OBVIOUS
  <2>1. \A j \in DOMAIN parts : PartFits(file, parts[j])
    BY <1>1, WantedFits
  <2> QED BY <1>1, <2>1 DEF AnswerFits, ConcatFits, FinishFits, EndFits, Quiet, diskVars, sessionVars
<1>6. i \in Nat
  BY DEF Ids
<1> QED BY <1>1, <1>2, <1>3, <1>4, <1>5, <1>6, QuietStep DEF TypeInv, Running

\* The end of the downloading.
LEMMA DownloadEndsInv ==
  IInv /\ (Interrupt \/ RefuseFallback \/ PartFailed \/ DonePanics) => IInv'
<1> SUFFICES ASSUME IInv, Interrupt \/ RefuseFallback \/ PartFailed \/ DonePanics PROVE IInv'
  OBVIOUS
<1>1. TypeInv /\ ControlInv /\ RefusedInv
  BY DEF IInv
<1>2. Quiet /\ phase = "download" /\ phase' = "end" /\ UNCHANGED <<mode, elected, next>>
      /\ canceled' \in BOOLEAN /\ (err' # "nil" \/ canceled')
  BY <1>1 DEF Interrupt, RefuseFallback, PartFailed, DonePanics, Joined, Quiet, endVars, TypeInv
<1>3. ControlInv'
  BY <1>1, <1>2 DEF Quiet, diskVars, sessionVars, ControlInv
<1>4. RefusedInv'
  BY <1>2, NoneRefused DEF RefusedInv, Quiet, historyVars
<1>5. AnswerFits' /\ ConcatFits' /\ FinishFits' /\ EndFits'
  BY <1>2 DEF AnswerFits, ConcatFits, FinishFits, EndFits
<1> QED BY <1>1, <1>2, <1>3, <1>4, <1>5, QuietStep DEF TypeInv, Running, Phases

LEMMA DoneInv == IInv /\ Done => IInv'
<1> SUFFICES ASSUME IInv, Done PROVE IInv'
  OBVIOUS
<1>1. TypeInv /\ ControlInv /\ RefusedInv
  BY DEF IInv
<1>2. Quiet /\ phase = "download" /\ phase' = "merge" /\ UNCHANGED <<mode, elected, next>>
      /\ canceled' = canceled /\ err' = err /\ err = "nil" /\ \A i \in DOMAIN parts : IsDone(parts[i])
  BY DEF Done, Joined, Quiet, endVars
<1>3. ControlInv'
  BY <1>1, <1>2 DEF Quiet, diskVars, sessionVars, ControlInv, IsDone, PartLen
<1>4. RefusedInv'
  BY <1>2, NoneRefused DEF RefusedInv, Quiet, historyVars
<1>5. AnswerFits' /\ ConcatFits' /\ FinishFits' /\ EndFits'
  BY <1>2 DEF AnswerFits, ConcatFits, FinishFits, EndFits
<1> QED BY <1>1, <1>2, <1>3, <1>4, <1>5, QuietStep DEF TypeInv, Running, Phases

-----------------------------------------------------------------------------
(* Steps of the merge, and those that end the run.                          *)

\* Parts that are all there and together as long as the body.
LEMMA WholeIs ==
  ASSUME NEW ps, SessionOK(TRUE, ps), Total(ps) = Length
  PROVE  DOMAIN ps = 1 .. 1 /\ ps[1].start = 0 /\ ps[1].written = Length /\ ps[1].id \in Ids
<1>1. DOMAIN ps = 1 .. Len(ps) /\ Len(ps) = 1
  BY SessionIs
<1>2. PartOK(ps[1]) /\ 1 \in DOMAIN ps
  BY <1>1 DEF SessionOK
<1>3. ps[1].written = Length
  BY TotalIs
<1>4. WholeBody(ps[1])
  <2>1. Length <= PartLen(ps[1])
    BY <1>2, <1>3, PartIs
  <2>2. ~LowerHalf(ps[1]) /\ ~UpperHalf(ps[1])
    BY <2>1, <1>2, PartIs, HalfIs
  <2> QED BY <2>2, <1>2 DEF PartOK
<1> QED BY <1>1, <1>2, <1>3, <1>4, PartIs DEF WholeBody

LEMMA HalvesAre ==
  ASSUME NEW ps, SessionOK(FALSE, ps), Total(ps) = Length, \A i \in DOMAIN ps : IsDone(ps[i])
  PROVE  /\ ps[1].start = 0 /\ ps[1].written = Half
         /\ ps[2].start = Half /\ ps[2].written = Length - Half
<1>1. DOMAIN ps = 1 .. Len(ps) /\ Len(ps) = 2
  BY SessionIs
<1>2. PartOK(ps[1]) /\ PartOK(ps[2]) /\ IsDone(ps[1]) /\ IsDone(ps[2])
      /\ ~UpperHalf(ps[1]) /\ ~LowerHalf(ps[2])
  <2>1. 1 \in DOMAIN ps /\ 2 \in DOMAIN ps
    BY <1>1
  <2> QED BY <2>1 DEF SessionOK
<1>3. PartLen(ps[1]) + PartLen(ps[2]) = Length
  <2>1. ps[1].written + ps[2].written = Length
    BY TotalIs
  <2> QED BY <2>1, <1>2 DEF IsDone
<1>4. PartLen(ps[1]) \in {Half, Length} /\ PartLen(ps[2]) \in {Length - Half, Length}
  <2>1. LowerHalf(ps[1]) \/ WholeBody(ps[1])
    BY <1>2 DEF PartOK
  <2>2. UpperHalf(ps[2]) \/ WholeBody(ps[2])
    BY <1>2 DEF PartOK
  <2>3. PartLen(ps[1]) \in {Half, Length}
    BY <2>1, <1>2, PartIs
  <2>4. PartLen(ps[2]) \in {Length - Half, Length}
    BY <2>2, <1>2, PartIs
  <2> QED BY <2>3, <2>4
<1>5. PartLen(ps[1]) = Half /\ PartLen(ps[2]) = Length - Half
  BY <1>3, <1>4, HalfIs
<1>6. LowerHalf(ps[1]) /\ UpperHalf(ps[2])
  <2>1. ~WholeBody(ps[1])
    BY <1>2, <1>5, PartIs, HalfIs
  <2>2. ~WholeBody(ps[2])
    BY <1>2, <1>5, PartIs, HalfIs
  <2> QED BY <2>1, <2>2, <1>2 DEF PartOK
<1> QED BY <1>2, <1>5, <1>6 DEF LowerHalf, UpperHalf, IsDone

LEMMA CheckSizesInv == IInv /\ CheckSizes => IInv'
<1> SUFFICES ASSUME IInv, CheckSizes PROVE IInv'
  OBVIOUS
<1>1. TypeInv /\ ControlInv /\ RefusedInv /\ RunFits
  BY DEF IInv
<1>2. Quiet /\ phase = "merge" /\ phase' = (IF single THEN "finish" ELSE "concat")
      /\ (single \/ SizesAgree) /\ UNCHANGED <<mode, elected, next, canceled, err>>
  BY DEF CheckSizes, Quiet, endVars
<1>3. SessionOK(single, parts) /\ single \in BOOLEAN /\ \A i \in DOMAIN parts : IsDone(parts[i])
  BY <1>1, <1>2, RunIs DEF ControlInv
<1>4. RefusedInv'
  BY <1>2, NoneRefused DEF RefusedInv, Quiet, historyVars
<1>5. CASE single
  <2>1. phase' = "finish"
    BY <1>2, <1>5
  <2>2. ControlInv'
    BY <1>1, <1>2, <2>1 DEF Quiet, diskVars, sessionVars, ControlInv
  <2>3. "run" \notin suspect => FirstIsBody
    <3> SUFFICES ASSUME "run" \notin suspect, Total(parts) = Length, HasLength
                 PROVE  file[First] = Body
      BY DEF FirstIsBody
    <3>1. DOMAIN parts = 1 .. 1 /\ parts[1].start = 0 /\ parts[1].written = Length
          /\ parts[1].id \in Ids
      BY <1>3, <1>5, WholeIs
    <3>2. Len(parts) = 1
      BY <1>3, <1>5, SessionIs
    <3>3. PartFits(file, parts[1])
      <4>1. Fits(file, parts)
        BY <1>1, <1>2 DEF RunFits
      <4> QED BY <4>1, <3>1, <3>2 DEF Fits, Swallowed
    <3>4. Held(file, parts[1].id) = file[First] /\ Len(file[First]) = Length
      BY <3>1 DEF HasLength, SizeIs, First, Held
    <3>5. 0 + Length = Length
      BY HalfIs
    <3> QED BY <3>1, <3>3, <3>4, <3>5 DEF PartFits, Body
  <2>4. "run" \notin suspect => AnswerFits' /\ ConcatFits' /\ FinishFits' /\ EndFits'
    BY <1>2, <2>1, <2>3 DEF AnswerFits, ConcatFits, FinishFits, EndFits, Quiet, diskVars, sessionVars,
                            FirstIsBody, HasLength, First, SizeIs
  <2> QED BY <1>1, <1>2, <1>4, <2>1, <2>2, <2>4, QuietStep DEF TypeInv, Running, Phases
<1>6. CASE ~single
  <2>1. phase' = "concat"
    BY <1>2, <1>6
  <2>2. parts[1].id = 1 /\ parts[2].id = 2 /\ 1 \in DOMAIN parts /\ 2 \in DOMAIN parts
        /\ DOMAIN parts = 1 .. 2
    <3>1. Len(parts) = 2 /\ DOMAIN parts = 1 .. Len(parts)
      BY <1>3, <1>6, SessionIs
    <3> QED BY <3>1, <1>3, <1>6 DEF SessionOK
  <2>3. SizeIs(1, parts[1].written) /\ SizeIs(2, parts[2].written)
    BY <1>2, <1>6, <2>2 DEF SizesAgree
  <2>4. file[1] # Absent /\ file[2] # Absent /\ Len(file[1]) = parts[1].written
        /\ Len(file[2]) = parts[2].written /\ Held(file, 1) = file[1] /\ Held(file, 2) = file[2]
        /\ parts[1].written \in Nat /\ parts[2].written \in Nat
    BY <1>3, <2>2, <2>3, SessionIs, PartIs DEF SizeIs, Held
  <2>5. ControlInv'
    BY <1>1, <1>2, <1>6, <2>1, <2>3, <2>4 DEF Quiet, diskVars, sessionVars, ControlInv, SizeIs
  <2>6. ASSUME "run" \notin suspect
        PROVE  /\ \A i \in DOMAIN parts : PartFits(file, parts[i])
               /\ Total(parts) = Length => /\ file[1] = Slice(0, Len(file[1]))
                                           /\ file[2] = Slice(Half, Length)
    <3>1. \A i \in DOMAIN parts : PartFits(file, parts[i])
      <4>1. Fits(file, parts)
        BY <1>1, <1>2, <2>6 DEF RunFits
      <4> QED BY <4>1, <2>2, <2>4 DEF Fits, Swallowed
    <3>2. ASSUME Total(parts) = Length
          PROVE  file[1] = Slice(0, Len(file[1])) /\ file[2] = Slice(Half, Length)
      <4>1. SessionOK(FALSE, parts)
        BY <1>3, <1>6
      <4>2. parts[1].start = 0 /\ parts[1].written = Half
            /\ parts[2].start = Half /\ parts[2].written = Length - Half
        BY <4>1, <3>2, <1>3, HalvesAre
      <4>3. file[1] = Slice(0, 0 + Half) /\ file[2] = Slice(Half, Half + (Length - Half))
        BY <4>2, <3>1, <2>2, <2>4 DEF PartFits
      <4>4. 0 + Half = Half /\ Half + (Length - Half) = Length
        BY HalfIs
      <4> QED BY <4>2, <4>3, <4>4, <2>4
    <3> QED BY <3>1, <3>2
  <2>7. "run" \notin suspect => AnswerFits' /\ ConcatFits' /\ FinishFits' /\ EndFits'
    BY <1>2, <2>1, <2>6 DEF AnswerFits, ConcatFits, FinishFits, EndFits, Quiet, diskVars, sessionVars
  <2> QED BY <1>1, <1>2, <1>4, <2>1, <2>5, <2>7, QuietStep DEF TypeInv, Running, Phases
<1> QED BY <1>3, <1>5, <1>6

LEMMA MergeFailsInv == IInv /\ (MergeRefused \/ MergeFails) => IInv'
<1> SUFFICES ASSUME IInv, MergeRefused \/ MergeFails PROVE IInv'
  OBVIOUS
<1>1. TypeInv /\ ControlInv /\ RefusedInv
  BY DEF IInv
<1>2. Quiet /\ phase \in {"merge", "concat", "finish"} /\ phase' = "end"
      /\ UNCHANGED <<mode, elected, next, canceled>> /\ err' # "nil"
  BY DEF MergeRefused, MergeFails, Concatenating, Quiet
<1>3. ControlInv'
  BY <1>1, <1>2 DEF Quiet, diskVars, sessionVars, ControlInv
<1>4. RefusedInv'
  BY <1>2, NoneRefused DEF RefusedInv, Quiet, historyVars
<1>5. AnswerFits' /\ ConcatFits' /\ FinishFits' /\ EndFits'
  BY <1>2 DEF AnswerFits, ConcatFits, FinishFits, EndFits
<1> QED BY <1>1, <1>2, <1>3, <1>4, <1>5, QuietStep DEF TypeInv, Running, Phases

LEMMA MergedInv == IInv /\ Merged => IInv'
<1> SUFFICES ASSUME IInv, Merged PROVE IInv'
  OBVIOUS
<1>1. TypeInv /\ ControlInv /\ RefusedInv
  BY DEF IInv
<1>2. Quiet /\ phase = "finish" /\ phase' = "end" /\ HasLength
      /\ UNCHANGED <<mode, elected, next, canceled, err>>
  BY DEF Merged, endVars, Quiet
<1>3. ControlInv'
  BY <1>1, <1>2 DEF Quiet, diskVars, sessionVars, ControlInv
<1>4. RefusedInv'
  BY <1>2, NoneRefused DEF RefusedInv, Quiet, historyVars
<1>5. "run" \notin suspect => AnswerFits' /\ ConcatFits' /\ FinishFits' /\ EndFits'
  BY <1>2 DEF IInv, RunFits, AnswerFits, ConcatFits, FinishFits, EndFits, Quiet, diskVars, sessionVars,
              FirstIsBody, HasLength, First, SizeIs
<1> QED BY <1>1, <1>2, <1>3, <1>4, <1>5, QuietStep DEF TypeInv, Running, Phases

\* The run is over, and nothing has changed on the disk.
LEMMA IdleInv ==
  ASSUME IInv, phase # "idle", phase' = "idle", last' = "none",
         UNCHANGED <<diskVars, sessionVars, begun, next, mode, elected, open, canceled, suspect>>
  PROVE  IInv'
<1> USE DEF diskVars, sessionVars
<1>1. TypeInv'
  BY DEF IInv, TypeInv, Phases, Loaded
<1>2. ControlInv'
  BY DEF IInv, ControlInv
<1>3. DiskFits'
  BY DEF IInv, DiskFits, Loaded
<1>4. RunFits' /\ RefusedInv' /\ LastInv'
  BY DEF RunFits, RefusedInv, LastInv, Running
<1>5. ProgressInv'
  BY DEF IInv, ProgressInv, Loaded
<1> QED BY <1>1, <1>2, <1>3, <1>4, <1>5 DEF IInv

LEMMA KillInv == IInv /\ Kill => IInv'
BY IdleInv DEF Kill, endVars

LEMMA RenameFailsInv == IInv /\ RenameFails => IInv'
<1> SUFFICES ASSUME IInv, RenameFails PROVE IInv'
  OBVIOUS
<1>1. last = "none"
  BY DEF RenameFails, IInv, LastInv
<1> QED BY <1>1, IdleInv DEF RenameFails, endVars, historyVars

-----------------------------------------------------------------------------
(* The start of a run.                                                     *)

LEMMA StartInv ==
  ASSUME IInv, NEW kind \in Kinds \cup {"none"}, NEW again \in BOOLEAN, NEW one, NEW ps,
         SessionOK(one, ps), Start(kind, again, one, ps),
         kind = "none" => \A i \in DOMAIN ps : ps[i].written = 0,
         kind # "none" => Loaded(kind) /\ ps = state[kind].parts
  PROVE  IInv'
<1>1. TypeInv /\ DiskFits /\ ProgressInv
  BY DEF IInv
<1>2. /\ phase' = "launch" /\ name' = kind /\ restored' = again /\ single' = one /\ parts' = ps
      /\ begun' = Total(ps) /\ next' = 1 /\ mode' = "none" /\ elected' = 0 /\ open' = {}
      /\ canceled' = FALSE /\ err' = "nil" /\ sound' = Resumable(ps) /\ last' = "none"
      /\ file' = file /\ state' = state
      /\ suspect' = (suspect \ {"run"}) \cup IF kind \in suspect THEN {"run"} ELSE {}
      /\ refused' = {ps[i].id : i \in {j \in DOMAIN ps :
                       again /\ ps[j].written # 0 /\ ~SizeIs(ps[j].id, ps[j].written)}}
  BY DEF Start
<1>3. /\ DOMAIN ps = 1 .. Len(ps) /\ one \in BOOLEAN /\ Len(ps) = (IF one THEN 1 ELSE 2)
      /\ \A i \in DOMAIN ps : /\ PartOK(ps[i]) /\ ps[i].id \in Ids
                              /\ ps[i].written \in Nat /\ ps[i].start \in Nat
      /\ Total(ps) \in Nat
  BY SessionIs, PartIs, TotalIs DEF SessionOK
<1>4. TypeInv'
  <2>1. \A k \in Kinds : Loaded(k)' <=> Loaded(k)
    BY <1>2 DEF Loaded
  <2>2. suspect' \subseteq Kinds \cup {"run"}
    BY <1>1, <1>2 DEF TypeInv
  <2> QED BY <1>1, <1>2, <1>3, <2>1, <2>2 DEF TypeInv, Phases
<1>5. ControlInv'
  BY <1>2 DEF ControlInv
<1>6. DiskFits'
  <2>1. \A k \in Kinds : k \notin suspect' => k \notin suspect
    BY <1>2 DEF Kinds
  <2> QED BY <1>1, <1>2, <2>1 DEF DiskFits, Loaded
<1>7. RunFits'
  <2> SUFFICES ASSUME "run" \notin suspect'
               PROVE  Fits(file, ps) /\ AnswerFits' /\ ConcatFits' /\ FinishFits' /\ EndFits'
    BY <1>2 DEF RunFits
  <2>1. AnswerFits' /\ ConcatFits' /\ FinishFits' /\ EndFits'
    BY <1>2 DEF AnswerFits, ConcatFits, FinishFits, EndFits
  <2>2. kind \notin suspect
    BY <1>2
  <2>3. CASE kind = "none"
    <3>1. ASSUME NEW i \in DOMAIN ps PROVE PartFits(file, ps[i])
      <4>1. ps[i].written = 0 /\ ps[i].start \in Nat /\ ps[i].id \in Ids
        BY <1>3, <2>3
      <4>2. Held(file, ps[i].id) \in Seq(Offsets) /\ Len(Held(file, ps[i].id)) \in Nat
        BY <1>1, <4>1, HeldIs DEF TypeInv
      <4>3. Len(Held(file, ps[i].id)) = 0 => Held(file, ps[i].id) = <<>>
        BY <4>2, EmptySeq
      <4> QED BY <4>1, <4>2, <4>3, SliceEmpty DEF PartFits
    <3> QED BY <3>1, <2>1 DEF Fits
  <2>4. CASE kind # "none"
    BY <2>4, <2>1, <2>2, <1>1 DEF DiskFits
  <2> QED BY <2>3, <2>4
<1>8. ProgressInv'
  <2>1. Resumable(ps) => Matches(parts)'
    BY <1>2 DEF Resumable, Matches, Bytes
  <2>2. \A k \in Kinds : Loaded(k)' <=> Loaded(k)
    BY <1>2 DEF Loaded
  <2>3. Total(parts)' = Total(ps)
    BY <1>2
  <2>4. \A k \in Kinds : Loaded(k) /\ Len(state[k].parts) = 2 => Total(state[k].parts) > 0
    BY <1>1 DEF ProgressInv
  <2> QED BY <1>2, <1>3, <2>1, <2>2, <2>3, <2>4 DEF ProgressInv
<1>9. LastInv'
  BY <1>2, <1>3 DEF LastInv, Running, Loaded, Continues
<1>10. RefusedInv'
  <2> SUFFICES ASSUME NEW id \in refused'
               PROVE  again /\ \E i \in DOMAIN ps :
                        ps[i].id = id /\ i >= 1 /\ ps[i].written # 0 /\ ~SizeIs(id, ps[i].written)
    BY <1>2 DEF RefusedInv, SizeIs
  <2>1. PICK i \in DOMAIN ps : ps[i].id = id /\ again /\ ps[i].written # 0
                               /\ ~SizeIs(ps[i].id, ps[i].written)
    BY <1>2
  <2> QED BY <1>3, <2>1
<1> QED BY <1>4, <1>5, <1>6, <1>7, <1>8, <1>9, <1>10 DEF IInv

LEMMA GetStateInv == IInv /\ GetState => IInv'
<1> SUFFICES ASSUME IInv, GetState PROVE IInv'
  OBVIOUS
<1>1. ASSUME NEW kind \in Kinds, Loaded(kind)
      PROVE  SessionOK(state[kind].single, state[kind].parts)
  BY <1>1 DEF IInv, TypeInv
<1>2. ASSUME NEW n \in Counts, StartNew(n) PROVE IInv'
  <2>1. SessionOK(n = 1, MakeParts(n)) /\ \A i \in DOMAIN MakeParts(n) : MakeParts(n)[i].written = 0
    BY MakePartsOK
  <2>2. Start("none", FALSE, n = 1, MakeParts(n))
    BY <1>2 DEF StartNew
  <2> QED BY <2>1, <2>2, StartInv
<1>3. ASSUME NEW again \in BOOLEAN, StartFound(again) PROVE IInv'
  <2>1. Loaded("json") /\ Start("json", again, state["json"].single, state["json"].parts)
        /\ "json" \in Kinds
    BY <1>3 DEF StartFound, Kinds
  <2>2. SessionOK(state["json"].single, state["json"].parts)
    BY <1>1, <2>1
  <2> QED BY <2>1, <2>2, StartInv
<1>4. ASSUME NEW kind \in Kinds, StartNamed(kind) PROVE IInv'
  <2>1. Loaded(kind) /\ Start(kind, TRUE, state[kind].single, state[kind].parts) /\ kind # "none"
    BY <1>4 DEF StartNamed, Kinds
  <2>2. SessionOK(state[kind].single, state[kind].parts)
    BY <1>1, <2>1
  <2> QED BY <2>1, <2>2, StartInv
<1> QED BY <1>2, <1>3, <1>4 DEF GetState

-----------------------------------------------------------------------------
(* Steps of a part.                                                        *)

\* A part that goes on, or that is made the whole body.
LEMMA PartChanged ==
  ASSUME NEW one, NEW ps, SessionOK(one, ps), NEW i \in DOMAIN ps, NEW p, PartOK(p),
         p.id = ps[i].id, (p.start = ps[i].start /\ p.stop = ps[i].stop) \/ WholeBody(p),
         NEW qs, qs = Put(ps, i, p)
  PROVE  /\ SessionOK(one, qs) /\ DOMAIN qs = DOMAIN ps /\ Len(qs) = Len(ps) /\ qs[i] = p
         /\ \A j \in DOMAIN ps : j # i => qs[j] = ps[j]
         /\ \A j \in DOMAIN ps : qs[j].id = ps[j].id
         /\ p.written >= ps[i].written => Total(qs) >= Total(ps)
<1>1. /\ DOMAIN ps = 1 .. Len(ps) /\ one \in BOOLEAN /\ Len(ps) = (IF one THEN 1 ELSE 2)
      /\ \A j \in DOMAIN ps : PartOK(ps[j]) /\ ps[j].written \in Nat
  BY SessionIs, PartIs DEF SessionOK
<1>2. p \in PartRecords /\ p.written \in Nat
  BY PartIs DEF PartOK
<1>3. DOMAIN qs = DOMAIN ps /\ qs[i] = p /\ \A j \in DOMAIN ps : j # i => qs[j] = ps[j]
  <2>1. ps \in Seq(PartRecords)
    BY SessionIs
  <2>2. ps = [j \in DOMAIN ps |-> ps[j]]
    BY <1>1, SessionIs DEF SessionOK
  <2> QED BY <2>2 DEF Put
<1>4. \A j \in DOMAIN qs : PartOK(qs[j])
  BY <1>1, <1>3
<1>5. \A j \in DOMAIN ps : qs[j].id = ps[j].id
  BY <1>3
<1>6. ps \in [DOMAIN ps -> PartRecords]
  BY <1>1 DEF SessionOK
<1>7. qs \in [DOMAIN ps -> PartRecords]
  BY <1>2, <1>6 DEF Put
<1>8. SessionOK(one, qs)
  <2>1. CASE one
    <3>1. DOMAIN ps = 1 .. 1
      BY <1>1, <2>1
    <3> QED BY <1>1, <1>4, <1>7, <2>1, <3>1 DEF SessionOK
  <2>2. CASE ~one
    <3>1. DOMAIN ps = 1 .. 2 /\ 1 \in DOMAIN ps /\ 2 \in DOMAIN ps
      BY <1>1, <2>2
    <3>2. ps[1].id = 1 /\ ps[2].id = 2 /\ ~UpperHalf(ps[1]) /\ ~LowerHalf(ps[2])
      BY <2>2 DEF SessionOK
    <3>3. WholeBody(p) => ~UpperHalf(p) /\ ~LowerHalf(p)
      BY HalfIs DEF WholeBody, UpperHalf, LowerHalf
    <3>4. ~UpperHalf(qs[1])
      <4>1. CASE i = 1
        BY <4>1, <1>3, <3>1, <3>2, <3>3 DEF UpperHalf
      <4>2. CASE i # 1
        BY <4>2, <1>3, <3>1, <3>2
      <4> QED BY <4>1, <4>2
    <3>5. ~LowerHalf(qs[2])
      <4>1. CASE i = 2
        BY <4>1, <1>3, <3>1, <3>2, <3>3 DEF LowerHalf
      <4>2. CASE i # 2
        BY <4>2, <1>3, <3>1, <3>2
      <4> QED BY <4>1, <4>2
    <3>6. qs \in [1 .. 2 -> PartRecords] /\ qs[1].id = 1 /\ qs[2].id = 2
      BY <1>5, <1>7, <3>1, <3>2
    <3> QED BY <1>1, <1>4, <2>2, <3>4, <3>5, <3>6 DEF SessionOK
  <2> QED BY <2>1, <2>2
<1>9. DOMAIN qs = 1 .. Len(qs) /\ Len(qs) = Len(ps)
  <2>1. DOMAIN qs = 1 .. Len(qs) /\ Len(qs) = (IF one THEN 1 ELSE 2)
    BY <1>8, SessionIs
  <2> QED BY <2>1, <1>1
<1>10. ASSUME p.written >= ps[i].written PROVE Total(qs) >= Total(ps)
  <2>1. Total(ps) = IF one THEN ps[1].written ELSE ps[1].written + ps[2].written
    BY TotalIs
  <2>2. Total(qs) = IF one THEN qs[1].written ELSE qs[1].written + qs[2].written
    BY <1>8, TotalIs
  <2>3. \A j \in DOMAIN ps : qs[j].written >= ps[j].written /\ qs[j].written \in Nat
                             /\ ps[j].written \in Nat
    BY <1>1, <1>2, <1>3, <1>10
  <2>4. 1 \in DOMAIN ps /\ (~one => 2 \in DOMAIN ps)
    BY <1>1
  <2> QED BY <1>1, <2>1, <2>2, <2>3, <2>4
<1> QED BY <1>3, <1>5, <1>8, <1>9, <1>10

LEMMA PartStepInv ==
  ASSUME IInv, NEW i \in DOMAIN parts, Downloading(i), NEW p, PartOK(p), p.id = parts[i].id,
         (p.start = parts[i].start /\ p.stop = parts[i].stop) \/ WholeBody(p),
         p.written >= parts[i].written, parts[i].written # 0 => p.start = parts[i].start,
         parts' = Put(parts, i, p),
         NEW v \in Seq(Offsets), file' = Put(file, p.id, v),
         PartFits(file, parts[i]) => PartFits(file', p),
         Held(file, p.id) = Slice(parts[i].start, parts[i].start + parts[i].written)
           => v = Slice(p.start, p.start + p.written),
         DiskFits', suspect' \subseteq Kinds \cup {"run"}, "run" \in suspect => "run" \in suspect',
         i \in open', open' \subseteq open \cup {i}, mode' \in {"partial", "fallback"},
         elected' \in DOMAIN parts, mode' = "fallback" => open' \subseteq {elected'},
         UNCHANGED <<state, phase, name, restored, single, begun, next, endVars,
                     sound, refused, last>>
  PROVE  IInv'
<1> USE DEF endVars
<1>1. TypeInv /\ ControlInv /\ ProgressInv /\ LastInv /\ RefusedInv /\ RunFits
  BY DEF IInv
<1>2. phase \in {"launch", "download"} /\ i < next /\ phase' = phase
  BY DEF Downloading
<1>3. /\ SessionOK(single, parts) /\ DOMAIN parts = 1 .. Len(parts)
      /\ \A j \in DOMAIN parts : /\ PartOK(parts[j]) /\ parts[j].id \in Ids
                                 /\ parts[j].written \in Nat /\ parts[j].start \in Nat
      /\ \A j, k \in DOMAIN parts : parts[j].id = parts[k].id => j = k
      /\ Total(parts) \in Nat
  <2>1. phase # "idle"
    BY <1>2
  <2> QED BY <2>1, RunIs, PartIs, TotalIs
<1>4. /\ SessionOK(single, parts') /\ DOMAIN parts' = DOMAIN parts /\ Len(parts') = Len(parts)
      /\ parts'[i] = p /\ \A j \in DOMAIN parts : j # i => parts'[j] = parts[j]
      /\ \A j \in DOMAIN parts : parts'[j].id = parts[j].id
      /\ Total(parts') >= Total(parts)
  <2> DEFINE qs == parts'
             one == single
             ps == parts
  <2>1. SessionOK(one, ps) /\ i \in DOMAIN ps /\ PartOK(p) /\ p.id = ps[i].id
        /\ ((p.start = ps[i].start /\ p.stop = ps[i].stop) \/ WholeBody(p))
        /\ p.written >= ps[i].written /\ qs = Put(ps, i, p)
    BY <1>3
  <2> HIDE DEF qs, one, ps
  <2>2. /\ SessionOK(one, qs) /\ DOMAIN qs = DOMAIN ps /\ Len(qs) = Len(ps)
        /\ qs[i] = p /\ \A j \in DOMAIN ps : j # i => qs[j] = ps[j]
        /\ \A j \in DOMAIN ps : qs[j].id = ps[j].id
        /\ p.written >= ps[i].written => Total(qs) >= Total(ps)
    BY <2>1, PartChanged
  <2> QED BY <2>1, <2>2 DEF qs, one, ps
<1>5. p.id \in Ids /\ p.written \in Nat /\ file \in Files /\ v # Absent
  BY <1>1, <1>3, OffsetsIs, PartIs DEF TypeInv
<1>6. /\ file' \in Files /\ file'[p.id] = v /\ Held(file', p.id) = v
      /\ \A id \in Ids : id # p.id => Held(file', id) = Held(file, id) /\ file'[id] = file[id]
  <2> DEFINE f == file
             g == file'
             c == p.id
  <2>1. f \in Files /\ c \in Ids /\ v \in Seq(Offsets) \cup {Absent} /\ g = Put(f, c, v)
    BY <1>5
  <2> HIDE DEF f, g, c
  <2>2. /\ g \in Files /\ g[c] = v /\ (v # Absent => Held(g, c) = v)
        /\ \A id \in Ids : id # c => Held(g, id) = Held(f, id) /\ g[id] = f[id]
    BY <2>1, HeldStep
  <2> QED BY <2>2, <1>5 DEF f, g, c
<1>7. \A j \in DOMAIN parts : j # i => parts[j].id # p.id /\ Held(file', parts[j].id) = Held(file, parts[j].id)
                                       /\ file'[parts[j].id] = file[parts[j].id]
  BY <1>3, <1>6
<1>8. TypeInv'
  <2>1. \A k \in Kinds : Loaded(k)' <=> Loaded(k)
    BY DEF Loaded
  <2>2. elected' \in Nat
    BY <1>3
  <2> QED BY <1>1, <1>4, <1>6, <2>1, <2>2 DEF TypeInv
<1>9. ControlInv'
  <2>1. open' \subseteq DOMAIN parts /\ open \subseteq DOMAIN parts
    BY <1>1 DEF ControlInv
  <2>2. \A j \in open' : j < next /\ file'[parts'[j].id] # Absent
    <3> SUFFICES ASSUME NEW j \in open' PROVE j < next /\ file'[parts'[j].id] # Absent
      OBVIOUS
    <3>1. CASE j = i
      BY <3>1, <1>2, <1>4, <1>5, <1>6
    <3>2. CASE j # i
      <4>1. j \in open /\ j \in DOMAIN parts
        BY <3>2, <2>1
      <4>2. j < next /\ file[parts[j].id] # Absent
        BY <4>1, <1>1, <1>2 DEF ControlInv
      <4> QED BY <4>1, <4>2, <3>2, <1>4, <1>7
    <3> QED BY <3>1, <3>2
  <2> QED BY <1>1, <1>2, <1>4, <2>1, <2>2 DEF ControlInv
<1>10. RunFits'
  <2> SUFFICES ASSUME "run" \notin suspect'
               PROVE  Fits(file', parts') /\ AnswerFits' /\ ConcatFits' /\ FinishFits' /\ EndFits'
    BY DEF RunFits
  <2>1. \A j \in DOMAIN parts : PartFits(file, parts[j])
    BY WantedFits
  <2>2. \A j \in DOMAIN parts' : PartFits(file', parts'[j])
    <3> SUFFICES ASSUME NEW j \in DOMAIN parts PROVE PartFits(file', parts'[j])
      BY <1>4
    <3>1. CASE j = i
      BY <3>1, <2>1, <1>4
    <3>2. CASE j # i
      BY <3>2, <2>1, <1>4, <1>7 DEF PartFits
    <3> QED BY <3>1, <3>2
  <2> QED BY <1>2, <2>2 DEF Fits, AnswerFits, ConcatFits, FinishFits, EndFits
<1>11. Matches(parts) => Matches(parts)'
  <2> SUFFICES ASSUME Matches(parts), NEW j \in DOMAIN parts
               PROVE  Held(file', parts'[j].id) = Slice(parts'[j].start, parts'[j].start + parts'[j].written)
    BY <1>4 DEF Matches, Bytes, Held
  <2>1. Held(file, parts[j].id) = Slice(parts[j].start, parts[j].start + parts[j].written)
    BY DEF Matches, Bytes, Held
  <2>2. CASE j = i
    BY <2>1, <2>2, <1>4, <1>6
  <2>3. CASE j # i
    BY <2>1, <2>3, <1>4, <1>7
  <2> QED BY <2>2, <2>3
<1>12. \A k \in Kinds : Loaded(k)' <=> Loaded(k)
  BY DEF Loaded
<1>13. Total(parts') \in Nat /\ begun \in Nat
  BY <1>1, <1>4, TotalIs DEF TypeInv
<1>14. ProgressInv'
  <2>1. Total(parts)' = Total(parts')
    OBVIOUS
  <2>2. Len(parts) = 2 => Total(parts) >= begun
    BY <1>1, <1>2 DEF ProgressInv
  <2>3. sound => Matches(parts) /\ Total(parts) >= begun
    BY <1>1, <1>2 DEF ProgressInv
  <2>4. \A k \in Kinds : Loaded(k) /\ Len(state[k].parts) = 2 => Total(state[k].parts) > 0
    BY <1>1 DEF ProgressInv
  <2>5. sound => Total(parts') >= begun
    BY <2>3, <1>3, <1>4, <1>13
  <2>6. Len(parts) = 2 => Total(parts') >= begun
    BY <2>2, <1>3, <1>4, <1>13
  <2> QED BY <1>2, <1>4, <1>11, <1>12, <2>1, <2>3, <2>4, <2>5, <2>6 DEF ProgressInv
<1>15. LastInv'
  <2>1. last = "none"
    BY <1>1, <1>2 DEF LastInv
  <2>2. ASSUME name # "none", sound PROVE Continues(state[name].parts)'
    <3> DEFINE old == state[name].parts
    <3>1. Continues(old) /\ Loaded(name)
      BY <2>2, <1>1, <1>2 DEF LastInv, Running
    <3>2. SessionOK(state[name].single, old)
      BY <2>2, <3>1, <1>1 DEF TypeInv
    <3> HIDE DEF old
    <3>3. Len(parts) = Len(old) /\ DOMAIN old = 1 .. Len(old)
          /\ \A j \in DOMAIN old : old[j].written \in Nat
      BY <3>1, <3>2, SessionIs, PartIs DEF Continues
    <3>4. DOMAIN old = DOMAIN parts
      BY <3>3, <1>3
    <3>5. ASSUME NEW j \in DOMAIN old
          PROVE  /\ parts'[j].id = old[j].id /\ parts'[j].written >= old[j].written
                 /\ old[j].written # 0 => parts'[j].start = old[j].start
      <4>1. /\ parts[j].id = old[j].id /\ parts[j].written >= old[j].written
            /\ old[j].written # 0 => parts[j].start = old[j].start
        BY <3>1 DEF Continues
      <4>2. CASE j = i
        <5>1. parts[i].written \in Nat /\ old[i].written \in Nat
          BY <1>3, <3>3, <3>4
        <5>2. parts'[i].written >= old[i].written
          BY <4>1, <4>2, <5>1, <1>4, <1>5
        <5>3. old[i].written # 0 => parts[i].written # 0
          BY <4>1, <4>2, <5>1
        <5> QED BY <4>1, <4>2, <5>2, <5>3, <1>4, <3>4
      <4>3. CASE j # i
        BY <4>1, <4>3, <1>4, <3>4
      <4> QED BY <4>2, <4>3
    <3>6. Continues(old)' <=> /\ Len(parts') = Len(old')
                              /\ \A j \in DOMAIN old' :
                                   /\ parts'[j].id = old'[j].id /\ parts'[j].written >= old'[j].written
                                   /\ old'[j].written # 0 => parts'[j].start = old'[j].start
      BY DEF Continues
    <3>7. old' = old
      BY DEF old
    <3>8. Continues(old)'
      BY <3>3, <3>5, <3>6, <3>7, <1>4
    <3> QED BY <3>8 DEF old
  <2>3. name # "none" => Loaded(name)' /\ Total(state[name].parts)' = begun'
    BY <1>1, <1>2 DEF LastInv, Running, Loaded
  <2> QED BY <1>2, <2>1, <2>2, <2>3 DEF LastInv, Running
<1>16. RefusedInv'
  <2> SUFFICES ASSUME NEW id \in refused
               PROVE  /\ restored /\ phase = "launch"
                      /\ \E j \in DOMAIN parts : /\ parts'[j].id = id /\ j >= next
                                                 /\ parts'[j].written # 0
                                                 /\ ~(/\ file'[id] # Absent
                                                      /\ Len(file'[id]) = parts'[j].written)
    BY <1>2, <1>4 DEF RefusedInv, SizeIs
  <2>1. restored /\ phase = "launch"
    BY <1>1, <1>2 DEF RefusedInv
  <2>2. PICK j \in DOMAIN parts : parts[j].id = id /\ j >= next /\ parts[j].written # 0
                                  /\ ~SizeIs(id, parts[j].written)
    BY <1>1, <2>1 DEF RefusedInv
  <2>3. j # i
    BY <2>2, <1>1, <1>2, <1>3 DEF TypeInv
  <2>4. parts'[j] = parts[j] /\ file'[id] = file[id]
    BY <2>2, <2>3, <1>4, <1>7
  <2>5. ~(file'[id] # Absent /\ Len(file'[id]) = parts'[j].written)
    BY <2>2, <2>4 DEF SizeIs
  <2> QED BY <2>1, <2>2, <2>4, <2>5
<1> QED BY <1>8, <1>9, <1>10, <1>14, <1>15, <1>16 DEF IInv

LEMMA PartStepIs ==
  ASSUME IInv, NEW i \in Ids, Downloading(i)
  PROVE  /\ i \in DOMAIN parts /\ phase \in {"launch", "download"} /\ i < next
         /\ PartOK(parts[i]) /\ parts[i].id \in Ids /\ parts[i].written \in Nat
         /\ parts[i].start \in Nat /\ parts[i].stop \in Nat
         /\ file \in Files /\ suspect \subseteq Kinds \cup {"run"}
         /\ open \subseteq DOMAIN parts /\ (mode = "none" => open = {})
         /\ (mode # "none" => elected \in DOMAIN parts)
<1>1. i \in DOMAIN parts /\ phase \in {"launch", "download"} /\ i < next
  BY DEF Downloading
<1>2. PartOK(parts[i])
  BY <1>1, RunIs
<1> QED BY <1>1, <1>2, PartIs DEF IInv, TypeInv, ControlInv

\* Files that do not get shorter and change where they get longer do the states no harm.
LEMMA DiskGrows ==
  ASSUME IInv, UNCHANGED state, Kinds \cap suspect \subseteq suspect', file' \in Files,
         \A id \in Ids : Held(file', id) = Held(file, id) \/ Len(Held(file', id)) > Len(Held(file, id))
  PROVE  DiskFits'
<1> SUFFICES ASSUME NEW k \in Kinds, Loaded(k), k \notin suspect' PROVE Fits(file', state[k].parts)
  BY DEF DiskFits, Loaded
<1>1. Fits(file, state[k].parts) /\ SessionOK(state[k].single, state[k].parts) /\ file \in Files
  BY DEF IInv, DiskFits, TypeInv
<1> DEFINE f == file
           g == file'
           one == state[k].single
           ps == state[k].parts
<1>2. Fits(f, ps) /\ SessionOK(one, ps) /\ f \in Files /\ g \in Files
      /\ \A id \in Ids : Held(g, id) = Held(f, id) \/ Len(Held(g, id)) > Len(Held(f, id))
  BY <1>1
<1> HIDE DEF f, g, one, ps
<1>3. Fits(g, ps)
  BY <1>2, FitsGrow
<1> QED BY <1>3 DEF g, ps

\* One that is truncated or removed, unless a state counts on it.
LEMMA DiskCut ==
  ASSUME IInv, \A k \in Kinds : Loaded(k)' => Loaded(k) /\ state'[k] = state[k], NEW c \in Ids, file' \in Files, Held(file', c) = <<>>,
         \A id \in Ids : id # c => Held(file', id) = Held(file, id),
         suspect' = suspect \cup CountsOn(c)
  PROVE  DiskFits'
<1> SUFFICES ASSUME NEW k \in Kinds, Loaded(k), k \notin suspect' PROVE Fits(file', state[k].parts)
  BY DEF DiskFits
<1>1. Fits(file, state[k].parts) /\ SessionOK(state[k].single, state[k].parts) /\ file \in Files
  BY DEF IInv, DiskFits, TypeInv
<1>2. \A i \in DOMAIN state[k].parts : state[k].parts[i].id = c => state[k].parts[i].written = 0
  BY DEF CountsOn
<1> DEFINE f == file
           g == file'
           one == state[k].single
           ps == state[k].parts
<1>3. Fits(f, ps) /\ SessionOK(one, ps) /\ f \in Files /\ g \in Files
      /\ Held(g, c) = <<>> /\ (\A id \in Ids : id # c => Held(g, id) = Held(f, id))
      /\ \A i \in DOMAIN ps : ps[i].id = c => ps[i].written = 0
  BY <1>1, <1>2
<1> HIDE DEF f, g, one, ps
<1>4. Fits(g, ps)
  BY <1>3, FitsCut
<1> QED BY <1>4 DEF g, ps

\* What a step makes of one file.
LEMMA FileStep ==
  ASSUME file \in Files, NEW c \in Ids, NEW v \in Seq(Offsets) \cup {Absent},
         file' = [file EXCEPT ![c] = v]
  PROVE  /\ file' \in Files /\ file' = Put(file, c, v)
         /\ v # Absent => Held(file', c) = v
         /\ v = Absent => Held(file', c) = <<>>
         /\ \A id \in Ids : id # c => Held(file', id) = Held(file, id) /\ file'[id] = file[id]
<1> DEFINE f == file
           g == file'
<1>1. f \in Files /\ g = Put(f, c, v)
  BY DEF Put
<1> HIDE DEF f, g
<1>2. /\ g \in Files
      /\ v # Absent => Held(g, c) = v
      /\ v = Absent => Held(g, c) = <<>>
      /\ \A id \in Ids : id # c => Held(g, id) = Held(f, id) /\ g[id] = f[id]
  BY <1>1, HeldStep
<1> QED BY <1>1, <1>2 DEF f, g

LEMMA Answer206Inv ==
  ASSUME IInv, NEW i \in Ids, Answer206(i) PROVE IInv'
<1> DEFINE p == parts[i]
           v == Opened(p.id)
<1>1. /\ Downloading(i) /\ mode # "fallback" /\ i \notin open /\ mode' = "partial"
      /\ elected' = IF mode = "none" THEN i ELSE elected
      /\ open' = open \cup {i} /\ file' = [file EXCEPT ![p.id] = v]
      /\ parts' = parts /\ suspect' = suspect
      /\ UNCHANGED <<state, phase, name, restored, single, begun, next, endVars, sound, refused, last>>
  BY DEF Answer206, sessionVars, historyVars
<1>2. i \in DOMAIN parts /\ PartOK(p) /\ p.id \in Ids /\ p.written \in Nat
      /\ file \in Files /\ suspect \subseteq Kinds \cup {"run"}
      /\ (mode # "none" => elected \in DOMAIN parts)
  BY <1>1, PartStepIs
<1>3. v = Held(file, p.id) /\ v \in Seq(Offsets) /\ v # Absent
  <2>1. v = Held(file, p.id)
    BY DEF Opened, Bytes, Held
  <2> QED BY <2>1, <1>2, HeldIs, OffsetsIs
<1>4. /\ file' \in Files /\ file' = Put(file, p.id, v) /\ Held(file', p.id) = v
      /\ \A id \in Ids : id # p.id => Held(file', id) = Held(file, id)
  <2>1. v \in Seq(Offsets) \cup {Absent} /\ file' = [file EXCEPT ![p.id] = v]
    BY <1>1, <1>3
  <2> HIDE DEF v, p
  <2> QED BY <2>1, <1>2, <1>3, FileStep
<1>5. DiskFits'
  BY <1>1, <1>3, <1>4, DiskGrows
<1>6. parts' = Put(parts, i, p)
  <2>1. parts = [j \in DOMAIN parts |-> parts[j]]
    <3>1. phase # "idle"
      BY <1>1 DEF Downloading
    <3> QED BY <3>1, RunIs DEF SessionOK
  <2> QED BY <1>1, <1>2, <2>1 DEF Put
<1>7. PartFits(file, p) => PartFits(file', p)
  BY <1>3, <1>4 DEF PartFits
<1>8. elected' \in DOMAIN parts /\ open' \subseteq open \cup {i} /\ i \in open'
      /\ mode' \in {"partial", "fallback"} /\ mode' # "fallback" /\ p.written >= p.written
      /\ suspect' \subseteq Kinds \cup {"run"}
  BY <1>1, <1>2
<1> HIDE DEF v
<1> QED BY <1>1, <1>2, <1>3, <1>4, <1>5, <1>6, <1>7, <1>8, PartStepInv

LEMMA Answer200Inv ==
  ASSUME IInv, NEW i \in Ids, Answer200(i) PROVE IInv'
<1> DEFINE p == [parts[i] EXCEPT !.start = 0, !.stop = ResetStop]
           v == <<>>
<1>1. /\ Downloading(i) /\ mode = "none" /\ parts[i].written = 0
      /\ mode' = "fallback" /\ elected' = i /\ open' = {i}
      /\ file' = [file EXCEPT ![parts[i].id] = v]
      /\ parts' = [parts EXCEPT ![i].start = 0, ![i].stop = ResetStop]
      /\ suspect' = suspect \cup CountsOn(parts[i].id)
      /\ UNCHANGED <<state, phase, name, restored, single, begun, next, endVars, sound, refused, last>>
  BY DEF Answer200
<1>2. i \in DOMAIN parts /\ PartOK(parts[i]) /\ parts[i].id \in Ids /\ parts[i].start \in Nat
      /\ file \in Files /\ suspect \subseteq Kinds \cup {"run"}
  BY <1>1, PartStepIs
<1>3. /\ p \in PartRecords /\ p.id = parts[i].id /\ p.start = 0 /\ p.stop = Length - 1
      /\ p.written = 0
  BY <1>1, <1>2, HalfIs DEF PartOK, PartRecords, ResetStop
<1>4. PartOK(p) /\ WholeBody(p)
  BY <1>3, HalfIs DEF PartOK, WholeBody, PartLen
<1>5. parts' = Put(parts, i, p)
  BY <1>1 DEF Put
<1> HIDE DEF p
<1>6. v \in Seq(Offsets) /\ v # Absent /\ Len(v) = 0 /\ v = Slice(p.start, p.start + p.written)
  <2>1. v = Slice(0, 0 + 0)
    BY SliceEmpty
  <2> QED BY <2>1, <1>3, OffsetsIs
<1>7. /\ file' \in Files /\ file' = Put(file, p.id, v) /\ Held(file', p.id) = v
      /\ \A id \in Ids : id # p.id => Held(file', id) = Held(file, id)
  <2>1. v \in Seq(Offsets) \cup {Absent} /\ file' = [file EXCEPT ![p.id] = v] /\ p.id \in Ids
    BY <1>1, <1>2, <1>3, <1>6
  <2> HIDE DEF v
  <2> QED BY <2>1, <1>2, <1>6, FileStep
<1>8. DiskFits'
  <2>1. Held(file', p.id) = <<>> /\ suspect' = suspect \cup CountsOn(p.id) /\ p.id \in Ids
        /\ \A k \in Kinds : Loaded(k)' => Loaded(k) /\ state'[k] = state[k]
    BY <1>1, <1>2, <1>3, <1>7 DEF Loaded
  <2> QED BY <2>1, <1>7, DiskCut
<1>9. PartFits(file', p)
  BY <1>3, <1>6, <1>7 DEF PartFits
<1>10. suspect' \subseteq Kinds \cup {"run"} /\ ("run" \in suspect => "run" \in suspect')
  BY <1>1, <1>2 DEF CountsOn
<1>11. elected' \in DOMAIN parts /\ open' \subseteq open \cup {i} /\ i \in open'
       /\ mode' \in {"partial", "fallback"} /\ open' \subseteq {elected'}
       /\ p.written >= parts[i].written
  BY <1>1, <1>2, <1>3
<1> HIDE DEF v
<1> QED BY <1>1, <1>2, <1>3, <1>4, <1>5, <1>6, <1>7, <1>8, <1>9, <1>10, <1>11, PartStepInv

LEMMA WriteInv ==
  ASSUME IInv, NEW i \in Ids, Write(i) PROVE IInv'
<1> DEFINE old == parts[i]
           p == [parts[i] EXCEPT !.written = @ + 1]
           at == parts[i].start + parts[i].written
           v == Append(file[parts[i].id], at)
<1>1. /\ Downloading(i) /\ i \in open /\ ~IsDone(old)
      /\ file' = [file EXCEPT ![old.id] = v]
      /\ parts' = [parts EXCEPT ![i].written = @ + 1]
      /\ suspect' = suspect /\ UNCHANGED <<mode, elected, open>>
      /\ UNCHANGED <<state, phase, name, restored, single, begun, next, endVars, sound, refused, last>>
  BY DEF Write, historyVars
<1>2. i \in DOMAIN parts /\ phase \in {"launch", "download"} /\ PartOK(old) /\ old.id \in Ids
      /\ old.written \in Nat /\ old.start \in Nat /\ old.stop \in Nat
      /\ file \in Files /\ suspect \subseteq Kinds \cup {"run"}
      /\ (mode = "none" => open = {}) /\ (mode # "none" => elected \in DOMAIN parts)
  BY <1>1, PartStepIs
<1>3. old.written < PartLen(old) /\ PartLen(old) \in Nat /\ old.start + PartLen(old) = old.stop + 1
      /\ old.stop < Length
  BY <1>1, <1>2, PartIs DEF IsDone
<1>4. at \in Nat /\ at = old.start + old.written /\ at + 1 = old.start + (old.written + 1)
      /\ old.start <= at /\ at \in Offsets
  BY <1>2, <1>3, HalfIs DEF Offsets
<1>5. p \in PartRecords /\ p.id = old.id /\ p.start = old.start /\ p.stop = old.stop
      /\ p.written = old.written + 1
  BY <1>2 DEF PartOK, PartRecords
<1>6. PartOK(p)
  BY <1>2, <1>3, <1>5 DEF PartOK, PartLen, LowerHalf, UpperHalf, WholeBody
<1>7. parts' = Put(parts, i, p)
  BY <1>1 DEF Put
<1>8. file[old.id] # Absent /\ mode # "none"
  <2>1. file[parts[i].id] # Absent
    BY <1>1, <1>2 DEF IInv, ControlInv
  <2> QED BY <2>1, <1>1, <1>2
<1>9. Held(file, old.id) = file[old.id] /\ file[old.id] \in Seq(Offsets)
      /\ Len(file[old.id]) \in Nat
  <2>1. Held(file, old.id) = file[old.id] /\ file[old.id] \in Seq(Offsets)
        /\ Len(Held(file, old.id)) \in Nat
    BY <1>2, <1>8, HeldIs
  <2> QED BY <2>1
<1>10. v \in Seq(Offsets) /\ v # Absent /\ Len(v) = Len(file[old.id]) + 1
  <2>1. v \in Seq(Offsets) /\ Len(v) = Len(file[old.id]) + 1
    BY <1>4, <1>9, AppendProperties
  <2> QED BY <2>1, OffsetsIs
<1>11. Held(file, old.id) = Slice(old.start, old.start + old.written)
         => v = Slice(p.start, p.start + p.written)
  <2> SUFFICES ASSUME Held(file, old.id) = Slice(old.start, at)
               PROVE  v = Slice(old.start, at + 1)
    BY <1>4, <1>5
  <2>1. Append(Slice(old.start, at), at) = Slice(old.start, at + 1)
    BY <1>2, <1>4, SliceAppend
  <2> QED BY <2>1, <1>9
<1> HIDE DEF old, p, at, v
<1>12. /\ file' \in Files /\ file' = Put(file, p.id, v) /\ Held(file', p.id) = v
       /\ \A id \in Ids : id # p.id => Held(file', id) = Held(file, id)
  <2>1. file' = [file EXCEPT ![p.id] = v] /\ p.id \in Ids /\ v \in Seq(Offsets) \cup {Absent}
    BY <1>1, <1>2, <1>5, <1>10
  <2> QED BY <2>1, <1>2, <1>10, FileStep
<1>13. DiskFits'
  <2>1. Len(Held(file', old.id)) > Len(Held(file, old.id))
    BY <1>5, <1>9, <1>10, <1>12
  <2>2. \A id \in Ids : Held(file', id) = Held(file, id) \/ Len(Held(file', id)) > Len(Held(file, id))
    BY <2>1, <1>5, <1>12
  <2> QED BY <2>2, <1>1, <1>12, DiskGrows
<1>14. PartFits(file, old) => PartFits(file', p)
  <2> SUFFICES ASSUME PartFits(file, old) PROVE PartFits(file', p)
    OBVIOUS
  <2>1. Len(v) >= p.written
    BY <1>2, <1>5, <1>9, <1>10 DEF PartFits
  <2>2. Len(v) = p.written => Len(file[old.id]) = old.written
    BY <1>2, <1>5, <1>9, <1>10
  <2>3. Len(v) = p.written => v = Slice(p.start, p.start + p.written)
    BY <2>2, <1>9, <1>11 DEF PartFits
  <2> QED BY <2>1, <2>3, <1>12 DEF PartFits
<1>15. open' \subseteq open \cup {i} /\ i \in open' /\ elected' \in DOMAIN parts
       /\ mode' \in {"partial", "fallback"} /\ (mode' = "fallback" => open' \subseteq {elected'})
       /\ p.written >= old.written /\ suspect' \subseteq Kinds \cup {"run"}
  <2>1. mode \in {"partial", "fallback"}
    BY <1>8 DEF IInv, TypeInv
  <2>2. mode = "fallback" => open \subseteq {elected}
    BY <1>2 DEF IInv, ControlInv
  <2> QED BY <2>1, <2>2, <1>1, <1>2, <1>5, <1>8
<1>16. old = parts[i]
  BY DEF old
<1> QED
  BY <1>1, <1>2, <1>5, <1>6, <1>7, <1>10, <1>11, <1>12, <1>13, <1>14, <1>15, <1>16, PartStepInv

LEMMA CollapseInv == IInv /\ Collapse => IInv'
<1> SUFFICES ASSUME IInv, Collapse PROVE IInv'
  OBVIOUS
<1> DEFINE p == parts[elected]
<1>1. /\ phase = "download" /\ mode = "fallback" /\ ~restored /\ ~single
      /\ single' = TRUE /\ parts' = <<p>> /\ elected' = 1
      /\ open' = (IF open = {} THEN {} ELSE {1}) /\ next' = 2
      /\ sound' = (sound /\ begun = 0)
      /\ UNCHANGED <<file, state, output, phase, runs, name, restored, begun, mode, canceled, err,
                     suspect, refused, last>>
  BY DEF Collapse, diskVars, endVars
<1>2. TypeInv /\ ControlInv /\ DiskFits /\ RunFits /\ ProgressInv /\ LastInv
  BY DEF IInv
<1>3. elected \in DOMAIN parts /\ open \subseteq {elected}
  BY <1>1, <1>2 DEF ControlInv
<1>4. SessionOK(single, parts) /\ PartOK(p) /\ Len(parts) = 2
  BY <1>1, <1>3, RunIs
<1>5. p \in PartRecords /\ p.written \in Nat
  BY <1>4, PartIs DEF PartOK
<1> HIDE DEF p
<1>6. DOMAIN parts' = 1 .. 1 /\ parts'[1] = p /\ Len(parts') = 1 /\ parts' \in [1 .. 1 -> PartRecords]
  <2>1. parts' = [j \in 1 .. 1 |-> p]
    BY <1>1
  <2> QED BY <2>1, <1>1, <1>5
<1>7. SessionOK(single', parts')
  BY <1>1, <1>4, <1>6 DEF SessionOK
<1>8. Total(parts') \in Nat
  BY <1>7, TotalIs
<1>9. TypeInv'
  <2>1. \A k \in Kinds : Loaded(k)' <=> Loaded(k)
    BY <1>1 DEF Loaded
  <2> QED BY <1>1, <1>2, <1>7, <2>1 DEF TypeInv
<1>10. ControlInv'
  <2>1. open = {} \/ open = {elected}
    BY <1>3
  <2>2. open # {} => file[p.id] # Absent
    BY <1>1, <1>2, <2>1 DEF ControlInv, p
  <2> QED BY <1>1, <1>2, <1>6, <2>2 DEF ControlInv
<1>11. DiskFits'
  BY <1>1, <1>2 DEF DiskFits, Loaded
<1>12. RunFits'
  <2> SUFFICES ASSUME "run" \notin suspect
               PROVE  Fits(file', parts') /\ AnswerFits' /\ ConcatFits' /\ FinishFits' /\ EndFits'
    BY <1>1 DEF RunFits
  <2>1. PartFits(file, p)
    BY <1>1, <1>2, <1>3 DEF RunFits, AnswerFits, p
  <2>2. \A j \in DOMAIN parts' : PartFits(file', parts'[j])
    BY <1>1, <1>6, <2>1
  <2> QED BY <1>1, <2>2 DEF Fits, AnswerFits, ConcatFits, FinishFits, EndFits
<1>13. ProgressInv'
  <2>1. Matches(parts) => Matches(parts)'
    BY <1>1, <1>3, <1>6 DEF Matches, Bytes, p
  <2>2. sound => Matches(parts)
    BY <1>1, <1>2 DEF ProgressInv
  <2>3. \A k \in Kinds : Loaded(k)' <=> Loaded(k)
    BY <1>1 DEF Loaded
  <2>4. \A k \in Kinds : Loaded(k) /\ Len(state[k].parts) = 2 => Total(state[k].parts) > 0
    BY <1>2 DEF ProgressInv
  <2>5. Total(parts)' = Total(parts')
    OBVIOUS
  <2>6. sound' => sound /\ begun = 0
    BY <1>1
  <2>7. begun = 0 => Total(parts') >= begun
    BY <1>8
  <2> QED BY <1>1, <1>6, <2>1, <2>2, <2>3, <2>4, <2>5, <2>6, <2>7 DEF ProgressInv
<1>14. LastInv'
  <2>1. last = "none"
    BY <1>1, <1>2 DEF LastInv
  <2>2. name # "none" => Loaded(name)' /\ Total(state[name].parts)' = begun'
    BY <1>1, <1>2 DEF LastInv, Running, Loaded
  <2>3. name # "none" => ~sound'
    <3> SUFFICES ASSUME name # "none", sound, begun = 0 PROVE FALSE
      BY <1>1
    <3>1. Loaded(name) /\ Total(state[name].parts) = 0 /\ Continues(state[name].parts)
      BY <1>1, <1>2 DEF LastInv, Running
    <3>2. Len(state[name].parts) = 2
      BY <3>1, <1>4 DEF Continues
    <3>3. name \in Kinds
      BY <1>2 DEF TypeInv
    <3>4. Total(state[name].parts) > 0
      BY <3>1, <3>2, <3>3, <1>2 DEF ProgressInv
    <3> QED BY <3>1, <3>4
  <2> QED BY <1>1, <2>1, <2>2, <2>3 DEF LastInv, Running
<1>15. RefusedInv'
  BY <1>1, NoneRefused DEF RefusedInv
<1> QED BY <1>9, <1>10, <1>11, <1>12, <1>13, <1>14, <1>15 DEF IInv

-----------------------------------------------------------------------------
(* The concatenation.                                                      *)

LEMMA ConcatIs ==
  ASSUME IInv, phase = "concat"
  PROVE  /\ single = FALSE /\ Len(parts) = 2 /\ DOMAIN parts = 1 .. 2 /\ SessionOK(FALSE, parts)
         /\ parts[1].id = 1 /\ parts[2].id = 2 /\ First = 1 /\ Last = 2
         /\ parts[1].written \in Nat /\ parts[1].written # 0 /\ IsDone(parts[1])
         /\ parts[2].written \in Nat /\ parts[2].written # 0 /\ IsDone(parts[2])
         /\ file \in Files /\ file[1] # Absent /\ file[2] # Absent
         /\ file[1] \in Seq(Offsets) /\ file[2] \in Seq(Offsets)
         /\ Held(file, 1) = file[1] /\ Held(file, 2) = file[2]
         /\ Len(file[1]) \in Nat /\ Len(file[1]) >= parts[1].written
         /\ Len(file[2]) = parts[2].written
<1>1. ~single /\ SizeIs(2, parts[2].written) /\ file[1] # Absent
      /\ Len(file[1]) >= parts[1].written /\ file \in Files /\ \A i \in DOMAIN parts : IsDone(parts[i])
  BY DEF IInv, TypeInv, ControlInv
<1>2. SessionOK(single, parts) /\ single \in BOOLEAN /\ Len(parts) = 2 /\ DOMAIN parts = 1 .. Len(parts)
  BY <1>1, RunIs
<1>3. single = FALSE /\ DOMAIN parts = 1 .. 2 /\ 1 \in DOMAIN parts /\ 2 \in DOMAIN parts
  BY <1>1, <1>2
<1>4. parts[1].id = 1 /\ parts[2].id = 2
  BY <1>1, <1>2 DEF SessionOK
<1>5. First = 1 /\ Last = 2
  BY <1>2, <1>4 DEF First, Last
<1>6. PartOK(parts[1]) /\ PartOK(parts[2])
  BY <1>2, <1>3, SessionIs
<1>7. parts[1].written \in Nat /\ parts[2].written \in Nat
      /\ parts[1].written # 0 /\ parts[2].written # 0
  BY <1>1, <1>3, <1>6, PartIs DEF IsDone
<1>8. file[2] # Absent /\ Len(file[2]) = parts[2].written
  BY <1>1 DEF SizeIs
<1>9. Held(file, 1) = file[1] /\ Held(file, 2) = file[2]
      /\ file[1] \in Seq(Offsets) /\ file[2] \in Seq(Offsets)
  BY <1>1, <1>8, HeldIs DEF Ids
<1>10. Len(file[1]) \in Nat
  BY <1>9, LenProperties
<1> QED BY <1>1, <1>2, <1>3, <1>4, <1>5, <1>7, <1>8, <1>9, <1>10

\* What is common to the two steps: the parts are no longer what the session says.
LEMMA ConcatStepInv ==
  ASSUME IInv, phase = "concat", phase' \in {"concat", "finish"}, ~sound', DiskFits', ControlInv',
         file' \in Files, suspect' \subseteq Kinds \cup {"run"}, "run" \in suspect => "run" \in suspect',
         "run" \notin suspect => Fits(file', parts) /\ ConcatFits' /\ FinishFits',
         UNCHANGED <<state, sessionVars, begun, next, mode, elected, open, endVars, refused, last>>
  PROVE  IInv'
<1> USE DEF sessionVars, endVars
<1>1. \A k \in Kinds : Loaded(k)' <=> Loaded(k)
  BY DEF Loaded
<1>2. TypeInv'
  BY <1>1 DEF IInv, TypeInv, Phases
<1>3. RunFits'
  BY DEF IInv, RunFits, AnswerFits, EndFits
<1>4. ProgressInv'
  BY <1>1 DEF IInv, ProgressInv
<1>5. LastInv'
  BY <1>1 DEF IInv, LastInv, Running, Loaded
<1>6. RefusedInv'
  BY NoneRefused DEF RefusedInv
<1> QED BY <1>2, <1>3, <1>4, <1>5, <1>6 DEF IInv

LEMMA CopyByteInv == IInv /\ CopyByte => IInv'
<1> SUFFICES ASSUME IInv, CopyByte PROVE IInv'
  OBVIOUS
<1> DEFINE one == file[1]
           two == file[2]
           n == parts[1].written
           m == Len(one) - n
           v == Append(one, two[m + 1])
<1>1. phase = "concat"
  BY DEF CopyByte
<1>2. /\ single = FALSE /\ Len(parts) = 2 /\ DOMAIN parts = 1 .. 2 /\ SessionOK(FALSE, parts)
      /\ parts[1].id = 1 /\ parts[2].id = 2 /\ First = 1 /\ Last = 2
      /\ n \in Nat /\ n # 0 /\ IsDone(parts[1]) /\ IsDone(parts[2])
      /\ file \in Files /\ file[1] # Absent /\ file[2] # Absent
      /\ one \in Seq(Offsets) /\ two \in Seq(Offsets)
      /\ Held(file, 1) = one /\ Held(file, 2) = two
      /\ Len(one) \in Nat /\ Len(one) >= n /\ Len(two) = parts[2].written
      /\ parts[2].written \in Nat
  BY <1>1, ConcatIs
<1>3. /\ m < Len(two) /\ file' = [file EXCEPT ![1] = v] /\ ~sound'
      /\ phase' = "concat" /\ suspect' = suspect
      /\ UNCHANGED <<state, sessionVars, begun, next, mode, elected, open, endVars, refused, last>>
  BY <1>1, <1>2 DEF CopyByte, Copied
<1>4. m \in Nat /\ m + 1 \in 1 .. Len(two) /\ n + m = Len(one)
  BY <1>2, <1>3
<1>5. two[m + 1] \in Offsets
  <2>1. two \in [1 .. Len(two) -> Offsets]
    BY <1>2, LenProperties
  <2> QED BY <2>1, <1>4
<1>6. v \in Seq(Offsets) /\ Len(v) = Len(one) + 1 /\ v # Absent
  <2>1. v \in Seq(Offsets) /\ Len(v) = Len(one) + 1
    BY <1>2, <1>5, AppendProperties
  <2> QED BY <2>1, OffsetsIs
<1>7. ASSUME one = Slice(0, Len(one)), two = Slice(Half, Length), n = Half
      PROVE  v = Slice(0, Len(v))
  <2>1. two[m + 1] = Half + (m + 1) - 1
    <3>1. m + 1 \in 1 .. (Length - Half)
      <4>1. Len(two) = Length - Half
        BY <1>7, HalfIs, SliceIs
      <4> QED BY <4>1, <1>4
    <3>2. \A k \in 1 .. (Length - Half) : Slice(Half, Length)[k] = Half + k - 1
      BY DEF Slice
    <3> HIDE DEF m
    <3> QED BY <3>1, <3>2, <1>7
  <2>2. two[m + 1] = Len(one)
    <3>1. m \in Int /\ Half + m = Len(one) /\ Half \in Int
      BY <1>4, <1>7, HalfIs
    <3> HIDE DEF m
    <3> QED BY <2>1, <3>1
  <2>3. Append(Slice(0, Len(one)), Len(one)) = Slice(0, Len(one) + 1)
    <3> DEFINE a == 0
               b == Len(one)
    <3>1. a \in Nat /\ b \in Nat /\ a <= b
      BY <1>2
    <3> HIDE DEF a, b
    <3>2. Append(Slice(a, b), b) = Slice(a, b + 1)
      BY <3>1, SliceAppend
    <3> QED BY <3>2 DEF a, b
  <2> QED BY <2>2, <2>3, <1>6, <1>7
<1> HIDE DEF one, two, n, m, v
<1>8. /\ file' \in Files /\ Held(file', 1) = v /\ file'[1] = v /\ file'[2] = two
      /\ \A id \in Ids : id # 1 => Held(file', id) = Held(file, id) /\ file'[id] = file[id]
  <2>1. v \in Seq(Offsets) \cup {Absent} /\ 1 \in Ids
    BY <1>6 DEF Ids
  <2>2. /\ file' \in Files /\ Held(file', 1) = v
        /\ \A id \in Ids : id # 1 => Held(file', id) = Held(file, id) /\ file'[id] = file[id]
    BY <2>1, <1>2, <1>3, <1>6, FileStep
  <2>3. file'[1] = v
    BY <2>1, <1>2, <1>3 DEF Files
  <2> QED BY <2>2, <2>3 DEF two, Ids
<1>9. \A id \in Ids : Held(file', id) = Held(file, id) \/ Len(Held(file', id)) > Len(Held(file, id))
  <2>1. Len(v) > Len(one)
    BY <1>2, <1>6
  <2> QED BY <2>1, <1>2, <1>8
<1>10. DiskFits'
  BY <1>3, <1>8, <1>9, DiskGrows
<1>11. ControlInv'
  <2>1. SizeIs(2, parts[2].written)'
    BY <1>2, <1>3, <1>8 DEF SizeIs, sessionVars
  <2>2. file'[1] # Absent /\ Len(file'[1]) >= n
    BY <1>2, <1>6, <1>8
  <2> QED BY <1>1, <1>2, <1>3, <2>1, <2>2 DEF IInv, ControlInv, sessionVars, endVars, n
<1>12. ASSUME "run" \notin suspect PROVE Fits(file', parts) /\ ConcatFits' /\ FinishFits'
  <2>1. ConcatFits /\ Fits(file, parts)
    BY <1>1, <1>12 DEF IInv, RunFits
  <2>2. \A i \in DOMAIN parts : PartFits(file', parts[i])
    <3>1. PartFits(file', parts[1])
      <4>1. Len(v) > n
        BY <1>2, <1>6
      <4> QED BY <4>1, <1>2, <1>8 DEF PartFits, n
    <3>2. PartFits(file', parts[2])
      <4>1. PartFits(file, parts[2])
        BY <1>1, <1>2, <2>1 DEF ConcatFits
      <4> QED BY <4>1, <1>2, <1>8 DEF PartFits, Ids
    <3> QED BY <3>1, <3>2, <1>2
  <2>3. ASSUME Total(parts) = Length
        PROVE  file'[1] = Slice(0, Len(file'[1])) /\ file'[2] = Slice(Half, Length)
    <3>1. n = Half
      <4>1. \A i \in DOMAIN parts : IsDone(parts[i])
        BY <1>2
      <4> QED BY <4>1, <1>2, <2>3, HalvesAre DEF n
    <3>2. one = Slice(0, Len(one)) /\ two = Slice(Half, Length)
      BY <1>1, <2>1, <2>3 DEF ConcatFits, one, two
    <3> QED BY <3>1, <3>2, <1>7, <1>8
  <2> QED BY <1>3, <2>2, <2>3 DEF Fits, ConcatFits, FinishFits, sessionVars
<1>13. suspect' \subseteq Kinds \cup {"run"}
  BY <1>3 DEF IInv, TypeInv
<1> QED BY <1>1, <1>3, <1>8, <1>10, <1>11, <1>12, <1>13, ConcatStepInv

LEMMA RemoveMergedInv == IInv /\ RemoveMerged => IInv'
<1> SUFFICES ASSUME IInv, RemoveMerged PROVE IInv'
  OBVIOUS
<1> DEFINE one == file[1]
           n == parts[1].written
<1>1. phase = "concat"
  BY DEF RemoveMerged
<1>2. /\ single = FALSE /\ Len(parts) = 2 /\ DOMAIN parts = 1 .. 2 /\ SessionOK(FALSE, parts)
      /\ parts[1].id = 1 /\ parts[2].id = 2 /\ First = 1 /\ Last = 2
      /\ n \in Nat /\ n # 0 /\ IsDone(parts[1])
      /\ parts[2].written \in Nat /\ parts[2].written # 0 /\ IsDone(parts[2])
      /\ file \in Files /\ file[1] # Absent /\ Held(file, 1) = one
      /\ Len(one) \in Nat /\ Len(file[2]) = parts[2].written
  BY <1>1, ConcatIs
<1>3. /\ Len(one) - n = Len(file[2]) /\ file' = [file EXCEPT ![2] = Absent]
      /\ phase' = "finish" /\ suspect' = suspect \cup CountsOn(2) /\ sound' = sound
      /\ UNCHANGED <<state, sessionVars, begun, next, mode, elected, open, endVars, refused, last>>
  BY <1>2 DEF RemoveMerged, Copied
<1>4. Len(one) > n
  BY <1>2, <1>3
<1>5. ~sound
  <2> SUFFICES ASSUME sound PROVE FALSE
    OBVIOUS
  <2>1. Matches(parts)
    BY <1>1 DEF IInv, ProgressInv
  <2>2. one = Slice(parts[1].start, parts[1].start + n)
    <3>1. 1 \in DOMAIN parts /\ Bytes(parts[1].id) = one
      BY <1>2 DEF Bytes
    <3> HIDE DEF one
    <3> QED BY <3>1, <2>1 DEF Matches
  <2>3. parts[1].start \in Nat
    <3>1. PartOK(parts[1])
      BY <1>2 DEF SessionOK
    <3> QED BY <3>1, PartIs
  <2>4. Len(one) = (parts[1].start + n) - parts[1].start
    <3> DEFINE a == parts[1].start
               b == parts[1].start + n
    <3>1. a \in Nat /\ b \in Nat /\ a <= b
      BY <2>3, <1>2
    <3> HIDE DEF a, b
    <3>2. Len(Slice(a, b)) = b - a
      BY <3>1, SliceIs
    <3> QED BY <3>2, <2>2 DEF a, b
  <2> QED BY <2>3, <2>4, <1>2, <1>4
<1> HIDE DEF one, n
<1>6. /\ file' \in Files /\ Held(file', 2) = <<>> /\ Held(file', 1) = one /\ file'[1] = one
      /\ \A id \in Ids : id # 2 => Held(file', id) = Held(file, id) /\ file'[id] = file[id]
  <2> DEFINE v == Absent
  <2>1. v \in Seq(Offsets) \cup {Absent} /\ 2 \in Ids /\ file' = [file EXCEPT ![2] = v] /\ v = Absent
    BY <1>3 DEF Ids
  <2> HIDE DEF v
  <2>2. /\ file' \in Files /\ Held(file', 2) = <<>>
        /\ \A id \in Ids : id # 2 => Held(file', id) = Held(file, id) /\ file'[id] = file[id]
    BY <2>1, <1>2, FileStep
  <2> QED BY <2>2, <1>2 DEF Ids, one
<1>7. DiskFits'
  <2>1. 2 \in Ids /\ \A k \in Kinds : Loaded(k)' => Loaded(k) /\ state'[k] = state[k]
    BY <1>3 DEF Ids, Loaded
  <2> QED BY <2>1, <1>3, <1>6, DiskCut
<1>8. ControlInv'
  BY <1>1, <1>3 DEF IInv, ControlInv, sessionVars, endVars
<1>9. ASSUME "run" \notin suspect PROVE Fits(file', parts) /\ ConcatFits' /\ FinishFits'
  <2>1. Swallowed(file', parts)
    BY <1>2, <1>4, <1>6 DEF Swallowed, IsContentDownloaded, n
  <2>2. ASSUME Total(parts) = Length, Len(one) = Length PROVE one = Body
    BY <1>1, <1>9, <2>2 DEF IInv, RunFits, ConcatFits, Body, one
  <2>3. First' = 1 /\ parts' = parts
    BY <1>2, <1>3 DEF First, sessionVars
  <2>4. FinishFits'
    BY <2>2, <2>3, <1>6 DEF FinishFits, FirstIsBody, HasLength, SizeIs
  <2> QED BY <1>3, <2>1, <2>4 DEF Fits, ConcatFits
<1>10. suspect' \subseteq Kinds \cup {"run"}
  BY <1>3 DEF IInv, TypeInv, CountsOn
<1> QED BY <1>1, <1>3, <1>5, <1>6, <1>7, <1>8, <1>9, <1>10, ConcatStepInv

-----------------------------------------------------------------------------
(* The deferred function.                                                  *)

LEMMA KindIs == Kind \in Kinds /\ Kind # "none"
BY DEF Kind, Kinds

LEMMA CreateStateInv == IInv /\ CreateState => IInv'
<1> SUFFICES ASSUME IInv, CreateState PROVE IInv'
  OBVIOUS
<1> USE DEF sessionVars, endVars, historyVars
<1>1. /\ phase = "end" /\ phase' = "save" /\ Outcome \in {"advance", "withError"}
      /\ state' = [state EXCEPT ![Kind] = Broken]
      /\ UNCHANGED <<file, sessionVars, begun, next, mode, elected, open, endVars, historyVars>>
  BY DEF CreateState
<1>2. TypeInv /\ ControlInv /\ DiskFits /\ RunFits /\ ProgressInv /\ LastInv /\ RefusedInv
  BY DEF IInv
<1>3. state' = [k \in Kinds |-> state'[k]] /\ \A k \in Kinds : Loaded(k)' => Loaded(k) /\ state'[k] = state[k]
  BY <1>1, <1>2, KindIs DEF TypeInv, Loaded
<1>4. TypeInv'
  BY <1>1, <1>2, <1>3 DEF TypeInv, Phases
<1>5. ControlInv'
  BY <1>1, <1>2 DEF ControlInv
<1>6. DiskFits'
  BY <1>1, <1>2, <1>3 DEF DiskFits
<1>7. RunFits'
  BY <1>1, <1>2 DEF RunFits, AnswerFits, ConcatFits, FinishFits, EndFits
<1>8. ProgressInv'
  <2>1. ASSUME Len(parts) = 2 PROVE Total(parts) > 0
    <3>1. Total(parts) \in Nat /\ begun \in Nat /\ Total(parts) >= begun
      BY <2>1, <1>1, <1>2, RunIs, TotalIs DEF ProgressInv, TypeInv
    <3>2. Total(parts) = Length \/ Total(parts) # begun
      BY <1>1 DEF Outcome
    <3> QED BY <3>1, <3>2, HalfIs
  <2>2. Matches(parts) => Matches(parts)'
    BY <1>1 DEF Matches, Bytes
  <2> QED BY <1>1, <1>2, <1>3, <2>1, <2>2 DEF ProgressInv
<1>9. LastInv'
  BY <1>1, <1>2 DEF LastInv, Running
<1>10. RefusedInv'
  BY <1>1, <1>2 DEF RefusedInv
<1> QED BY <1>4, <1>5, <1>6, <1>7, <1>8, <1>9, <1>10 DEF IInv

\* What is encoded can be told from what is not there.
LEMMA EncodedIsLoaded ==
  ASSUME NEW one, NEW ps, SessionOK(one, ps)
  PROVE  [single |-> one, parts |-> ps] \notin {None, Broken}
<1> DEFINE Any == [id : Int, start : Int, stop : Int, written : Int]
<1>1. PartRecords \subseteq Any
  BY DEF PartRecords, Ids
<1>2. one \in BOOLEAN
  BY DEF SessionOK
<1>3. ps \in Seq(Any)
  <2>1. ps \in Seq(PartRecords)
    BY SessionIs
  <2> HIDE DEF Any
  <2>2. ps \in [1 .. Len(ps) -> PartRecords] /\ Len(ps) \in Nat
    BY <2>1, LenProperties
  <2>3. ps \in [1 .. Len(ps) -> Any]
    BY <1>1, <2>2
  <2> QED BY <2>2, <2>3, FunctionIsSeq
<1>4. [single |-> one, parts |-> ps] \in [single : BOOLEAN, parts : Seq(Any)]
  <2> HIDE DEF Any
  <2> QED BY <1>2, <1>3
<1> QED BY <1>4, AbsenceAssumption

LEMMA EncodeStateInv == IInv /\ EncodeState => IInv'
<1> SUFFICES ASSUME IInv, EncodeState PROVE IInv'
  OBVIOUS
<1> USE DEF sessionVars, endVars
<1>1. /\ phase = "save" /\ phase' = "close"
      /\ state' = [state EXCEPT ![Kind] = [single |-> single, parts |-> parts]]
      /\ suspect' = IF "run" \in suspect THEN suspect \cup {Kind} ELSE suspect \ {Kind}
      /\ last' = IF sound THEN Kind ELSE "none"
      /\ UNCHANGED <<file, sessionVars, begun, next, mode, elected, open, endVars, sound, refused>>
  BY DEF EncodeState
<1>2. TypeInv /\ ControlInv /\ DiskFits /\ RunFits /\ ProgressInv /\ RefusedInv
  BY DEF IInv
<1>3. SessionOK(single, parts)
  BY <1>1, RunIs
<1>4. /\ state' = [k \in Kinds |-> state'[k]] /\ Loaded(Kind)'
      /\ state'[Kind].single = single /\ state'[Kind].parts = parts
      /\ \A k \in Kinds : k # Kind => (Loaded(k)' <=> Loaded(k)) /\ state'[k] = state[k]
  <2>1. state' = [k \in Kinds |-> state'[k]] /\ state'[Kind] = [single |-> single, parts |-> parts]
        /\ \A k \in Kinds : k # Kind => state'[k] = state[k]
    BY <1>1, <1>2, KindIs DEF TypeInv
  <2>2. Kind' = Kind
    BY <1>1 DEF Kind
  <2>3. state'[Kind] \notin {None, Broken}
    BY <2>1, <1>3, EncodedIsLoaded
  <2>4. Loaded(Kind)'
    BY <2>2, <2>3 DEF Loaded
  <2> QED BY <2>1, <2>4 DEF Loaded
<1>5. TypeInv'
  <2>1. \A k \in Kinds : Loaded(k)' => SessionOK(state'[k].single, state'[k].parts)
    BY <1>2, <1>3, <1>4 DEF TypeInv
  <2>2. suspect' \subseteq Kinds \cup {"run"}
    BY <1>1, <1>2, KindIs DEF TypeInv
  <2> QED BY <1>1, <1>2, <1>4, <2>1, <2>2 DEF TypeInv, Phases
<1>6. ControlInv'
  BY <1>1, <1>2 DEF ControlInv
<1>7. DiskFits'
  <2> SUFFICES ASSUME NEW k \in Kinds, Loaded(k)', k \notin suspect' PROVE Fits(file, state'[k].parts)
    BY <1>1 DEF DiskFits
  <2>1. CASE k = Kind
    <3>1. "run" \notin suspect
      BY <1>1, <2>1
    <3> QED BY <3>1, <2>1, <1>1, <1>2, <1>4 DEF RunFits
  <2>2. CASE k # Kind
    BY <2>2, <1>1, <1>2, <1>4 DEF DiskFits
  <2> QED BY <2>1, <2>2
<1>8. RunFits'
  <2>1. "run" \notin suspect' => "run" \notin suspect
    BY <1>1
  <2> QED BY <2>1, <1>1, <1>2 DEF RunFits, AnswerFits, ConcatFits, FinishFits, EndFits
<1>9. Matches(parts) => Matches(parts)' /\ Matches(state[Kind].parts)'
  <2>1. (state[Kind].parts)' = parts
    <3>1. Kind' = Kind
      BY <1>1 DEF Kind
    <3> QED BY <3>1, <1>4
  <2> QED BY <2>1, <1>1 DEF Matches, Bytes
<1>10. ProgressInv'
  <2>1. \A k \in Kinds : Loaded(k)' /\ Len(state'[k].parts) = 2 => Total(state'[k].parts) > 0
    BY <1>1, <1>2, <1>4 DEF ProgressInv
  <2>2. \A k \in Kinds : (Total(state[k].parts))' = Total(state'[k].parts)
    OBVIOUS
  <2> QED BY <1>1, <1>2, <1>9, <2>1, <2>2 DEF ProgressInv
<1>11. LastInv'
  <2>1. ASSUME sound
        PROVE  /\ last' \in Kinds /\ Loaded(last)' /\ Matches(state[last].parts)'
               /\ Total(state[last].parts)' >= begun'
    <3>1. last' = Kind /\ Kind' = Kind /\ (state[last].parts)' = parts
      BY <2>1, <1>1, <1>4 DEF Kind
    <3>2. Matches(parts) /\ Total(parts) >= begun
      BY <2>1, <1>1, <1>2 DEF ProgressInv
    <3>3. Loaded(last)'
      BY <3>1, <1>4 DEF Loaded
    <3>4. Matches(state[last].parts)'
      BY <3>1, <3>2, <1>1 DEF Matches, Bytes
    <3>5. Total(state[last].parts)' = Total(parts)
      BY <3>1
    <3> QED BY <3>1, <3>2, <3>3, <3>4, <3>5, <1>1, KindIs
  <2>2. last' # "none" => sound
    BY <1>1
  <2> QED BY <1>1, <2>1, <2>2 DEF LastInv, Running
<1>12. RefusedInv'
  BY <1>1, <1>2 DEF RefusedInv
<1> QED BY <1>5, <1>6, <1>7, <1>8, <1>10, <1>11, <1>12 DEF IInv

\* A session that has got no byte is what the state it came from says.
LEMMA UnchangedMatches ==
  ASSUME NEW one, NEW ps, SessionOK(one, ps), NEW again, NEW old, SessionOK(again, old),
         Len(ps) = Len(old), Total(ps) = Total(old),
         \A i \in DOMAIN old : /\ ps[i].id = old[i].id /\ ps[i].written >= old[i].written
                               /\ old[i].written # 0 => ps[i].start = old[i].start,
         Matches(ps)
  PROVE  Matches(old)
<1>1. /\ DOMAIN ps = 1 .. Len(ps) /\ Len(ps) = (IF one THEN 1 ELSE 2) /\ one \in BOOLEAN
      /\ \A i \in DOMAIN ps : ps[i].written \in Nat /\ ps[i].start \in Nat
  BY SessionIs, PartIs DEF SessionOK
<1>2. /\ DOMAIN old = 1 .. Len(old) /\ Len(old) = (IF again THEN 1 ELSE 2) /\ again \in BOOLEAN
      /\ \A i \in DOMAIN old : old[i].written \in Nat /\ old[i].start \in Nat
  BY SessionIs, PartIs DEF SessionOK
<1>3. one = again /\ DOMAIN old = DOMAIN ps
  BY <1>1, <1>2
<1>4. \A i \in DOMAIN old : ps[i].written = old[i].written
  <2>1. Total(ps) = IF one THEN ps[1].written ELSE ps[1].written + ps[2].written
    BY TotalIs
  <2>2. Total(old) = IF again THEN old[1].written ELSE old[1].written + old[2].written
    BY TotalIs
  <2>3. CASE one
    <3>1. DOMAIN old = 1 .. 1 /\ ps[1].written = old[1].written
      BY <2>1, <2>2, <2>3, <1>1, <1>3
    <3> QED BY <3>1
  <2>4. CASE ~one
    <3>1. DOMAIN old = 1 .. 2 /\ 1 \in DOMAIN old /\ 2 \in DOMAIN old
      <4>1. Len(ps) = 2 /\ DOMAIN old = DOMAIN ps
        BY <2>4, <1>1, <1>3
      <4> QED BY <4>1, <1>1
    <3>2. /\ ps[1].written \in Nat /\ ps[2].written \in Nat
          /\ old[1].written \in Nat /\ old[2].written \in Nat
          /\ ps[1].written >= old[1].written /\ ps[2].written >= old[2].written
      BY <3>1, <1>1, <1>2, <1>3
    <3>3. ps[1].written + ps[2].written = old[1].written + old[2].written
      BY <2>1, <2>2, <2>4, <1>3
    <3>4. ps[1].written = old[1].written /\ ps[2].written = old[2].written
      BY <3>2, <3>3
    <3> QED BY <3>1, <3>4
  <2> QED BY <2>3, <2>4, <1>1
<1> SUFFICES ASSUME NEW i \in DOMAIN old
             PROVE  Bytes(old[i].id) = Slice(old[i].start, old[i].start + old[i].written)
  BY DEF Matches
<1>5. Bytes(old[i].id) = Slice(ps[i].start, ps[i].start + old[i].written)
  BY <1>3, <1>4 DEF Matches
<1>6. CASE old[i].written # 0
  BY <1>5, <1>6
<1>7. CASE old[i].written = 0
  <2>1. ps[i].start \in Nat /\ old[i].start \in Nat
    BY <1>1, <1>2, <1>3
  <2>2. Slice(ps[i].start, ps[i].start + 0) = <<>> /\ Slice(old[i].start, old[i].start + 0) = <<>>
    BY <2>1, SliceEmpty
  <2> QED BY <2>2, <1>5, <1>7
<1> QED BY <1>6, <1>7

LEMMA CloseFilesInv == IInv /\ CloseFiles => IInv'
<1> SUFFICES ASSUME IInv, CloseFiles PROVE IInv'
  OBVIOUS
<1> USE DEF sessionVars, endVars
<1>1. /\ phase = "close" \/ (phase = "end" /\ Outcome = "uncompleted")
      /\ phase' = "idle"
      /\ UNCHANGED <<state, sessionVars, begun, next, mode, elected, open, endVars, sound, suspect, refused>>
  BY DEF CloseFiles
<1>0. /\ file' = [id \in Ids |-> IF Empty(id) THEN Absent ELSE file[id]]
      /\ last' = IF phase = "end" /\ sound THEN name ELSE last
  BY DEF CloseFiles
<1>2. TypeInv /\ ControlInv /\ DiskFits /\ RunFits /\ ProgressInv /\ LastInv
  BY DEF IInv
<1>3. SessionOK(single, parts)
  BY <1>1, RunIs
<1>4. \A id \in Ids : Empty(id) => file[id] = <<>>
  BY DEF Empty
<1>5. file' \in Files /\ \A id \in Ids : Held(file', id) = Held(file, id)
  BY <1>0, <1>2, <1>4, OffsetsIs DEF TypeInv, Files, Held
<1>6. \A k \in Kinds : Loaded(k)' <=> Loaded(k)
  BY <1>1 DEF Loaded
<1>7. TypeInv'
  BY <1>1, <1>2, <1>3, <1>5, <1>6 DEF TypeInv, Phases
<1>8. ControlInv'
  BY <1>1, <1>2 DEF ControlInv
<1>9. DiskFits'
  BY <1>1, <1>5, DiskGrows
<1>10. RunFits' /\ RefusedInv'
  BY <1>1 DEF RunFits, RefusedInv
<1>11. ProgressInv'
  BY <1>1, <1>2, <1>6 DEF ProgressInv
<1>12. LastInv'
  <2>1. ASSUME NEW k \in Kinds, Loaded(k), Matches(state[k].parts) PROVE Matches(state[k].parts)'
    <3>1. \A i \in DOMAIN state[k].parts : state[k].parts[i].id \in Ids
      BY <2>1, <1>2, SessionIs, PartIs DEF TypeInv
    <3>2. \A id \in Ids : Bytes(id)' = Bytes(id)
      BY <1>5 DEF Bytes, Held
    <3> QED BY <2>1, <3>1, <3>2, <1>1 DEF Matches
  <2>2. ASSUME NEW k, k = last', k # "none"
        PROVE  /\ k \in Kinds /\ Loaded(k) /\ Matches(state[k].parts)
               /\ Total(state[k].parts) >= begun
    <3>1. CASE phase = "close"
      BY <2>2, <3>1, <1>0, <1>2 DEF LastInv
    <3>2. CASE phase = "end" /\ Outcome = "uncompleted"
      <4>1. last = "none" /\ sound /\ k = name
        BY <2>2, <3>2, <1>0, <1>2 DEF LastInv
      <4>2. Loaded(k) /\ Total(state[k].parts) = begun /\ Continues(state[k].parts) /\ k \in Kinds
        BY <2>2, <3>2, <4>1, <1>2 DEF LastInv, Running, TypeInv
      <4>3. Total(parts) = begun /\ Matches(parts)
        BY <3>2, <4>1, <1>2 DEF ProgressInv, Outcome
      <4>4. SessionOK(state[k].single, state[k].parts)
        BY <4>2, <1>2 DEF TypeInv
      <4>5. Matches(state[k].parts)
        <5> DEFINE ps == parts
                   old == state[k].parts
                   one == single
                   again == state[k].single
        <5>1. SessionOK(one, ps) /\ SessionOK(again, old) /\ Len(ps) = Len(old)
              /\ Total(ps) = Total(old) /\ Matches(ps)
              /\ \A i \in DOMAIN old : /\ ps[i].id = old[i].id /\ ps[i].written >= old[i].written
                                       /\ old[i].written # 0 => ps[i].start = old[i].start
          BY <4>2, <4>3, <4>4, <1>3 DEF Continues
        <5> HIDE DEF ps, old, one, again
        <5>2. Matches(old)
          BY <5>1, UnchangedMatches
        <5> QED BY <5>2 DEF old
      <4>6. Total(state[k].parts) >= begun
        BY <4>2, <1>2 DEF TypeInv
      <4> QED BY <4>2, <4>5, <4>6
    <3> QED BY <3>1, <3>2, <1>1
  <2>3. ASSUME NEW k, k = last', k # "none"
        PROVE  /\ k \in Kinds /\ Loaded(k)' /\ Matches(state[k].parts)'
               /\ Total(state[k].parts)' >= begun'
    BY <2>1, <2>2, <2>3, <1>1, <1>6
  <2> QED BY <2>3, <1>1 DEF LastInv, Running, Loaded, Matches, Bytes
<1> QED BY <1>7, <1>8, <1>9, <1>10, <1>11, <1>12 DEF IInv

LEMMA CompleteInv == IInv /\ Complete => IInv'
<1> SUFFICES ASSUME IInv, Complete PROVE IInv'
  OBVIOUS
<1> USE DEF sessionVars, endVars
<1>1. /\ phase = "end" /\ phase' = "idle" /\ file[First] # Absent
      /\ file' = [file EXCEPT ![First] = Absent]
      /\ state' = [k \in Kinds |-> IF k = name THEN None ELSE state[k]]
      /\ suspect' = suspect \cup CountsOn(First)
      /\ UNCHANGED <<sessionVars, begun, next, mode, elected, open, endVars, sound, refused, last>>
  BY DEF Complete
<1>2. TypeInv /\ ControlInv /\ DiskFits /\ ProgressInv /\ LastInv
  BY DEF IInv
<1>3. SessionOK(single, parts) /\ First \in Ids
  <2>1. SessionOK(single, parts) /\ DOMAIN parts = 1 .. Len(parts) /\ Len(parts) \in {1, 2}
        /\ \A i \in DOMAIN parts : PartOK(parts[i])
    BY <1>1, RunIs
  <2>2. 1 \in DOMAIN parts
    BY <2>1
  <2> QED BY <2>1, <2>2, PartIs DEF First
<1>4. \A k \in Kinds : Loaded(k)' => Loaded(k) /\ state'[k] = state[k]
  BY <1>1 DEF Loaded
<1>5. file' \in Files /\ Held(file', First) = <<>>
      /\ \A id \in Ids : id # First => Held(file', id) = Held(file, id)
  <2> DEFINE c == First
             v == Absent
  <2>1. c \in Ids /\ v \in Seq(Offsets) \cup {Absent} /\ v = Absent
        /\ file' = [file EXCEPT ![c] = v] /\ file \in Files
    BY <1>1, <1>2, <1>3 DEF TypeInv
  <2> HIDE DEF c, v
  <2>2. /\ file' \in Files /\ Held(file', c) = <<>>
        /\ \A id \in Ids : id # c => Held(file', id) = Held(file, id)
    BY <2>1, FileStep
  <2> QED BY <2>2 DEF c
<1>6. TypeInv'
  <2>1. suspect' \subseteq Kinds \cup {"run"} /\ state' = [k \in Kinds |-> state'[k]]
    BY <1>1, <1>2 DEF TypeInv, CountsOn
  <2> QED BY <1>1, <1>2, <1>3, <1>4, <1>5, <2>1 DEF TypeInv, Phases
<1>7. ControlInv'
  BY <1>1, <1>2 DEF ControlInv
<1>8. DiskFits'
  BY <1>1, <1>3, <1>4, <1>5, DiskCut
<1>9. RunFits' /\ RefusedInv'
  BY <1>1 DEF RunFits, RefusedInv
<1>10. ProgressInv'
  BY <1>1, <1>2, <1>4 DEF ProgressInv
<1>11. LastInv'
  BY <1>1, <1>2 DEF LastInv, Running
<1> QED BY <1>6, <1>7, <1>8, <1>9, <1>10, <1>11 DEF IInv

-----------------------------------------------------------------------------
(* The parts of what is sound are the body.                                *)

LEMMA InitCuts == Init => CutsInv
BY DEF Init, CutsInv, Running

\* A step that leaves the parts and the states as they are.
LEMMA CutsKept ==
  ASSUME IInv, CutsInv, phase # "idle", UNCHANGED <<parts, begun, name, elected>>,
         mode' = mode, sound' => sound, last' = "none", Running' => Running /\ state' = state
  PROVE  CutsInv'
<1>1. phase # "idle" =>
        /\ mode = "none" => Total(parts) = begun
        /\ mode = "fallback" => WholeBody(parts[elected]) \/ begun > 0
        /\ sound /\ ~Overlapping => CutsBody(parts)
  BY DEF CutsInv
<1>2. Running /\ name # "none" /\ sound => CutsBody(state[name].parts)
  BY DEF CutsInv
<1>3. Total(parts)' = Total(parts) /\ (CutsBody(parts) => CutsBody(parts)')
  BY DEF CutsBody
<1>4. Overlapping' = Overlapping
  BY DEF Overlapping
<1>5. CutsBody(state[name].parts) /\ state' = state => CutsBody(state[name].parts)'
  BY DEF CutsBody
<1>6. Running' /\ name' # "none" /\ sound' => CutsBody(state[name].parts)'
  BY <1>2, <1>5
<1> QED BY <1>1, <1>3, <1>4, <1>6 DEF CutsInv

LEMMA StartCuts ==
  ASSUME IInv, NEW kind \in Kinds \cup {"none"}, NEW again, NEW one, NEW ps,
         Start(kind, again, one, ps), kind # "none" => ps = state[kind].parts
  PROVE  CutsInv'
<1>1. /\ parts' = ps /\ begun' = Total(ps) /\ mode' = "none" /\ sound' = Resumable(ps)
      /\ last' = "none" /\ name' = kind /\ state' = state
  BY DEF Start
<1>2. Resumable(ps) => CutsBody(parts)'
  BY <1>1 DEF Resumable, CutsBody
<1>3. Resumable(ps) /\ kind # "none" => CutsBody(state[name].parts)'
  BY <1>1 DEF Resumable, CutsBody
<1>4. Total(parts)' = begun'
  BY <1>1
<1> QED BY <1>1, <1>2, <1>3, <1>4 DEF CutsInv

LEMMA GetStateCuts == IInv /\ GetState => CutsInv'
<1> SUFFICES ASSUME IInv, GetState PROVE CutsInv'
  OBVIOUS
<1>1. ASSUME NEW n \in Counts, StartNew(n) PROVE CutsInv'
  BY <1>1, StartCuts DEF StartNew
<1>2. ASSUME NEW again \in BOOLEAN, StartFound(again) PROVE CutsInv'
  BY <1>2, StartCuts DEF StartFound, Kinds
<1>3. ASSUME NEW kind \in Kinds, StartNamed(kind) PROVE CutsInv'
  BY <1>3, StartCuts DEF StartNamed
<1> QED BY <1>1, <1>2, <1>3 DEF GetState

\* A step of a part that has written nothing to the session, or a byte.
LEMMA CutsSame ==
  ASSUME NEW ps, NEW qs, Len(qs) = Len(ps), DOMAIN ps = 1 .. Len(ps), Len(ps) \in {1, 2},
         \A j \in DOMAIN ps : qs[j].start = ps[j].start /\ qs[j].stop = ps[j].stop,
         CutsBody(ps)
  PROVE  CutsBody(qs)
<1>1. 1 \in DOMAIN ps /\ Len(ps) \in DOMAIN ps
      /\ \A j \in 1 .. (Len(ps) - 1) : j \in DOMAIN ps /\ j + 1 \in DOMAIN ps
  OBVIOUS
<1> QED BY <1>1 DEF CutsBody

LEMMA WriteCuts ==
  ASSUME IInv, CutsInv, NEW i \in Ids, Write(i) PROVE CutsInv'
<1>1. /\ Downloading(i) /\ i \in open /\ parts' = [parts EXCEPT ![i].written = @ + 1]
      /\ UNCHANGED <<state, phase, name, begun, mode, elected, sound, last>>
  BY DEF Write, historyVars
<1>2. i \in DOMAIN parts /\ phase \in {"launch", "download"} /\ (mode = "none" => open = {})
      /\ (mode # "none" => elected \in DOMAIN parts)
  BY <1>1, PartStepIs
<1>3. /\ parts \in Seq(PartRecords) /\ DOMAIN parts = 1 .. Len(parts) /\ Len(parts) \in {1, 2}
  BY <1>2, RunIs
<1>4. parts \in [1 .. Len(parts) -> PartRecords] /\ Len(parts) \in Nat
  BY <1>3, LenProperties
<1>5. /\ DOMAIN parts' = DOMAIN parts
      /\ \A j \in DOMAIN parts : parts'[j].start = parts[j].start /\ parts'[j].stop = parts[j].stop
  BY <1>1, <1>2, <1>4 DEF PartRecords
<1>6. Len(parts') = Len(parts)
  <2>1. parts' = Put(parts, i, [parts[i] EXCEPT !.written = @ + 1])
    BY <1>1 DEF Put
  <2>2. parts[i] \in PartRecords /\ parts[i].written \in Nat
    BY <1>2, <1>4 DEF PartRecords
  <2>3. [parts[i] EXCEPT !.written = @ + 1] \in PartRecords
    BY <2>2 DEF PartRecords
  <2>4. parts' \in [1 .. Len(parts) -> PartRecords]
    BY <2>1, <2>3, <1>4 DEF Put
  <2> DEFINE qs == parts'
             n == Len(parts)
  <2>5. qs \in [1 .. n -> PartRecords] /\ n \in Nat
    BY <2>4, <1>4
  <2> HIDE DEF qs, n
  <2>6. Len(qs) = n
    BY <2>5, FunctionIsSeq
  <2> QED BY <2>6 DEF qs, n
<1>7. Overlapping' = Overlapping
  BY <1>1, <1>6 DEF Overlapping
<1>8. CutsBody(parts) => CutsBody(parts')
  BY <1>3, <1>5, <1>6, CutsSame
<1>9. mode # "none"
  BY <1>1, <1>2
<1>10. mode = "fallback" => WholeBody(parts'[elected]) \/ begun > 0
  BY <1>2, <1>5, <1>9 DEF CutsInv, WholeBody
<1>11. sound /\ ~Overlapping => CutsBody(parts')
  BY <1>2, <1>8 DEF CutsInv
<1>12. name # "none" /\ sound => CutsBody(state[name].parts)
  BY <1>2 DEF CutsInv, Running
<1>13. last = "none"
  BY <1>2 DEF IInv, LastInv
<1> QED BY <1>1, <1>7, <1>9, <1>10, <1>11, <1>12, <1>13 DEF CutsInv, CutsBody

LEMMA Answer200Cuts ==
  ASSUME IInv, CutsInv, NEW i \in Ids, Answer200(i) PROVE CutsInv'
<1>1. /\ Downloading(i) /\ mode' = "fallback" /\ elected' = i
      /\ parts' = [parts EXCEPT ![i].start = 0, ![i].stop = ResetStop]
      /\ UNCHANGED <<state, phase, name, begun, sound, last>>
  BY DEF Answer200
<1>2. i \in DOMAIN parts /\ phase \in {"launch", "download"} /\ PartOK(parts[i])
  BY <1>1, PartStepIs
<1>3. parts \in Seq(PartRecords) /\ DOMAIN parts = 1 .. Len(parts) /\ Len(parts) \in {1, 2}
      /\ parts \in [1 .. Len(parts) -> PartRecords]
  <2>1. parts \in Seq(PartRecords) /\ DOMAIN parts = 1 .. Len(parts) /\ Len(parts) \in {1, 2}
    BY <1>2, RunIs
  <2> QED BY <2>1, LenProperties
<1>4. WholeBody(parts'[i]) /\ parts' \in [1 .. Len(parts) -> PartRecords]
  <2> DEFINE p == [parts[i] EXCEPT !.start = 0, !.stop = ResetStop]
  <2>1. p \in PartRecords /\ p.start = 0 /\ p.stop = Length - 1
    <3>1. parts[i] \in PartRecords /\ Length - 1 \in Nat
      BY <1>2, HalfIs DEF PartOK
    <3> QED BY <3>1 DEF PartRecords, ResetStop
  <2>2. parts' = Put(parts, i, p)
    BY <1>1 DEF Put
  <2> HIDE DEF p
  <2>3. parts'[i] = p /\ parts' \in [1 .. Len(parts) -> PartRecords]
    BY <2>1, <2>2, <1>2, <1>3 DEF Put
  <2> QED BY <2>1, <2>3 DEF WholeBody
<1>5. Len(parts') = Len(parts)
  <2> DEFINE qs == parts'
             n == Len(parts)
  <2>1. qs \in [1 .. n -> PartRecords] /\ n \in Nat
    BY <1>3, <1>4
  <2> HIDE DEF qs, n
  <2>2. Len(qs) = n
    BY <2>1, FunctionIsSeq
  <2> QED BY <2>2 DEF qs, n
<1>6. ~Overlapping' => CutsBody(parts')
  <2> SUFFICES ASSUME ~Overlapping' PROVE CutsBody(parts')
    OBVIOUS
  <2>1. Len(parts') = 1 /\ i = 1
    BY <1>1, <1>2, <1>3, <1>5 DEF Overlapping
  <2>2. parts'[1].start = 0 /\ parts'[Len(parts')].stop = Length - 1
    BY <2>1, <1>4 DEF WholeBody
  <2> QED BY <2>1, <2>2 DEF CutsBody
<1>7. name # "none" /\ sound => CutsBody(state[name].parts)
  BY <1>2 DEF CutsInv, Running
<1>8. last = "none"
  BY <1>2 DEF IInv, LastInv
<1> QED BY <1>1, <1>4, <1>6, <1>7, <1>8 DEF CutsInv, CutsBody

\* The part has asked for its rest: the session had bytes when the run began.
LEMMA Answer200PanicsCuts ==
  ASSUME IInv, CutsInv, NEW i \in Ids, Answer200Panics(i) PROVE CutsInv'
<1>1. /\ Downloading(i) /\ mode = "none" /\ parts[i].written # 0 /\ mode' = "fallback"
      /\ UNCHANGED <<state, phase, parts, name, begun, sound, last>>
  BY DEF Answer200Panics, diskVars, sessionVars, historyVars
<1>2. i \in DOMAIN parts /\ phase \in {"launch", "download"} /\ parts[i].written \in Nat
  BY <1>1, PartStepIs
<1>3. Total(parts) = begun /\ (sound => CutsBody(parts))
  BY <1>1, <1>2 DEF CutsInv, Overlapping
<1>4. begun > 0
  <2>1. /\ SessionOK(single, parts) /\ single \in BOOLEAN /\ DOMAIN parts = 1 .. Len(parts)
        /\ Len(parts) = IF single THEN 1 ELSE 2
        /\ \A j \in DOMAIN parts : parts[j].written \in Nat
    BY <1>2, RunIs, PartIs
  <2>2. Total(parts) = IF single THEN parts[1].written ELSE parts[1].written + parts[2].written
    BY <2>1, TotalIs
  <2>3. 1 \in DOMAIN parts /\ (~single => 2 \in DOMAIN parts) /\ i \in 1 .. (IF single THEN 1 ELSE 2)
    BY <2>1, <1>2
  <2> QED BY <2>1, <2>2, <2>3, <1>1, <1>2, <1>3
<1>5. name # "none" /\ sound => CutsBody(state[name].parts)
  BY <1>2 DEF CutsInv, Running
<1>6. last = "none"
  BY <1>2 DEF IInv, LastInv
<1> QED BY <1>1, <1>3, <1>4, <1>5, <1>6 DEF CutsInv, CutsBody

LEMMA Answer206Cuts ==
  ASSUME IInv, CutsInv, NEW i \in Ids, Answer206(i) PROVE CutsInv'
<1>1. /\ Downloading(i) /\ mode # "fallback" /\ mode' = "partial"
      /\ UNCHANGED <<state, phase, parts, name, begun, sound, last>>
  BY DEF Answer206, sessionVars, historyVars
<1>2. phase \in {"launch", "download"}
  BY <1>1, PartStepIs
<1>3. sound => CutsBody(parts)
  BY <1>1, <1>2 DEF CutsInv, Overlapping
<1>4. name # "none" /\ sound => CutsBody(state[name].parts)
  BY <1>2 DEF CutsInv, Running
<1>5. last = "none"
  BY <1>2 DEF IInv, LastInv
<1> QED BY <1>1, <1>3, <1>4, <1>5 DEF CutsInv, CutsBody

\* What is kept is the whole body, unless the session had bytes: then it is not sound.
LEMMA CollapseCuts == IInv /\ CutsInv /\ Collapse => CutsInv'
<1> SUFFICES ASSUME IInv, CutsInv, Collapse PROVE CutsInv'
  OBVIOUS
<1>1. /\ phase = "download" /\ mode = "fallback" /\ mode' = mode /\ phase' = phase
      /\ parts' = <<parts[elected]>> /\ elected' = 1 /\ sound' = (sound /\ begun = 0)
      /\ UNCHANGED <<state, name, begun, last>>
  BY DEF Collapse, diskVars
<1>2. Len(parts') = 1 /\ parts'[1] = parts[elected]
  BY <1>1
<1>3. WholeBody(parts[elected]) \/ begun > 0
  BY <1>1 DEF CutsInv
<1>4. sound' => CutsBody(parts')
  <2> SUFFICES ASSUME begun = 0 PROVE CutsBody(parts')
    BY <1>1
  <2>1. parts'[1].start = 0 /\ parts'[Len(parts')].stop = Length - 1
    BY <1>2, <1>3 DEF WholeBody
  <2> QED BY <2>1, <1>2 DEF CutsBody
<1>5. name # "none" /\ sound => CutsBody(state[name].parts)
  BY <1>1 DEF CutsInv, Running
<1>6. last = "none"
  BY <1>1 DEF IInv, LastInv
<1> QED BY <1>1, <1>2, <1>3, <1>4, <1>5, <1>6 DEF CutsInv, CutsBody

LEMMA EncodeStateCuts == IInv /\ CutsInv /\ EncodeState => CutsInv'
<1> SUFFICES ASSUME IInv, CutsInv, EncodeState PROVE CutsInv'
  OBVIOUS
<1>1. /\ phase = "save" /\ phase' = "close"
      /\ state' = [state EXCEPT ![Kind] = [single |-> single, parts |-> parts]]
      /\ last' = IF sound THEN Kind ELSE "none"
      /\ UNCHANGED <<parts, begun, name, mode, elected, sound>>
  BY DEF EncodeState, sessionVars
<1>2. state'[Kind].parts = parts
  BY <1>1, KindIs DEF IInv, TypeInv
<1>3. Overlapping' = Overlapping
  BY <1>1 DEF Overlapping
<1>4. sound /\ ~Overlapping => CutsBody(parts)
  BY <1>1 DEF CutsInv
<1>5. last' # "none" /\ ~Overlapping' => CutsBody(state'[last'].parts)
  BY <1>1, <1>2, <1>3, <1>4
<1> QED BY <1>1, <1>3, <1>5 DEF CutsInv, Running, CutsBody

LEMMA CloseFilesCuts == IInv /\ CutsInv /\ CloseFiles => CutsInv'
<1> SUFFICES ASSUME IInv, CutsInv, CloseFiles PROVE CutsInv'
  OBVIOUS
<1>1. /\ phase \in {"close", "end"} /\ phase' = "idle"
      /\ last' = IF phase = "end" /\ sound THEN name ELSE last
      /\ UNCHANGED <<state, parts, mode>>
  BY DEF CloseFiles, sessionVars
<1>2. Overlapping' = Overlapping
  BY <1>1 DEF Overlapping
<1>3. phase = "end" /\ name # "none" /\ sound => CutsBody(state[name].parts)
  BY DEF CutsInv, Running
<1>4. last # "none" /\ ~Overlapping => CutsBody(state[last].parts)
  BY DEF CutsInv
<1>5. last' # "none" /\ ~Overlapping' => CutsBody(state'[last'].parts)
  BY <1>1, <1>2, <1>3, <1>4
<1> QED BY <1>1, <1>5 DEF CutsInv, Running, CutsBody

LEMMA QuietCuts ==
  ASSUME IInv, CutsInv,
         InitPart \/ InitPartFails \/ Launched \/ Interrupt \/ RefuseFallback \/ PartFailed \/ Done
         \/ DonePanics \/ MergeStep \/ CreateState \/ Complete \/ RenameFails \/ Kill
  PROVE  CutsInv'
<1> DEFINE Quiets == /\ phase # "idle" /\ mode' = mode /\ UNCHANGED <<parts, begun, name, elected>>
                     /\ (sound' => sound) /\ (Running' => Running /\ state' = state)
                     /\ (last' = "none" \/ (last' = last /\ phase \notin {"idle", "close"}))
<1> USE DEF diskVars, sessionVars, historyVars, Running
<1>0. InitPart \/ InitPartFails \/ Launched => Quiets
  BY DEF InitPart, InitPartFails, Launched
<1>1. Interrupt => Quiets
  BY DEF Interrupt
<1>2. RefuseFallback \/ PartFailed \/ Done \/ DonePanics => Quiets
  BY DEF RefuseFallback, PartFailed, Done, DonePanics, Joined
<1>3. MergeStep => Quiets
  BY DEF MergeStep, CheckSizes, MergeRefused, MergeFails, Concatenating, CopyByte, RemoveMerged, Merged
<1>4. CreateState \/ Complete \/ RenameFails \/ Kill => Quiets
  BY DEF CreateState, Complete, RenameFails, Kill
<1>5. Quiets
  BY <1>0, <1>1, <1>2, <1>3, <1>4
<1>6. last' = "none"
  BY <1>5 DEF IInv, LastInv
<1> QED BY <1>5, <1>6, CutsKept

LEMMA StutterCuts == CutsInv /\ UNCHANGED vars => CutsInv'
<1> SUFFICES ASSUME CutsInv, UNCHANGED vars PROVE CutsInv'
  OBVIOUS
<1>1. UNCHANGED <<state, phase, name, parts, begun, mode, elected, sound, last>>
  BY DEF vars, diskVars, sessionVars, historyVars
<1> QED BY <1>1 DEF CutsInv, Running, Overlapping, CutsBody

-----------------------------------------------------------------------------
(* Theorems.                                                               *)

LEMMA StutterInv == IInv /\ UNCHANGED vars => IInv'
<1> SUFFICES ASSUME IInv, UNCHANGED vars PROVE IInv'
  OBVIOUS
<1> USE DEF vars, diskVars, sessionVars, endVars, historyVars
<1>1. TypeInv'
  BY DEF IInv, TypeInv, Loaded
<1>2. ControlInv'
  BY DEF IInv, ControlInv, SizeIs
<1>3. DiskFits'
  BY DEF IInv, DiskFits, Loaded
<1>4. RunFits'
  BY DEF IInv, RunFits, AnswerFits, ConcatFits, FinishFits, EndFits, FirstIsBody, HasLength, SizeIs, First
<1>5. ProgressInv'
  BY DEF IInv, ProgressInv, Loaded, Matches, Bytes
<1>6. LastInv'
  BY DEF IInv, LastInv, Running, Loaded, Matches, Bytes, Continues
<1>7. RefusedInv'
  BY DEF IInv, RefusedInv, SizeIs
<1> QED BY <1>1, <1>2, <1>3, <1>4, <1>5, <1>6, <1>7 DEF IInv

\* The invariant by induction on the steps.
THEOREM Invariant == Spec => []IInv
<1>1. Init => IInv
  BY InitInv
<1>2. IInv /\ [Next]_vars => IInv'
  <2> SUFFICES ASSUME IInv, [Next]_vars PROVE IInv'
    OBVIOUS
  <2>1. CASE GetState
    BY <2>1, GetStateInv
  <2>2. CASE Run
    BY <2>2, InitPartInv, InitPartFailsInv, LaunchedInv, DownloadEndsInv, CollapseInv, DoneInv
       DEF Run
  <2>3. CASE MergeStep
    BY <2>3, CheckSizesInv, MergeFailsInv, CopyByteInv, RemoveMergedInv, MergedInv DEF MergeStep
  <2>4. CASE Deferred
    BY <2>4, CreateStateInv, EncodeStateInv, CloseFilesInv, CompleteInv, RenameFailsInv DEF Deferred
  <2>5. CASE Kill
    BY <2>5, KillInv
  <2>6. ASSUME NEW i \in Ids, PartStep(i) PROVE IInv'
    BY <2>6, Answer206Inv, Answer200Inv, Answer200PanicsInv, WriteInv DEF PartStep
  <2>7. CASE UNCHANGED vars
    BY <2>7, StutterInv
  <2> QED BY <2>1, <2>2, <2>3, <2>4, <2>5, <2>6, <2>7 DEF Next
<1> QED BY <1>1, <1>2, PTL DEF Spec

\* Whatever a run finds on the disk and wherever it is stopped, the offsets of a part file
\* are the body's, and the parts in memory and in every state file are parts of the body
\* with no more bytes than they are long.
THEOREM TypeCorrect == Spec => []TypeOK
<1>1. IInv => TypeOK
  <2> SUFFICES ASSUME IInv PROVE TypeOK
    OBVIOUS
  <2>1. TypeInv /\ ControlInv
    BY DEF IInv
  <2>2. ASSUME NEW id \in Ids, file[id] # Absent, NEW k \in DOMAIN file[id]
        PROVE  file[id][k] \in 0 .. (Length - 1)
    <3>1. file[id] \in Seq(Offsets)
      BY <2>1, <2>2, HeldIs DEF TypeInv
    <3>2. file[id] \in [1 .. Len(file[id]) -> Offsets]
      BY <3>1, LenProperties
    <3> QED BY <2>2, <3>2 DEF Offsets
  <2>3. ASSUME NEW one, NEW ps, SessionOK(one, ps) PROVE IsSession(ps) /\ ps # <<>>
    <3>1. Len(ps) \in {1, 2} /\ DOMAIN ps = 1 .. Len(ps) /\ ps \in Seq(PartRecords)
          /\ \A i \in DOMAIN ps : PartOK(ps[i])
      BY <2>3, SessionIs
    <3>2. Len(ps) \in 0 .. 2 /\ ps # <<>>
      BY <3>1, EmptySeq
    <3>3. ASSUME NEW i \in DOMAIN ps
          PROVE  /\ ps[i].id \in Ids /\ ps[i].start \in 0 .. Length /\ ps[i].stop \in 0 .. (Length - 1)
                 /\ ps[i].written \in 0 .. PartLen(ps[i])
      BY <3>1, PartIs, HalfIs
    <3> QED BY <3>2, <3>3 DEF IsSession
  <2>4. IsSession(parts)
    <3>1. CASE parts = <<>>
      BY <3>1, EmptySeq DEF IsSession
    <3>2. CASE SessionOK(single, parts)
      BY <3>2, <2>3
    <3> QED BY <3>1, <3>2, <2>1 DEF TypeInv
  <2>5. \A k \in Kinds : Loaded(k) => IsSession(state[k].parts) /\ state[k].parts # <<>>
    BY <2>1, <2>3 DEF TypeInv
  <2> QED BY <2>1, <2>2, <2>4, <2>5 DEF TypeOK, TypeInv, ControlInv, Phases
<1> QED BY <1>1, Invariant, PTL

\* "saved" is said of the body only, whatever runs, kills and failures came before, but for
\* the three histories that SavedIsWhole names (getparty.go:322).
THEOREM SavedWhole == Spec => []SavedIsWhole
<1>1. Init => SavedIsWhole
  BY DEF Init, SavedIsWhole
<1>2. IInv /\ SavedIsWhole /\ [Next]_vars => SavedIsWhole'
  <2> SUFFICES ASSUME IInv, SavedIsWhole, [Next]_vars PROVE SavedIsWhole'
    OBVIOUS
  <2>1. CASE output' = output
    BY <2>1 DEF SavedIsWhole
  <2>2. CASE output' = Absent
    BY <2>2 DEF SavedIsWhole
  <2>3. CASE Complete
    <3> SUFFICES ASSUME output'.by = "merge" PROVE output'.bytes = Body
      BY DEF SavedIsWhole
    <3>1. phase = "end" /\ err = "nil" /\ Total(parts) = Length /\ output'.bytes = file[First]
      BY <2>3 DEF Complete, Outcome
    <3>2. output'.by = IF canceled THEN "panic" ELSE IF "run" \in suspect THEN "suspect" ELSE "merge"
      BY <2>3 DEF Complete
    <3>3. canceled \in BOOLEAN /\ ~canceled /\ "run" \notin suspect
      BY <3>2 DEF IInv, TypeInv
    <3> QED BY <3>1, <3>3 DEF IInv, RunFits, EndFits, FirstIsBody
  <2>4. Complete \/ output' = output \/ output' = Absent
    BY DEF Next, vars, diskVars, GetState, StartNew, StartFound, StartNamed, Run, InitPart, InitPartFails,
       Launched, Interrupt, RefuseFallback, Collapse, PartFailed, Done, DonePanics, MergeStep, CheckSizes,
       MergeRefused, MergeFails, CopyByte, RemoveMerged, Merged, Deferred, CreateState, EncodeState,
       CloseFiles, RenameFails, Kill, PartStep, Answer206, Answer200, Answer200Panics, Write
  <2> QED BY <2>1, <2>2, <2>3, <2>4
<1> QED BY <1>1, <1>2, Invariant, PTL DEF Spec

\* A run that starts from parts that are the body and files as its session says, and does
\* not come to its end, leaves a state of which the same is true, with no less in all than
\* it started with; but for the cases StillResumable leaves out (getparty.go:275-321).
THEOREM StopsResumable == Spec => []StillResumable
<1>1. Init => CutsInv
  BY InitCuts
<1>2. IInv /\ CutsInv /\ [Next]_vars => CutsInv'
  <2> SUFFICES ASSUME IInv, CutsInv, [Next]_vars PROVE CutsInv'
    OBVIOUS
  <2>1. CASE GetState
    BY <2>1, GetStateCuts
  <2>2. CASE Run
    BY <2>2, CollapseCuts, QuietCuts DEF Run
  <2>3. CASE Deferred
    BY <2>3, EncodeStateCuts, CloseFilesCuts, QuietCuts DEF Deferred
  <2>4. CASE MergeStep \/ Kill
    BY <2>4, QuietCuts
  <2>5. ASSUME NEW i \in Ids, PartStep(i) PROVE CutsInv'
    BY <2>5, Answer206Cuts, Answer200Cuts, Answer200PanicsCuts, WriteCuts DEF PartStep
  <2>6. CASE UNCHANGED vars
    BY <2>6, StutterCuts
  <2> QED BY <2>1, <2>2, <2>3, <2>4, <2>5, <2>6 DEF Next
<1>3. IInv /\ CutsInv => StillResumable
  BY DEF IInv, LastInv, CutsInv, StillResumable, Resumable
<1> QED BY <1>1, <1>2, <1>3, Invariant, PTL DEF Spec

\* No step touches a part file that did not have the size its restored session says: not the
\* parts launched before it, not the deferred function (part.go:131, getparty.go:357).
THEOREM RefusedStays == Spec => RefusedUntouched
<1>1. IInv /\ [Next]_vars => [\A id \in refused : file'[id] = file[id]]_vars
  <2> SUFFICES ASSUME IInv, Next PROVE \A id \in refused : file'[id] = file[id]
    OBVIOUS
  <2>1. CASE file' = file
    BY <2>1
  <2>2. CASE phase \in {"download", "merge", "concat", "finish"}
    BY <2>2, NoneRefused
  <2>3. CASE Complete
    <3>1. phase = "end" /\ err = "nil"
      BY <2>3 DEF Complete, Outcome
    <3> QED BY <3>1 DEF IInv, RefusedInv
  <2>4. CASE CloseFiles
    <3>1. phase \in {"close", "end"} /\ file' = [id \in Ids |-> IF Empty(id) THEN Absent ELSE file[id]]
      BY <2>4 DEF CloseFiles
    <3>2. /\ DOMAIN parts = 1 .. Len(parts) /\ next \in Nat
          /\ \A i \in DOMAIN parts : parts[i].id \in Ids
          /\ \A i, j \in DOMAIN parts : parts[i].id = parts[j].id => i = j
      BY <3>1, RunIs, PartIs DEF IInv, TypeInv
    <3> SUFFICES ASSUME NEW id \in refused PROVE file'[id] = file[id]
      OBVIOUS
    <3>3. PICK i \in DOMAIN parts : parts[i].id = id /\ parts[i].written # 0
      BY <3>1 DEF IInv, RefusedInv
    <3>4. ~Empty(id)
      BY <3>2, <3>3 DEF Empty
    <3> QED BY <3>1, <3>2, <3>3, <3>4
  <2>5. ASSUME NEW i \in Ids, Answer206(i) \/ Answer200(i) \/ Write(i), phase = "launch"
        PROVE  \A id \in refused : file'[id] = file[id]
    <3>1. Downloading(i) /\ \E v : file' = [file EXCEPT ![parts[i].id] = v]
      BY <2>5 DEF Answer206, Answer200, Write
    <3>2. /\ i \in DOMAIN parts /\ i < next /\ next \in Nat
          /\ DOMAIN parts = 1 .. Len(parts) /\ file \in Files
          /\ \A j, k \in DOMAIN parts : parts[j].id = parts[k].id => j = k
          /\ \A j \in DOMAIN parts : parts[j].id \in Ids
      BY <2>5, <3>1, RunIs, PartIs DEF Downloading, IInv, TypeInv
    <3> SUFFICES ASSUME NEW id \in refused PROVE file'[id] = file[id]
      OBVIOUS
    <3>3. PICK j \in DOMAIN parts : parts[j].id = id /\ j >= next
      BY <2>5 DEF IInv, RefusedInv
    <3>4. id # parts[i].id
      BY <3>2, <3>3
    <3> QED BY <3>1, <3>2, <3>3, <3>4 DEF Files
  <2>6. CASE \E i \in Ids : Answer206(i) \/ Answer200(i) \/ Write(i)
    <3>1. phase \in {"launch", "download"}
      BY <2>6 DEF Answer206, Answer200, Write, Downloading
    <3> QED BY <3>1, <2>2, <2>5, <2>6
  <2>7. \/ file' = file \/ Complete \/ CloseFiles
        \/ \E i \in Ids : Answer206(i) \/ Answer200(i) \/ Write(i)
        \/ phase \in {"download", "merge", "concat", "finish"}
    BY DEF Next, diskVars, GetState, StartNew, StartFound, StartNamed, Start, Run, InitPart, InitPartFails,
       Launched, Interrupt, RefuseFallback, Collapse, PartFailed, Done, DonePanics, MergeStep, CheckSizes,
       MergeRefused, MergeFails, CopyByte, RemoveMerged, Merged, Deferred, CreateState, EncodeState,
       RenameFails, Kill, PartStep, Answer200Panics
  <2> QED BY <2>1, <2>2, <2>3, <2>4, <2>6, <2>7
<1> QED BY <1>1, Invariant, PTL DEF Spec, RefusedUntouched
=============================================================================
