--------------------------- MODULE Download_proofs ---------------------------
(***************************************************************************)
(* Theorems about one run of getparty, for any number of parts, any length  *)
(* of the body and any answers of the server: the types, the election, and  *)
(* how the count of the parts done agrees with the parts that are merged.   *)
(***************************************************************************)
EXTENDS Download, Induction

USE DEF Parts

Bytes == Int \cup {Hole}

-----------------------------------------------------------------------------
(* The files. *)

LEMMA SliceType ==
  ASSUME NEW a \in Int, NEW n \in Nat
  PROVE  /\ Slice(a, n) \in Seq(Int)
         /\ Len(Slice(a, n)) = n
         /\ \A i \in 1 .. n : Slice(a, n)[i] = a + i - 1
<1>1. \A i \in 1 .. n : a + i - 1 \in Int
  OBVIOUS
<1> QED BY <1>1 DEF Slice

LEMMA WriteAtType ==
  ASSUME NEW f \in Seq(Bytes), NEW o \in Nat, NEW a \in Int, NEW n \in Nat
  PROVE  /\ WriteAt(f, o, a, n) \in Seq(Bytes)
         /\ Len(WriteAt(f, o, a, n)) = IF Len(f) > o + n THEN Len(f) ELSE o + n
<1> DEFINE l == IF Len(f) > o + n THEN Len(f) ELSE o + n
           byte(i) == IF i \in (o + 1) .. (o + n) THEN a + (i - o) - 1
                      ELSE IF i <= Len(f) THEN f[i] ELSE Hole
<1>1. l \in Nat
  OBVIOUS
<1>2. ASSUME NEW i \in 1 .. l PROVE byte(i) \in Bytes
  <2>1. i \in Nat /\ i >= 1
    BY <1>1
  <2>2. CASE i \in (o + 1) .. (o + n)
    BY <2>1, <2>2 DEF Bytes
  <2>3. CASE i \notin (o + 1) .. (o + n) /\ i <= Len(f)
    <3>1. f[i] \in Bytes
      BY <2>1, <2>3
    <3> QED BY <2>3, <3>1
  <2>4. CASE i \notin (o + 1) .. (o + n) /\ ~(i <= Len(f))
    BY <2>4 DEF Bytes
  <2> QED BY <2>2, <2>3, <2>4
<1>3. WriteAt(f, o, a, n) = [i \in 1 .. l |-> byte(i)]
  BY DEF WriteAt
<1> HIDE DEF l, byte
<1>4. [i \in 1 .. l |-> byte(i)] \in Seq(Bytes) /\ Len([i \in 1 .. l |-> byte(i)]) = l
  BY <1>1, <1>2
<1> QED BY <1>3, <1>4 DEF l

-----------------------------------------------------------------------------
(* The inductive invariant of the types and of the election: the part that   *)
(* has filled firstResp.id and not yet canceled firstResp is the one whose   *)
(* id it holds, and the id is there until Run, in fallback mode and with all *)
(* parts ended, takes it.                                                    *)

ElectionInv ==
  /\ \A p \in Parts : pc[p] \in {"won206", "won200"} => id = p
  /\ /\ first \in {"partial", "fallback"}
     /\ main \in {"launch", "abort", "abortPanic", "first", "collapse"} \/ ~AllEnded
     => id # 0
  /\ main = "collapse" => first = "fallback"

IInv == TypeOK /\ ElectionInv

LEMMA PartStartStopType ==
  ASSUME NEW p \in Parts
  PROVE  PartStart(ContentLength, N, p) \in Int /\ PartStop(ContentLength, N, p) \in Int
<1>1. TruncDiv(ContentLength, N) \in Int
  BY NAssumption, ContentLengthAssumption, SizeAssumption, Z3 DEF TruncDiv
<1>2. p \in Int /\ N \in Int /\ ContentLength \in Int
  BY NAssumption, ContentLengthAssumption, SizeAssumption
<1> QED BY <1>1, <1>2 DEF PartStart, PartStop, Fragment

LEMMA PartBounds ==
  ASSUME ContentLength > 1, NEW p \in Parts
  PROVE  /\ 0 < PartStop(ContentLength, N, p)
         /\ PartStart(ContentLength, N, p) <= PartStop(ContentLength, N, p)
<1> DEFINE f == ContentLength \div N
<1>1. N \in Nat /\ N > 0 /\ ContentLength \in Nat /\ ContentLength > 1 /\ p \in Nat
  BY NAssumption, ContentLengthAssumption, SizeAssumption
<1>2. f \in Nat /\ N * f <= ContentLength
  BY <1>1, Z3
<1>3. Fragment(ContentLength, N) = f
  BY <1>1 DEF Fragment, TruncDiv
<1>4. CASE N = 1
  <2>1. PartStart(ContentLength, N, p) = 0 * f /\ PartStop(ContentLength, N, p) = ContentLength - 1
    BY <1>3, <1>4 DEF PartStart, PartStop
  <2>2. 0 * f = 0
    BY <1>2, Z3
  <2> QED BY <1>1, <2>1, <2>2
<1>5. CASE N > 1
  <2>1. f >= 2
    <3>1. ContentLength >= 2 * N
      BY <1>5, PartsAssumption
    <3> QED BY <1>1, <3>1, Z3
  <2>2. p >= 1 /\ p <= N
    OBVIOUS
  <2>3. (p - 1) * f = p * f - f /\ p * f >= f /\ p * f \in Int
    BY <1>1, <1>2, <2>2, Z3
  <2>4. CASE p = N
    <3>1. PartStart(ContentLength, N, p) = (p - 1) * f
          /\ PartStop(ContentLength, N, p) = ContentLength - 1
      BY <1>3, <2>4 DEF PartStart, PartStop
    <3>2. p * f <= ContentLength
      BY <1>2, <2>4
    <3> HIDE DEF f
    <3> QED BY <1>1, <1>2, <2>1, <2>3, <3>1, <3>2
  <2>5. CASE p # N
    <3>1. PartStart(ContentLength, N, p) = (p - 1) * f
          /\ PartStop(ContentLength, N, p) = p * f - 1
      BY <1>3, <2>5 DEF PartStart, PartStop
    <3> HIDE DEF f
    <3> QED BY <1>1, <1>2, <2>1, <2>3, <3>1
  <2> QED BY <2>4, <2>5
<1> QED BY <1>1, <1>4, <1>5

LEMMA UncompletedPartsType == UncompletedParts \in Nat
<1>1. IsFiniteSet(Parts)
  BY NAssumption, FS_Interval
<1>2. IsFiniteSet({p \in Parts : ~IsContentDownloaded(p)})
  BY <1>1, FS_Subset
<1> QED BY <1>2, FS_CardinalityType DEF UncompletedParts

LEMMA InitIInv == Init => IInv
<1> SUFFICES ASSUME Init PROVE IInv
  OBVIOUS
<1>1. RunTypeOK
  <2>1. cap \in Nat
    BY UncompletedPartsType DEF Init
  <2>2. 1 \in 1 .. (N + 1) /\ sessionSingle \in BOOLEAN /\ restored \in BOOLEAN
    BY NAssumption DEF Init
  <2>3. dump \in [kind : {"none", "json", "recovered"}, written : [Parts -> Nat]]
    BY DEF Init
  <2> QED BY <2>1, <2>2, <2>3 DEF Init, RunTypeOK
<1>2. SharedTypeOK
  <2>1. cap \in Nat
    BY <1>1 DEF RunTypeOK
  <2>2. mctx \in BOOLEAN /\ bar \in BOOLEAN /\ errCh \in BOOLEAN
    BY Zenon DEF Init
  <2>3. id \in 0 .. N /\ total \in 0 .. cap
    BY <2>1, NAssumption DEF Init
  <2> QED BY <2>2, <2>3 DEF Init, SharedTypeOK
<1>3. PartTypeOK
  <2>1. PICK w \in [Parts -> 0 .. Size], d \in [Parts -> Damage] :
          /\ \A p \in Parts : w[p] + d[p] >= 0
          /\ written = w
          /\ file = [p \in Parts |-> Slice(start[p], w[p] + d[p])]
    BY DEF Init
  <2>2. start \in [Parts -> Int] /\ stop \in [Parts -> Int]
    BY PartStartStopType DEF Init
  <2>3. file \in [Parts -> Seq(Bytes)]
    <3>1. ASSUME NEW p \in Parts PROVE Slice(start[p], w[p] + d[p]) \in Seq(Bytes)
      <4>1. w[p] + d[p] \in Nat /\ start[p] \in Int
        <5>1. w[p] \in 0 .. Size /\ d[p] \in Damage
          BY <2>1
        <5>2. d[p] \in Int
          BY <5>1, DamageAssumption
        <5>3. w[p] \in Int
          BY <5>1, SizeAssumption
        <5> QED BY <2>1, <2>2, <5>2, <5>3
      <4>2. Slice(start[p], w[p] + d[p]) \in Seq(Int)
        BY <4>1, SliceType
      <4> QED BY <4>2 DEF Bytes
    <3> QED BY <2>1, <3>1
  <2>4. written \in [Parts -> Nat]
    BY <2>1, SizeAssumption
  <2>5. single \in [Parts -> BOOLEAN] /\ partial \in [Parts -> BOOLEAN]
    BY DEF Init
  <2>6. attempt \in [Parts -> 0 .. MaxTry] /\ pos \in [Parts -> Nat]
    BY MaxTryAssumption DEF Init
  <2>7. /\ body \in [Parts -> [from : Int, to : Int]]
        /\ pc \in [Parts -> {"new", "wait", "won206", "won200", "loop", "incr", "after",
                             "failed", "panic", "exit", "end"}]
        /\ err \in [Parts -> {"nil", "eof", "fail"}]
        /\ fd \in [Parts -> {"nil", "append", "trunc", "merged", "removed"}]
    BY DEF Init
  <2> QED BY <2>2, <2>3, <2>4, <2>5, <2>6, <2>7 DEF PartTypeOK, Bytes
<1>4. LaunchOK /\ ElectionInv
  BY NAssumption DEF Init, LaunchOK, ElectionInv
<1> QED BY <1>1, <1>2, <1>3, <1>4 DEF IInv, TypeOK

-----------------------------------------------------------------------------
(* The steps of Run. *)

\* What a step that leaves a group of variables alone preserves.
LEMMA PartFrame == PartTypeOK /\ UNCHANGED partVars => PartTypeOK'
BY DEF PartTypeOK, partVars, tryVars, modeVars, fileVars

LEMMA RunFrame == RunTypeOK /\ UNCHANGED <<sessionVars, runVars>> => RunTypeOK'
BY DEF RunTypeOK, sessionVars, runVars, shapeVars, endVars

LEMMA CancelRunType ==
  ASSUME SharedTypeOK, NEW cause \in {"session", "signal", "ended"}, CancelRun(cause)
  PROVE  /\ ctx' \in {"live", "session", "signal", "ended"}
         /\ first' \in {"none", "partial", "fallback", "canceled"}
         /\ first' \in {"partial", "fallback"} => first' = first
         /\ first \in {"partial", "fallback"} => first' = first
BY DEF SharedTypeOK, CancelRun

LEMMA MainStepIInv == IInv /\ MainStep => IInv'
<1> SUFFICES ASSUME IInv, MainStep PROVE IInv'
  OBVIOUS
<1> USE DEF IInv, TypeOK, offRunVars, sessionVars, shapeVars, endVars, ctxVars, chanVars
<1>1. CASE InitPart
  <2>1. nexti \in Parts /\ main = "launch" /\ nexti' = nexti + 1
    BY <1>1 DEF InitPart, LaunchOK
  <2>2. /\ pc' = pc \/ pc' = [pc EXCEPT ![nexti] = "wait"]
        /\ doneCount' \in {doneCount, doneCount + 1}
    BY <1>1 DEF InitPart, Goto
  <2>3. RunTypeOK'
    <3>1. nexti' \in 1 .. (N + 1)
      BY <2>1, NAssumption
    <3> QED BY <1>1, <3>1 DEF InitPart, RunTypeOK
  <2>4. SharedTypeOK'
    BY <1>1, <2>2 DEF InitPart, SharedTypeOK
  <2>5. PartTypeOK'
    <3>1. pc' \in [Parts -> {"new", "wait", "won206", "won200", "loop", "incr", "after",
                            "failed", "panic", "exit", "end"}]
      BY <2>1, <2>2 DEF PartTypeOK
    <3> QED BY <1>1, <3>1 DEF InitPart, PartTypeOK, tryVars, modeVars, fileVars
  <2>6. LaunchOK'
    <3>1. main' = "launch" => nexti' \in Parts
      BY <1>1, <2>1, NAssumption DEF InitPart
    <3>2. ASSUME NEW p \in Parts, pc'[p] # "new" PROVE p < nexti'
      <4>1. p = nexti \/ pc[p] # "new"
        BY <2>1, <2>2, <3>2 DEF PartTypeOK
      <4> QED BY <2>1, <4>1, NAssumption DEF LaunchOK
    <3>3. ASSUME NEW p \in Parts, pc'[p] = "incr" PROVE ~single'[p]
      BY <1>1, <2>1, <2>2, <3>3 DEF InitPart, LaunchOK, modeVars, PartTypeOK
    <3> QED BY <3>1, <3>2, <3>3 DEF LaunchOK
  <2>7. ElectionInv'
    <3>1. \A p \in Parts : pc'[p] \in {"won206", "won200"} => id' = p
      BY <1>1, <2>1, <2>2 DEF InitPart, ElectionInv, PartTypeOK
    <3>2. first' \in {"partial", "fallback"} => id' # 0
      BY <1>1, <2>1 DEF InitPart, ElectionInv
    <3>3. main' # "collapse"
      BY <1>1 DEF InitPart
    <3> QED BY <3>1, <3>2, <3>3 DEF ElectionInv
  <2> QED BY <2>3, <2>4, <2>5, <2>6, <2>7
<1>2. CASE InitPartFails
  <2>1. RunTypeOK'
    BY <1>2 DEF InitPartFails, RunTypeOK
  <2>2. SharedTypeOK'
    BY <1>2, CancelRunType DEF InitPartFails, SharedTypeOK
  <2>3. PartTypeOK'
    BY <1>2, PartFrame DEF InitPartFails
  <2>4. LaunchOK'
    BY <1>2 DEF InitPartFails, LaunchOK, partVars, modeVars
  <2>5. ElectionInv'
    BY <1>2, CancelRunType DEF InitPartFails, ElectionInv, AllEnded, Running, partVars
  <2> QED BY <2>1, <2>2, <2>3, <2>4, <2>5
<1>3. CASE FallbackRestored
  <2>1. RunTypeOK'
    BY <1>3 DEF FallbackRestored, RunTypeOK
  <2>2. SharedTypeOK'
    BY <1>3, CancelRunType DEF FallbackRestored, SharedTypeOK
  <2>3. PartTypeOK'
    BY <1>3, PartFrame DEF FallbackRestored
  <2>4. LaunchOK'
    BY <1>3 DEF FallbackRestored, LaunchOK, partVars, modeVars
  <2>5. ElectionInv'
    BY <1>3, CancelRunType DEF FallbackRestored, ElectionInv, AllEnded, Running, partVars
  <2> QED BY <2>1, <2>2, <2>3, <2>4, <2>5
<1>4. CASE FallbackToSingle
  <2>1. RunTypeOK'
    BY <1>4 DEF FallbackToSingle, RunTypeOK
  <2>2. SharedTypeOK'
    BY <1>4 DEF FallbackToSingle, SharedTypeOK
  <2>3. PartTypeOK'
    BY <1>4, PartFrame DEF FallbackToSingle
  <2>4. LaunchOK'
    BY <1>4 DEF FallbackToSingle, LaunchOK, partVars, modeVars
  <2>5. ElectionInv'
    BY <1>4 DEF FallbackToSingle, ElectionInv, AllEnded, Running, partVars
  <2> QED BY <2>1, <2>2, <2>3, <2>4, <2>5
<1>5. CASE AddTotalBar
  <2>1. RunTypeOK'
    BY <1>5 DEF AddTotalBar, RunTypeOK
  <2>2. SharedTypeOK'
    BY <1>5 DEF AddTotalBar, SharedTypeOK
  <2>3. PartTypeOK'
    BY <1>5, PartFrame DEF AddTotalBar
  <2>4. LaunchOK'
    BY <1>5 DEF AddTotalBar, LaunchOK, partVars, modeVars
  <2>5. ElectionInv'
    BY <1>5 DEF AddTotalBar, ElectionInv, AllEnded, Running, partVars
  <2> QED BY <2>1, <2>2, <2>3, <2>4, <2>5
<1>6. CASE AddTotalBarFails
  <2>1. RunTypeOK'
    BY <1>6 DEF AddTotalBarFails, RunTypeOK
  <2>2. SharedTypeOK'
    BY <1>6 DEF AddTotalBarFails, SharedTypeOK
  <2>3. PartTypeOK'
    BY <1>6, PartFrame DEF AddTotalBarFails
  <2>4. LaunchOK'
    BY <1>6 DEF AddTotalBarFails, LaunchOK, partVars, modeVars
  <2>5. ElectionInv'
    BY <1>6 DEF AddTotalBarFails, ElectionInv, AllEnded, Running, partVars
  <2> QED BY <2>1, <2>2, <2>3, <2>4, <2>5
<1>7. CASE NothingToPrepare
  <2>1. RunTypeOK'
    BY <1>7 DEF NothingToPrepare, RunTypeOK
  <2>2. SharedTypeOK'
    BY <1>7 DEF NothingToPrepare, SharedTypeOK
  <2>3. PartTypeOK'
    BY <1>7, PartFrame DEF NothingToPrepare
  <2>4. LaunchOK'
    BY <1>7 DEF NothingToPrepare, LaunchOK, partVars, modeVars
  <2>5. ElectionInv'
    BY <1>7 DEF NothingToPrepare, ElectionInv, AllEnded, Running, partVars
  <2> QED BY <2>1, <2>2, <2>3, <2>4, <2>5
<1>8. CASE Abort
  <2>1. RunTypeOK'
    BY <1>8 DEF Abort, RunTypeOK
  <2>2. SharedTypeOK'
    BY <1>8 DEF Abort, SharedTypeOK
  <2>3. PartTypeOK'
    BY <1>8, PartFrame DEF Abort
  <2>4. LaunchOK'
    BY <1>8 DEF Abort, LaunchOK, partVars, modeVars
  <2>5. ElectionInv'
    BY <1>8 DEF Abort, ElectionInv, AllEnded, Running, partVars
  <2> QED BY <2>1, <2>2, <2>3, <2>4, <2>5
<1>9. CASE Collapse
  <2>1. RunTypeOK'
    <3>1. id \in Parts
      BY <1>9, NAssumption DEF Collapse, SharedTypeOK, ElectionInv
    <3> QED BY <1>9, <3>1 DEF Collapse, RunTypeOK
  <2>2. SharedTypeOK'
    BY <1>9, NAssumption DEF Collapse, SharedTypeOK
  <2>3. PartTypeOK'
    BY <1>9, PartFrame DEF Collapse
  <2>4. LaunchOK'
    BY <1>9 DEF Collapse, LaunchOK, partVars, modeVars
  <2>5. ElectionInv'
    BY <1>9 DEF Collapse, ElectionInv, AllEnded, Running, partVars
  <2> QED BY <2>1, <2>2, <2>3, <2>4, <2>5
<1>10. CASE JoinError
  <2>1. RunTypeOK'
    BY <1>10 DEF JoinError, RunTypeOK
  <2>2. SharedTypeOK'
    BY <1>10 DEF JoinError, SharedTypeOK
  <2>3. PartTypeOK'
    BY <1>10, PartFrame DEF JoinError
  <2>4. LaunchOK'
    BY <1>10 DEF JoinError, LaunchOK, partVars, modeVars
  <2>5. ElectionInv'
    BY <1>10 DEF JoinError, ElectionInv, AllEnded, Running, partVars
  <2> QED BY <2>1, <2>2, <2>3, <2>4, <2>5
<1>11. CASE JoinPanic
  <2>1. RunTypeOK'
    BY <1>11 DEF JoinPanic, RunTypeOK
  <2>2. SharedTypeOK'
    BY <1>11, CancelRunType DEF JoinPanic, SharedTypeOK
  <2>3. PartTypeOK'
    BY <1>11, PartFrame DEF JoinPanic
  <2>4. LaunchOK'
    BY <1>11 DEF JoinPanic, LaunchOK, partVars, modeVars
  <2>5. ElectionInv'
    BY <1>11, CancelRunType DEF JoinPanic, ElectionInv, AllEnded, Running, partVars
  <2> QED BY <2>1, <2>2, <2>3, <2>4, <2>5
<1>12. CASE Join
  <2>1. RunTypeOK'
    BY <1>12 DEF Join, RunTypeOK
  <2>2. SharedTypeOK'
    BY <1>12 DEF Join, SharedTypeOK
  <2>3. PartTypeOK'
    BY <1>12, PartFrame DEF Join
  <2>4. LaunchOK'
    BY <1>12 DEF Join, LaunchOK, partVars, modeVars
  <2>5. ElectionInv'
    BY <1>12 DEF Join, ElectionInv, AllEnded, Running, partVars
  <2> QED BY <2>1, <2>2, <2>3, <2>4, <2>5
<1>13. CASE MergeSingle
  <2>1. RunTypeOK'
    BY <1>13 DEF MergeSingle, RunTypeOK
  <2>2. SharedTypeOK'
    BY <1>13 DEF MergeSingle, SharedTypeOK
  <2>3. PartTypeOK'
    BY <1>13, PartFrame DEF MergeSingle
  <2>4. LaunchOK'
    BY <1>13 DEF MergeSingle, LaunchOK, partVars, modeVars
  <2>5. ElectionInv'
    BY <1>13 DEF MergeSingle, ElectionInv, AllEnded, Running, partVars
  <2> QED BY <2>1, <2>2, <2>3, <2>4, <2>5
<1>14. CASE MergeRefused
  <2>1. RunTypeOK'
    BY <1>14 DEF MergeRefused, RunTypeOK
  <2>2. SharedTypeOK'
    BY <1>14 DEF MergeRefused, SharedTypeOK
  <2>3. PartTypeOK'
    BY <1>14, PartFrame DEF MergeRefused
  <2>4. LaunchOK'
    BY <1>14 DEF MergeRefused, LaunchOK, partVars, modeVars
  <2>5. ElectionInv'
    BY <1>14 DEF MergeRefused, ElectionInv, AllEnded, Running, partVars
  <2> QED BY <2>1, <2>2, <2>3, <2>4, <2>5
<1>15. CASE Concat
  <2>1. RunTypeOK'
    BY <1>15 DEF Concat, RunTypeOK
  <2>2. SharedTypeOK'
    BY <1>15 DEF Concat, SharedTypeOK
  <2>3. PartTypeOK'
    <3>1. fd' \in [Parts -> {"nil", "append", "trunc", "merged", "removed"}]
      BY <1>15 DEF Concat, PartTypeOK
    <3> QED BY <1>15, <3>1 DEF Concat, PartTypeOK, tryVars, modeVars
  <2>4. LaunchOK'
    BY <1>15 DEF Concat, LaunchOK, partVars, modeVars
  <2>5. ElectionInv'
    BY <1>15 DEF Concat, ElectionInv, AllEnded, Running, partVars
  <2> QED BY <2>1, <2>2, <2>3, <2>4, <2>5
<1>16. CASE Classify
  <2>1. RunTypeOK'
    <3>1. outcome' \in {"uncompleted", "completed", "uncompletedWithAdvance",
                       "completedWithError"}
      BY <1>16, ResumableAssumption DEF Classify, StateQuery
    <3> QED BY <1>16, <3>1 DEF Classify, RunTypeOK
  <2>2. SharedTypeOK'
    BY <1>16, CancelRunType DEF Classify, SharedTypeOK
  <2>3. PartTypeOK'
    BY <1>16, PartFrame DEF Classify
  <2>4. LaunchOK'
    BY <1>16 DEF Classify, LaunchOK, partVars, modeVars
  <2>5. ElectionInv'
    BY <1>16, CancelRunType DEF Classify, ElectionInv, AllEnded, Running, partVars
  <2> QED BY <2>1, <2>2, <2>3, <2>4, <2>5
<1>17. CASE DumpState
  <2>1. RunTypeOK'
    <3>1. dump' \in [kind : {"none", "json", "recovered"}, written : [Parts -> Nat]]
      BY <1>17 DEF DumpState, PartTypeOK
    <3> QED BY <1>17, <3>1 DEF DumpState, RunTypeOK
  <2>2. SharedTypeOK'
    BY <1>17 DEF DumpState, SharedTypeOK
  <2>3. PartTypeOK'
    BY <1>17, PartFrame DEF DumpState
  <2>4. LaunchOK'
    BY <1>17 DEF DumpState, LaunchOK, partVars, modeVars
  <2>5. ElectionInv'
    BY <1>17 DEF DumpState, ElectionInv, AllEnded, Running, partVars
  <2> QED BY <2>1, <2>2, <2>3, <2>4, <2>5
<1>18. CASE CloseFiles
  <2>1. RunTypeOK'
    BY <1>18 DEF CloseFiles, RunTypeOK
  <2>2. SharedTypeOK'
    BY <1>18 DEF CloseFiles, SharedTypeOK
  <2>3. PartTypeOK'
    BY <1>18, PartFrame DEF CloseFiles
  <2>4. LaunchOK'
    BY <1>18 DEF CloseFiles, LaunchOK, partVars, modeVars
  <2>5. ElectionInv'
    BY <1>18 DEF CloseFiles, ElectionInv, AllEnded, Running, partVars
  <2> QED BY <2>1, <2>2, <2>3, <2>4, <2>5
<1> QED BY <1>1, <1>2, <1>3, <1>4, <1>5, <1>6, <1>7, <1>8, <1>9, <1>10, <1>11, <1>12, <1>13, <1>14, <1>15, <1>16, <1>17, <1>18 DEF MainStep

-----------------------------------------------------------------------------
(* The steps of a part. *)

LEMMA SharedFrame ==
  SharedTypeOK /\ UNCHANGED <<sessionVars, ctxVars, id, chanVars>> => SharedTypeOK'
BY DEF SharedTypeOK, sessionVars, ctxVars, chanVars

\* What a step of a running part has to show beyond its types.  It changes the
\* status of the session only if it is the elected one, and does not wait on
\* totalCh when it is single.
LEMMA StepIInv ==
  ASSUME IInv, NEW p \in Parts, pc[p] \notin {"new", "end"},
         NEW l, pc' = [pc EXCEPT ![p] = l], l \notin {"won206", "won200"},
         UNCHANGED <<sessionVars, runVars, id>>,
         first' = first \/ first' = "canceled" \/ id = p,
         main = "collapse" => first' = first,
         \A q \in Parts : q # p => single'[q] = single[q],
         l = "incr" => ~single'[p],
         SharedTypeOK', PartTypeOK'
  PROVE  IInv'
<1> USE DEF runVars, shapeVars
<1>1. nexti' = nexti /\ main' = main /\ id' = id
  OBVIOUS
<1>2. ASSUME NEW q \in Parts PROVE pc'[q] = IF q = p THEN l ELSE pc[q]
  BY DEF IInv, TypeOK, PartTypeOK
<1>3. RunTypeOK'
  BY RunFrame DEF IInv, TypeOK
<1>4. LaunchOK'
  BY <1>1, <1>2 DEF IInv, TypeOK, LaunchOK
<1>5. ElectionInv'
  <2>1. \A q \in Parts : pc'[q] \in {"won206", "won200"} => id' = q
    BY <1>1, <1>2 DEF IInv, ElectionInv
  <2>2. first' \in {"partial", "fallback"} => id' # 0
    <3>1. ~AllEnded
      BY DEF AllEnded, Running
    <3>2. p # 0
      BY NAssumption
    <3> QED BY <1>1, <3>1, <3>2 DEF IInv, ElectionInv
  <2>3. main' = "collapse" => first' = "fallback"
    BY <1>1 DEF IInv, ElectionInv
  <2> QED BY <2>1, <2>2, <2>3 DEF ElectionInv
<1> QED BY <1>3, <1>4, <1>5 DEF IInv, TypeOK

\* The election itself: nobody else is being elected, because firstResp.id was
\* empty.
LEMMA ElectIInv ==
  ASSUME IInv, NEW p \in Parts, pc[p] = "wait", id = 0, id' = p,
         NEW l \in {"won206", "won200"}, pc' = [pc EXCEPT ![p] = l],
         UNCHANGED <<runAndCtxVars, chanVars, tryVars, modeVars, fileVars>>
  PROVE  IInv'
<1> USE DEF runAndCtxVars, runVars, shapeVars, sessionVars, ctxVars
<1>1. nexti' = nexti /\ main' = main /\ first' = first /\ single' = single /\ cap' = cap
  BY DEF modeVars
<1>2. ASSUME NEW q \in Parts PROVE pc'[q] = IF q = p THEN l ELSE pc[q]
  BY DEF IInv, TypeOK, PartTypeOK
<1>3. RunTypeOK'
  BY RunFrame DEF IInv, TypeOK
<1>4. SharedTypeOK'
  BY NAssumption DEF IInv, TypeOK, SharedTypeOK, chanVars
<1>5. PartTypeOK'
  BY DEF IInv, TypeOK, PartTypeOK, tryVars, modeVars, fileVars
<1>6. LaunchOK'
  BY <1>1, <1>2 DEF IInv, TypeOK, LaunchOK
<1>7. ElectionInv'
  <2>1. ASSUME NEW q \in Parts, pc'[q] \in {"won206", "won200"} PROVE id' = q
    <3>1. q = p \/ id = q
      BY <1>2, <2>1 DEF IInv, ElectionInv
    <3> QED BY <3>1, NAssumption
  <2>2. id' # 0
    BY NAssumption
  <2> QED BY <1>1, <2>1, <2>2 DEF IInv, ElectionInv
<1> QED BY <1>3, <1>4, <1>5, <1>6, <1>7 DEF IInv, TypeOK

LEMMA StepPc ==
  ASSUME PartTypeOK, NEW p \in Parts,
         NEW l \in {"new", "wait", "won206", "won200", "loop", "incr", "after",
                    "failed", "panic", "exit", "end"},
         Goto(p, l)
  PROVE  pc' \in [Parts -> {"new", "wait", "won206", "won200", "loop", "incr", "after",
                           "failed", "panic", "exit", "end"}]
BY DEF PartTypeOK, Goto

LEMMA RangeType ==
  ASSUME PartTypeOK, NEW p \in Parts
  PROVE  RangeFrom(p) \in Int /\ RangeTo(p) \in Int
BY SizeAssumption DEF PartTypeOK, RangeFrom, RangeTo

LEMMA EnterLoopType ==
  ASSUME PartTypeOK, NEW p \in Parts, NEW a \in Int, NEW b \in Int, EnterLoop(p, a, b)
  PROVE  /\ pc' = [pc EXCEPT ![p] = "loop"]
         /\ body' \in [Parts -> [from : Int, to : Int]]
         /\ err' \in [Parts -> {"nil", "eof", "fail"}]
BY DEF PartTypeOK, EnterLoop, Goto

LEMMA LeaveType ==
  ASSUME PartTypeOK, NEW p \in Parts, NEW e \in {"nil", "fail"}, Leave(p, e)
  PROVE  /\ pc' = [pc EXCEPT ![p] = "exit"]
         /\ err' \in [Parts -> {"nil", "eof", "fail"}]
BY DEF PartTypeOK, Leave, Goto

LEMMA SetupPartialType ==
  ASSUME PartTypeOK, NEW p \in Parts, SetupPartial(p)
  PROVE  /\ \E l \in {"loop", "exit"} : pc' = [pc EXCEPT ![p] = l]
         /\ body' \in [Parts -> [from : Int, to : Int]]
         /\ err' \in [Parts -> {"nil", "eof", "fail"}]
         /\ partial' \in [Parts -> BOOLEAN]
         /\ fd' \in [Parts -> {"nil", "append", "trunc", "merged", "removed"}]
<1> DEFINE opened == [fd EXCEPT ![p] = IF @ = "nil" THEN "append" ELSE @]
<1>1. opened \in [Parts -> {"nil", "append", "trunc", "merged", "removed"}]
  BY DEF PartTypeOK
<1> HIDE DEF opened
<1>2. CASE /\ fd' = opened
           /\ partial' = [partial EXCEPT ![p] = TRUE]
           /\ EnterLoop(p, RangeFrom(p), RangeTo(p))
  <2>1. partial' \in [Parts -> BOOLEAN]
    BY <1>2 DEF PartTypeOK
  <2> QED BY <1>1, <1>2, <2>1, RangeType, EnterLoopType
<1>3. CASE /\ fd' = fd \/ fd' = opened
           /\ Leave(p, "fail")
           /\ UNCHANGED <<partial, body>>
  BY <1>1, <1>3, LeaveType DEF PartTypeOK
<1> QED BY <1>2, <1>3 DEF SetupPartial, opened

LEMMA PartStepIInv ==
  ASSUME IInv, NEW p \in Parts, PartStep(p)
  PROVE  IInv'
<1> USE DEF IInv, TypeOK, runAndCtxVars, ctxVars, tryVars, modeVars, fileVars, At
<1>1. CASE Elect206(p)
  BY <1>1, ElectIInv DEF Elect206, Goto
<1>2. CASE Elect200(p)
  BY <1>2, ElectIInv DEF Elect200, Goto
<1>3. CASE WinPartial(p)
  <2>1. PICK l \in {"loop", "exit"} : pc' = [pc EXCEPT ![p] = l]
    BY <1>3, SetupPartialType DEF WinPartial
  <2>2. SharedTypeOK'
    BY <1>3 DEF WinPartial, SharedTypeOK, sessionVars, chanVars
  <2>3. PartTypeOK'
    <3>1. pc' \in [Parts -> {"new", "wait", "won206", "won200", "loop", "incr", "after",
                           "failed", "panic", "exit", "end"}]
      BY <2>1 DEF PartTypeOK
    <3> QED BY <1>3, <3>1, SetupPartialType DEF WinPartial, PartTypeOK
  <2>4. id = p /\ pc[p] \notin {"new", "end"}
    BY <1>3 DEF WinPartial, ElectionInv
  <2>5. main = "collapse" => first' = first
    BY <1>3 DEF WinPartial, ElectionInv
  <2> QED BY <1>3, <2>1, <2>2, <2>3, <2>4, <2>5, StepIInv DEF WinPartial
<1>4. CASE Answer206(p)
  <2>1. SharedTypeOK' /\ pc[p] = "wait"
    BY <1>4, SharedFrame DEF Answer206
  <2>2. CASE Goto(p, "panic") /\ UNCHANGED <<body, err, partial, fd>>
    <3>1. PartTypeOK'
      BY <1>4, <2>2 DEF Answer206, PartTypeOK, Goto
    <3> QED BY <1>4, <2>1, <2>2, <3>1, StepIInv DEF Answer206, Goto
  <2>3. CASE SetupPartial(p)
    <3>1. PICK l \in {"loop", "exit"} : pc' = [pc EXCEPT ![p] = l]
      BY <2>3, SetupPartialType
    <3>2. PartTypeOK'
      <4>1. pc' \in [Parts -> {"new", "wait", "won206", "won200", "loop", "incr", "after",
                           "failed", "panic", "exit", "end"}]
        BY <3>1 DEF PartTypeOK
      <4> QED BY <1>4, <2>3, <4>1, SetupPartialType DEF Answer206, PartTypeOK
    <3> QED BY <1>4, <2>1, <3>1, <3>2, StepIInv DEF Answer206
  <2> QED BY <1>4, <2>2, <2>3 DEF Answer206
<1>5. CASE WinFallback(p)
  <2>1. SharedTypeOK'
    BY <1>5 DEF WinFallback, SharedTypeOK, sessionVars, chanVars
  <2>2. id = p /\ pc[p] \notin {"new", "end"}
    BY <1>5 DEF WinFallback, ElectionInv
  <2>3. main = "collapse" => first' = first
    BY <1>5 DEF WinFallback, ElectionInv
  <2>4. written' = written /\ attempt' = attempt
    BY <1>5 DEF WinFallback
  <2>5. ASSUME NEW l \in {"panic", "loop", "exit"}, pc' = [pc EXCEPT ![p] = l],
               \A q \in Parts : q # p => single'[q] = single[q],
               body' \in [Parts -> [from : Int, to : Int]],
               err' \in [Parts -> {"nil", "eof", "fail"}],
               single' \in [Parts -> BOOLEAN], partial' = partial,
               start' \in [Parts -> Int], stop' \in [Parts -> Int],
               file' \in [Parts -> Seq(Int \cup {Hole})],
               fd' \in [Parts -> {"nil", "append", "trunc", "merged", "removed"}],
               pos' \in [Parts -> Nat]
        PROVE  IInv'
    <3>1. PartTypeOK'
      BY <2>4, <2>5 DEF PartTypeOK
    <3> QED BY <1>5, <2>1, <2>2, <2>3, <2>5, <3>1, StepIInv DEF WinFallback
  <2>6. CASE /\ Goto(p, "panic")
             /\ UNCHANGED <<body, err, modeVars, file, fd, pos>>
    BY <2>5, <2>6 DEF Goto, PartTypeOK
  <2>7. CASE Leave(p, "fail") /\ UNCHANGED <<body, modeVars, file, fd, pos>>
    BY <2>5, <2>7, LeaveType DEF PartTypeOK
  <2>8. CASE /\ file' = [file EXCEPT ![p] = <<>>]
             /\ fd' = [fd EXCEPT ![p] = "trunc"]
             /\ pos' = [pos EXCEPT ![p] = 0]
             /\ \/ /\ \E cl \in {-1, Size} : stop' = [stop EXCEPT ![p] = cl - 1]
                   /\ start' = [start EXCEPT ![p] = 0]
                   /\ single' = [single EXCEPT ![p] = TRUE]
                   /\ EnterLoop(p, 0, Size - 1)
                \/ /\ Leave(p, "fail")
                   /\ UNCHANGED <<body, single, start, stop>>
             /\ UNCHANGED partial
    <3>1. /\ file' \in [Parts -> Seq(Int \cup {Hole})]
          /\ fd' \in [Parts -> {"nil", "append", "trunc", "merged", "removed"}]
          /\ pos' \in [Parts -> Nat] /\ partial' = partial
      BY <2>8 DEF PartTypeOK
    <3>2. CASE Leave(p, "fail") /\ UNCHANGED <<body, single, start, stop>>
      BY <2>5, <3>1, <3>2, LeaveType DEF PartTypeOK
    <3>3. CASE /\ \E cl \in {-1, Size} : stop' = [stop EXCEPT ![p] = cl - 1]
               /\ start' = [start EXCEPT ![p] = 0]
               /\ single' = [single EXCEPT ![p] = TRUE]
               /\ EnterLoop(p, 0, Size - 1)
      <4>1. start' \in [Parts -> Int] /\ stop' \in [Parts -> Int]
        BY <3>3, SizeAssumption DEF PartTypeOK
      <4>2. /\ single' \in [Parts -> BOOLEAN]
            /\ \A q \in Parts : q # p => single'[q] = single[q]
        BY <3>3 DEF PartTypeOK
      <4>3. /\ pc' = [pc EXCEPT ![p] = "loop"]
            /\ body' \in [Parts -> [from : Int, to : Int]]
            /\ err' \in [Parts -> {"nil", "eof", "fail"}]
        <5>1. 0 \in Int /\ Size - 1 \in Int
          BY SizeAssumption
        <5> QED BY <3>3, <5>1, EnterLoopType
      <4> QED BY <2>5, <3>1, <4>1, <4>2, <4>3
    <3> QED BY <2>8, <3>2, <3>3
  <2> QED BY <1>5, <2>6, <2>7, <2>8 DEF WinFallback
<1>6. CASE Superseded(p)
  <2>1. PICK l \in {"panic", "exit"} : pc' = [pc EXCEPT ![p] = l]
    BY <1>6 DEF Superseded, Goto, Leave
  <2>2. SharedTypeOK' /\ pc[p] = "wait"
    BY <1>6, SharedFrame DEF Superseded
  <2>3. PartTypeOK'
    BY <1>6, <2>1 DEF Superseded, PartTypeOK, Leave
  <2> QED BY <1>6, <2>1, <2>2, <2>3, StepIInv DEF Superseded
<1>7. CASE Restart(p)
  <2>1. SharedTypeOK' /\ pc[p] = "wait"
    BY <1>7, SharedFrame DEF Restart
  <2>2. /\ pc' = [pc EXCEPT ![p] = "loop"]
        /\ body' \in [Parts -> [from : Int, to : Int]]
        /\ err' \in [Parts -> {"nil", "eof", "fail"}]
    <3>1. 0 \in Int /\ Size - 1 \in Int
      BY SizeAssumption
    <3> QED BY <1>7, <3>1, EnterLoopType DEF Restart
  <2>3. /\ written' \in [Parts -> Nat]
        /\ file' \in [Parts -> Seq(Int \cup {Hole})]
    <3>1. CASE written[p] = 0
      BY <1>7, <3>1 DEF Restart, PartTypeOK
    <3>2. CASE written[p] # 0
      <4>1. file' = [file EXCEPT ![p] = <<>>] /\ written' = [written EXCEPT ![p] = 0]
        BY <1>7, <3>2 DEF Restart
      <4> QED BY <4>1 DEF PartTypeOK
    <3> QED BY <3>1, <3>2
  <2>4. PartTypeOK'
    BY <1>7, <2>2, <2>3 DEF Restart, PartTypeOK
  <2>5. UNCHANGED <<sessionVars, runVars, id, first, main, single>>
    BY <1>7 DEF Restart, runVars
  <2> QED BY <2>1, <2>2, <2>4, <2>5, StepIInv
<1>8. CASE Unanswered(p)
  <2>1. pc' = [pc EXCEPT ![p] = "failed"] /\ pc[p] \notin {"new", "end"}
    BY <1>8 DEF Unanswered, Goto, Leave
  <2>2. SharedTypeOK'
    BY <1>8, SharedFrame DEF Unanswered
  <2>3. PartTypeOK'
    BY <1>8, <2>1 DEF Unanswered, PartTypeOK, Leave, NoBody
  <2> QED BY <1>8, <2>1, <2>2, <2>3, StepIInv DEF Unanswered
<1>9. CASE OtherStatus(p)
  <2>1. pc' = [pc EXCEPT ![p] = "exit"] /\ pc[p] \notin {"new", "end"}
    BY <1>9 DEF OtherStatus, Goto, Leave
  <2>2. SharedTypeOK'
    BY <1>9, SharedFrame DEF OtherStatus
  <2>3. PartTypeOK'
    BY <1>9, <2>1 DEF OtherStatus, PartTypeOK, Leave, NoBody
  <2> QED BY <1>9, <2>1, <2>2, <2>3, StepIInv DEF OtherStatus
<1>10. CASE LoopBreak(p)
  <2>1. pc' = [pc EXCEPT ![p] = "after"] /\ pc[p] \notin {"new", "end"}
    BY <1>10 DEF LoopBreak, Goto, Leave
  <2>2. SharedTypeOK'
    BY <1>10, SharedFrame DEF LoopBreak
  <2>3. PartTypeOK'
    BY <1>10, <2>1 DEF LoopBreak, PartTypeOK, Leave, NoBody
  <2> QED BY <1>10, <2>1, <2>2, <2>3, StepIInv DEF LoopBreak
<1>11. CASE ReadFails(p)
  <2>1. pc' = [pc EXCEPT ![p] = "failed"] /\ pc[p] \notin {"new", "end"}
    BY <1>11 DEF ReadFails, Goto, Leave
  <2>2. SharedTypeOK'
    BY <1>11, SharedFrame DEF ReadFails
  <2>3. PartTypeOK'
    BY <1>11, <2>1 DEF ReadFails, PartTypeOK, Leave, NoBody
  <2> QED BY <1>11, <2>1, <2>2, <2>3, StepIInv DEF ReadFails
<1>12. CASE Read(p)
  <2> DEFINE rest   == body[p].to - body[p].from + 1
             offset == IF fd[p] = "trunc" THEN pos[p] ELSE Len(file[p])
             next(e) == IF ~single[p] THEN "incr" ELSE IF e = "eof" THEN "after" ELSE "loop"
  <2>1. PICK n \in 0 .. rest, e \in {"nil", "eof"} :
          /\ IF n = 0 THEN UNCHANGED <<file, pos>>
             ELSE /\ file' = [file EXCEPT ![p] = WriteAt(@, offset, body[p].from, n)]
                  /\ pos' = [pos EXCEPT ![p] = IF fd[p] = "trunc" THEN @ + n ELSE @]
          /\ written' = [written EXCEPT ![p] = @ + n]
          /\ err' = [err EXCEPT ![p] = e]
          /\ Goto(p, next(e))
          /\ \E lost \in 0 .. (IF WriteFaults /\ e = "nil" THEN rest - n ELSE 0) :
               body' = [body EXCEPT ![p] =
                          IF e = "eof" THEN NoBody
                          ELSE [from |-> body[p].from + n + lost, to |-> body[p].to]]
    BY <1>12, Zenon DEF Read
  <2> HIDE DEF next
  <2>2. rest \in Int /\ n \in Nat /\ body[p].from \in Int /\ offset \in Nat
    BY DEF PartTypeOK
  <2> HIDE DEF rest, offset
  <2>3. file' \in [Parts -> Seq(Int \cup {Hole})] /\ pos' \in [Parts -> Nat]
    <3>1. WriteAt(file[p], offset, body[p].from, n) \in Seq(Int \cup {Hole})
      BY <2>2, WriteAtType DEF PartTypeOK, Bytes
    <3>2. CASE n = 0
      BY <2>1, <3>2 DEF PartTypeOK
    <3>3. CASE n # 0
      <4>1. file' = [file EXCEPT ![p] = WriteAt(file[p], offset, body[p].from, n)]
        BY <2>1, <3>3
      <4>2. pos' = [pos EXCEPT ![p] = IF fd[p] = "trunc" THEN pos[p] + n ELSE pos[p]]
        BY <2>1, <3>3
      <4>3. (IF fd[p] = "trunc" THEN pos[p] + n ELSE pos[p]) \in Nat
        BY <2>2 DEF PartTypeOK
      <4> QED BY <3>1, <4>1, <4>2, <4>3 DEF PartTypeOK
    <3> QED BY <3>2, <3>3
  <2>4. written' \in [Parts -> Nat] /\ err' \in [Parts -> {"nil", "eof", "fail"}]
    BY <2>1, <2>2 DEF PartTypeOK
  <2>5. body' \in [Parts -> [from : Int, to : Int]]
    <3>1. PICK lost \in 0 .. (IF WriteFaults /\ e = "nil" THEN rest - n ELSE 0) :
               body' = [body EXCEPT ![p] =
                          IF e = "eof" THEN NoBody
                          ELSE [from |-> body[p].from + n + lost, to |-> body[p].to]]
      BY <2>1
    <3>2. [from |-> body[p].from + n + lost, to |-> body[p].to] \in [from : Int, to : Int]
      <4>1. body[p].from + n + lost \in Int /\ body[p].to \in Int
        BY <2>2 DEF PartTypeOK
      <4> QED BY <4>1
    <3>3. NoBody \in [from : Int, to : Int]
      BY DEF NoBody
    <3> QED BY <3>1, <3>2, <3>3 DEF PartTypeOK
  <2>6. next(e) \in {"incr", "after", "loop"} /\ (next(e) = "incr" => ~single[p])
    BY DEF next
  <2>7. PartTypeOK'
    <3>1. pc' \in [Parts -> {"new", "wait", "won206", "won200", "loop", "incr", "after",
                           "failed", "panic", "exit", "end"}]
      BY <2>1, <2>6 DEF Goto, PartTypeOK
    <3> QED BY <1>12, <2>3, <2>4, <2>5, <3>1 DEF Read, PartTypeOK
  <2>8. SharedTypeOK' /\ pc[p] = "loop" /\ single' = single
    BY <1>12, SharedFrame DEF Read
  <2>9. pc' = [pc EXCEPT ![p] = next(e)]
    BY <2>1 DEF Goto
  <2> QED BY <1>12, <2>6, <2>7, <2>8, <2>9, StepIInv DEF Read
<1>13. CASE IncrTotal(p)
  <2>1. PICK l \in {"after", "loop"} : pc' = [pc EXCEPT ![p] = l]
    BY <1>13 DEF IncrTotal, Goto
  <2>2. total' \in 0 .. cap'
    BY <1>13 DEF IncrTotal, SharedTypeOK, RunTypeOK, sessionVars
  <2>3. SharedTypeOK' /\ pc[p] = "incr"
    BY <1>13, <2>2 DEF IncrTotal, SharedTypeOK
  <2>4. PartTypeOK'
    BY <1>13, <2>1 DEF IncrTotal, PartTypeOK
  <2> QED BY <1>13, <2>1, <2>3, <2>4, StepIInv DEF IncrTotal
<1>14. CASE After(p)
  <2>1. PICK l \in {"failed", "exit", "panic"} : pc' = [pc EXCEPT ![p] = l]
    BY <1>14 DEF After, Goto, Leave
  <2>2. SharedTypeOK' /\ pc[p] = "after"
    BY <1>14, SharedFrame DEF After
  <2>3. /\ single' \in [Parts -> BOOLEAN]
        /\ \A q \in Parts : q # p => single'[q] = single[q]
    BY <1>14 DEF After, PartTypeOK
  <2>4. start' \in [Parts -> Int] /\ stop' \in [Parts -> Int]
    BY <1>14 DEF After, PartTypeOK
  <2>5. err' \in [Parts -> {"nil", "eof", "fail"}]
    BY <1>14 DEF After, PartTypeOK, Leave
  <2>6. PartTypeOK'
    BY <1>14, <2>1, <2>3, <2>4, <2>5 DEF After, PartTypeOK
  <2> QED BY <1>14, <2>1, <2>2, <2>3, <2>6, StepIInv DEF After
<1>15. CASE Retry(p)
  <2>1. pc' = [pc EXCEPT ![p] = "wait"] /\ pc[p] = "failed"
    BY <1>15 DEF Retry, Goto
  <2>2. SharedTypeOK'
    BY <1>15, SharedFrame DEF Retry
  <2>3. attempt' \in [Parts -> 0 .. MaxTry]
    BY <1>15, MaxTryAssumption DEF Retry, MayRetry, PartTypeOK
  <2>4. PartTypeOK'
    BY <1>15, <2>1, <2>3 DEF Retry, PartTypeOK
  <2> QED BY <1>15, <2>1, <2>2, <2>4, StepIInv DEF Retry
<1>16. CASE GiveUp(p)
  <2>1. pc' = [pc EXCEPT ![p] = "exit"] /\ pc[p] \notin {"new", "end"}
    BY <1>16 DEF GiveUp, Goto, Leave
  <2>2. SharedTypeOK'
    BY <1>16, SharedFrame DEF GiveUp
  <2>3. PartTypeOK'
    BY <1>16, <2>1 DEF GiveUp, PartTypeOK, Leave, NoBody
  <2> QED BY <1>16, <2>1, <2>2, <2>3, StepIInv DEF GiveUp
<1>17. CASE Recover(p)
  <2>1. pc' = [pc EXCEPT ![p] = "exit"] /\ pc[p] = "panic"
    BY <1>17 DEF Recover, Leave, Goto
  <2>2. SharedTypeOK'
    BY <1>17, CancelRunType DEF Recover, SharedTypeOK, sessionVars, chanVars
  <2>3. PartTypeOK'
    BY <1>17, <2>1 DEF Recover, PartTypeOK, Leave
  <2>4. first' = first \/ first' = "canceled"
    BY <1>17 DEF Recover, CancelRun
  <2>5. main = "collapse" => first' = first
    BY <1>17 DEF Recover, CancelRun, ElectionInv
  <2> QED BY <1>17, <2>1, <2>2, <2>3, <2>4, <2>5, StepIInv DEF Recover
<1>18. CASE Finish(p)
  <2>1. pc' = [pc EXCEPT ![p] = "end"] /\ pc[p] = "exit"
    BY <1>18 DEF Finish, Goto
  <2>2. doneCount' \in Nat /\ errCh' \in BOOLEAN
    <3>1. CASE err[p] = "fail"
      BY <1>18, <3>1 DEF Finish, SharedTypeOK
    <3>2. CASE err[p] # "fail"
      <4>1. doneCount' \in {doneCount, doneCount + 1} /\ errCh' = errCh
        BY <1>18, <3>2 DEF Finish
      <4> QED BY <4>1 DEF SharedTypeOK
    <3> QED BY <3>1, <3>2
  <2>3. SharedTypeOK'
    BY <1>18, <2>2 DEF Finish, SharedTypeOK, sessionVars
  <2>4. PartTypeOK'
    BY <1>18, <2>1 DEF Finish, PartTypeOK
  <2> QED BY <1>18, <2>1, <2>3, <2>4, StepIInv DEF Finish
<1> QED BY <1>1, <1>2, <1>3, <1>4, <1>5, <1>6, <1>7, <1>8, <1>9, <1>10, <1>11, <1>12, <1>13, <1>14, <1>15, <1>16, <1>17, <1>18 DEF PartStep

-----------------------------------------------------------------------------
(* The theorems. *)

LEMMA NextIInv == IInv /\ [Next]_vars => IInv'
<1> SUFFICES ASSUME IInv, [Next]_vars PROVE IInv'
  OBVIOUS
<1>1. CASE MainStep
  BY <1>1, MainStepIInv
<1>2. CASE \E p \in Parts : PartStep(p)
  BY <1>2, PartStepIInv
<1> USE DEF IInv, TypeOK, runAndCtxVars, offRunVars, runVars, ctxVars
<1>3. CASE Waiter
  <2>1. RunTypeOK' /\ PartTypeOK'
    BY <1>3, RunFrame, PartFrame DEF Waiter
  <2>2. SharedTypeOK'
    BY <1>3 DEF Waiter, SharedTypeOK, sessionVars, chanVars
  <2>3. LaunchOK'
    BY <1>3 DEF Waiter, LaunchOK, partVars, modeVars, shapeVars
  <2>4. ElectionInv'
    BY <1>3 DEF Waiter, ElectionInv, partVars
  <2> QED BY <2>1, <2>2, <2>3, <2>4
<1>4. CASE Drain
  <2>1. RunTypeOK' /\ PartTypeOK'
    BY <1>4, RunFrame, PartFrame DEF Drain, partVars
  <2>2. SharedTypeOK'
    BY <1>4 DEF Drain, SharedTypeOK, RunTypeOK, sessionVars
  <2>5. UNCHANGED <<main, nexti, first, id, pc, single>>
    BY <1>4 DEF Drain, partVars, modeVars, shapeVars
  <2>3. LaunchOK'
    BY <2>5 DEF LaunchOK
  <2>4. ElectionInv'
    BY <2>5 DEF ElectionInv, AllEnded, Running
  <2> QED BY <2>1, <2>2, <2>3, <2>4
<1>5. CASE Signal
  <2>1. RunTypeOK' /\ PartTypeOK'
    BY <1>5, RunFrame, PartFrame DEF Signal
  <2>2. SharedTypeOK'
    BY <1>5, CancelRunType DEF Signal, SharedTypeOK, sessionVars, chanVars
  <2>3. LaunchOK'
    BY <1>5 DEF Signal, LaunchOK, partVars, modeVars, shapeVars
  <2>4. ElectionInv'
    BY <1>5, CancelRunType DEF Signal, ElectionInv, AllEnded, Running, partVars
  <2> QED BY <2>1, <2>2, <2>3, <2>4
<1>6. CASE UNCHANGED vars
  <2>1. RunTypeOK' /\ PartTypeOK' /\ SharedTypeOK'
    BY <1>6, RunFrame, PartFrame, SharedFrame DEF vars
  <2>2. LaunchOK'
    BY <1>6 DEF vars, LaunchOK, partVars, modeVars, shapeVars
  <2>3. ElectionInv'
    BY <1>6 DEF vars, ElectionInv, AllEnded, Running, partVars
  <2> QED BY <2>1, <2>2, <2>3
<1> QED BY <1>1, <1>2, <1>3, <1>4, <1>5, <1>6 DEF Next, Terminated

LEMMA InvariantIInv == Spec => []IInv
<1> QED BY InitIInv, NextIInv, PTL DEF Spec

\* totalCh never holds more than its capacity, no part is tried more often than
\* --max-retry says, and Run collapses only to a part of the session.
THEOREM TypeCorrect == Spec => []TypeOK
<1>1. IInv => TypeOK
  BY DEF IInv
<1> QED BY <1>1, InvariantIInv, PTL

\* The part elected stays elected while any part runs, and Run in fallback mode
\* always finds the id it takes from firstResp.id.
THEOREM ElectionStands == Spec => []IdNotDepleted
<1>1. IInv => IdNotDepleted
  BY DEF IInv, ElectionInv, IdNotDepleted
<1> QED BY <1>1, InvariantIInv, PTL

-----------------------------------------------------------------------------
(* What the files hold depends on how the mode of the session was elected: a  *)
(* part whose file is truncated is the only one answered 200 that goes on,     *)
(* and it never appends; the elected part of a lone-part session has opened    *)
(* its file before it asks again.                                              *)

Won == {"won206", "won200"}
Trying == {"wait", "loop", "incr", "after", "failed"}

ModeOK(p) ==
  /\ pc[p] \in Won => first \in {"none", "canceled"} /\ ~partial[p] /\ fd[p] # "trunc"
  /\ Running(p) /\ partial[p] => id # 0
  /\ fd[p] = "trunc" =>
       /\ ~partial[p] /\ pc[p] # "new"
       /\ pc[p] \in Trying => first = "fallback" \/ (pc[p] # "wait" /\ ctx # "live")
  /\ pc[p] \in Trying /\ id = p => partial[p] \/ fd[p] = "trunc"
  /\ pc[p] = "new" => ~partial[p] /\ id # p

Launched == nexti > N

ModeInv ==
  /\ first = "canceled" => ctx # "live" \/ (Launched /\ AllEnded)
  /\ main \in {"first", "collapse", "wait", "merge"} => Launched
  /\ main = "merge" => AllEnded
  /\ \A p \in Parts : ModeOK(p)

(* The modes of the parts. *)

LEMMA InitModeInv == Init => ModeInv
BY NAssumption DEF Init, ModeInv, ModeOK, Won, Trying, Running, AllEnded, Launched

\* What a step of the part p, which is running, has to show.
LEMMA StepModeInv ==
  ASSUME IInv, ModeInv, NEW p \in Parts, Running(p),
         NEW l, pc' = [pc EXCEPT ![p] = l],
         UNCHANGED <<main, nexti>>,
         id' = id \/ id = 0,
         id' = id \/ id' = p,
         ctx' = ctx \/ ctx' # "live",
         ctx # "live" => ctx' # "live",
         \/ first' = first
         \/ first = "none" /\ first' = "canceled" /\ ctx' # "live"
         \/ first = "none" /\ id = p,
         first' = "canceled" => first = "canceled" \/ ctx' # "live",
         \A q \in Parts : q # p => partial'[q] = partial[q] /\ fd'[q] = fd[q],
         ModeOK(p)'
  PROVE  ModeInv'
<1>1. ASSUME NEW q \in Parts PROVE pc'[q] = IF q = p THEN l ELSE pc[q]
  BY DEF IInv, TypeOK, PartTypeOK
<1>2. ~AllEnded
  BY DEF AllEnded
<1>3. first' = "canceled" => ctx' # "live"
  BY <1>2 DEF ModeInv
<1>4. main' = main /\ nexti' = nexti /\ main' # "merge"
  BY <1>2 DEF ModeInv
<1>5. ASSUME NEW q \in Parts PROVE ModeOK(q)'
  <2>1. CASE q = p
    BY <2>1
  <2>2. CASE q # p
    <3>1. /\ pc'[q] = pc[q] /\ partial'[q] = partial[q] /\ fd'[q] = fd[q]
          /\ ModeOK(q)
      BY <1>1, <2>2 DEF ModeInv
    <3>2. pc[q] \in Won => first' = first \/ first' = "canceled"
      BY <2>2 DEF IInv, ElectionInv, Won
    <3>3. id # 0 => id' = id
      OBVIOUS
    <3>4. id' = q => id = q
      BY <2>2
    <3>5. first = "fallback" => first' = "fallback"
      OBVIOUS
    <3>6. Running(q)' <=> Running(q)
      BY <3>1 DEF Running
    <3>7. p # 0 /\ q # 0
      BY NAssumption
    <3>8. id # 0 => id' # 0
      BY <3>3
    <3> QED BY <3>1, <3>2, <3>4, <3>5, <3>6, <3>8 DEF ModeOK
  <2> QED BY <2>1, <2>2
<1> QED BY <1>3, <1>4, <1>5 DEF ModeInv, Launched

LEMMA SetupPartialMode ==
  ASSUME IInv, NEW p \in Parts, SetupPartial(p), fd[p] # "trunc"
  PROVE  /\ \E l \in {"loop", "exit"} :
              /\ pc' = [pc EXCEPT ![p] = l]
              /\ l = "loop" => partial'[p]
              /\ l = "exit" => partial'[p] = partial[p]
         /\ fd'[p] # "trunc"
         /\ \A q \in Parts : q # p => partial'[q] = partial[q] /\ fd'[q] = fd[q]
<1> DEFINE opened == [fd EXCEPT ![p] = IF @ = "nil" THEN "append" ELSE @]
<1> USE DEF IInv, TypeOK, PartTypeOK
<1>1. opened[p] # "trunc" /\ \A q \in Parts : q # p => opened[q] = fd[q]
  OBVIOUS
<1> HIDE DEF opened
<1>2. CASE /\ fd' = opened
           /\ partial' = [partial EXCEPT ![p] = TRUE]
           /\ EnterLoop(p, RangeFrom(p), RangeTo(p))
  BY <1>1, <1>2 DEF EnterLoop, Goto
<1>3. CASE /\ fd' = fd \/ fd' = opened
           /\ Leave(p, "fail")
           /\ UNCHANGED <<partial, body>>
  BY <1>1, <1>3 DEF Leave, Goto
<1> QED BY <1>2, <1>3 DEF SetupPartial, opened

LEMMA PartStepModeInv ==
  ASSUME IInv, ModeInv, NEW p \in Parts, PartStep(p)
  PROVE  ModeInv'
<1> USE DEF runAndCtxVars, runVars, shapeVars, ctxVars, modeVars, fileVars, At
<1>1. PartTypeOK /\ ModeOK(p)
  BY DEF IInv, TypeOK, ModeInv
<1>2. ASSUME Running(p), id = 0 PROVE first \in {"none", "canceled"}
  BY <1>2 DEF IInv, TypeOK, SharedTypeOK, ElectionInv, AllEnded
<1>3. ASSUME Running(p), first = "canceled" PROVE ctx # "live"
  BY <1>3 DEF ModeInv, AllEnded
<1>4. CASE Elect206(p) \/ Elect200(p)
  <2>1. PICK l \in Won : pc' = [pc EXCEPT ![p] = l]
    BY <1>4 DEF Elect206, Elect200, Goto, Won
  <2>2. pc[p] = "wait" /\ id = 0 /\ id' = p
    BY <1>4 DEF Elect206, Elect200
  <2>3. UNCHANGED <<main, nexti, ctx, first, partial, fd>>
    BY <1>4 DEF Elect206, Elect200
  <2>4. ~partial[p] /\ fd[p] # "trunc" /\ first \in {"none", "canceled"}
    BY <1>1, <1>2, <2>2 DEF ModeOK, Running, Trying
  <2>5. ModeOK(p)'
    <3>1. pc'[p] \in Won
      BY <1>1, <2>1 DEF PartTypeOK
    <3> QED BY <2>3, <2>4, <3>1 DEF ModeOK, Won, Trying
  <2> QED BY <2>1, <2>2, <2>3, <2>5, StepModeInv DEF Running
<1>5. CASE WinPartial(p)
  <2>1. pc[p] = "won206" /\ id = p /\ id' = id
    BY <1>5 DEF WinPartial, IInv, ElectionInv
  <2>2. UNCHANGED <<main, nexti, ctx>>
    BY <1>5 DEF WinPartial
  <2>3. first \in {"none", "canceled"} /\ ~partial[p] /\ fd[p] # "trunc"
    BY <1>1, <2>1 DEF ModeOK, Won
  <2>4. first' = IF first = "none" THEN "partial" ELSE first
    BY <1>5 DEF WinPartial
  <2>5. PICK l \in {"loop", "exit"} :
              /\ pc' = [pc EXCEPT ![p] = l]
              /\ l = "loop" => partial'[p]
              /\ l = "exit" => partial'[p] = partial[p]
    BY <1>5, <2>3, SetupPartialMode DEF WinPartial
  <2>6. fd'[p] # "trunc"
        /\ \A q \in Parts : q # p => partial'[q] = partial[q] /\ fd'[q] = fd[q]
    BY <1>5, <2>3, SetupPartialMode DEF WinPartial
  <2>7. ModeOK(p)'
    <3>1. pc'[p] = l
      BY <1>1, <2>5 DEF PartTypeOK
    <3>2. p # 0
      BY NAssumption
    <3> QED BY <2>1, <2>3, <2>5, <2>6, <3>1, <3>2 DEF ModeOK, Won, Trying
  <2>8. Running(p)
    BY <2>1 DEF Running
  <2> QED BY <2>1, <2>2, <2>3, <2>4, <2>5, <2>6, <2>7, <2>8, StepModeInv
<1>6. CASE Answer206(p)
  <2>1. pc[p] = "wait" /\ id # 0 /\ Running(p)
    BY <1>6 DEF Answer206, Running
  <2>2. UNCHANGED <<main, nexti, ctx, first, id>>
    BY <1>6 DEF Answer206
  <2>3. CASE Goto(p, "panic") /\ UNCHANGED <<body, err, partial, fd>>
    <3>1. pc' = [pc EXCEPT ![p] = "panic"] /\ pc'[p] = "panic"
      BY <1>1, <2>3 DEF Goto, PartTypeOK
    <3>2. ModeOK(p)'
      BY <1>1, <2>1, <2>2, <2>3, <3>1 DEF ModeOK, Won, Trying
    <3> QED BY <2>1, <2>2, <2>3, <3>1, <3>2, StepModeInv
  <2>4. CASE ~(~partial[p] /\ first = "fallback") /\ SetupPartial(p)
    <3>1. fd[p] # "trunc"
      BY <1>1, <2>1, <2>4 DEF ModeOK, Trying
    <3>2. PICK l \in {"loop", "exit"} :
              /\ pc' = [pc EXCEPT ![p] = l]
              /\ l = "loop" => partial'[p]
              /\ l = "exit" => partial'[p] = partial[p]
      BY <2>4, <3>1, SetupPartialMode
    <3>3. fd'[p] # "trunc"
          /\ \A q \in Parts : q # p => partial'[q] = partial[q] /\ fd'[q] = fd[q]
      BY <2>4, <3>1, SetupPartialMode
    <3>4. ModeOK(p)'
      <4>1. pc'[p] = l
        BY <1>1, <3>2 DEF PartTypeOK
      <4> QED BY <2>1, <2>2, <3>2, <3>3, <4>1 DEF ModeOK, Won, Trying
    <3> QED BY <2>1, <2>2, <3>2, <3>3, <3>4, StepModeInv
  <2> QED BY <1>6, <2>3, <2>4 DEF Answer206
<1>7. CASE WinFallback(p)
  <2>1. pc[p] = "won200" /\ id = p /\ id' = id /\ Running(p)
    BY <1>7 DEF WinFallback, IInv, ElectionInv, Running
  <2>2. UNCHANGED <<main, nexti, ctx, partial>>
    BY <1>7 DEF WinFallback
  <2>3. first \in {"none", "canceled"} /\ ~partial[p] /\ fd[p] # "trunc"
    BY <1>1, <2>1 DEF ModeOK, Won
  <2>4. first' = IF first = "none" THEN "fallback" ELSE first
    BY <1>7 DEF WinFallback
  <2>5. PICK l \in {"panic", "loop", "exit"} :
              /\ pc' = [pc EXCEPT ![p] = l]
              /\ l = "loop" => fd'[p] = "trunc"
    <3>1. CASE Goto(p, "panic") \/ Leave(p, "fail")
      <4>1. pc' = [pc EXCEPT ![p] = "panic"] \/ pc' = [pc EXCEPT ![p] = "exit"]
        BY <3>1 DEF Goto, Leave
      <4> QED BY <4>1
    <3>2. CASE EnterLoop(p, 0, Size - 1) /\ fd' = [fd EXCEPT ![p] = "trunc"]
      <4>1. pc' = [pc EXCEPT ![p] = "loop"] /\ fd'[p] = "trunc"
        BY <1>1, <3>2 DEF EnterLoop, Goto, PartTypeOK
      <4> QED BY <4>1
    <3> QED BY <1>7, <3>1, <3>2 DEF WinFallback
  <2>6. \A q \in Parts : q # p => fd'[q] = fd[q]
    BY <1>1, <1>7 DEF WinFallback, PartTypeOK
  <2>7. ModeOK(p)'
    <3>1. pc'[p] = l
      BY <1>1, <2>5 DEF PartTypeOK
    <3>2. first' = "fallback" \/ ctx' # "live"
      BY <1>3, <2>1, <2>2, <2>3, <2>4
    <3> QED BY <2>2, <2>3, <2>5, <3>1, <3>2 DEF ModeOK, Won, Trying
  <2> QED BY <2>1, <2>2, <2>3, <2>4, <2>5, <2>6, <2>7, StepModeInv
<1>8. CASE Recover(p)
  <2>1. pc[p] = "panic" /\ pc' = [pc EXCEPT ![p] = "exit"] /\ Running(p)
    BY <1>8 DEF Recover, Leave, Goto, Running
  <2>2. UNCHANGED <<main, nexti, id, partial, fd>>
    BY <1>8 DEF Recover
  <2>3. /\ ctx' # "live"
        /\ first' = IF first = "none" THEN "canceled" ELSE first
    BY <1>8 DEF Recover, CancelRun
  <2>4. ModeOK(p)'
    <3>1. pc'[p] = "exit"
      BY <1>1, <2>1 DEF PartTypeOK
    <3> QED BY <1>1, <2>1, <2>2, <3>1 DEF ModeOK, Won, Trying, Running
  <2> QED BY <2>1, <2>2, <2>3, <2>4, StepModeInv
\* The other steps leave the mode alone, and go on trying only where they tried.
<1>9. ASSUME UNCHANGED <<main, nexti, ctx, first, id, partial, fd>>,
             Running(p),
             NEW l, pc' = [pc EXCEPT ![p] = l], l \notin Won, l # "new",
             l \in Trying => pc[p] \in Trying,
             l = "wait" => pc[p] = "wait" \/ ctx = "live"
      PROVE  ModeInv'
  <2>1. pc'[p] = l
    BY <1>1, <1>9 DEF PartTypeOK
  <2>2. ModeOK(p)'
    BY <1>1, <1>9, <2>1 DEF ModeOK, Running
  <2> QED BY <1>9, <2>2, StepModeInv
<1>10. CASE Superseded(p)
  <2>1. PICK l \in {"panic", "exit"} : pc' = [pc EXCEPT ![p] = l]
    BY <1>10 DEF Superseded, Goto, Leave
  <2> QED BY <1>9, <1>10, <2>1 DEF Superseded, Running, Won, Trying
<1>11. CASE Restart(p)
  <2>1. PICK l \in {"loop"} : pc' = [pc EXCEPT ![p] = l] /\ pc[p] = "wait"
    BY <1>11 DEF Restart, EnterLoop, Goto
  <2>2. UNCHANGED <<main, nexti, ctx, first, id, partial, fd>>
    BY <1>11 DEF Restart
  <2>3. Running(p)
    BY <2>1 DEF Running
  <2> QED BY <1>9, <2>1, <2>2, <2>3 DEF Won, Trying
<1>12. CASE Unanswered(p)
  <2>1. PICK l \in {"failed"} : pc' = [pc EXCEPT ![p] = l] /\ pc[p] = "wait"
    BY <1>12 DEF Unanswered, Goto
  <2>2. UNCHANGED <<main, nexti, ctx, first, id, partial, fd>>
    BY <1>12 DEF Unanswered
  <2>3. Running(p)
    BY <2>1 DEF Running
  <2> QED BY <1>9, <2>1, <2>2, <2>3 DEF Won, Trying
<1>13. CASE OtherStatus(p)
  <2>1. PICK l \in {"exit"} : pc' = [pc EXCEPT ![p] = l] /\ pc[p] = "wait"
    BY <1>13 DEF OtherStatus, Leave, Goto
  <2>2. UNCHANGED <<main, nexti, ctx, first, id, partial, fd>>
    BY <1>13 DEF OtherStatus
  <2>3. Running(p)
    BY <2>1 DEF Running
  <2> QED BY <1>9, <2>1, <2>2, <2>3 DEF Won, Trying
<1>14. CASE LoopBreak(p)
  <2>1. PICK l \in {"after"} : pc' = [pc EXCEPT ![p] = l] /\ pc[p] = "loop"
    BY <1>14 DEF LoopBreak, Goto
  <2>2. UNCHANGED <<main, nexti, ctx, first, id, partial, fd>>
    BY <1>14 DEF LoopBreak
  <2>3. Running(p)
    BY <2>1 DEF Running
  <2> QED BY <1>9, <2>1, <2>2, <2>3 DEF Won, Trying
<1>15. CASE ReadFails(p)
  <2>1. PICK l \in {"failed"} : pc' = [pc EXCEPT ![p] = l] /\ pc[p] = "loop"
    BY <1>15 DEF ReadFails, Goto
  <2>2. UNCHANGED <<main, nexti, ctx, first, id, partial, fd>>
    BY <1>15 DEF ReadFails
  <2>3. Running(p)
    BY <2>1 DEF Running
  <2> QED BY <1>9, <2>1, <2>2, <2>3 DEF Won, Trying
<1>16. CASE Read(p)
  <2>1. PICK l \in {"incr", "after", "loop"} : pc' = [pc EXCEPT ![p] = l]
    BY <1>16 DEF Read, Goto
  <2> QED BY <1>9, <1>16, <2>1 DEF Read, Running, Won, Trying
<1>17. CASE IncrTotal(p)
  <2>1. PICK l \in {"after", "loop"} : pc' = [pc EXCEPT ![p] = l]
    BY <1>17 DEF IncrTotal, Goto
  <2> QED BY <1>9, <1>17, <2>1 DEF IncrTotal, Running, Won, Trying
<1>18. CASE After(p)
  <2>1. PICK l \in {"failed", "exit", "panic"} : pc' = [pc EXCEPT ![p] = l]
    BY <1>18 DEF After, Goto, Leave
  <2> QED BY <1>9, <1>18, <2>1 DEF After, Running, Won, Trying
<1>19. CASE Retry(p)
  <2>1. PICK l \in {"wait"} : pc' = [pc EXCEPT ![p] = l] /\ pc[p] = "failed" /\ ctx = "live"
    BY <1>19 DEF Retry, Goto
  <2>2. UNCHANGED <<main, nexti, ctx, first, id, partial, fd>>
    BY <1>19 DEF Retry
  <2>3. Running(p)
    BY <2>1 DEF Running
  <2> QED BY <1>9, <2>1, <2>2, <2>3 DEF Won, Trying
<1>20. CASE GiveUp(p)
  <2>1. PICK l \in {"exit"} : pc' = [pc EXCEPT ![p] = l] /\ pc[p] = "failed"
    BY <1>20 DEF GiveUp, Leave, Goto
  <2>2. UNCHANGED <<main, nexti, ctx, first, id, partial, fd>>
    BY <1>20 DEF GiveUp
  <2>3. Running(p)
    BY <2>1 DEF Running
  <2> QED BY <1>9, <2>1, <2>2, <2>3 DEF Won, Trying
<1>21. CASE Finish(p)
  <2>1. PICK l \in {"end"} : pc' = [pc EXCEPT ![p] = l] /\ pc[p] = "exit"
    BY <1>21 DEF Finish, Goto
  <2>2. UNCHANGED <<main, nexti, ctx, first, id, partial, fd>>
    BY <1>21 DEF Finish
  <2>3. Running(p)
    BY <2>1 DEF Running
  <2> QED BY <1>9, <2>1, <2>2, <2>3 DEF Won, Trying
<1> QED BY <1>4, <1>5, <1>6, <1>7, <1>8, <1>10, <1>11, <1>12, <1>13, <1>14, <1>15, <1>16, <1>17, <1>18, <1>19, <1>20, <1>21 DEF PartStep

\* What a step of Run that leaves the parts alone has to show.
LEMMA RunStepModeInv ==
  ASSUME ModeInv, UNCHANGED <<nexti, id, pc, partial, fd>>,
         ctx # "live" => ctx' # "live",
         \/ first' = first
         \/ first = "none" /\ first' = "canceled" /\ (ctx' # "live" \/ (Launched /\ AllEnded)),
         main' \in {"first", "collapse", "wait", "merge"} => Launched,
         main' = "merge" => AllEnded
  PROVE  ModeInv'
<1>1. (AllEnded' <=> AllEnded) /\ (Launched' <=> Launched)
  BY DEF AllEnded, Running, Launched
<1>2. ASSUME NEW p \in Parts PROVE ModeOK(p)'
  BY DEF ModeInv, ModeOK, Running
<1>3. first' = "canceled" => ctx' # "live" \/ (Launched /\ AllEnded)
  BY DEF ModeInv
<1> QED BY <1>1, <1>2, <1>3 DEF ModeInv

LEMMA MainStepModeInv == IInv /\ ModeInv /\ MainStep => ModeInv'
<1> SUFFICES ASSUME IInv, ModeInv, MainStep PROVE ModeInv'
  OBVIOUS
<1> USE DEF offRunVars, sessionVars, shapeVars, endVars, ctxVars, chanVars, partVars,
            modeVars, fileVars
<1>1. CASE InitPart
  <2>1. nexti \in Parts /\ nexti' = nexti + 1
    BY <1>1 DEF InitPart, IInv, TypeOK, LaunchOK
  <2>2. pc[nexti] = "new" /\ PartTypeOK
    BY <2>1, NAssumption DEF IInv, TypeOK, LaunchOK
  <2>3. UNCHANGED <<ctx, first, id, partial, fd>>
    BY <1>1 DEF InitPart
  <2>4. first = "canceled" => ctx # "live"
    BY <2>1, NAssumption DEF ModeInv, Launched
  <2>5. /\ main' \in {"first", "collapse", "wait", "merge"} => Launched'
        /\ main' # "merge"
    BY <1>1, <2>1, NAssumption DEF InitPart, Launched
  <2>6. ASSUME NEW p \in Parts PROVE ModeOK(p)'
    <3>1. pc'[p] = pc[p] \/ (p = nexti /\ pc[p] = "new" /\ pc'[p] = "wait")
      BY <1>1, <2>1, <2>2 DEF InitPart, Goto, PartTypeOK
    <3>2. CASE pc'[p] = pc[p]
      BY <2>3, <3>2 DEF ModeInv, ModeOK, Running
    <3>3. CASE pc[p] = "new" /\ pc'[p] = "wait"
      BY <2>3, <3>3 DEF ModeInv, ModeOK, Running, Won, Trying
    <3> QED BY <3>1, <3>2, <3>3
  <2> QED BY <2>3, <2>4, <2>5, <2>6 DEF ModeInv
<1>2. CASE InitPartFails
  BY <1>2, RunStepModeInv DEF InitPartFails, CancelRun
<1>3. CASE FallbackRestored
  BY <1>3, RunStepModeInv DEF FallbackRestored, CancelRun
<1>4. CASE FallbackToSingle
  BY <1>4, RunStepModeInv DEF FallbackToSingle, ModeInv
<1>5. CASE AddTotalBar
  BY <1>5, RunStepModeInv DEF AddTotalBar, ModeInv
<1>6. CASE AddTotalBarFails
  BY <1>6, RunStepModeInv DEF AddTotalBarFails
<1>7. CASE NothingToPrepare
  BY <1>7, RunStepModeInv DEF NothingToPrepare, ModeInv
<1>8. CASE Abort
  BY <1>8, RunStepModeInv DEF Abort
<1>9. CASE Collapse
  <2>1. AllEnded /\ Launched
    BY <1>9 DEF Collapse, ModeInv
  <2>2. UNCHANGED <<nexti, ctx, first, pc, partial, fd>> /\ id' = 0 /\ main' = "wait"
    BY <1>9 DEF Collapse
  <2>3. AllEnded' /\ Launched'
    BY <2>1, <2>2 DEF AllEnded, Running, Launched
  <2>4. ASSUME NEW p \in Parts PROVE ModeOK(p)'
    <3>1. ModeOK(p) /\ ~Running(p) /\ p # 0
      BY <2>1, NAssumption DEF ModeInv, AllEnded
    <3> QED BY <2>2, <3>1 DEF ModeOK, Running, Won, Trying
  <2> QED BY <2>2, <2>3, <2>4 DEF ModeInv
<1>10. CASE JoinError
  BY <1>10, RunStepModeInv DEF JoinError
<1>11. CASE JoinPanic
  BY <1>11, RunStepModeInv DEF JoinPanic, CancelRun
<1>12. CASE Join
  BY <1>12, RunStepModeInv DEF Join, ModeInv
<1>13. CASE MergeSingle
  BY <1>13, RunStepModeInv DEF MergeSingle
<1>14. CASE MergeRefused
  BY <1>14, RunStepModeInv DEF MergeRefused
<1>15. CASE Concat
  <2>1. AllEnded /\ Launched
    BY <1>15 DEF Concat, ModeInv
  <2>2. UNCHANGED <<nexti, ctx, first, id, pc, partial>> /\ main' = "save"
    BY <1>15 DEF Concat
  <2>3. AllEnded' /\ Launched'
    BY <2>1, <2>2 DEF AllEnded, Running, Launched
  <2>4. ASSUME NEW p \in Parts PROVE ModeOK(p)'
    <3>1. ModeOK(p) /\ ~Running(p)
      BY <2>1 DEF ModeInv, AllEnded
    <3>2. fd'[p] \in {"merged", "removed", fd[p]}
      BY <1>15 DEF Concat
    <3> QED BY <2>2, <3>1, <3>2 DEF ModeOK, Running, Won, Trying
  <2> QED BY <2>2, <2>3, <2>4 DEF ModeInv
<1>16. CASE Classify
  BY <1>16, RunStepModeInv DEF Classify, CancelRun
<1>17. CASE DumpState
  BY <1>17, RunStepModeInv DEF DumpState
<1>18. CASE CloseFiles
  BY <1>18, RunStepModeInv DEF CloseFiles
<1> QED BY <1>1, <1>2, <1>3, <1>4, <1>5, <1>6, <1>7, <1>8, <1>9, <1>10, <1>11, <1>12, <1>13, <1>14, <1>15, <1>16, <1>17, <1>18 DEF MainStep

LEMMA NextModeInv == IInv /\ ModeInv /\ [Next]_vars => ModeInv'
<1> SUFFICES ASSUME IInv, ModeInv, [Next]_vars PROVE ModeInv'
  OBVIOUS
<1>1. CASE MainStep
  BY <1>1, MainStepModeInv
<1>2. CASE \E p \in Parts : PartStep(p)
  BY <1>2, PartStepModeInv
<1> USE DEF offRunVars, runVars, shapeVars, ctxVars, partVars, modeVars, fileVars
<1>3. CASE Waiter
  BY <1>3, RunStepModeInv DEF Waiter, ModeInv, Launched
<1>4. CASE Drain
  BY <1>4, RunStepModeInv DEF Drain, ModeInv, runAndCtxVars
<1>5. CASE Signal
  BY <1>5, RunStepModeInv DEF Signal, ModeInv, CancelRun
<1>6. CASE UNCHANGED vars
  BY <1>6, RunStepModeInv DEF vars, ModeInv, runAndCtxVars
<1> QED BY <1>1, <1>2, <1>3, <1>4, <1>5, <1>6 DEF Next, Terminated

-----------------------------------------------------------------------------
(* A step of a part leaves the other parts alone. *)


\* The step changes nothing of what Part.init and merge look at, but for the
\* state of the descriptor; and nothing of the part at all.
KeepsFile(p) ==
  /\ start'[p] = start[p] /\ stop'[p] = stop[p] /\ single'[p] = single[p]
  /\ file'[p] = file[p] /\ written'[p] = written[p] /\ pos'[p] = pos[p]

Keeps(p) ==
  /\ KeepsFile(p)
  /\ pc'[p] = pc[p] /\ fd'[p] = fd[p] /\ body'[p] = body[p] /\ err'[p] = err[p]
  /\ partial'[p] = partial[p]

\* The step of a part leaves the other parts alone.
LEMMA PartStepLocal ==
  ASSUME PartTypeOK, NEW p \in Parts, NEW q \in Parts, q # p, PartStep(p)
  PROVE  Keeps(q)
<1> USE DEF Keeps, KeepsFile, PartTypeOK, tryVars, modeVars, fileVars, Goto, Leave, EnterLoop
<1>1. CASE Elect206(p) \/ Elect200(p)
  BY <1>1 DEF Elect206, Elect200
<1>2. CASE WinPartial(p)
  BY <1>2 DEF WinPartial, SetupPartial
<1>3. CASE Answer206(p)
  BY <1>3 DEF Answer206, SetupPartial
<1>4. CASE WinFallback(p)
  <2>1. pc'[q] = pc[q] /\ body'[q] = body[q] /\ err'[q] = err[q]
    <3>1. CASE Goto(p, "panic") /\ UNCHANGED <<body, err>>
      BY <3>1
    <3>2. CASE Leave(p, "fail") /\ UNCHANGED body
      BY <3>2
    <3>3. CASE EnterLoop(p, 0, Size - 1)
      BY <3>3
    <3> QED BY <1>4, <3>1, <3>2, <3>3 DEF WinFallback
  <2>2. file'[q] = file[q] /\ fd'[q] = fd[q] /\ pos'[q] = pos[q] /\ written' = written
    <3>1. \/ UNCHANGED <<file, fd, pos>>
          \/ /\ file' = [file EXCEPT ![p] = <<>>]
             /\ fd' = [fd EXCEPT ![p] = "trunc"]
             /\ pos' = [pos EXCEPT ![p] = 0]
      BY <1>4 DEF WinFallback
    <3>2. written' = written
      BY <1>4 DEF WinFallback
    <3> QED BY <3>1, <3>2
  <2>3. stop'[q] = stop[q] /\ partial' = partial
    BY <1>4 DEF WinFallback
  <2>4. start'[q] = start[q] /\ single'[q] = single[q]
    BY <1>4 DEF WinFallback
  <2> QED BY <2>1, <2>2, <2>3, <2>4
<1>5. CASE Superseded(p)
  BY <1>5 DEF Superseded
<1>6. CASE Restart(p)
  BY <1>6 DEF Restart
<1>7. CASE Unanswered(p) \/ OtherStatus(p)
  BY <1>7 DEF Unanswered, OtherStatus
<1>8. CASE LoopBreak(p) \/ ReadFails(p)
  BY <1>8 DEF LoopBreak, ReadFails
<1>9. CASE Read(p)
  <2>1. UNCHANGED <<start, stop, single, partial, fd>>
    BY <1>9 DEF Read
  <2>2. pc'[q] = pc[q]
    BY <1>9 DEF Read
  <2>3. file'[q] = file[q] /\ pos'[q] = pos[q]
    <3> DEFINE offset == IF fd[p] = "trunc" THEN pos[p] ELSE Len(file[p])
    <3>1. PICK n : IF n = 0 THEN UNCHANGED <<file, pos>>
            ELSE /\ file' = [file EXCEPT ![p] = WriteAt(@, offset, body[p].from, n)]
                 /\ pos' = [pos EXCEPT ![p] = IF fd[p] = "trunc" THEN @ + n ELSE @]
      BY <1>9, Zenon DEF Read
    <3> QED BY <3>1
  <2>4. written'[q] = written[q] /\ err'[q] = err[q]
    BY <1>9 DEF Read
  <2>5. body'[q] = body[q]
    BY <1>9 DEF Read
  <2> QED BY <2>1, <2>2, <2>3, <2>4, <2>5
<1>10. CASE IncrTotal(p)
  BY <1>10 DEF IncrTotal
<1>11. CASE After(p)
  BY <1>11 DEF After
<1>12. CASE Retry(p) \/ GiveUp(p) \/ Recover(p) \/ Finish(p)
  BY <1>12 DEF Retry, GiveUp, Recover, Finish
<1> QED BY <1>1, <1>2, <1>3, <1>4, <1>5, <1>6, <1>7, <1>8, <1>9, <1>10, <1>11, <1>12 DEF PartStep

-----------------------------------------------------------------------------
(* Run counts the parts that are done in doneCount, but not which they are.  *)
(* That the count tells enough to merge rests on which parts end without an  *)
(* error: those that have all their bytes and those that another part's 200  *)
(* has superseded.                                                          *)

Failed(p) == pc[p] \in {"exit", "end"} /\ err[p] = "fail"
Succeeded(p) == pc[p] \in {"exit", "end"} /\ err[p] # "fail"
Skipped(p) == pc[p] = "new" /\ p < nexti
Counted(p) == Skipped(p) \/ (pc[p] = "end" /\ Succeeded(p) /\ IsDone(p))
CountedParts == {p \in Parts : Counted(p)}

CountInv ==
  /\ doneCount = Cardinality(CountedParts)
  /\ \A p \in Parts : Skipped(p) => IsDone(p)
  /\ \A p \in Parts : pc[p] = "end" /\ Failed(p) => errCh

\* The part elected with 200 has a truncated file, and ends well only when done.
ElectedOK(p) ==
  /\ fd[p] = "trunc" => first = "fallback" \/ ctx # "live"
  /\ fd[p] = "trunc" /\ pc[p] \in Trying => single[p]
  /\ fd[p] = "trunc" /\ Succeeded(p) => IsDone(p)
  /\ first = "fallback" /\ id = p => ~partial[p]
  /\ first = "fallback" /\ id = p /\ Succeeded(p) => fd[p] = "trunc"

ElectedInv == \A p \in Parts : ElectedOK(p)

Over == main \in {"save", "dump", "close", "exited"}

\* What Run leaves of the session in fallback mode.
Collapsed ==
  \E k \in Parts : /\ live = {k} /\ pc[k] = "end"
                   /\ Succeeded(k) => IsDone(k) /\ fd[k] = "trunc"

LiveInv ==
  /\ live = Parts \/ (sessionSingle /\ Launched /\ AllEnded /\ Collapsed)
  /\ N = 1 => sessionSingle
  /\ sessionSingle => N = 1 \/ main = "collapse" \/ live # Parts
  /\ main = "collapse" => sessionSingle /\ N # 1
  /\ main = "wait" => first # "none"
  /\ first = "fallback" /\ main \in {"wait", "merge"} => sessionSingle

\* Run's context is not canceled unless Run has an error to see.
CancelInv ==
  ctx # "live" =>
    \/ mctx \/ errCh \/ Over \/ main \in {"abort", "abortPanic"}
    \/ \E p \in Parts : pc[p] = "exit" /\ Failed(p)

MergeInv ==
  main = "merge" =>
    /\ ~errCh
    /\ \A p \in live : IsDone(p)
    /\ \A p \in live : fd[p] = "trunc" => sessionSingle

EndInv == CountInv /\ ElectedInv /\ LiveInv /\ CancelInv /\ MergeInv

LEMMA CountedFinite == IsFiniteSet(Parts) /\ Cardinality(Parts) = N /\ IsFiniteSet(CountedParts)
<1>1. IsFiniteSet(Parts) /\ Cardinality(Parts) = N
  BY NAssumption, FS_Interval
<1>2. CountedParts \subseteq Parts
  BY DEF CountedParts
<1> QED BY <1>1, <1>2, FS_Subset

LEMMA InitEndInv == Init => EndInv
<1> SUFFICES ASSUME Init PROVE EndInv
  OBVIOUS
<1>1. \A p \in Parts : pc[p] = "new" /\ fd[p] = "nil" /\ ~partial[p]
  BY DEF Init
<1>2. CountInv
  <2>1. \A p \in Parts : ~Skipped(p) /\ ~Failed(p)
    BY <1>1, NAssumption DEF Init, Skipped, Failed
  <2>2. CountedParts = {}
    BY <1>1, <2>1 DEF CountedParts, Counted
  <2>3. doneCount = Cardinality(CountedParts)
    BY <2>2, FS_EmptySet DEF Init
  <2> QED BY <1>1, <2>1, <2>3 DEF CountInv
<1>3. ElectedInv
  BY <1>1 DEF ElectedInv, ElectedOK, Succeeded
<1>4. LiveInv /\ CancelInv /\ MergeInv
  BY DEF Init, LiveInv, CancelInv, MergeInv
<1> QED BY <1>2, <1>3, <1>4 DEF EndInv

-----------------------------------------------------------------------------
(* The steps of a part. *)

\* What every step of a part has in common.
LEMMA PartStepShape ==
  ASSUME IInv, NEW p \in Parts, PartStep(p)
  PROVE  /\ Running(p)
         /\ UNCHANGED <<sessionVars, runVars, mctx, output>>
         /\ pc'[p] # "new"
         /\ pc'[p] = "end" => Finish(p)
         /\ ~Finish(p) => doneCount' = doneCount /\ errCh' = errCh
         /\ first # "none" => first' = first
         /\ first' = "fallback" => first = "fallback" \/ (WinFallback(p) /\ first = "none")
         /\ id' = id \/ id' = p
         /\ ctx' = ctx \/ Recover(p)
<1> USE DEF Running, At, Goto, Leave, runAndCtxVars, ctxVars, chanVars, IInv, TypeOK, PartTypeOK
<1>1. CASE Elect206(p) \/ Elect200(p)
  BY <1>1 DEF Elect206, Elect200
<1>2. CASE WinPartial(p)
  BY <1>2 DEF WinPartial, SetupPartial, EnterLoop
<1>3. CASE Answer206(p)
  BY <1>3 DEF Answer206, SetupPartial, EnterLoop
<1>4. CASE WinFallback(p)
  <2>1. pc'[p] \in {"panic", "exit", "loop"}
    BY <1>4 DEF WinFallback, EnterLoop
  <2> QED BY <1>4, <2>1 DEF WinFallback
<1>5. CASE Superseded(p) \/ Unanswered(p) \/ OtherStatus(p)
  BY <1>5 DEF Superseded, Unanswered, OtherStatus
<1>6. CASE Restart(p)
  BY <1>6 DEF Restart, EnterLoop
<1>7. CASE LoopBreak(p) \/ ReadFails(p)
  BY <1>7 DEF LoopBreak, ReadFails
<1>8. CASE Read(p)
  <2>1. pc'[p] \in {"incr", "after", "loop"}
    BY <1>8 DEF Read
  <2> QED BY <1>8, <2>1 DEF Read
<1>9. CASE IncrTotal(p)
  BY <1>9 DEF IncrTotal
<1>10. CASE After(p)
  <2>1. pc'[p] \in {"failed", "exit", "panic"}
    BY <1>10 DEF After
  <2> QED BY <1>10, <2>1 DEF After
<1>11. CASE Retry(p) \/ GiveUp(p)
  BY <1>11 DEF Retry, GiveUp
<1>12. CASE Recover(p)
  BY <1>12 DEF Recover, CancelRun
<1>13. CASE Finish(p)
  BY <1>13 DEF Finish
<1> QED BY <1>1, <1>2, <1>3, <1>4, <1>5, <1>6, <1>7, <1>8, <1>9, <1>10, <1>11, <1>12, <1>13 DEF PartStep

LEMMA KeepsCounted ==
  ASSUME NEW q \in Parts, Keeps(q), nexti' = nexti
  PROVE  /\ Counted(q)' <=> Counted(q)
         /\ Skipped(q)' <=> Skipped(q)
         /\ Failed(q)' <=> Failed(q)
         /\ Succeeded(q)' <=> Succeeded(q)
         /\ IsDone(q)' <=> IsDone(q)
BY DEF Keeps, KeepsFile, Counted, Skipped, Failed, Succeeded, IsDone, PartLen

LEMMA PartStepCountInv ==
  ASSUME IInv, CountInv, NEW p \in Parts, PartStep(p)
  PROVE  CountInv'
<1>1. nexti' = nexti /\ Running(p) /\ pc'[p] # "new" /\ (pc'[p] = "end" => Finish(p))
  BY PartStepShape DEF runVars, shapeVars
<1>2. \A q \in Parts : q # p => Keeps(q)
  BY PartStepLocal DEF IInv, TypeOK
<1>3. ~Counted(p) /\ ~Skipped(p) /\ ~Skipped(p)'
  BY <1>1 DEF Running, Counted, Skipped
<1>4. \A q \in Parts : Skipped(q)' => IsDone(q)'
  BY <1>1, <1>2, <1>3, KeepsCounted DEF CountInv
<1>5. CASE ~Finish(p)
  <2>1. ~Counted(p)' /\ doneCount' = doneCount /\ errCh' = errCh
    BY <1>1, <1>3, <1>5, PartStepShape DEF Counted
  <2>2. CountedParts' = CountedParts
    BY <1>1, <1>2, <1>3, <2>1, KeepsCounted DEF CountedParts
  <2>3. \A q \in Parts : pc'[q] = "end" /\ Failed(q)' => errCh'
    <3>1. ASSUME NEW q \in Parts, q # p, pc'[q] = "end", Failed(q)' PROVE errCh'
      <4>1. Failed(q) /\ pc[q] = "end"
        BY <1>1, <1>2, <3>1, KeepsCounted DEF Keeps
      <4> QED BY <2>1, <4>1 DEF CountInv
    <3> QED BY <1>1, <1>5, <3>1
  <2> QED BY <1>4, <2>1, <2>2, <2>3 DEF CountInv
<1>6. CASE Finish(p)
  <2>1. /\ IF err[p] = "fail" THEN errCh' = TRUE /\ UNCHANGED doneCount
           ELSE /\ doneCount' = IF IsDone(p) THEN doneCount + 1 ELSE doneCount
                /\ UNCHANGED errCh
        /\ pc[p] = "exit" /\ pc'[p] = "end"
        /\ err' = err /\ UNCHANGED <<start, stop, written>>
    BY <1>6 DEF Finish, Goto, At, tryVars, modeVars, fileVars, IInv, TypeOK, PartTypeOK
  <2>2. Counted(p)' <=> err[p] # "fail" /\ IsDone(p)
    BY <1>3, <2>1 DEF Counted, Succeeded, IsDone, PartLen
  <2>3. doneCount' = Cardinality(CountedParts')
    <3>1. CASE ~Counted(p)'
      <4>1. CountedParts' = CountedParts
        BY <1>1, <1>2, <1>3, <3>1, KeepsCounted DEF CountedParts
      <4>2. doneCount' = doneCount
        BY <2>1, <2>2, <3>1
      <4> QED BY <4>1, <4>2 DEF CountInv
    <3>2. CASE Counted(p)'
      <4>1. CountedParts' = CountedParts \cup {p}
        BY <1>1, <1>2, <3>2, KeepsCounted DEF CountedParts
      <4>2. p \notin CountedParts
        BY <1>3 DEF CountedParts
      <4>3. Cardinality(CountedParts') = Cardinality(CountedParts) + 1
        BY <4>1, <4>2, CountedFinite, FS_AddElement
      <4>4. doneCount' = doneCount + 1
        BY <2>1, <2>2, <3>2
      <4> QED BY <4>3, <4>4 DEF CountInv
    <3> QED BY <3>1, <3>2
  <2>4. \A q \in Parts : pc'[q] = "end" /\ Failed(q)' => errCh'
    <3>1. ASSUME NEW q \in Parts, q # p, pc'[q] = "end", Failed(q)' PROVE errCh'
      <4>1. Failed(q) /\ pc[q] = "end"
        BY <1>1, <1>2, <3>1, KeepsCounted DEF Keeps
      <4>2. errCh
        BY <4>1 DEF CountInv
      <4> QED BY <2>1, <4>2
    <3>2. Failed(p)' => errCh'
      BY <2>1 DEF Failed
    <3> QED BY <3>1, <3>2
  <2> QED BY <1>4, <2>3, <2>4 DEF CountInv
<1> QED BY <1>5, <1>6


\* What the steps of a part do to its own mode.
LEMMA PartStepElected ==
  ASSUME IInv, ModeInv, ElectedInv, NEW p \in Parts, PartStep(p)
  PROVE  ElectedOK(p)'
<1> USE DEF runAndCtxVars, runVars, shapeVars, ctxVars, modeVars, fileVars, At
<1>1. PartTypeOK /\ ModeOK(p) /\ ElectedOK(p)
  BY DEF IInv, TypeOK, ModeInv, ElectedInv
<1>2. ASSUME Running(p), id = 0 PROVE first \in {"none", "canceled"}
  BY <1>2 DEF IInv, TypeOK, SharedTypeOK, ElectionInv, AllEnded
<1>3. ASSUME Running(p), first = "canceled" PROVE ctx # "live"
  BY <1>3 DEF ModeInv, AllEnded
\* Most steps leave the mode alone, go on trying only where they tried, and end
\* the part with an error.
<1>4. ASSUME UNCHANGED <<first, id, partial, fd>>, ctx' = ctx \/ ctx' # "live",
             single'[p] = single[p],
             pc'[p] \in Trying => pc[p] \in Trying,
             Succeeded(p)' => Succeeded(p) /\ (IsDone(p)' <=> IsDone(p))
      PROVE  ElectedOK(p)'
  BY <1>1, <1>4 DEF ElectedOK
<1>5. CASE Elect206(p) \/ Elect200(p)
  <2>1. pc[p] = "wait" /\ id = 0 /\ UNCHANGED <<first, partial, fd>>
    BY <1>5 DEF Elect206, Elect200
  <2>2. pc'[p] \in Won
    BY <1>1, <1>5 DEF Elect206, Elect200, Goto, PartTypeOK, Won
  <2>3. first \in {"none", "canceled"} /\ fd[p] # "trunc"
    BY <1>1, <1>2, <2>1 DEF Running, ModeOK, Trying
  <2> QED BY <2>1, <2>2, <2>3 DEF ElectedOK, Won, Succeeded
<1>6. CASE WinPartial(p)
  <2>1. first \in {"none", "canceled"} /\ fd[p] # "trunc"
    BY <1>1, <1>6 DEF WinPartial, ModeOK, Won
  <2>2. fd'[p] # "trunc"
    BY <1>6, <2>1, SetupPartialMode DEF WinPartial
  <2>3. first' # "fallback"
    BY <1>6, <2>1 DEF WinPartial
  <2> QED BY <2>2, <2>3 DEF ElectedOK
<1>7. CASE Answer206(p)
  <2>1. pc[p] = "wait" /\ UNCHANGED <<ctx, first, id, single>>
    BY <1>7 DEF Answer206
  <2>2. CASE Goto(p, "panic") /\ UNCHANGED <<partial, fd>>
    <3>1. pc'[p] = "panic"
      BY <1>1, <2>2 DEF Goto, PartTypeOK
    <3> QED BY <1>4, <2>1, <2>2, <3>1 DEF Trying, Succeeded
  <2>3. CASE ~(~partial[p] /\ first = "fallback") /\ SetupPartial(p)
    <3>1. fd[p] # "trunc"
      BY <1>1, <2>1, <2>3 DEF ModeOK, Trying
    <3>2. fd'[p] # "trunc"
      BY <2>3, <3>1, SetupPartialMode
    <3>3. ~(first = "fallback" /\ id = p)
      BY <1>1, <2>3 DEF ElectedOK
    <3> QED BY <2>1, <3>2, <3>3 DEF ElectedOK
  <2> QED BY <1>7, <2>2, <2>3 DEF Answer206
<1>8. CASE WinFallback(p)
  <2>1. pc[p] = "won200" /\ UNCHANGED <<ctx, id, partial>>
    BY <1>8 DEF WinFallback
  <2>2. first \in {"none", "canceled"} /\ ~partial[p] /\ fd[p] # "trunc"
    BY <1>1, <2>1 DEF ModeOK, Won
  <2>3. first' = "fallback" \/ ctx' # "live"
    BY <1>3, <1>8, <2>1, <2>2 DEF WinFallback, Running
  <2>4. ~Succeeded(p)' /\ (pc'[p] \in Trying => single'[p])
    <3>1. CASE Goto(p, "panic") \/ Leave(p, "fail")
      <4>1. pc'[p] = "panic" \/ (pc'[p] = "exit" /\ err'[p] = "fail")
        BY <1>1, <3>1 DEF Goto, Leave, PartTypeOK
      <4> QED BY <4>1 DEF Succeeded, Trying
    <3>2. CASE EnterLoop(p, 0, Size - 1) /\ single' = [single EXCEPT ![p] = TRUE]
      <4>1. pc'[p] = "loop" /\ single'[p]
        BY <1>1, <3>2 DEF EnterLoop, Goto, PartTypeOK
      <4> QED BY <4>1 DEF Succeeded
    <3> QED BY <1>8, <3>1, <3>2 DEF WinFallback
  <2> QED BY <2>1, <2>2, <2>3, <2>4 DEF ElectedOK
<1>9. CASE Superseded(p)
  <2>1. pc[p] = "wait" /\ (~single[p] \/ partial[p]) /\ UNCHANGED <<ctx, first, id, partial, fd>>
    BY <1>9 DEF Superseded
  <2>2. fd[p] # "trunc" /\ ~(first = "fallback" /\ id = p)
    BY <1>1, <2>1 DEF ModeOK, ElectedOK, Trying
  <2> QED BY <2>1, <2>2 DEF ElectedOK
<1>10. CASE Restart(p)
  <2>1. pc[p] = "wait" /\ UNCHANGED <<ctx, first, id, partial, single, fd>>
    BY <1>10 DEF Restart
  <2>2. pc'[p] = "loop"
    BY <1>1, <1>10 DEF Restart, EnterLoop, Goto, PartTypeOK
  <2> QED BY <1>4, <2>1, <2>2 DEF Trying, Succeeded
<1>11. CASE Unanswered(p) \/ OtherStatus(p) \/ LoopBreak(p) \/ ReadFails(p) \/ Retry(p)
            \/ GiveUp(p) \/ IncrTotal(p)
  <2>1. UNCHANGED <<ctx, first, id, partial, single, fd>> /\ pc[p] \in Trying
    BY <1>11 DEF Unanswered, OtherStatus, LoopBreak, ReadFails, Retry, GiveUp, IncrTotal, Trying
  <2>2. pc'[p] \in {"failed", "after", "loop", "wait"} \/ (pc'[p] = "exit" /\ err'[p] = "fail")
    BY <1>1, <1>11 DEF Unanswered, OtherStatus, LoopBreak, ReadFails, Retry, GiveUp, IncrTotal,
                       Goto, Leave, PartTypeOK
  <2> QED BY <1>4, <2>1, <2>2 DEF Trying, Succeeded
<1>12. CASE Read(p)
  <2>1. UNCHANGED <<ctx, first, id, partial, single, fd>> /\ pc[p] = "loop"
    BY <1>12 DEF Read
  <2>2. pc'[p] \in {"incr", "after", "loop"}
    BY <1>1, <1>12 DEF Read, Goto, PartTypeOK
  <2> QED BY <1>4, <2>1, <2>2 DEF Trying, Succeeded
<1>13. CASE After(p)
  <2>1. UNCHANGED <<ctx, first, id, partial, fd>> /\ pc[p] = "after"
    BY <1>13 DEF After
  <2>2. single[p] => single'[p]
    BY <1>1, <1>13 DEF After, PartTypeOK
  <2>3. Succeeded(p)' => IsDone(p)'
    <3> DEFINE ended == PartLen(p) <= 0 /\ err[p] = "eof"
               newStop == IF ended THEN written[p] - 1 ELSE stop[p]
               newStart == IF ended THEN 0 ELSE start[p]
    <3>1. start'[p] = newStart /\ stop'[p] = newStop /\ written' = written
      BY <1>1, <1>13 DEF After, PartTypeOK
    <3>2. pc'[p] \in {"failed", "panic"} \/ written[p] = newStop - newStart + 1
      BY <1>1, <1>13 DEF After, Goto, PartTypeOK
    <3> QED BY <3>1, <3>2 DEF Succeeded, IsDone, PartLen
  <2>4. pc[p] \in Trying
    BY <2>1 DEF Trying
  <2> QED BY <1>1, <2>1, <2>2, <2>3, <2>4 DEF ElectedOK, ModeOK
<1>14. CASE Recover(p)
  <2>1. pc'[p] = "exit" /\ err'[p] = "fail"
    BY <1>1, <1>14 DEF Recover, Leave, Goto, PartTypeOK
  <2>2. UNCHANGED <<id, partial, single, fd>> /\ ctx' # "live" /\ (first' = first \/ first' = "canceled")
    BY <1>14 DEF Recover, CancelRun
  <2> QED BY <1>1, <2>1, <2>2 DEF ElectedOK, Succeeded, Trying
<1>15. CASE Finish(p)
  <2>1. UNCHANGED <<ctx, first, id, partial, single, fd, err, start, stop, written>> /\ pc[p] = "exit"
    BY <1>15 DEF Finish, tryVars
  <2>2. pc'[p] = "end"
    BY <1>1, <1>15 DEF Finish, Goto, PartTypeOK
  <2> QED BY <1>4, <2>1, <2>2 DEF Trying, Succeeded, IsDone, PartLen
<1> QED BY <1>5, <1>6, <1>7, <1>8, <1>9, <1>10, <1>11, <1>12, <1>13, <1>14, <1>15 DEF PartStep

LEMMA PartStepEndInv ==
  ASSUME IInv, ModeInv, EndInv, NEW p \in Parts, PartStep(p)
  PROVE  EndInv'
<1>1. CountInv'
  BY PartStepCountInv DEF EndInv
<1>2. /\ Running(p) /\ ~AllEnded /\ nexti' = nexti /\ main' = main /\ live' = live /\ mctx' = mctx
      /\ sessionSingle' = sessionSingle
  BY PartStepShape DEF runVars, shapeVars, AllEnded
<1>3. \A q \in Parts : q # p => Keeps(q)
  BY PartStepLocal DEF IInv, TypeOK
<1>4. live = Parts /\ main # "merge"
  BY <1>2 DEF EndInv, LiveInv, ModeInv
<1>5. ElectedInv'
  <2>1. ASSUME NEW q \in Parts, q # p PROVE ElectedOK(q)'
    <3>1. Keeps(q) /\ ElectedOK(q)
      BY <1>3, <2>1 DEF EndInv, ElectedInv
    <3>2. (Succeeded(q)' <=> Succeeded(q)) /\ (IsDone(q)' <=> IsDone(q))
      BY <1>2, <3>1, KeepsCounted
    <3>3. first = "fallback" \/ ctx # "live" => first' = "fallback" \/ ctx' # "live"
      <4>1. Recover(p) => ctx' # "live"
        BY DEF Recover, CancelRun
      <4> QED BY <4>1, PartStepShape
    <3>4. ~(first' = "fallback" /\ id' = q) \/ (first = "fallback" /\ id = q)
      <4>1. WinFallback(p) => id = p
        BY DEF WinFallback, At, IInv, ElectionInv
      <4>2. id' = q => id = q
        BY <2>1, PartStepShape
      <4> QED BY <2>1, <4>1, <4>2, PartStepShape
    <3> QED BY <3>1, <3>2, <3>3, <3>4 DEF Keeps, KeepsFile, ElectedOK
  <2>2. ElectedOK(p)'
    BY PartStepElected DEF EndInv
  <2> QED BY <2>1, <2>2 DEF ElectedInv
<1>6. LiveInv'
  <2>1. main = "wait" => first' # "none"
    BY PartStepShape DEF EndInv, LiveInv
  <2>2. first' = "fallback" /\ main \in {"wait", "merge"} => sessionSingle
    BY <1>4, PartStepShape DEF EndInv, LiveInv
  <2> QED BY <1>2, <1>4, <2>1, <2>2 DEF EndInv, LiveInv
<1>7. CancelInv'
  <2>1. Over' <=> Over
    BY <1>2 DEF Over
  <2>2. errCh => errCh'
    <3>1. Finish(p) => errCh' = TRUE \/ errCh' = errCh
      BY DEF Finish
    <3> QED BY <3>1, PartStepShape
  <2>3. CASE Recover(p)
    <3>1. pc'[p] = "exit" /\ err'[p] = "fail"
      BY <2>3 DEF Recover, Leave, Goto, IInv, TypeOK, PartTypeOK
    <3> QED BY <3>1 DEF CancelInv, Failed
  <2>4. CASE ~Recover(p)
    <3>1. ctx' = ctx
      BY <2>4, PartStepShape
    <3>2. ASSUME NEW q \in Parts, pc[q] = "exit", Failed(q)
          PROVE  errCh' \/ \E r \in Parts : pc'[r] = "exit" /\ Failed(r)'
      <4>1. CASE q = p
        <5>1. Finish(p)
          BY <3>2, <4>1 DEF PartStep, At, Elect206, WinPartial, Answer206, Elect200, WinFallback,
             Superseded, Restart, Unanswered, OtherStatus, LoopBreak, ReadFails, Read, IncrTotal,
             After, Retry, GiveUp, Recover
        <5> QED BY <3>2, <4>1, <5>1 DEF Finish, Failed
      <4>2. CASE q # p
        <5>1. Keeps(q)
          BY <1>3, <4>2
        <5> QED BY <1>2, <3>2, <5>1, KeepsCounted DEF Keeps
      <4> QED BY <4>1, <4>2
    <3> QED BY <1>2, <2>1, <2>2, <3>1, <3>2 DEF EndInv, CancelInv
  <2> QED BY <2>3, <2>4
<1>8. MergeInv'
  BY <1>2, <1>4 DEF MergeInv
<1> QED BY <1>1, <1>5, <1>6, <1>7, <1>8 DEF EndInv

-----------------------------------------------------------------------------
(* The steps of Run. *)

LEMMA InitPartEndInv ==
  ASSUME IInv, ModeInv, EndInv, InitPart, NEW p \in Parts, p = nexti
  PROVE  EndInv'
<1> USE DEF sessionVars, endVars, ctxVars, tryVars, modeVars, fileVars
<1>1. PartTypeOK /\ main = "launch" /\ nexti' = nexti + 1
  BY DEF InitPart, IInv, TypeOK, LaunchOK
<1>2. pc[p] = "new" /\ p < nexti' /\ ~Skipped(p)
  BY <1>1, NAssumption DEF IInv, TypeOK, LaunchOK, Skipped
<1>3. UNCHANGED <<err, single, partial, start, stop, written, fd, id, first, ctx, mctx, errCh, live,
                  sessionSingle>>
  BY DEF InitPart
<1>4. main' \in {"launch", "first"}
  BY DEF InitPart
<1>5. ~Launched
  BY <1>1, NAssumption DEF Launched
<1>6. \A q \in Parts : q # p => pc'[q] = pc[q]
  BY <1>1 DEF InitPart, Goto, PartTypeOK
<1>7. ASSUME NEW q \in Parts, q # p
      PROVE  /\ Skipped(q)' <=> Skipped(q)
             /\ Failed(q)' <=> Failed(q)
             /\ Succeeded(q)' <=> Succeeded(q)
             /\ IsDone(q)' <=> IsDone(q)
             /\ Counted(q)' <=> Counted(q)
  <2>1. q < nexti + 1 <=> q < nexti
    BY <1>1, <1>7, NAssumption
  <2>2. pc'[q] = pc[q] /\ err' = err /\ nexti' = nexti + 1
    BY <1>1, <1>3, <1>6, <1>7
  <2>3. (Skipped(q)' <=> Skipped(q)) /\ (Failed(q)' <=> Failed(q)) /\ (Succeeded(q)' <=> Succeeded(q))
    BY <2>1, <2>2 DEF Skipped, Failed, Succeeded
  <2>4. IsDone(q)' <=> IsDone(q)
    BY <1>3 DEF IsDone, PartLen
  <2> QED BY <2>2, <2>3, <2>4 DEF Counted
<1>8. CountInv'
  <2>1. \A q \in Parts : pc'[q] = "end" /\ Failed(q)' => errCh'
    <3>1. pc'[p] \in {"new", "wait"}
      BY <1>1, <1>2 DEF InitPart, Goto, PartTypeOK
    <3> QED BY <1>3, <1>6, <1>7, <3>1 DEF EndInv, CountInv
  <2>2. CASE IsContentDownloaded(p)
    <3>1. pc' = pc /\ doneCount' = doneCount + 1
      BY <2>2 DEF InitPart
    <3>2. IsDone(p)' /\ Skipped(p)'
      BY <1>1, <1>2, <1>3, <2>2, <3>1 DEF IsContentDownloaded, IsDone, PartLen, Skipped
    <3>3. CountedParts' = CountedParts \cup {p}
      BY <1>1, <1>7, <3>2 DEF CountedParts, Counted
    <3>4. p \notin CountedParts
      BY <1>2 DEF CountedParts, Counted
    <3>5. Cardinality(CountedParts') = Cardinality(CountedParts) + 1
      BY <3>3, <3>4, CountedFinite, FS_AddElement
    <3>6. \A q \in Parts : Skipped(q)' => IsDone(q)'
      BY <1>7, <3>2 DEF EndInv, CountInv
    <3> QED BY <2>1, <3>1, <3>5, <3>6 DEF EndInv, CountInv
  <2>3. CASE ~IsContentDownloaded(p)
    <3>1. pc'[p] = "wait" /\ doneCount' = doneCount
      BY <1>1, <2>3 DEF InitPart, Goto, PartTypeOK
    <3>2. ~Skipped(p)' /\ ~Counted(p)' /\ ~Counted(p)
      BY <1>2, <3>1 DEF Skipped, Counted
    <3>3. CountedParts' = CountedParts
      BY <1>1, <1>7, <3>2 DEF CountedParts
    <3>4. \A q \in Parts : Skipped(q)' => IsDone(q)'
      BY <1>7, <3>2 DEF EndInv, CountInv
    <3> QED BY <2>1, <3>1, <3>3, <3>4 DEF EndInv, CountInv
  <2> QED BY <2>2, <2>3
<1>9. ElectedInv'
  <2>1. ASSUME NEW q \in Parts, q # p PROVE ElectedOK(q)'
    BY <1>3, <1>6, <1>7, <2>1 DEF EndInv, ElectedInv, ElectedOK
  <2>2. ElectedOK(p)'
    <3>1. fd[p] # "trunc" /\ id # p
      BY <1>1, <1>2 DEF ModeInv, ModeOK
    <3> QED BY <1>3, <3>1 DEF ElectedOK
  <2> QED BY <2>1, <2>2 DEF ElectedInv
<1>10. LiveInv'
  BY <1>1, <1>3, <1>4, <1>5 DEF EndInv, LiveInv
<1>11. CancelInv'
  <2>1. ~Over /\ ~Over'
    BY <1>1, <1>4 DEF Over
  <2>2. ASSUME NEW q \in Parts, pc[q] = "exit", Failed(q) PROVE pc'[q] = "exit" /\ Failed(q)'
    BY <1>2, <1>6, <1>7, <2>2
  <2> QED BY <1>1, <1>3, <2>1, <2>2 DEF EndInv, CancelInv
<1>12. MergeInv'
  BY <1>4 DEF MergeInv
<1> QED BY <1>8, <1>9, <1>10, <1>11, <1>12 DEF EndInv

\* A step that leaves the parts and their count alone.
LEMMA RunStepCounts ==
  ASSUME EndInv, UNCHANGED <<nexti, id, partVars, doneCount, errCh>>,
         ctx # "live" => ctx' # "live",
         first' = first \/ (first = "none" /\ first' = "canceled"),
         LiveInv', CancelInv', MergeInv'
  PROVE  EndInv'
<1>1. UNCHANGED <<pc, err, single, partial, start, stop, written, fd>>
  BY DEF partVars, tryVars, modeVars, fileVars
<1>2. CountInv'
  <2>1. CountedParts' = CountedParts
    BY <1>1 DEF CountedParts, Counted, Skipped, Succeeded, IsDone, PartLen
  <2>2. \A p \in Parts : Skipped(p)' => IsDone(p)'
    BY <1>1 DEF EndInv, CountInv, Skipped, IsDone, PartLen
  <2>3. \A p \in Parts : pc'[p] = "end" /\ Failed(p)' => errCh'
    BY <1>1 DEF EndInv, CountInv, Failed
  <2> QED BY <2>1, <2>2, <2>3 DEF EndInv, CountInv
<1>3. ElectedInv'
  BY <1>1 DEF EndInv, ElectedInv, ElectedOK, Succeeded, IsDone, PartLen
<1> QED BY <1>2, <1>3 DEF EndInv

\* The same for a step of Run.
LEMMA RunStepEndInv ==
  ASSUME EndInv, UNCHANGED <<nexti, id, partVars, doneCount, errCh>>,
         ctx # "live" => ctx' # "live",
         first' = first \/ (first = "none" /\ first' = "canceled"),
         LiveInv', MergeInv',
         ctx' # "live" =>
           \/ mctx' \/ Over'
           \/ main' \in {"abort", "abortPanic"}
           \/ ctx # "live" /\ (mctx => mctx') /\ ~Over /\ main \notin {"abort", "abortPanic"}
  PROVE  EndInv'
<1>1. CancelInv'
  BY DEF EndInv, CancelInv, Failed, partVars, tryVars
<1> QED BY <1>1, RunStepCounts

\* What the shape of the session rests on does not change in most steps of Run.
LEMMA LiveFrame ==
  ASSUME EndInv, UNCHANGED <<nexti, live, sessionSingle, partVars>>,
         main' = "collapse" => sessionSingle /\ N # 1,
         main = "collapse" => main' = "collapse",
         main' = "wait" => first' # "none",
         main' \in {"wait", "merge"} /\ first' = "fallback" => sessionSingle
  PROVE  LiveInv'
<1>1. UNCHANGED <<pc, err, start, stop, written, fd>>
  BY DEF partVars, tryVars, modeVars, fileVars
<1>2. (AllEnded' <=> AllEnded) /\ (Launched' <=> Launched)
  BY <1>1 DEF AllEnded, Running, Launched
<1>3. Collapsed => Collapsed'
  BY <1>1 DEF Collapsed, Succeeded, IsDone, PartLen
<1> QED BY <1>2, <1>3 DEF EndInv, LiveInv

LEMMA CollapseEndInv ==
  ASSUME IInv, ModeInv, EndInv, Collapse
  PROVE  EndInv'
<1>1. /\ main = "collapse" /\ AllEnded /\ live' = {id} /\ main' = "wait"
      /\ UNCHANGED <<nexti, sessionSingle, ctxVars, chanVars, partVars>>
  BY DEF Collapse
<1>2. UNCHANGED <<pc, err, single, partial, start, stop, written, fd, errCh, doneCount, first, ctx, mctx>>
  BY <1>1 DEF partVars, tryVars, modeVars, fileVars, chanVars, ctxVars
<1>3. id \in Parts /\ first = "fallback"
  BY <1>1 DEF IInv, TypeOK, SharedTypeOK, ElectionInv
<1>4. Launched /\ sessionSingle
  BY <1>1 DEF ModeInv, EndInv, LiveInv
<1>5. PICK k \in Parts : k = id
  BY <1>3
<1>6. pc[k] = "end" /\ (Succeeded(k) => IsDone(k) /\ fd[k] = "trunc")
  <2>1. pc[k] \in {"new", "end"}
    BY <1>1 DEF AllEnded, Running
  <2>2. pc[k] # "new"
    BY <1>5 DEF ModeInv, ModeOK
  <2> QED BY <1>3, <1>5, <2>1, <2>2 DEF EndInv, ElectedInv, ElectedOK
<1>7. Collapsed'
  <2>1. live' = {k} /\ pc'[k] = "end" /\ (Succeeded(k)' => IsDone(k)' /\ fd'[k] = "trunc")
    BY <1>1, <1>2, <1>5, <1>6 DEF Succeeded, IsDone, PartLen
  <2> QED BY <2>1 DEF Collapsed
<1>8. AllEnded' /\ Launched'
  BY <1>1, <1>2, <1>4 DEF AllEnded, Running, Launched
<1>9. N # 1 => live' # Parts
  <2>1. N # 1 => 1 \in Parts /\ 2 \in Parts
    BY NAssumption
  <2> QED BY <1>1, <2>1
<1>10. LiveInv'
  BY <1>1, <1>2, <1>3, <1>4, <1>7, <1>8, <1>9 DEF LiveInv
<1>11. CountInv'
  <2>1. CountedParts' = CountedParts
    BY <1>1, <1>2 DEF CountedParts, Counted, Skipped, Succeeded, IsDone, PartLen
  <2>2. \A p \in Parts : Skipped(p)' => IsDone(p)'
    BY <1>1, <1>2 DEF EndInv, CountInv, Skipped, IsDone, PartLen
  <2>3. \A p \in Parts : pc'[p] = "end" /\ Failed(p)' => errCh'
    BY <1>2 DEF EndInv, CountInv, Failed
  <2> QED BY <1>2, <2>1, <2>2, <2>3 DEF EndInv, CountInv
<1>12. ElectedInv'
  <2> SUFFICES ASSUME NEW p \in Parts PROVE ElectedOK(p)'
    BY DEF ElectedInv
  <2>1. id' = 0 /\ p # 0
    BY NAssumption DEF Collapse
  <2> QED BY <1>2, <2>1 DEF EndInv, ElectedInv, ElectedOK, Succeeded, IsDone, PartLen
<1>13. CancelInv' /\ MergeInv'
  BY <1>1, <1>2 DEF EndInv, CancelInv, MergeInv, Failed, Over
<1> QED BY <1>10, <1>11, <1>12, <1>13 DEF EndInv

\* The count is that of the parts of the session, and nobody has failed: then they
\* are all done, or the only one that is left is.
LEMMA JoinEndInv ==
  ASSUME IInv, ModeInv, EndInv, Join
  PROVE  EndInv'
<1>1. /\ main = "wait" /\ AllEnded /\ ~errCh /\ ~mctx /\ main' = "merge"
      /\ doneCount = Cardinality(live)
      /\ UNCHANGED <<shapeVars, ctxVars, offRunVars>>
  BY DEF Join
<1>2. UNCHANGED <<nexti, id, partVars, doneCount, errCh, live, sessionSingle, first, ctx, mctx>>
  BY <1>1 DEF shapeVars, ctxVars, offRunVars, chanVars
<1>3. LiveInv'
  BY <1>1, <1>2, LiveFrame DEF EndInv, LiveInv
<1>4. \A p \in live : IsDone(p)
  <2>1. CASE live = Parts
    <3>1. CountedParts \subseteq Parts /\ Cardinality(CountedParts) = Cardinality(Parts)
      BY <1>1, <2>1 DEF CountedParts, EndInv, CountInv
    <3>2. CountedParts = Parts
      BY <3>1, CountedFinite, FS_Subset
    <3>3. \A p \in Parts : Counted(p)
      BY <3>2 DEF CountedParts
    <3> QED BY <2>1, <3>3 DEF Counted, EndInv, CountInv
  <2>2. CASE Collapsed
    <3>1. PICK k \in Parts : /\ live = {k} /\ pc[k] = "end"
                             /\ Succeeded(k) => IsDone(k) /\ fd[k] = "trunc"
      BY <2>2 DEF Collapsed
    <3>2. Succeeded(k)
      BY <1>1, <3>1 DEF EndInv, CountInv, Failed, Succeeded
    <3> QED BY <3>1, <3>2
  <2> QED BY <2>1, <2>2 DEF EndInv, LiveInv
<1>5. ASSUME NEW p \in live, fd[p] = "trunc" PROVE sessionSingle
  <2>1. p \in Parts
    BY DEF IInv, TypeOK, RunTypeOK
  <2>2. ctx = "live"
    BY <1>1 DEF EndInv, CancelInv, Over, AllEnded, Running
  <2>3. first = "fallback"
    BY <1>5, <2>1, <2>2 DEF EndInv, ElectedInv, ElectedOK
  <2> QED BY <1>1, <2>3 DEF EndInv, LiveInv
<1>6. MergeInv'
  <2>1. UNCHANGED <<start, stop, written, fd>>
    BY <1>2 DEF partVars, modeVars, fileVars
  <2> QED BY <1>1, <1>2, <1>4, <1>5, <2>1 DEF MergeInv, IsDone, PartLen
<1> QED BY <1>1, <1>2, <1>3, <1>6, RunStepEndInv DEF Over

LEMMA ConcatEndInv ==
  ASSUME IInv, ModeInv, EndInv, Concat
  PROVE  EndInv'
<1>1. /\ main = "merge" /\ main' = "save" /\ ~sessionSingle
      /\ UNCHANGED <<shapeVars, ctxVars, id, chanVars, pc, tryVars, modeVars, written>>
  BY DEF Concat
<1>2. UNCHANGED <<nexti, sessionSingle, live, pc, err, single, partial, start, stop, written, errCh,
                  doneCount, first, ctx, mctx>>
  BY <1>1 DEF shapeVars, ctxVars, chanVars, tryVars, modeVars
<1>3. first # "fallback"
  BY <1>1 DEF EndInv, LiveInv
<1>4. \A p \in Parts : fd'[p] = "trunc" => fd[p] = "trunc"
  BY DEF Concat
<1>5. CountInv'
  <2>1. CountedParts' = CountedParts
    BY <1>2 DEF CountedParts, Counted, Skipped, Succeeded, IsDone, PartLen
  <2>2. \A p \in Parts : Skipped(p)' => IsDone(p)'
    BY <1>2 DEF EndInv, CountInv, Skipped, IsDone, PartLen
  <2>3. \A p \in Parts : pc'[p] = "end" /\ Failed(p)' => errCh'
    BY <1>2 DEF EndInv, CountInv, Failed
  <2> QED BY <1>2, <2>1, <2>2, <2>3 DEF EndInv, CountInv
<1>6. ElectedInv'
  BY <1>2, <1>3, <1>4 DEF EndInv, ElectedInv, ElectedOK, Succeeded, IsDone, PartLen
<1>7. LiveInv' /\ CancelInv' /\ MergeInv'
  BY <1>1, <1>2 DEF EndInv, LiveInv, CancelInv, MergeInv, Over
<1> QED BY <1>5, <1>6, <1>7 DEF EndInv

LEMMA MainStepEndInv == IInv /\ ModeInv /\ EndInv /\ MainStep => EndInv'
<1> SUFFICES ASSUME IInv, ModeInv, EndInv, MainStep PROVE EndInv'
  OBVIOUS
<1> USE DEF offRunVars, shapeVars, endVars, ctxVars, chanVars
\* The steps that are not told apart by what follows: nothing of theirs matters
\* but where Run goes and whether it cancels its context.
<1>0. ASSUME UNCHANGED <<nexti, id, partVars, doneCount, errCh, live, sessionSingle, mctx>>,
             main # "collapse", main' \notin {"collapse", "wait", "merge"},
             Over => Over',
             \/ UNCHANGED <<ctx, first>> /\ main \notin {"abort", "abortPanic"}
             \/ (\E cause \in {"session", "ended"} : CancelRun(cause))
                /\ (Over' \/ main' \in {"abort", "abortPanic"})
             \/ UNCHANGED <<ctx, first>> /\ Over'
      PROVE  EndInv'
  <2>1. /\ first' = first \/ (first = "none" /\ first' = "canceled")
        /\ ctx # "live" => ctx' # "live"
    BY <1>0 DEF CancelRun
  <2>2. LiveInv' /\ MergeInv'
    BY <1>0, LiveFrame DEF MergeInv
  <2>3. ctx' # "live" =>
           \/ mctx' \/ Over'
           \/ main' \in {"abort", "abortPanic"}
           \/ ctx # "live" /\ (mctx => mctx') /\ ~Over /\ main \notin {"abort", "abortPanic"}
    BY <1>0
  <2> QED BY <1>0, <2>1, <2>2, <2>3, RunStepEndInv
<1>1. CASE InitPart
  <2>1. PICK p \in Parts : p = nexti
    BY <1>1 DEF InitPart, IInv, TypeOK, LaunchOK
  <2> QED BY <1>1, <2>1, InitPartEndInv
<1>2. CASE InitPartFails
  BY <1>0, <1>2 DEF InitPartFails, Over
<1>3. CASE FallbackRestored
  BY <1>0, <1>3 DEF FallbackRestored, Over
<1>4. CASE FallbackToSingle
  <2>1. /\ main = "first" /\ main' = "collapse" /\ first = "fallback" /\ ~sessionSingle /\ sessionSingle'
        /\ UNCHANGED <<nexti, id, partVars, doneCount, errCh, live, ctx, first, mctx>>
    BY <1>4 DEF FallbackToSingle
  <2>2. live = Parts /\ LiveInv'
    BY <2>1 DEF EndInv, LiveInv
  <2> QED BY <2>1, <2>2, RunStepEndInv DEF MergeInv, Over
<1>5. CASE AddTotalBar
  <2>1. /\ main = "first" /\ main' = "wait" /\ first = "partial"
        /\ UNCHANGED <<nexti, id, partVars, doneCount, errCh, live, sessionSingle, ctx, first, mctx>>
    BY <1>5 DEF AddTotalBar
  <2>2. LiveInv' /\ MergeInv'
    BY <2>1, LiveFrame DEF MergeInv
  <2> QED BY <2>1, <2>2, RunStepEndInv DEF Over
<1>6. CASE AddTotalBarFails
  BY <1>0, <1>6 DEF AddTotalBarFails, Over
<1>7. CASE NothingToPrepare
  <2>1. /\ main = "first" /\ main' = "wait" /\ first # "none" /\ (first = "fallback" => sessionSingle)
        /\ UNCHANGED <<nexti, id, partVars, doneCount, errCh, live, sessionSingle, ctx, first, mctx>>
    BY <1>7 DEF NothingToPrepare
  <2>2. LiveInv' /\ MergeInv'
    BY <2>1, LiveFrame DEF MergeInv
  <2> QED BY <2>1, <2>2, RunStepEndInv DEF Over
<1>8. CASE Abort
  BY <1>0, <1>8 DEF Abort, Over
<1>9. CASE Collapse
  BY <1>9, CollapseEndInv
<1>10. CASE JoinError
  BY <1>0, <1>10 DEF JoinError, Over
<1>11. CASE JoinPanic
  BY <1>0, <1>11 DEF JoinPanic, Over
<1>12. CASE Join
  BY <1>12, JoinEndInv
<1>13. CASE MergeSingle
  BY <1>0, <1>13 DEF MergeSingle, Over
<1>14. CASE MergeRefused
  BY <1>0, <1>14 DEF MergeRefused, Over
<1>15. CASE Concat
  BY <1>15, ConcatEndInv
<1>16. CASE Classify
  <2>1. main' \in {"dump", "close"}
    BY <1>16 DEF Classify
  <2> QED BY <1>0, <1>16, <2>1 DEF Classify, Over
<1>17. CASE DumpState
  BY <1>0, <1>17 DEF DumpState, Over
<1>18. CASE CloseFiles
  BY <1>0, <1>18 DEF CloseFiles, Over
<1> QED BY <1>1, <1>2, <1>3, <1>4, <1>5, <1>6, <1>7, <1>8, <1>9, <1>10, <1>11, <1>12, <1>13, <1>14, <1>15, <1>16, <1>17, <1>18 DEF MainStep

LEMMA NextEndInv == IInv /\ ModeInv /\ EndInv /\ [Next]_vars => EndInv'
<1> SUFFICES ASSUME IInv, ModeInv, EndInv, [Next]_vars PROVE EndInv'
  OBVIOUS
<1>1. CASE MainStep
  BY <1>1, MainStepEndInv
<1>2. CASE \E p \in Parts : PartStep(p)
  BY <1>2, PartStepEndInv
<1>3. CASE Waiter \/ Drain \/ Signal \/ UNCHANGED vars
  <2>1. /\ UNCHANGED <<nexti, id, partVars, doneCount, errCh, live, sessionSingle, main>>
        /\ ctx # "live" => ctx' # "live"
        /\ first' = first \/ (first = "none" /\ first' = "canceled")
        /\ ctx' # "live" => mctx' \/ (ctx # "live" /\ mctx' = mctx)
    BY <1>3 DEF Waiter, Drain, Signal, CancelRun, vars, runAndCtxVars, offRunVars, runVars, shapeVars,
                ctxVars, chanVars
  <2>2. LiveInv'
    <3>1. main' = "wait" => first' # "none"
      BY <2>1 DEF EndInv, LiveInv
    <3>2. main' \in {"wait", "merge"} /\ first' = "fallback" => sessionSingle
      BY <2>1 DEF EndInv, LiveInv
    <3>3. main' = "collapse" => sessionSingle /\ N # 1
      BY <2>1 DEF EndInv, LiveInv
    <3> QED BY <2>1, <3>1, <3>2, <3>3, LiveFrame
  <2>3. MergeInv'
    BY <2>1 DEF EndInv, MergeInv, IsDone, PartLen, partVars, modeVars, fileVars
  <2>4. CancelInv'
    BY <2>1 DEF EndInv, CancelInv, Over, Failed, partVars, tryVars
  <2> QED BY <2>1, <2>2, <2>3, <2>4, RunStepCounts
<1> QED BY <1>1, <1>2, <1>3 DEF Next, Terminated

-----------------------------------------------------------------------------
(* The theorems. *)

LEMMA InvariantEnd == Spec => [](IInv /\ ModeInv /\ EndInv)
<1>1. Spec => []ModeInv
  BY InitModeInv, NextModeInv, InvariantIInv, PTL DEF Spec
<1>2. Spec => []EndInv
  BY <1>1, InitEndInv, NextEndInv, InvariantIInv, PTL DEF Spec
<1> QED BY <1>1, <1>2, InvariantIInv, PTL

\* Run merges only parts that have all their bytes, although it has counted them
\* and does not know which have ended how, in every mode of the session.
THEOREM MergesDoneParts == Spec => []MergeFindsAllDone
<1>1. EndInv => MergeFindsAllDone
  BY DEF EndInv, MergeInv, MergeFindsAllDone
<1> QED BY <1>1, InvariantEnd, PTL

-----------------------------------------------------------------------------
(* The count of a session whose parts are never answered 200: a part that   *)
(* ends without an error is done.                                           *)

RangedInv ==
  /\ first # "fallback" /\ live = Parts /\ main # "collapse"
  /\ \A p \in Parts : /\ pc[p] # "won200" /\ fd[p] # "trunc"
                      /\ Succeeded(p) => IsDone(p)

LEMMA RangedPartStep ==
  ASSUME 200 \notin Statuses, IInv, ModeInv, RangedInv, NEW p \in Parts, PartStep(p)
  PROVE  RangedInv'
<1> USE DEF At
<1>1. PartTypeOK /\ UNCHANGED <<main, live, nexti>>
  BY PartStepShape DEF IInv, TypeOK, runVars, shapeVars
<1>2. pc[p] # "won200" /\ fd[p] # "trunc"
  BY DEF RangedInv
<1>3. first' # "fallback"
  BY <1>2, PartStepShape DEF RangedInv, WinFallback
<1>4. ASSUME NEW q \in Parts, q # p
      PROVE  pc'[q] # "won200" /\ fd'[q] # "trunc" /\ (Succeeded(q)' => IsDone(q)')
  <2>1. Keeps(q)
    BY <1>1, <1>4, PartStepLocal
  <2> QED BY <1>1, <2>1, KeepsCounted DEF RangedInv, Keeps
<1>5. pc'[p] # "won200" /\ fd'[p] # "trunc" /\ (Succeeded(p)' => IsDone(p)')
  <2>1. CASE Elect206(p)
    <3>1. pc'[p] = "won206" /\ fd' = fd
      BY <1>1, <2>1 DEF Elect206, Goto, PartTypeOK, fileVars
    <3> QED BY <1>2, <3>1 DEF Succeeded
  <2>2. CASE WinPartial(p) \/ Answer206(p)
    <3>1. ASSUME SetupPartial(p)
          PROVE  (pc'[p] = "loop" \/ (pc'[p] = "exit" /\ err'[p] = "fail")) /\ fd'[p] # "trunc"
      <4>1. fd'[p] # "trunc"
        BY <1>2, <3>1, SetupPartialMode
      <4>2. EnterLoop(p, RangeFrom(p), RangeTo(p)) \/ Leave(p, "fail")
        BY <3>1 DEF SetupPartial
      <4> QED BY <1>1, <4>1, <4>2 DEF EnterLoop, Leave, Goto, PartTypeOK
    <3>2. CASE SetupPartial(p)
      BY <3>1, <3>2 DEF Succeeded
    <3>3. CASE Goto(p, "panic") /\ UNCHANGED fd
      BY <1>1, <1>2, <3>3 DEF Goto, PartTypeOK, Succeeded
    <3> QED BY <2>2, <3>2, <3>3 DEF WinPartial, Answer206
  <2>3. CASE Unanswered(p) \/ OtherStatus(p) \/ LoopBreak(p) \/ ReadFails(p) \/ Retry(p)
             \/ GiveUp(p) \/ IncrTotal(p) \/ Recover(p)
    <3>1. fd' = fd
      BY <2>3 DEF Unanswered, OtherStatus, LoopBreak, ReadFails, Retry, GiveUp, IncrTotal, Recover,
                  fileVars
    <3>2. pc'[p] \in {"failed", "after", "loop", "wait"} \/ (pc'[p] = "exit" /\ err'[p] = "fail")
      BY <1>1, <2>3 DEF Unanswered, OtherStatus, LoopBreak, ReadFails, Retry, GiveUp, IncrTotal,
                        Recover, Goto, Leave, PartTypeOK
    <3> QED BY <1>2, <3>1, <3>2 DEF Succeeded
  <2>4. CASE Read(p)
    <3>1. fd' = fd /\ pc'[p] \in {"incr", "after", "loop"}
      BY <1>1, <2>4 DEF Read, Goto, PartTypeOK
    <3> QED BY <1>2, <3>1 DEF Succeeded
  <2>5. CASE After(p)
    <3> DEFINE ended == PartLen(p) <= 0 /\ err[p] = "eof"
               newStop == IF ended THEN written[p] - 1 ELSE stop[p]
               newStart == IF ended THEN 0 ELSE start[p]
    <3>1. start'[p] = newStart /\ stop'[p] = newStop /\ written' = written /\ fd' = fd
      BY <1>1, <2>5 DEF After, PartTypeOK, fileVars
    <3>2. \/ pc'[p] \in {"failed", "panic"}
          \/ pc'[p] = "exit" /\ written[p] = newStop - newStart + 1
      BY <1>1, <2>5 DEF After, Goto, Leave, PartTypeOK
    <3> QED BY <1>2, <3>1, <3>2 DEF Succeeded, IsDone, PartLen
  <2>6. CASE Finish(p)
    <3>1. UNCHANGED <<fd, err, start, stop, written>> /\ pc[p] = "exit"
      BY <2>6 DEF Finish, tryVars, modeVars, fileVars
    <3>2. pc'[p] = "end"
      BY <1>1, <2>6 DEF Finish, Goto, PartTypeOK
    <3> QED BY <3>1, <3>2 DEF RangedInv, Succeeded, IsDone, PartLen
  <2>7. ~Elect200(p) /\ ~WinFallback(p) /\ ~Superseded(p) /\ ~Restart(p)
    BY <1>2 DEF Elect200, WinFallback, Superseded, Restart
  <2> QED BY <2>1, <2>2, <2>3, <2>4, <2>5, <2>6, <2>7 DEF PartStep
<1> QED BY <1>1, <1>3, <1>4, <1>5 DEF RangedInv

LEMMA RangedNext ==
  ASSUME 200 \notin Statuses, IInv, ModeInv, RangedInv, [Next]_vars
  PROVE  RangedInv'
<1> USE DEF offRunVars, runVars, shapeVars, endVars, ctxVars, partVars, tryVars, modeVars, fileVars
<1>1. CASE \E p \in Parts : PartStep(p)
  BY <1>1, RangedPartStep
<1>2. ASSUME UNCHANGED <<live, err, start, stop, written>>, first' = first \/ first' = "canceled",
             main' # "collapse",
             \A p \in Parts : pc'[p] = pc[p] \/ pc'[p] = "wait",
             \A p \in Parts : fd'[p] = "trunc" => fd[p] = "trunc"
      PROVE  RangedInv'
  BY <1>2 DEF RangedInv, Succeeded, IsDone, PartLen
<1>3. CASE InitPart
  <2>1. \A p \in Parts : pc'[p] = pc[p] \/ pc'[p] = "wait"
    BY <1>3 DEF InitPart, Goto, IInv, TypeOK, PartTypeOK
  <2> QED BY <1>2, <1>3, <2>1 DEF InitPart
<1>4. CASE Concat
  BY <1>2, <1>4 DEF Concat
<1>5. CASE MainStep /\ ~InitPart /\ ~Concat
  <2>1. UNCHANGED <<partVars, live>> /\ (first' = first \/ first' = "canceled") /\ main' # "collapse"
    BY <1>5 DEF MainStep, InitPartFails, FallbackRestored, FallbackToSingle, AddTotalBar,
       AddTotalBarFails, NothingToPrepare, Abort, Collapse, JoinError, JoinPanic, Join,
       MergeSingle, MergeRefused, Classify, DumpState, CloseFiles, CancelRun, RangedInv
  <2> QED BY <1>2, <2>1
<1>6. CASE Waiter \/ Drain \/ Signal \/ UNCHANGED vars
  <2>1. UNCHANGED <<partVars, live, main>> /\ (first' = first \/ first' = "canceled")
    BY <1>6 DEF Waiter, Drain, Signal, CancelRun, vars, runAndCtxVars
  <2> QED BY <1>2, <2>1 DEF RangedInv
<1> QED BY <1>1, <1>3, <1>4, <1>5, <1>6 DEF Next, Terminated

\* Nobody is left that Run waits for, and no error was reported: each part was
\* skipped by the launch loop or has ended, in either case with all its bytes.
LEMMA RangedCount == IInv /\ ModeInv /\ EndInv /\ RangedInv => DoneCountAgrees
<1> SUFFICES ASSUME IInv, ModeInv, EndInv, RangedInv, main = "wait", AllEnded, ~errCh, ~mctx
             PROVE  doneCount = Cardinality(live)
  BY DEF DoneCountAgrees
<1>1. ASSUME NEW p \in Parts PROVE Counted(p)
  <2>1. pc[p] \in {"new", "end"}
    BY DEF AllEnded, Running
  <2>2. p < nexti
    BY NAssumption DEF ModeInv, Launched, IInv, TypeOK, RunTypeOK
  <2>3. pc[p] = "end" => Succeeded(p)
    BY DEF EndInv, CountInv, Failed, Succeeded
  <2> QED BY <2>1, <2>2, <2>3 DEF Counted, Skipped, RangedInv
<1>2. CountedParts = Parts
  BY <1>1 DEF CountedParts
<1> QED BY <1>2 DEF EndInv, CountInv, RangedInv

\* The assertion "done count != session parts" after wg.Wait does not fail in a
\* session whose requests for ranges are all honoured, or fail: new or resumed,
\* with the files as they were saved or not.
THEOREM RangedCountAgrees == 200 \notin Statuses => (Spec => []DoneCountAgrees)
<1> SUFFICES ASSUME 200 \notin Statuses PROVE Spec => []DoneCountAgrees
  OBVIOUS
<1>1. Init => RangedInv
  BY DEF Init, RangedInv, Succeeded
<1>2. IInv /\ ModeInv /\ RangedInv /\ [Next]_vars => RangedInv'
  BY RangedNext
<1>3. Spec => []RangedInv
  BY <1>1, <1>2, InvariantEnd, PTL DEF Spec
<1> QED BY <1>3, RangedCount, InvariantEnd, PTL

-----------------------------------------------------------------------------
(* The count of a new session whose parts are never answered 206: only the  *)
(* part that Run makes the single one has a byte.                           *)

Fresh == \A p \in Parts : written[p] = 0

FreshOK(p) ==
  /\ ~partial[p] /\ pc[p] # "won206" /\ ~Skipped(p)
  /\ fd[p] = "trunc" => id = p \/ (live = {p} /\ live # Parts)
  /\ fd[p] \in {"nil", "append"} =>
       /\ fd[p] = "nil" /\ written[p] = 0 /\ pc[p] \notin {"loop", "incr", "after"}
       /\ N # 1 => PartLen(p) > 0 /\ ~single[p]
  /\ fd[p] \in {"merged", "removed"} => Over /\ AllEnded /\ Launched

FreshInv ==
  /\ first # "partial"
  /\ live # Parts => id = 0 /\ first = "fallback"
  /\ \A p \in Parts : first = "none" /\ id = p => pc[p] \in Won
  /\ first = "canceled" /\ ctx = "live" => \A p \in Parts : ~Succeeded(p)
  /\ id = 0 /\ live = Parts => \A p \in Parts : ~Succeeded(p)
  /\ \A p \in Parts : FreshOK(p)

LEMMA InitFreshInv == Init /\ Fresh => FreshInv
<1> SUFFICES ASSUME Init, Fresh PROVE FreshInv
  OBVIOUS
<1>1. ASSUME NEW p \in Parts PROVE FreshOK(p)
  <2>1. N # 1 => PartLen(p) > 0
    <3> SUFFICES ASSUME N # 1 PROVE PartLen(p) > 0
      OBVIOUS
    <3>1. ContentLength > 1
      BY NAssumption, PartsAssumption, ContentLengthAssumption, SizeAssumption
    <3>2. start[p] = PartStart(ContentLength, N, p) /\ stop[p] = PartStop(ContentLength, N, p)
      BY DEF Init
    <3> QED BY <3>1, <3>2, PartBounds, PartStartStopType DEF PartLen
  <2>2. ~Skipped(p)
    BY NAssumption DEF Init, Skipped
  <2>3. N # 1 => ~single[p]
    BY Zenon DEF Init
  <2> QED BY <2>1, <2>2, <2>3 DEF Init, Fresh, FreshOK
<1> QED BY <1>1, NAssumption DEF Init, FreshInv, Succeeded

\* Where an answer without a body leads.
LEMMA UnreadLabel ==
  ASSUME PartTypeOK, NEW p \in Parts, Superseded(p) \/ Unanswered(p) \/ OtherStatus(p)
  PROVE  pc'[p] \in {"panic", "exit", "failed"}
BY DEF Superseded, Unanswered, OtherStatus, Goto, Leave, PartTypeOK, At

LEMMA FreshPartStep ==
  ASSUME 206 \notin Statuses, IInv, ModeInv, EndInv, FreshInv, NEW p \in Parts, PartStep(p)
  PROVE  FreshInv'
<1> USE DEF At, runAndCtxVars, runVars, shapeVars, ctxVars, modeVars, fileVars
<1>1. PartTypeOK /\ UNCHANGED <<main, live, nexti>> /\ Running(p) /\ ~AllEnded
  BY PartStepShape DEF IInv, TypeOK, AllEnded
<1>2. live = Parts
  BY <1>1 DEF EndInv, LiveInv
<1>3. pc[p] # "won206" /\ ~partial[p] /\ FreshOK(p) /\ fd[p] \in {"nil", "trunc"}
  BY <1>1 DEF FreshInv, FreshOK, PartTypeOK
<1>0. ASSUME Superseded(p) \/ Unanswered(p) \/ OtherStatus(p)
      PROVE  pc'[p] \in {"panic", "exit", "failed"}
  BY <1>0, <1>1, UnreadLabel
<1>4. \/ Elect200(p) \/ WinFallback(p) \/ Superseded(p) \/ Restart(p)
      \/ Unanswered(p) \/ OtherStatus(p)
      \/ LoopBreak(p) \/ ReadFails(p) \/ Read(p) \/ IncrTotal(p) \/ After(p)
      \/ Retry(p) \/ GiveUp(p) \/ Recover(p) \/ Finish(p)
  BY <1>3 DEF PartStep, Elect206, WinPartial, Answer206
<1>5. ASSUME NEW q \in Parts, q # p PROVE Keeps(q)
  BY <1>1, <1>5, PartStepLocal
<1>6. id = 0 \/ id' = id
  BY <1>4 DEF Elect200, WinFallback, Superseded, Restart, Unanswered, OtherStatus, LoopBreak,
     ReadFails, Read, IncrTotal, After, Retry, GiveUp, Recover, Finish
<1>7. first' # "partial"
  BY <1>4 DEF Elect200, WinFallback, Superseded, Restart, Unanswered, OtherStatus, LoopBreak,
     ReadFails, Read, IncrTotal, After, Retry, GiveUp, Recover, Finish, CancelRun, FreshInv
<1>8. first' = "canceled" => ctx' # "live"
  <2>1. first = "canceled" => ctx # "live"
    BY <1>1 DEF ModeInv
  <2>2. Recover(p) => ctx' # "live"
    BY DEF Recover, CancelRun
  <2>3. Recover(p) \/ (ctx' = ctx /\ (first' = first \/ first' = "fallback"))
    BY <1>4 DEF Elect200, WinFallback, Superseded, Restart, Unanswered, OtherStatus, LoopBreak,
       ReadFails, Read, IncrTotal, After, Retry, GiveUp, Finish
  <2> QED BY <2>1, <2>2, <2>3
<1>9. ASSUME NEW q \in Parts, first' = "none", id' = q PROVE pc'[q] \in Won
  <2>1. first = "none"
    BY <1>9, PartStepShape
  <2>2. CASE Elect200(p)
    BY <1>1, <1>9, <2>2 DEF Elect200, Goto, PartTypeOK, Won
  <2>3. CASE ~Elect200(p)
    <3>1. id = q
      BY <1>4, <1>9, <2>3 DEF WinFallback, Superseded, Restart, Unanswered, OtherStatus, LoopBreak,
         ReadFails, Read, IncrTotal, After, Retry, GiveUp, Recover, Finish
    <3>2. pc[q] \in Won
      BY <2>1, <3>1 DEF FreshInv
    <3>3. CASE q # p
      BY <1>5, <3>2, <3>3 DEF Keeps
    <3>4. CASE q = p
      <4>1. pc[p] = "won200"
        BY <1>3, <3>2, <3>4 DEF Won
      <4>2. WinFallback(p)
        BY <1>4, <2>3, <4>1 DEF Superseded, Restart, Unanswered, OtherStatus, LoopBreak,
           ReadFails, Read, IncrTotal, After, Retry, GiveUp, Recover, Finish
      <4> QED BY <1>9, <2>1, <4>2 DEF WinFallback
    <3> QED BY <3>3, <3>4
  <2> QED BY <2>2, <2>3
<1>10. ASSUME NEW q \in Parts, id' = 0 PROVE ~Succeeded(q)'
  <2>1. id = 0
    BY <1>6, <1>10
  <2>2. ~Succeeded(q)
    BY <1>2, <2>1 DEF FreshInv
  <2>3. CASE q # p
    BY <1>1, <1>5, <2>2, <2>3, KeepsCounted
  <2>4. CASE q = p
    <3>1. fd[p] = "nil" /\ pc[p] \notin {"loop", "incr", "after"}
      <4>1. id # p
        BY <2>1, NAssumption
      <4> QED BY <1>2, <1>3, <4>1 DEF FreshOK
    <3>2. pc[p] # "won200"
      BY <2>1, NAssumption DEF IInv, ElectionInv
    <3>3. CASE Unanswered(p) \/ OtherStatus(p) \/ Retry(p) \/ GiveUp(p) \/ Recover(p)
      <4>1. pc'[p] \in {"failed", "wait"} \/ (pc'[p] = "exit" /\ err'[p] = "fail")
        BY <1>1, <3>3 DEF Unanswered, OtherStatus, Retry, GiveUp, Recover, Goto, Leave, PartTypeOK
      <4> QED BY <2>4, <4>1 DEF Succeeded
    <3>4. CASE Finish(p)
      <4>1. err' = err /\ pc[p] = "exit"
        BY <3>4 DEF Finish, tryVars
      <4> QED BY <2>2, <2>4, <4>1 DEF Succeeded
    <3>5. ~Elect200(p)
      BY <1>10, NAssumption DEF Elect200
    <3> QED BY <1>4, <2>1, <3>1, <3>2, <3>3, <3>4, <3>5 DEF WinFallback, Superseded, Restart,
        LoopBreak, ReadFails, Read, IncrTotal, After
  <2> QED BY <2>3, <2>4
<1>11. ASSUME NEW q \in Parts, q # p PROVE FreshOK(q)'
  <2>1. Keeps(q) /\ (Skipped(q)' <=> Skipped(q)) /\ FreshOK(q)
    BY <1>1, <1>5, <1>11, KeepsCounted DEF FreshInv
  <2>2. id = q => id' = q
    BY <1>6, NAssumption
  <2>3. fd[q] \notin {"merged", "removed"}
    BY <1>1, <2>1 DEF FreshOK
  <2>4. PartLen(q)' = PartLen(q)
    BY <2>1 DEF Keeps, KeepsFile, PartLen
  <2> QED BY <1>1, <2>1, <2>2, <2>3, <2>4 DEF FreshOK, Keeps, KeepsFile
<1>12. FreshOK(p)'
  <2>1. pc'[p] # "new" /\ ~Skipped(p)'
    BY PartStepShape DEF Skipped
  <2>2. id = p => id' = p
    BY <1>6, NAssumption
  <2>3. CASE WinFallback(p)
    <3>1. id' = p /\ partial' = partial
      BY <2>3 DEF WinFallback, IInv, ElectionInv
    <3>2. pc'[p] \in {"panic", "exit", "loop"}
      BY <1>1, <2>3 DEF WinFallback, Goto, Leave, EnterLoop, PartTypeOK
    <3>3. CASE UNCHANGED <<modeVars, fd>> /\ (Goto(p, "panic") \/ Leave(p, "fail"))
      <4>1. pc'[p] \in {"panic", "exit"}
        BY <1>1, <3>3 DEF Goto, Leave, PartTypeOK
      <4>2. written' = written /\ PartLen(p)' = PartLen(p)
        BY <2>3, <3>3 DEF WinFallback, PartLen
      <4> QED BY <1>3, <2>1, <3>1, <3>3, <4>1, <4>2 DEF FreshOK
    <3>4. CASE fd' = [fd EXCEPT ![p] = "trunc"]
      <4>1. fd'[p] = "trunc"
        BY <1>1, <3>4 DEF PartTypeOK
      <4> QED BY <1>3, <2>1, <3>1, <3>2, <4>1 DEF FreshOK
    <3> QED BY <2>3, <3>3, <3>4 DEF WinFallback
  <2>4. CASE fd[p] = "trunc" /\ ~WinFallback(p)
    <3>1. UNCHANGED <<partial, fd>>
      BY <1>4, <2>4 DEF Elect200, Superseded, Restart, Unanswered, OtherStatus, LoopBreak,
         ReadFails, Read, IncrTotal, After, Retry, GiveUp, Recover, Finish
    <3>2. pc'[p] # "won206"
      <4>1. Elect200(p) => pc'[p] = "won200"
        BY <1>1 DEF Elect200, Goto, PartTypeOK
      <4>2. Superseded(p) \/ Unanswered(p) \/ OtherStatus(p) => pc'[p] # "won206"
        BY <1>0
      <4>5. Restart(p) => pc'[p] = "loop"
        BY <1>1 DEF Restart, EnterLoop, Goto, PartTypeOK
      <4>3. LoopBreak(p) \/ ReadFails(p) \/ Read(p) \/ IncrTotal(p) \/ After(p) => pc'[p] # "won206"
        BY <1>1 DEF LoopBreak, ReadFails, Read, IncrTotal, After, Goto, Leave, PartTypeOK
      <4>4. Retry(p) \/ GiveUp(p) \/ Recover(p) \/ Finish(p) => pc'[p] # "won206"
        BY <1>1 DEF Retry, GiveUp, Recover, Finish, Goto, Leave, PartTypeOK
      <4> QED BY <1>4, <2>4, <4>1, <4>2, <4>3, <4>4, <4>5
    <3> QED BY <1>1, <1>2, <1>3, <2>1, <2>2, <2>4, <3>1, <3>2 DEF FreshOK
  <2>5. CASE fd[p] = "nil" /\ ~WinFallback(p)
    <3>1. pc[p] \notin {"loop", "incr", "after"} /\ written[p] = 0
      BY <1>3, <2>5 DEF FreshOK
    <3>2. ~Restart(p)
      <4>1. Restart(p) => pc[p] = "wait" /\ id # 0 /\ single[p]
        BY DEF Restart
      <4>2. Restart(p) => id # p
        BY <1>3, <2>5, <4>1 DEF ModeInv, ModeOK, Trying
      <4>3. N = 1 /\ id # 0 => id = p
        BY DEF IInv, TypeOK, SharedTypeOK
      <4> QED BY <1>3, <2>5, <4>1, <4>2, <4>3 DEF FreshOK
    <3>3. \/ Elect200(p) \/ Superseded(p) \/ Unanswered(p) \/ OtherStatus(p) \/ Retry(p)
          \/ GiveUp(p) \/ Recover(p) \/ Finish(p)
      BY <1>4, <2>5, <3>1, <3>2 DEF LoopBreak, ReadFails, Read, IncrTotal, After
    <3>4. UNCHANGED <<partial, fd, written, start, stop, single>>
      BY <3>3 DEF Elect200, Superseded, Unanswered, OtherStatus, Retry, GiveUp, Recover, Finish
    <3>5. pc'[p] \in {"won200", "panic", "exit", "failed", "wait", "end"}
      <4>1. Elect200(p) => pc'[p] = "won200"
        BY <1>1 DEF Elect200, Goto, PartTypeOK
      <4>3. Retry(p) \/ GiveUp(p) \/ Recover(p) \/ Finish(p) => pc'[p] \in {"wait", "exit", "end"}
        BY <1>1 DEF Retry, GiveUp, Recover, Finish, Goto, Leave, PartTypeOK
      <4> QED BY <1>0, <3>3, <4>1, <4>3
    <3>6. PartLen(p)' = PartLen(p)
      BY <3>4 DEF PartLen
    <3> QED BY <1>3, <2>1, <2>5, <3>4, <3>5, <3>6 DEF FreshOK
  <2> QED BY <1>3, <2>3, <2>4, <2>5
<1> QED BY <1>1, <1>2, <1>7, <1>8, <1>9, <1>10, <1>11, <1>12 DEF FreshInv

LEMMA FreshNext ==
  ASSUME 206 \notin Statuses, IInv, ModeInv, EndInv, FreshInv, [Next]_vars
  PROVE  FreshInv'
<1> USE DEF offRunVars, runVars, shapeVars, endVars, ctxVars, partVars, tryVars, modeVars, fileVars
<1>1. CASE \E p \in Parts : PartStep(p)
  BY <1>1, FreshPartStep
<1>2. PartTypeOK
  BY DEF IInv, TypeOK
\* The steps that leave the parts alone.
<1>3. ASSUME UNCHANGED <<partVars, nexti>>, Over => Over',
             NEW p \in Parts,
             \/ UNCHANGED <<live, id>>
             \/ live # {p} /\ id' = 0 /\ live' = {id} /\ N # 1 /\ id \in Parts
      PROVE  FreshOK(p)'
  <2>1. PartLen(p)' = PartLen(p) /\ (Skipped(p)' <=> Skipped(p)) /\ (AllEnded' <=> AllEnded)
        /\ (Launched' <=> Launched) /\ FreshOK(p)
    BY <1>3 DEF PartLen, Skipped, AllEnded, Running, Launched, FreshInv
  <2>2. N # 1 /\ live' = {p} => live' # Parts
    <3>1. N # 1 => 1 \in Parts /\ 2 \in Parts
      BY NAssumption
    <3> QED BY <3>1
  <2> QED BY <1>3, <2>1, <2>2 DEF FreshOK
<1>4. ASSUME UNCHANGED <<partVars, nexti, live, id>>, Over => Over',
             \/ first' = first /\ ctx' = ctx
             \/ first' = first /\ ctx' # "live"
             \/ first = "none" /\ first' = "canceled" /\ (ctx' # "live" \/ AllEnded)
      PROVE  FreshInv'
  <2>1. \A p \in Parts : FreshOK(p)'
    BY <1>3, <1>4
  <2>2. ASSUME NEW p \in Parts, first' = "canceled", ctx' = "live" PROVE ~Succeeded(p)'
    <3>1. CASE first = "canceled" /\ ctx = "live"
      BY <1>4, <3>1 DEF FreshInv, Succeeded
    <3>2. CASE first = "none" /\ AllEnded
      <4>1. live = Parts
        BY <3>2 DEF FreshInv
      <4>2. id = 0
        <5>1. id \in 0 .. N /\ \A q \in Parts : pc[q] \in {"new", "end"}
          BY <3>2 DEF IInv, TypeOK, SharedTypeOK, AllEnded, Running
        <5> QED BY <3>2, <5>1, NAssumption DEF FreshInv, Won
      <4> QED BY <1>4, <4>1, <4>2 DEF FreshInv, Succeeded
    <3> QED BY <1>4, <2>2, <3>1, <3>2
  <2>3. \A p \in Parts : first' = "none" /\ id' = p => pc'[p] \in Won
    BY <1>4 DEF FreshInv
  <2>4. id' = 0 /\ live' = Parts => \A p \in Parts : ~Succeeded(p)'
    BY <1>4 DEF FreshInv, Succeeded
  <2>5. live' # Parts => id' = 0 /\ first' = "fallback"
    BY <1>4 DEF FreshInv
  <2> QED BY <1>4, <2>1, <2>2, <2>3, <2>4, <2>5 DEF FreshInv
<1>5. CASE InitPart
  <2>1. UNCHANGED <<live, id, first, ctx, err, single, partial, start, stop, written, fd>>
    BY <1>5 DEF InitPart
  <2>2. PICK k \in Parts : k = nexti
    BY <1>5 DEF InitPart, IInv, TypeOK, LaunchOK
  <2>3. main = "launch" /\ nexti' = nexti + 1 /\ ~Launched /\ pc[k] = "new"
    BY <1>5, <2>2, NAssumption DEF InitPart, IInv, TypeOK, LaunchOK, Launched
  <2>4. fd[k] = "nil" /\ written[k] = 0
    BY <2>3, <1>2 DEF FreshInv, FreshOK, Over, ModeInv, ModeOK, PartTypeOK
  <2>5. pc' = [pc EXCEPT ![k] = "wait"]
    BY <1>5, <2>2, <2>4 DEF InitPart, IsContentDownloaded, Goto
  <2>6. \A p \in Parts : p # k => pc'[p] = pc[p]
    BY <1>2, <2>5 DEF PartTypeOK
  <2>7. pc'[k] = "wait"
    BY <1>2, <2>5 DEF PartTypeOK
  <2>8. ASSUME NEW p \in Parts PROVE FreshOK(p)'
    <3>1. FreshOK(p) /\ PartLen(p)' = PartLen(p) /\ fd[p] \notin {"merged", "removed"}
      BY <2>1, <2>3 DEF FreshInv, FreshOK, PartLen, Over
    <3>2. ~Skipped(p)'
      <4>1. p # k /\ p < nexti + 1 => p < nexti
        BY <2>2, NAssumption
      <4> QED BY <2>3, <2>6, <2>7, <3>1, <4>1 DEF FreshOK, Skipped
    <3> QED BY <2>1, <2>6, <2>7, <3>1, <3>2 DEF FreshOK
  <2>9. ASSUME NEW p \in Parts PROVE (Succeeded(p)' <=> Succeeded(p)) /\ (pc[p] \in Won => pc'[p] \in Won)
    BY <2>1, <2>3, <2>6, <2>7 DEF Succeeded, Won
  <2> QED BY <2>1, <2>8, <2>9 DEF FreshInv
<1>6. CASE Concat
  <2>1. main' = "save" /\ UNCHANGED <<nexti, live, id, first, ctx, pc, err, single, partial, start, stop, written>>
    BY <1>6 DEF Concat
  <2>2. AllEnded /\ Launched
    BY <1>6 DEF Concat, ModeInv
  <2>3. AllEnded' /\ Launched' /\ Over'
    BY <2>1, <2>2 DEF AllEnded, Running, Launched, Over
  <2>4. ASSUME NEW p \in Parts PROVE FreshOK(p)'
    <3>1. FreshOK(p) /\ PartLen(p)' = PartLen(p) /\ (Skipped(p)' <=> Skipped(p))
      BY <2>1 DEF FreshInv, PartLen, Skipped
    <3>2. fd'[p] = fd[p] \/ fd'[p] \in {"merged", "removed"}
      BY <1>6 DEF Concat
    <3> QED BY <2>1, <2>3, <3>1, <3>2 DEF FreshOK
  <2> QED BY <2>1, <2>4 DEF FreshInv, Succeeded
<1>7. CASE Collapse
  <2>1. main = "collapse" /\ main' = "wait" /\ live' = {id} /\ id' = 0
        /\ UNCHANGED <<partVars, nexti, first, ctx>>
    BY <1>7 DEF Collapse
  <2>2. first = "fallback" /\ id \in Parts /\ N # 1
    BY <2>1 DEF IInv, TypeOK, SharedTypeOK, ElectionInv, EndInv, LiveInv
  <2>3. live' # Parts
    <3>1. 1 \in Parts /\ 2 \in Parts
      BY <2>2, NAssumption
    <3> QED BY <2>1, <3>1
  <2>4. live = Parts
    BY <2>2, NAssumption DEF FreshInv
  <2>5. ASSUME NEW p \in Parts PROVE FreshOK(p)'
    <3>1. live # {p} /\ ~Over
      <4>1. 1 \in Parts /\ 2 \in Parts
        BY <2>2, NAssumption
      <4> QED BY <2>1, <2>4, <4>1 DEF Over
    <3> QED BY <1>3, <2>1, <2>2, <3>1
  <2> QED BY <2>1, <2>2, <2>3, <2>5, NAssumption DEF FreshInv
<1>8. CASE MainStep /\ ~InitPart /\ ~Concat /\ ~Collapse
  <2>1. UNCHANGED <<partVars, nexti, live, id>>
    BY <1>8 DEF MainStep, InitPartFails, FallbackRestored, FallbackToSingle, AddTotalBar,
       AddTotalBarFails, NothingToPrepare, Abort, JoinError, JoinPanic, Join, MergeSingle,
       MergeRefused, Classify, DumpState, CloseFiles
  <2>2. Over => Over'
    BY <1>8 DEF MainStep, InitPartFails, FallbackRestored, FallbackToSingle, AddTotalBar,
       AddTotalBarFails, NothingToPrepare, Abort, JoinError, JoinPanic, Join, MergeSingle,
       MergeRefused, Classify, DumpState, CloseFiles, Over
  <2>3. \/ first' = first /\ ctx' = ctx
        \/ first' = first /\ ctx' # "live"
        \/ first = "none" /\ first' = "canceled" /\ ctx' # "live"
    BY <1>8 DEF MainStep, InitPartFails, FallbackRestored, FallbackToSingle, AddTotalBar,
       AddTotalBarFails, NothingToPrepare, Abort, JoinError, JoinPanic, Join, MergeSingle,
       MergeRefused, Classify, DumpState, CloseFiles, CancelRun
  <2> QED BY <1>4, <2>1, <2>2, <2>3
<1>9. CASE Waiter \/ Drain \/ Signal \/ UNCHANGED vars
  <2>1. UNCHANGED <<partVars, nexti, live, id>> /\ (Over => Over')
    BY <1>9 DEF Waiter, Drain, Signal, vars, runAndCtxVars, Over
  <2>2. \/ first' = first /\ ctx' = ctx
        \/ first' = first /\ ctx' # "live"
        \/ first = "none" /\ first' = "canceled" /\ (ctx' # "live" \/ AllEnded)
    BY <1>9 DEF Waiter, Drain, Signal, CancelRun, vars, runAndCtxVars
  <2> QED BY <1>4, <2>1, <2>2
<1> QED BY <1>1, <1>5, <1>6, <1>7, <1>8, <1>9 DEF Next, Terminated

\* Nobody has failed and no part was skipped: each part has had a 200.  Run has
\* seen the one that was elected, or nothing would have let a part succeed; it is
\* done and, without a byte, no other is.
LEMMA FreshCount == IInv /\ ModeInv /\ EndInv /\ FreshInv => DoneCountAgrees
<1> SUFFICES ASSUME IInv, ModeInv, EndInv, FreshInv, main = "wait", AllEnded, ~errCh, ~mctx
             PROVE  doneCount = Cardinality(live)
  BY DEF DoneCountAgrees
<1>1. ASSUME NEW p \in Parts PROVE pc[p] = "end" /\ Succeeded(p)
  <2>1. pc[p] \in {"new", "end"}
    BY DEF AllEnded, Running
  <2>2. p < nexti /\ ~Skipped(p)
    BY NAssumption DEF ModeInv, Launched, IInv, TypeOK, RunTypeOK, FreshInv, FreshOK
  <2> QED BY <2>1, <2>2 DEF Skipped, EndInv, CountInv, Failed, Succeeded
<1>2. ctx = "live"
  <2>1. \A p \in Parts : pc[p] # "exit"
    BY <1>1
  <2> QED BY <2>1 DEF EndInv, CancelInv, Over
<1>3. 1 \in Parts
  BY NAssumption
<1>4. first = "fallback"
  BY <1>1, <1>2, <1>3 DEF FreshInv, EndInv, LiveInv, IInv, TypeOK, SharedTypeOK
<1>5. sessionSingle
  BY <1>4 DEF EndInv, LiveInv
<1>6. CASE live = Parts
  <2>1. N = 1
    BY <1>5, <1>6 DEF EndInv, LiveInv
  <2>2. id # 0
    BY <1>1, <1>3, <1>6 DEF FreshInv
  <2>3. id = 1
    BY <2>1, <2>2 DEF IInv, TypeOK, SharedTypeOK
  <2>4. IsDone(1)
    BY <1>1, <1>3, <1>4, <2>3 DEF EndInv, ElectedInv, ElectedOK
  <2>5. CountedParts = Parts
    BY <1>1, <2>1, <2>4 DEF CountedParts, Counted
  <2> QED BY <1>6, <2>5 DEF EndInv, CountInv
<1>7. CASE live # Parts
  <2>1. PICK k \in Parts : live = {k} /\ (Succeeded(k) => IsDone(k) /\ fd[k] = "trunc")
    BY <1>7 DEF EndInv, LiveInv, Collapsed
  <2>2. Counted(k)
    BY <1>1, <2>1 DEF Counted
  <2>3. id = 0
    BY <1>7 DEF FreshInv
  <2>4. N # 1
    BY <1>7, <2>1
  <2>5. ASSUME NEW q \in Parts, q # k PROVE ~Counted(q)
    <3>1. FreshOK(q) /\ fd[q] \in {"nil", "append", "trunc", "merged", "removed"} /\ ~Over
      BY DEF FreshInv, IInv, TypeOK, PartTypeOK, Over
    <3>2. fd[q] # "trunc"
      BY <2>1, <2>3, <2>5, <3>1, NAssumption DEF FreshOK
    <3>3. written[q] = 0 /\ PartLen(q) > 0
      BY <2>4, <3>1, <3>2 DEF FreshOK
    <3>4. ~IsDone(q)
      BY <3>3 DEF IsDone, PartLen, IInv, TypeOK, PartTypeOK
    <3> QED BY <3>1, <3>4 DEF Counted, FreshOK
  <2>6. CountedParts = {k}
    BY <2>2, <2>5 DEF CountedParts
  <2> QED BY <2>1, <2>6 DEF EndInv, CountInv
<1> QED BY <1>6, <1>7

\* Nor does that assertion fail in a new session whose requests for ranges are all
\* answered with the whole body, or fail.
THEOREM FreshCountAgrees == 206 \notin Statuses => (Spec /\ Fresh => []DoneCountAgrees)
<1> SUFFICES ASSUME 206 \notin Statuses PROVE Spec /\ Fresh => []DoneCountAgrees
  OBVIOUS
<1>1. Init /\ Fresh => FreshInv
  BY InitFreshInv
<1>2. IInv /\ ModeInv /\ EndInv /\ FreshInv /\ [Next]_vars => FreshInv'
  BY FreshNext
<1>3. Spec /\ Fresh => []FreshInv
  BY <1>1, <1>2, InvariantEnd, PTL DEF Spec
<1> QED BY <1>3, FreshCount, InvariantEnd, PTL
=============================================================================
