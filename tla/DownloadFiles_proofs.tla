------------------------ MODULE DownloadFiles_proofs ------------------------
(***************************************************************************)
(* The size of a part's file tells the truth about its content, the output  *)
(* of a run without an error is the body, and the files fit the state that  *)
(* is saved, for any number of parts and any body.                          *)
(***************************************************************************)
EXTENDS Download_proofs, SequenceTheorems

USE DEF Parts

-----------------------------------------------------------------------------
(* The files.  A file opened for appending is written to at its end; one that *)
(* was truncated holds what was written, or has a hole and is longer.          *)

Appends(p) == fd[p] \in {"nil", "append"} /\ ContentLength > 1

AppendOK(p) ==
  /\ 0 < stop[p] /\ start[p] <= stop[p]
  /\ single[p] => N = 1
  /\ Len(file[p]) = written[p] => file[p] = Slice(start[p], written[p])

TruncOK(p) ==
  \/ /\ start[p] = 0
     /\ file[p] = Slice(0, written[p])
     /\ pos[p] = written[p] \/ written[p] = 0
  \/ start[p] = 0 /\ pos[p] = Len(file[p]) /\ pos[p] > written[p]
  \/ file[p] = <<>> /\ written[p] = 0 /\ pc[p] \in {"exit", "end"}

Reading(p) == pc[p] = "loop" \/ (pc[p] = "incr" /\ err[p] # "eof")

FileOK(p) ==
  /\ Appends(p) => AppendOK(p)
  /\ fd[p] = "trunc" => TruncOK(p)
  /\ Appends(p) \/ fd[p] = "trunc" =>
       (Reading(p) => body[p].from = start[p] + written[p])

FileInv == ~WriteFaults => \A p \in Parts : FileOK(p)

-----------------------------------------------------------------------------
(* Slices of the body and bounds of the parts. *)

LEMMA SliceEmpty ==
  ASSUME NEW a \in Int
  PROVE  Slice(a, 0) = <<>>
<1>1. Slice(a, 0) \in Seq(Int) /\ Len(Slice(a, 0)) = 0
  BY SliceType
<1> QED BY <1>1, EmptySeq

\* A file that holds the body from a on, and is written on at its end.
LEMMA SliceAppend ==
  ASSUME NEW a \in Int, NEW w \in Nat, NEW n \in Nat \ {0}
  PROVE  WriteAt(Slice(a, w), w, a + w, n) = Slice(a, w + n)
<1>1. Len(Slice(a, w)) = w /\ \A i \in 1 .. w : Slice(a, w)[i] = a + i - 1
  BY SliceType
<1>2. WriteAt(Slice(a, w), w, a + w, n) =
        [i \in 1 .. (w + n) |->
           IF i \in (w + 1) .. (w + n) THEN (a + w) + (i - w) - 1
           ELSE IF i <= w THEN Slice(a, w)[i] ELSE Hole]
  BY <1>1 DEF WriteAt
<1>3. ASSUME NEW i \in 1 .. (w + n)
      PROVE  (IF i \in (w + 1) .. (w + n) THEN (a + w) + (i - w) - 1
              ELSE IF i <= w THEN Slice(a, w)[i] ELSE Hole) = a + i - 1
  <2>1. i \in (w + 1) .. (w + n) \/ i \in 1 .. w
    OBVIOUS
  <2> QED BY <1>1, <2>1
<1> QED BY <1>2, <1>3 DEF Slice

-----------------------------------------------------------------------------
(* The files. *)

LEMMA KeepsFileOK ==
  ASSUME NEW p \in Parts, FileOK(p), KeepsFile(p),
         \/ fd'[p] = fd[p]
         \/ fd[p] = "nil" /\ fd'[p] = "append"
         \/ fd'[p] \in {"merged", "removed"},
         pc'[p] \notin {"loop", "incr"},
         pc[p] \in {"exit", "end"} => pc'[p] \in {"exit", "end"}
  PROVE  FileOK(p)'
<1>1. (Appends(p)' => Appends(p)) /\ (fd'[p] = "trunc" => fd[p] = "trunc") /\ ~Reading(p)'
  BY DEF Appends, Reading
<1>2. AppendOK(p) => AppendOK(p)'
  BY DEF KeepsFile, AppendOK
<1>3. TruncOK(p) => TruncOK(p)'
  BY DEF KeepsFile, TruncOK
<1> QED BY <1>1, <1>2, <1>3 DEF FileOK

LEMMA KeepsOK ==
  ASSUME NEW p \in Parts, FileOK(p), Keeps(p)
  PROVE  FileOK(p)'
<1>1. (Appends(p)' <=> Appends(p)) /\ (Reading(p)' <=> Reading(p))
  BY DEF Keeps, Appends, Reading
<1>2. AppendOK(p) => AppendOK(p)'
  BY DEF Keeps, KeepsFile, AppendOK
<1>3. TruncOK(p) => TruncOK(p)'
  BY DEF Keeps, KeepsFile, TruncOK
<1> QED BY <1>1, <1>2, <1>3 DEF FileOK, Keeps, KeepsFile

LEMMA InitFileInv == Init => FileInv
<1> SUFFICES ASSUME Init, NEW p \in Parts PROVE FileOK(p)
  BY DEF FileInv
<1>1. PICK w \in [Parts -> 0 .. Size], d \in [Parts -> Damage] :
        /\ w[p] + d[p] >= 0
        /\ written = w
        /\ file = [q \in Parts |-> Slice(start[q], w[q] + d[q])]
  BY DEF Init
<1>2. fd[p] = "nil" /\ pc[p] = "new" /\ single[p] = (N = 1)
  BY DEF Init
<1>3. start[p] = PartStart(ContentLength, N, p) /\ stop[p] = PartStop(ContentLength, N, p)
  BY DEF Init
<1>4. w[p] \in Int /\ d[p] \in Int /\ w[p] + d[p] \in Nat
  <2>1. w[p] \in 0 .. Size /\ d[p] \in Damage
    OBVIOUS
  <2>2. w[p] \in Int
    BY <2>1, SizeAssumption
  <2>3. d[p] \in Int
    BY <2>1, DamageAssumption
  <2> QED BY <1>1, <2>2, <2>3
<1>5. Len(file[p]) = written[p] => file[p] = Slice(start[p], written[p])
  <2>1. Len(file[p]) = w[p] + d[p]
    BY <1>1, <1>3, <1>4, PartStartStopType, SliceType
  <2> QED BY <1>1, <1>4, <2>1
<1>6. Appends(p) => AppendOK(p)
  BY <1>2, <1>3, <1>5, PartBounds DEF Appends, AppendOK
<1> QED BY <1>2, <1>6 DEF FileOK, Reading

\* 206: the file goes on at its end, and so does the body.
LEMMA SetupPartialFile ==
  ASSUME IInv, NEW p \in Parts, FileOK(p), SetupPartial(p), fd[p] # "trunc",
         pc[p] \notin {"exit", "end"},
         UNCHANGED <<single, start, stop, written, file, pos>>
  PROVE  FileOK(p)'
<1> DEFINE opened == [fd EXCEPT ![p] = IF @ = "nil" THEN "append" ELSE @]
<1> USE DEF IInv, TypeOK, PartTypeOK
<1>1. opened[p] = IF fd[p] = "nil" THEN "append" ELSE fd[p]
  OBVIOUS
<1>2. KeepsFile(p)
  BY DEF KeepsFile
<1> HIDE DEF opened
<1>3. CASE fd' = opened /\ EnterLoop(p, RangeFrom(p), RangeTo(p))
  <2>1. fd'[p] # "trunc" /\ (Appends(p)' => Appends(p))
    BY <1>1, <1>3 DEF Appends
  <2>2. AppendOK(p) => AppendOK(p)'
    BY <1>2 DEF KeepsFile, AppendOK
  <2>3. body'[p].from = RangeFrom(p)
    BY <1>3 DEF EnterLoop
  <2>4. AppendOK(p) => RangeFrom(p) = start'[p] + written'[p]
    BY DEF AppendOK, RangeFrom
  <2> QED BY <2>1, <2>2, <2>3, <2>4 DEF FileOK
<1>4. CASE (fd' = fd \/ fd' = opened) /\ Leave(p, "fail")
  <2>1. pc'[p] = "exit"
    BY <1>4 DEF Leave, Goto
  <2>2. fd'[p] = fd[p] \/ (fd[p] = "nil" /\ fd'[p] = "append")
    BY <1>1, <1>4
  <2> QED BY <1>2, <2>1, <2>2, KeepsFileOK
<1> QED BY <1>3, <1>4 DEF SetupPartial, opened

LEMMA WinFallbackFile ==
  ASSUME IInv, NEW p \in Parts, FileOK(p), WinFallback(p)
  PROVE  FileOK(p)'
<1> USE DEF IInv, TypeOK, PartTypeOK
<1>1. pc[p] = "won200" /\ written' = written
  BY DEF WinFallback, At
<1>2. CASE UNCHANGED <<modeVars, file, fd, pos>> /\ (Goto(p, "panic") \/ Leave(p, "fail"))
  <2>1. KeepsFile(p) /\ fd'[p] = fd[p]
    BY <1>1, <1>2 DEF KeepsFile, modeVars
  <2>2. pc'[p] \in {"panic", "exit"}
    BY <1>2 DEF Leave, Goto
  <2> QED BY <1>1, <2>1, <2>2, KeepsFileOK
<1>3. CASE /\ written[p] = 0
           /\ file' = [file EXCEPT ![p] = <<>>]
           /\ fd' = [fd EXCEPT ![p] = "trunc"]
           /\ \/ start' = [start EXCEPT ![p] = 0] /\ EnterLoop(p, 0, Size - 1)
              \/ Leave(p, "fail")
  <2>1. fd'[p] = "trunc" /\ file'[p] = <<>> /\ written'[p] = 0
    BY <1>1, <1>3
  <2>2. ~Appends(p)'
    BY <2>1 DEF Appends
  <2>3. CASE start' = [start EXCEPT ![p] = 0] /\ EnterLoop(p, 0, Size - 1)
    <3>1. start'[p] = 0 /\ body'[p].from = 0
      BY <2>3 DEF EnterLoop
    <3>2. TruncOK(p)'
      BY <2>1, <3>1, SliceEmpty DEF TruncOK
    <3> QED BY <2>1, <2>2, <3>1, <3>2 DEF FileOK
  <2>4. CASE Leave(p, "fail")
    <3>1. pc'[p] = "exit"
      BY <2>4 DEF Leave, Goto
    <3> QED BY <2>1, <2>2, <3>1 DEF FileOK, TruncOK, Reading
  <2> QED BY <1>3, <2>3, <2>4
<1> QED BY <1>2, <1>3 DEF WinFallback

\* 200 to a retry of the single part: its file is one that was truncated.
LEMMA RestartFile ==
  ASSUME IInv, ModeInv, NEW p \in Parts, FileOK(p), Restart(p)
  PROVE  FileOK(p)'
<1> USE DEF IInv, TypeOK, PartTypeOK
<1>1. /\ pc[p] = "wait" /\ id # 0 /\ single[p] /\ ~partial[p]
      /\ UNCHANGED <<single, start, stop, fd, pos>>
  BY DEF Restart, At, modeVars
<1>2. body'[p].from = 0
  BY DEF Restart, EnterLoop
<1>3. Appends(p)' <=> Appends(p)
  BY <1>1 DEF Appends
<1>4. ~Appends(p)
  <2> SUFFICES ASSUME Appends(p) PROVE FALSE
    OBVIOUS
  <2>1. N = 1
    BY <1>1 DEF FileOK, AppendOK
  <2>2. id = p
    BY <1>1, <2>1 DEF SharedTypeOK
  <2>3. fd[p] = "trunc"
    BY <1>1, <2>2 DEF ModeInv, ModeOK, Trying
  <2> QED BY <2>3 DEF Appends
<1>5. CASE fd[p] # "trunc"
  BY <1>1, <1>3, <1>4, <1>5 DEF FileOK
<1>6. CASE fd[p] = "trunc"
  <2>1. start[p] = 0 /\ start'[p] = 0 /\ TruncOK(p)
    BY <1>1, <1>6 DEF FileOK, TruncOK
  <2>2. CASE written[p] = 0 /\ UNCHANGED <<file, written>>
    <3>1. TruncOK(p)'
      BY <1>1, <2>1, <2>2 DEF TruncOK
    <3> QED BY <1>2, <1>3, <1>4, <2>1, <2>2, <3>1 DEF FileOK
  <2>3. CASE file' = [file EXCEPT ![p] = <<>>] /\ written' = [written EXCEPT ![p] = 0]
    <3>1. file'[p] = <<>> /\ written'[p] = 0
      BY <2>3
    <3>2. TruncOK(p)'
      BY <2>1, <3>1, SliceEmpty DEF TruncOK
    <3> QED BY <1>2, <1>3, <1>4, <2>1, <3>1, <3>2 DEF FileOK
  <2> QED BY <2>2, <2>3 DEF Restart
<1> QED BY <1>5, <1>6

LEMMA ReadFile ==
  ASSUME IInv, ~WriteFaults, NEW p \in Parts, FileOK(p), Read(p)
  PROVE  FileOK(p)'
<1> DEFINE rest   == body[p].to - body[p].from + 1
           offset == IF fd[p] = "trunc" THEN pos[p] ELSE Len(file[p])
           next(e) == IF ~single[p] THEN "incr" ELSE IF e = "eof" THEN "after" ELSE "loop"
<1>1. PICK n \in 0 .. rest, e \in {"nil", "eof"} :
        /\ IF n = 0 THEN UNCHANGED <<file, pos>>
           ELSE /\ file' = [file EXCEPT ![p] = WriteAt(@, offset, body[p].from, n)]
                /\ pos' = [pos EXCEPT ![p] = IF fd[p] = "trunc" THEN @ + n ELSE @]
        /\ written' = [written EXCEPT ![p] = @ + n]
        /\ err' = [err EXCEPT ![p] = e]
        /\ Goto(p, next(e))
        /\ \E lost \in 0 .. (IF WriteFaults /\ e = "nil" THEN rest - n ELSE 0) :
             body' = [body EXCEPT ![p] =
                        IF e = "eof" THEN NoBody
                        ELSE [from |-> body[p].from + n + lost, to |-> body[p].to]]
  BY Zenon DEF Read
<1> USE DEF IInv, TypeOK, PartTypeOK
<1>2. pc[p] = "loop" /\ UNCHANGED <<single, start, stop, fd>>
  BY DEF Read, At, modeVars
<1>3. n \in Nat /\ rest \in Int /\ offset \in Nat /\ body[p].from \in Int
  OBVIOUS
<1>4. written'[p] = written[p] + n /\ err'[p] = e /\ pc'[p] = next(e)
  BY <1>1 DEF Goto
<1>5. e = "nil" => body'[p].from = body[p].from + n
  <2>1. PICK lost \in 0 .. (IF WriteFaults /\ e = "nil" THEN rest - n ELSE 0) :
             body' = [body EXCEPT ![p] =
                        IF e = "eof" THEN NoBody
                        ELSE [from |-> body[p].from + n + lost, to |-> body[p].to]]
    BY <1>1
  <2>2. lost = 0
    OBVIOUS
  <2>3. e = "nil" => body'[p] = [from |-> body[p].from + n + lost, to |-> body[p].to]
    BY <2>1
  <2> QED BY <1>3, <2>2, <2>3
<1>6. Reading(p)' => e = "nil"
  BY <1>4 DEF Reading
<1>7. Appends(p)' <=> Appends(p)
  BY <1>2 DEF Appends
<1>8. Appends(p) \/ fd[p] = "trunc" => body[p].from = start[p] + written[p]
  BY <1>2 DEF FileOK, Reading
<1>9. Appends(p) \/ fd[p] = "trunc" =>
        (Reading(p)' => body'[p].from = start'[p] + written'[p])
  BY <1>2, <1>3, <1>4, <1>5, <1>6, <1>8
<1>10. CASE n = 0
  <2>1. file'[p] = file[p] /\ written'[p] = written[p] /\ pos'[p] = pos[p]
    BY <1>1, <1>4, <1>10
  <2>2. (AppendOK(p) => AppendOK(p)') /\ (TruncOK(p) => TruncOK(p)')
    BY <1>2, <2>1 DEF AppendOK, TruncOK
  <2> QED BY <1>2, <1>7, <1>9, <2>2 DEF FileOK
<1>11. CASE n # 0
  <2>1. /\ file'[p] = WriteAt(file[p], offset, body[p].from, n)
        /\ pos'[p] = IF fd[p] = "trunc" THEN pos[p] + n ELSE pos[p]
    BY <1>1, <1>11
  <2>2. Len(file'[p]) = IF Len(file[p]) > offset + n THEN Len(file[p]) ELSE offset + n
    <3>1. file[p] \in Seq(Bytes)
      BY DEF Bytes
    <3> HIDE DEF rest, offset, next
    <3> QED BY <1>3, <2>1, <3>1, WriteAtType
  <2> HIDE DEF rest, next
  <2>3. Appends(p) => AppendOK(p)'
    <3> SUFFICES ASSUME Appends(p), Len(file'[p]) = written'[p]
                 PROVE  file'[p] = Slice(start[p], written'[p])
      BY <1>2 DEF FileOK, AppendOK
    <3>1. offset = Len(file[p])
      BY DEF Appends
    <3>2. Len(file[p]) = written[p]
      BY <1>3, <1>4, <2>2, <3>1
    <3>3. file[p] = Slice(start[p], written[p])
      BY <3>2 DEF FileOK, AppendOK
    <3>4. file'[p] = WriteAt(Slice(start[p], written[p]), written[p], start[p] + written[p], n)
      BY <1>8, <2>1, <3>1, <3>2, <3>3
    <3>5. start[p] \in Int /\ written[p] \in Nat
      OBVIOUS
    <3> QED BY <1>3, <1>4, <1>11, <3>4, <3>5, SliceAppend
  <2>4. fd[p] = "trunc" => TruncOK(p)'
    <3> SUFFICES ASSUME fd[p] = "trunc" PROVE TruncOK(p)'
      OBVIOUS
    <3>1. offset = pos[p] /\ pos'[p] = pos[p] + n /\ TruncOK(p)
      BY <2>1 DEF FileOK
    <3>2. CASE /\ start[p] = 0
               /\ file[p] = Slice(0, written[p])
               /\ pos[p] = written[p]
      <4>1. file'[p] = Slice(0, written'[p])
        BY <1>3, <1>4, <1>8, <1>11, <2>1, <3>1, <3>2, SliceAppend
      <4> QED BY <1>2, <1>4, <3>1, <3>2, <4>1 DEF TruncOK
    <3>3. CASE start[p] = 0 /\ pos[p] > written[p] /\ Len(file[p]) <= pos[p]
      <4>1. Len(file'[p]) = pos'[p] /\ pos'[p] > written'[p]
        BY <1>3, <1>4, <2>2, <3>1, <3>3
      <4> QED BY <1>2, <3>3, <4>1 DEF TruncOK
    <3>4. CASE /\ start[p] = 0
               /\ file[p] = Slice(0, written[p])
               /\ pos[p] # written[p] /\ written[p] = 0
      <4>1. Len(file[p]) = 0
        BY <3>4, SliceType
      <4> QED BY <3>3, <3>4, <4>1
    <3> QED BY <1>2, <3>1, <3>2, <3>3, <3>4 DEF TruncOK
  <2> QED BY <1>2, <1>7, <1>9, <2>3, <2>4 DEF FileOK
<1> QED BY <1>10, <1>11

LEMMA IncrTotalFile ==
  ASSUME IInv, NEW p \in Parts, FileOK(p), IncrTotal(p)
  PROVE  FileOK(p)'
<1> USE DEF IInv, TypeOK, PartTypeOK
<1>1. KeepsFile(p) /\ fd' = fd /\ body' = body /\ err' = err /\ pc[p] = "incr"
  BY DEF IncrTotal, At, KeepsFile, tryVars, modeVars, fileVars
<1>2. pc'[p] = IF err[p] = "eof" THEN "after" ELSE "loop"
  BY DEF IncrTotal, Goto
<1>3. (Appends(p)' <=> Appends(p)) /\ (Reading(p)' => Reading(p))
  BY <1>1, <1>2 DEF Appends, Reading
<1>4. (AppendOK(p) => AppendOK(p)') /\ (TruncOK(p) => TruncOK(p)')
  BY <1>1 DEF KeepsFile, AppendOK, TruncOK
<1> QED BY <1>1, <1>3, <1>4 DEF FileOK, KeepsFile

LEMMA AfterFile ==
  ASSUME IInv, NEW p \in Parts, FileOK(p), After(p)
  PROVE  FileOK(p)'
<1> USE DEF IInv, TypeOK, PartTypeOK
<1>1. UNCHANGED <<written, file, fd, pos>> /\ pc[p] = "after"
  BY DEF After, At, fileVars
<1>2. start'[p] \in {0, start[p]}
  BY DEF After
<1>3. PartLen(p) > 0 => single'[p] = single[p] /\ start'[p] = start[p] /\ stop'[p] = stop[p]
  BY DEF After, PartLen
<1>4. pc'[p] \in {"failed", "exit", "panic"}
  BY DEF After, Goto, Leave
<1>5. (Appends(p)' <=> Appends(p)) /\ ~Reading(p)'
  BY <1>1, <1>4 DEF Appends, Reading
<1>6. AppendOK(p) => AppendOK(p)'
  BY <1>1, <1>3 DEF AppendOK, PartLen
<1>7. TruncOK(p) => TruncOK(p)'
  BY <1>1, <1>2 DEF TruncOK
<1> QED BY <1>1, <1>5, <1>6, <1>7 DEF FileOK

LEMMA PartStepFile ==
  ASSUME IInv, ModeInv, ~WriteFaults, NEW p \in Parts, FileOK(p), PartStep(p)
  PROVE  FileOK(p)'
<1> USE DEF runAndCtxVars, runVars, modeVars, fileVars, At
<1>1. PartTypeOK /\ ModeOK(p)
  BY DEF IInv, TypeOK, ModeInv
<1>2. CASE Elect206(p) \/ Elect200(p)
  <2>1. KeepsFile(p) /\ fd' = fd /\ pc[p] = "wait"
    BY <1>2 DEF Elect206, Elect200, KeepsFile
  <2>2. pc'[p] \in {"won206", "won200"}
    BY <1>1, <1>2 DEF Elect206, Elect200, Goto, PartTypeOK
  <2> QED BY <2>1, <2>2, KeepsFileOK
<1>3. CASE WinPartial(p)
  <2>1. pc[p] = "won206" /\ fd[p] # "trunc"
    BY <1>1, <1>3 DEF WinPartial, ModeOK, Won
  <2> QED BY <1>3, <2>1, SetupPartialFile DEF WinPartial
<1>4. CASE Answer206(p)
  <2>1. pc[p] = "wait" /\ UNCHANGED <<single, start, stop, written, file, pos>>
    BY <1>4 DEF Answer206
  <2>2. CASE Goto(p, "panic") /\ UNCHANGED fd
    <3>1. KeepsFile(p) /\ pc'[p] = "panic"
      BY <1>1, <2>1, <2>2 DEF KeepsFile, Goto, PartTypeOK
    <3> QED BY <2>1, <2>2, <3>1, KeepsFileOK
  <2>3. CASE ~(~partial[p] /\ first = "fallback") /\ SetupPartial(p)
    <3>1. fd[p] # "trunc"
      BY <1>1, <2>1, <2>3 DEF ModeOK, Trying
    <3> QED BY <2>1, <2>3, <3>1, SetupPartialFile
  <2> QED BY <1>4, <2>2, <2>3 DEF Answer206
<1>5. CASE WinFallback(p)
  BY <1>5, WinFallbackFile
<1>6. CASE Restart(p)
  BY <1>6, RestartFile
<1>7. CASE Read(p)
  BY <1>7, ReadFile
<1>8. CASE IncrTotal(p)
  BY <1>8, IncrTotalFile
<1>9. CASE After(p)
  BY <1>9, AfterFile
<1>10. CASE Superseded(p)
  <2>1. KeepsFile(p) /\ fd' = fd /\ pc[p] = "wait"
    BY <1>10 DEF Superseded, KeepsFile
  <2>2. pc'[p] \in {"panic", "exit"}
    BY <1>1, <1>10 DEF Superseded, Goto, Leave, PartTypeOK
  <2> QED BY <2>1, <2>2, KeepsFileOK
<1>11. CASE Unanswered(p) \/ OtherStatus(p) \/ Retry(p) \/ GiveUp(p) \/ Recover(p)
  <2>1. KeepsFile(p) /\ fd' = fd /\ pc[p] \in {"wait", "failed", "panic"}
    BY <1>11 DEF Unanswered, OtherStatus, Retry, GiveUp, Recover, KeepsFile
  <2>2. pc'[p] \in {"failed", "exit", "wait"}
    BY <1>1, <1>11 DEF Unanswered, OtherStatus, Retry, GiveUp, Recover, Goto, Leave, PartTypeOK
  <2> QED BY <2>1, <2>2, KeepsFileOK
<1>12. CASE LoopBreak(p) \/ ReadFails(p)
  <2>1. KeepsFile(p) /\ fd' = fd /\ pc[p] = "loop"
    BY <1>12 DEF LoopBreak, ReadFails, KeepsFile
  <2>2. pc'[p] \in {"after", "failed"}
    BY <1>1, <1>12 DEF LoopBreak, ReadFails, Goto, PartTypeOK
  <2> QED BY <2>1, <2>2, KeepsFileOK
<1>13. CASE Finish(p)
  <2>1. KeepsFile(p) /\ fd' = fd
    BY <1>13 DEF Finish, KeepsFile
  <2>2. pc'[p] = "end"
    BY <1>1, <1>13 DEF Finish, Goto, PartTypeOK
  <2> QED BY <2>1, <2>2, KeepsFileOK
<1> QED BY <1>2, <1>3, <1>4, <1>5, <1>6, <1>7, <1>8, <1>9, <1>10, <1>11, <1>12, <1>13 DEF PartStep

LEMMA NextFileInv == IInv /\ ModeInv /\ FileInv /\ [Next]_vars => FileInv'
<1> SUFFICES ASSUME IInv, ModeInv, [Next]_vars, ~WriteFaults,
                    NEW p \in Parts, FileOK(p)
             PROVE  FileOK(p)'
  BY DEF FileInv
<1> USE DEF offRunVars, partVars, tryVars, modeVars, fileVars
<1>1. PartTypeOK
  BY DEF IInv, TypeOK
<1>2. CASE UNCHANGED partVars
  <2>1. Keeps(p)
    BY <1>2 DEF Keeps, KeepsFile
  <2> QED BY <2>1, KeepsOK
<1>3. CASE InitPart
  <2>1. UNCHANGED <<body, err, single, partial, start, stop, written, file, fd, pos>>
    BY <1>3 DEF InitPart
  <2>2. CASE p = nexti /\ pc'[p] # pc[p]
    <3>1. pc[p] = "new"
      BY <2>2, NAssumption DEF IInv, TypeOK, LaunchOK
    <3>2. pc'[p] = "wait"
      BY <1>1, <1>3, <2>2 DEF InitPart, Goto, PartTypeOK
    <3> QED BY <2>1, <3>1, <3>2, KeepsFileOK DEF KeepsFile
  <2>3. CASE pc'[p] = pc[p]
    BY <2>1, <2>3, KeepsOK DEF Keeps, KeepsFile
  <2>4. p # nexti => pc'[p] = pc[p]
    BY <1>1, <1>3 DEF InitPart, Goto, PartTypeOK
  <2> QED BY <2>2, <2>3, <2>4
<1>4. CASE Concat
  <2>1. KeepsFile(p) /\ pc'[p] = pc[p] /\ fd'[p] \in {"merged", "removed", fd[p]}
    BY <1>4 DEF Concat, KeepsFile
  <2>2. pc[p] \in {"new", "end"}
    BY <1>4 DEF Concat, ModeInv, AllEnded, Running
  <2> QED BY <2>1, <2>2, KeepsFileOK
<1>5. CASE MainStep /\ ~InitPart /\ ~Concat
  <2>1. UNCHANGED partVars
    BY <1>5 DEF MainStep, InitPartFails, FallbackRestored, FallbackToSingle, AddTotalBar,
       AddTotalBarFails, NothingToPrepare, Abort, Collapse, JoinError, JoinPanic, Join,
       MergeSingle, MergeRefused, Classify, DumpState, CloseFiles
  <2> QED BY <1>2, <2>1
<1>6. CASE Waiter \/ Drain \/ Signal \/ UNCHANGED vars
  <2>1. UNCHANGED partVars
    BY <1>6 DEF Waiter, Drain, Signal, vars
  <2> QED BY <1>2, <2>1
<1>7. ASSUME NEW q \in Parts, PartStep(q) PROVE FileOK(p)'
  <2>1. CASE q = p
    BY <1>7, <2>1, PartStepFile
  <2>2. CASE q # p
    <3>1. Keeps(p)
      BY <1>1, <1>7, <2>2, PartStepLocal
    <3> QED BY <3>1, KeepsOK
  <2> QED BY <2>1, <2>2
<1> QED BY <1>3, <1>4, <1>5, <1>6, <1>7 DEF Next, Terminated

-----------------------------------------------------------------------------
(* The theorem. *)

LEMMA FileInvTellsTruth == IInv /\ FileInv => SizeTellsTruth
<1> SUFFICES ASSUME IInv, FileInv, ~WriteFaults, NEW p \in Parts,
                    Len(file[p]) = written[p],
                    \/ fd[p] = "trunc"
                    \/ fd[p] \in {"nil", "append"} /\ ContentLength > 1
             PROVE  file[p] = Slice(start[p], written[p])
  BY DEF SizeTellsTruth
<1>1. FileOK(p) /\ PartTypeOK
  BY DEF IInv, TypeOK, FileInv
<1>2. CASE Appends(p)
  BY <1>1, <1>2 DEF FileOK, AppendOK
<1>3. CASE fd[p] = "trunc"
  <2>1. CASE file[p] = <<>> /\ written[p] = 0
    BY <1>1, <2>1, SliceEmpty DEF PartTypeOK
  <2>2. CASE start[p] = 0 /\ file[p] = Slice(0, written[p])
    BY <2>2
  <2>3. CASE pos[p] = Len(file[p]) /\ pos[p] > written[p]
    BY <1>1, <2>3 DEF PartTypeOK
  <2> QED BY <1>1, <1>3, <2>1, <2>2, <2>3 DEF FileOK, TruncOK
<1> QED BY <1>2, <1>3 DEF Appends

\* Part.init, which accepts the file of a part by its size, and merge, which
\* looks at nothing but sizes, are right to: as long as no write fails, a file
\* that is as long as Written says holds those bytes of the body, in order.
THEOREM SizeIsTruthful == Spec => []SizeTellsTruth
<1>1. Spec => []ModeInv
  BY InitModeInv, NextModeInv, InvariantIInv, PTL DEF Spec
<1>2. Spec => []FileInv
  BY <1>1, InitFileInv, NextFileInv, InvariantIInv, PTL DEF Spec
<1> QED BY <1>1, <1>2, FileInvTellsTruth, InvariantIInv, PTL

-----------------------------------------------------------------------------
(* Joined: the files of all parts, one after the other.                     *)

LEMMA SliceConcat ==
  ASSUME NEW a \in Nat, NEW b \in Nat
  PROVE  Slice(0, a) \o Slice(a, b) = Slice(0, a + b)
<1>1. /\ Slice(0, a) \in Seq(Int) /\ Len(Slice(0, a)) = a
      /\ \A i \in 1 .. a : Slice(0, a)[i] = 0 + i - 1
  BY SliceType
<1>2. /\ Slice(a, b) \in Seq(Int) /\ Len(Slice(a, b)) = b
      /\ \A i \in 1 .. b : Slice(a, b)[i] = a + i - 1
  BY SliceType
<1>3. /\ Slice(0, a + b) \in Seq(Int) /\ Len(Slice(0, a + b)) = a + b
      /\ \A i \in 1 .. (a + b) : Slice(0, a + b)[i] = 0 + i - 1
  BY SliceType
<1> DEFINE x == Slice(0, a)
           y == Slice(a, b)
           z == Slice(0, a + b)
<1> HIDE DEF x, y, z
<1>4. /\ x \in Seq(Int) /\ Len(x) = a /\ \A i \in 1 .. a : x[i] = i - 1
      /\ y \in Seq(Int) /\ Len(y) = b /\ \A i \in 1 .. b : y[i] = a + i - 1
      /\ z \in Seq(Int) /\ Len(z) = a + b /\ \A i \in 1 .. (a + b) : z[i] = i - 1
  BY <1>1, <1>2, <1>3 DEF x, y, z
<1>5. /\ x \o y \in Seq(Int) /\ Len(x \o y) = a + b
      /\ \A i \in 1 .. (a + b) : (x \o y)[i] = IF i <= a THEN x[i] ELSE y[i - a]
  BY <1>4, ConcatProperties
<1>6. ASSUME NEW i \in 1 .. (a + b) PROVE (x \o y)[i] = z[i]
  <2>1. i <= a => i \in 1 .. a
    OBVIOUS
  <2>2. ~(i <= a) => i - a \in 1 .. b /\ a + (i - a) - 1 = i - 1
    OBVIOUS
  <2> QED BY <1>4, <1>5, <2>1, <2>2
<1>7. x \o y = z
  BY <1>4, <1>5, <1>6, SeqEqual
<1> QED BY <1>7 DEF x, y, z

\* How many bytes of the body the first n parts have.
UpTo(n) == IF n = N THEN ContentLength ELSE n * (ContentLength \div N)

LEMMA UpToStep ==
  ASSUME N > 1, NEW n \in Parts
  PROVE  /\ PartStart(ContentLength, N, n) = UpTo(n - 1)
         /\ PartStop(ContentLength, N, n) = UpTo(n) - 1
         /\ UpTo(n - 1) \in Nat /\ UpTo(n) \in Nat /\ UpTo(n - 1) < UpTo(n)
<1> DEFINE f == ContentLength \div N
<1>1. N \in Nat /\ ContentLength \in Nat /\ ContentLength >= 2 * N /\ n \in Nat /\ n >= 1 /\ n <= N
  BY NAssumption, ContentLengthAssumption, SizeAssumption, PartsAssumption
<1>2. f \in Nat /\ f >= 2 /\ N * f <= ContentLength
  BY <1>1, Z3
<1>3. Fragment(ContentLength, N) = f
  BY <1>1 DEF Fragment, TruncDiv
<1>4. n - 1 # N /\ UpTo(n - 1) = (n - 1) * f /\ (n # N => UpTo(n) = n * f) /\ (n = N => UpTo(n) = ContentLength)
  BY <1>1 DEF UpTo
<1>5. (n - 1) * f \in Nat /\ n * f \in Nat /\ (n - 1) * f = n * f - f
  BY <1>1, <1>2, Z3
<1>6. n = N => n * f <= ContentLength
  BY <1>2
<1>7. /\ PartStart(ContentLength, N, n) = (n - 1) * f
      /\ n = N => PartStop(ContentLength, N, n) = ContentLength - 1
      /\ n # N => PartStop(ContentLength, N, n) = n * f - 1
  BY <1>3 DEF PartStart, PartStop
<1> HIDE DEF f
<1> QED BY <1>1, <1>2, <1>4, <1>5, <1>6, <1>7

\* When each file holds its part of the body, together they hold the body, or, when
\* concat has dropped the last one, what comes before it.
LEMMA JoinedIs ==
  ASSUME N > 1,
         \A p \in Parts : file[p] = Slice(UpTo(p - 1), UpTo(p) - UpTo(p - 1))
  PROVE  Joined = Slice(0, IF N \in Dropped THEN UpTo(N - 1) ELSE UpTo(N))
<1> DEFINE joined[n \in 0 .. N] ==
             IF n = 0 THEN <<>>
             ELSE IF n \in Dropped THEN joined[n - 1] ELSE joined[n - 1] \o file[n]
           size(n) == IF n \in Dropped THEN UpTo(n - 1) ELSE UpTo(n)
           f == [n \in 0 .. N |-> Slice(0, size(n))]
<1>1. N \in Nat /\ N > 1 /\ \A n \in 0 .. N : n # 0 => n \in Parts /\ n - 1 \in 0 .. N
  BY NAssumption
<1>2. ASSUME NEW n \in Parts PROVE n - 1 \notin Dropped
  BY <1>1 DEF Dropped
<1>3. size(0) = 0
  <2>1. 0 \notin Dropped /\ 0 # N
    BY <1>1 DEF Dropped
  <2>2. (ContentLength \div N) \in Int
    BY <1>1, ContentLengthAssumption, SizeAssumption, Z3
  <2> QED BY <2>1, <2>2 DEF UpTo
<1>4. ASSUME NEW n \in Parts
      PROVE  Slice(0, size(n)) = IF n \in Dropped THEN Slice(0, size(n - 1))
                                 ELSE Slice(0, size(n - 1)) \o file[n]
  <2>1. size(n - 1) = UpTo(n - 1)
    BY <1>2
  <2>2. UpTo(n - 1) \in Nat /\ UpTo(n) \in Nat /\ UpTo(n - 1) < UpTo(n)
    BY <1>1, UpToStep
  <2>3. Slice(0, UpTo(n - 1)) \o Slice(UpTo(n - 1), UpTo(n) - UpTo(n - 1)) = Slice(0, UpTo(n))
    <3>1. UpTo(n) - UpTo(n - 1) \in Nat /\ UpTo(n - 1) + (UpTo(n) - UpTo(n - 1)) = UpTo(n)
      BY <2>2
    <3> QED BY <2>2, <3>1, SliceConcat
  <2> QED BY <2>1, <2>3
<1> HIDE DEF size, joined
<1>5. f = [n \in 0 .. N |-> IF n = 0 THEN <<>>
                            ELSE IF n \in Dropped THEN f[n - 1] ELSE f[n - 1] \o file[n]]
  <2>1. Slice(0, size(0)) = <<>>
    BY <1>3, SliceEmpty
  <2>2. ASSUME NEW n \in 0 .. N, n # 0
        PROVE  Slice(0, size(n)) = IF n \in Dropped THEN f[n - 1] ELSE f[n - 1] \o file[n]
    <3>1. n \in Parts /\ n - 1 \in 0 .. N
      BY <1>1, <2>2
    <3>2. f[n - 1] = Slice(0, size(n - 1))
      BY <3>1
    <3> HIDE DEF f
    <3> QED BY <1>4, <3>1, <3>2
  <2> QED BY <2>1, <2>2
<1> HIDE DEF f
<1>6. joined = [n \in 0 .. N |-> IF n = 0 THEN <<>>
                                 ELSE IF n \in Dropped THEN joined[n - 1] ELSE joined[n - 1] \o file[n]]
  BY <1>5 DEF joined
<1> DEFINE S == {n \in Nat : n <= N => joined[n] = f[n]}
<1>7. 0 \in S
  BY <1>1, <1>5, <1>6
<1>8. ASSUME NEW n \in Nat, n \in S PROVE n + 1 \in S
  <2> SUFFICES ASSUME n + 1 <= N PROVE joined[n + 1] = f[n + 1]
    OBVIOUS
  <2>1. n + 1 \in 0 .. N /\ n + 1 # 0 /\ (n + 1) - 1 = n /\ joined[n] = f[n]
    BY <1>1, <1>8
  <2>2. f[n + 1] = IF n + 1 \in Dropped THEN f[n] ELSE f[n] \o file[n + 1]
    BY <1>5, <2>1
  <2>3. joined[n + 1] = IF n + 1 \in Dropped THEN joined[n] ELSE joined[n] \o file[n + 1]
    BY <1>6, <2>1
  <2> QED BY <2>1, <2>2, <2>3
<1> HIDE DEF S
<1>9. Nat \subseteq S
  BY <1>7, <1>8, SetInduction
<1>10. joined[N] = f[N]
  BY <1>1, <1>9 DEF S
<1>11. Joined = joined[N]
  BY DEF Joined, joined
<1> QED BY <1>1, <1>10, <1>11 DEF f, size
-----------------------------------------------------------------------------
(* The whole body.  A part that appends keeps the bounds of makeParts; one    *)
(* whose file is truncated reads to the end of the body.  The one left out of *)
(* it all: a retry of a session of unknown length, or of one byte, that is    *)
(* answered 206 gets the body again from byte 0.                              *)

Retriable == 206 \in Statuses => ContentLength > 1

WholeOK(p) ==
  /\ pc[p] = "won206" \/ fd[p] = "append" => 206 \in Statuses
  /\ pc[p] = "loop" => err[p] # "eof"
  /\ pc[p] \in {"loop", "incr", "after"} => fd[p] # "nil"
  /\ fd[p] \in {"nil", "append"} =>
       /\ start[p] = PartStart(ContentLength, N, p)
       /\ stop[p] = PartStop(ContentLength, N, p)
  /\ fd[p] = "nil" => file[p] = Slice(start[p], Len(file[p]))
  /\ fd[p] = "trunc" =>
       /\ Reading(p) => body[p].to = Size - 1
       /\ pc[p] \in {"incr", "after"} /\ err[p] = "eof" => written[p] = Size
       /\ Succeeded(p) => written[p] = Size

PartsWhole == \A p \in Parts : WholeOK(p)

\* Whatever Run renames to the output in the end is fixed when it is merged.
OutputInv ==
  /\ \A p \in Parts : fd[p] \in {"merged", "removed"} => Over
  /\ result = "ok" => Over /\ Launched /\ AllEnded /\ Output = Slice(0, Size)

WholeInv == PartsWhole /\ OutputInv

LEMMA InitWholeInv == Init => WholeInv
<1> SUFFICES ASSUME Init PROVE WholeInv
  OBVIOUS
<1>1. ASSUME NEW p \in Parts PROVE WholeOK(p)
  <2>1. PICK w \in [Parts -> 0 .. Size], d \in [Parts -> Damage] :
          /\ w[p] + d[p] >= 0
          /\ file = [q \in Parts |-> Slice(start[q], w[q] + d[q])]
    BY DEF Init
  <2>2. /\ fd[p] = "nil" /\ pc[p] = "new"
        /\ start[p] = PartStart(ContentLength, N, p) /\ stop[p] = PartStop(ContentLength, N, p)
    BY DEF Init
  <2>3. w[p] + d[p] \in Nat
    <3>1. w[p] \in 0 .. Size /\ d[p] \in Damage
      OBVIOUS
    <3>2. w[p] \in Int
      BY <3>1, SizeAssumption
    <3>3. d[p] \in Int
      BY <3>1, DamageAssumption
    <3> QED BY <2>1, <3>2, <3>3
  <2>4. Len(file[p]) = w[p] + d[p]
    BY <2>1, <2>2, <2>3, PartStartStopType, SliceType
  <2> QED BY <2>1, <2>2, <2>4 DEF WholeOK, Reading, Succeeded
<1> QED BY <1>1 DEF Init, WholeInv, PartsWhole, OutputInv

LEMMA KeepsWhole ==
  ASSUME NEW p \in Parts, WholeOK(p), Keeps(p)
  PROVE  WholeOK(p)'
BY DEF WholeOK, Keeps, KeepsFile, Reading, Succeeded

\* The part waits, or ends, and nobody touches its file.
LEMMA QuietWhole ==
  ASSUME NEW p \in Parts, WholeOK(p), KeepsFile(p),
         \/ fd'[p] = fd[p]
         \/ fd[p] = "nil" /\ fd'[p] = "append" /\ 206 \in Statuses
         \/ fd'[p] \in {"merged", "removed"},
         pc'[p] \notin {"loop", "incr", "after", "won206"},
         fd'[p] = "trunc" => (Succeeded(p)' => Succeeded(p))
  PROVE  WholeOK(p)'
BY DEF WholeOK, KeepsFile, Reading

LEMMA SetupPartialWhole ==
  ASSUME IInv, NEW p \in Parts, WholeOK(p), SetupPartial(p), fd[p] # "trunc", 206 \in Statuses,
         UNCHANGED <<single, start, stop, written, file, pos>>
  PROVE  WholeOK(p)'
<1> DEFINE opened == [fd EXCEPT ![p] = IF @ = "nil" THEN "append" ELSE @]
<1> USE DEF IInv, TypeOK, PartTypeOK
<1>1. opened[p] = IF fd[p] = "nil" THEN "append" ELSE fd[p]
  OBVIOUS
<1>2. KeepsFile(p)
  BY DEF KeepsFile
<1> HIDE DEF opened
<1>3. CASE fd' = opened /\ EnterLoop(p, RangeFrom(p), RangeTo(p))
  <2>1. pc'[p] = "loop" /\ err'[p] = "nil"
    BY <1>3 DEF EnterLoop, Goto
  <2>2. fd'[p] \notin {"nil", "trunc"} /\ (fd'[p] = "append" => fd[p] \in {"nil", "append"})
    BY <1>1, <1>3
  <2> QED BY <1>2, <2>1, <2>2 DEF WholeOK, KeepsFile
<1>4. CASE (fd' = fd \/ fd' = opened) /\ Leave(p, "fail")
  <2>1. pc'[p] = "exit" /\ err'[p] = "fail"
    BY <1>4 DEF Leave, Goto
  <2>2. fd'[p] = fd[p] \/ (fd[p] = "nil" /\ fd'[p] = "append")
    BY <1>1, <1>4
  <2> QED BY <1>2, <2>1, <2>2, QuietWhole DEF Succeeded
<1> QED BY <1>3, <1>4 DEF SetupPartial, opened

LEMMA WinFallbackWhole ==
  ASSUME IInv, NEW p \in Parts, WholeOK(p), WinFallback(p)
  PROVE  WholeOK(p)'
<1> USE DEF IInv, TypeOK, PartTypeOK
<1>1. CASE UNCHANGED <<modeVars, file, fd, pos>> /\ (Goto(p, "panic") \/ Leave(p, "fail"))
  <2>1. KeepsFile(p) /\ fd'[p] = fd[p]
    BY <1>1 DEF WinFallback, KeepsFile, modeVars
  <2>2. pc'[p] = "panic" \/ (pc'[p] = "exit" /\ err'[p] = "fail")
    BY <1>1 DEF Leave, Goto
  <2> QED BY <2>1, <2>2, QuietWhole DEF Succeeded
<1>2. CASE fd' = [fd EXCEPT ![p] = "trunc"] /\ EnterLoop(p, 0, Size - 1)
  <2>1. fd'[p] = "trunc" /\ pc'[p] = "loop" /\ err'[p] = "nil" /\ body'[p].to = Size - 1
    BY <1>2 DEF EnterLoop, Goto
  <2> QED BY <2>1 DEF WholeOK, Succeeded
<1>3. CASE fd' = [fd EXCEPT ![p] = "trunc"] /\ Leave(p, "fail")
  <2>1. fd'[p] = "trunc" /\ pc'[p] = "exit" /\ err'[p] = "fail"
    BY <1>3 DEF Leave, Goto
  <2> QED BY <2>1 DEF WholeOK, Succeeded, Reading
<1> QED BY <1>1, <1>2, <1>3 DEF WinFallback

\* The part that is answered 200 again is the one whose file is truncated.
LEMMA RestartWhole ==
  ASSUME IInv, ModeInv, Retriable, NEW p \in Parts, FileOK(p), WholeOK(p), Restart(p)
  PROVE  WholeOK(p)'
<1> USE DEF IInv, TypeOK, PartTypeOK
<1>1. pc[p] = "wait" /\ id # 0 /\ single[p] /\ ~partial[p] /\ fd' = fd
  BY DEF Restart, At
<1>2. pc'[p] = "loop" /\ err'[p] = "nil" /\ body'[p].to = Size - 1
  BY DEF Restart, EnterLoop, Goto
<1>3. fd[p] \notin {"nil", "append"}
  <2> SUFFICES ASSUME fd[p] \in {"nil", "append"} PROVE FALSE
    OBVIOUS
  <2>1. id # p
    BY <1>1 DEF ModeInv, ModeOK, Trying
  <2>2. N # 1
    BY <1>1, <2>1 DEF SharedTypeOK
  <2>3. ContentLength > 1
    BY <2>2, NAssumption, PartsAssumption, ContentLengthAssumption, SizeAssumption
  <2> QED BY <1>1, <2>2, <2>3 DEF FileOK, Appends, AppendOK
<1> QED BY <1>1, <1>2, <1>3 DEF WholeOK, Succeeded

LEMMA ReadWhole ==
  ASSUME IInv, ~WriteFaults, NEW p \in Parts, FileOK(p), WholeOK(p), Read(p)
  PROVE  WholeOK(p)'
<1> DEFINE rest   == body[p].to - body[p].from + 1
           next(e) == IF ~single[p] THEN "incr" ELSE IF e = "eof" THEN "after" ELSE "loop"
<1>1. PICK n \in 0 .. rest, e \in {"nil", "eof"} :
        /\ e = "eof" => n = rest
        /\ written' = [written EXCEPT ![p] = @ + n]
        /\ err' = [err EXCEPT ![p] = e]
        /\ Goto(p, next(e))
        /\ \E lost \in 0 .. (IF WriteFaults /\ e = "nil" THEN rest - n ELSE 0) :
             body' = [body EXCEPT ![p] =
                        IF e = "eof" THEN NoBody
                        ELSE [from |-> body[p].from + n + lost, to |-> body[p].to]]
  BY Zenon DEF Read
<1> USE DEF IInv, TypeOK, PartTypeOK
<1>2. pc[p] = "loop" /\ UNCHANGED <<single, start, stop, fd>>
  BY DEF Read, At, modeVars
<1>3. n \in Nat /\ rest \in Int /\ body[p].from \in Int /\ body[p].to \in Int /\ written[p] \in Int
  OBVIOUS
<1>4. written'[p] = written[p] + n /\ err'[p] = e /\ pc'[p] = next(e)
  BY <1>1 DEF Goto
<1>5. e = "nil" => body'[p].to = body[p].to
  BY <1>1
<1>6. pc'[p] \in {"incr", "after", "loop"} /\ (pc'[p] = "loop" => e # "eof")
  BY <1>4
<1>7. fd[p] # "nil"
  BY <1>2 DEF WholeOK
<1>8. CASE fd[p] = "trunc"
  <2>1. start[p] = 0 /\ body[p].from = start[p] + written[p]
    BY <1>2, <1>8 DEF FileOK, TruncOK, Reading
  <2>2. body[p].to = Size - 1
    BY <1>2, <1>8 DEF WholeOK, Reading
  <2>3. e = "eof" => written'[p] = Size
    BY <1>1, <1>3, <1>4, <2>1, <2>2, SizeAssumption
  <2>4. Reading(p)' => e = "nil"
    BY <1>4 DEF Reading
  <2> QED BY <1>2, <1>4, <1>5, <1>6, <1>8, <2>2, <2>3, <2>4 DEF WholeOK, Succeeded
<1>9. CASE fd[p] # "trunc"
  BY <1>2, <1>4, <1>6, <1>7, <1>9 DEF WholeOK
<1> QED BY <1>8, <1>9

LEMMA AfterWhole ==
  ASSUME IInv, Retriable, NEW p \in Parts, FileOK(p), WholeOK(p), After(p)
  PROVE  WholeOK(p)'
<1> USE DEF IInv, TypeOK, PartTypeOK
<1>1. UNCHANGED <<written, file, fd, pos>> /\ pc[p] = "after"
  BY DEF After, At, fileVars
<1>2. pc'[p] \in {"failed", "panic"} \/ (pc'[p] = "exit" /\ err[p] = "eof")
  BY DEF After, Goto, Leave
<1>3. PartLen(p) > 0 => start'[p] = start[p] /\ stop'[p] = stop[p]
  BY DEF After, PartLen
<1>4. fd[p] # "nil"
  BY <1>1 DEF WholeOK
<1>5. CASE fd[p] = "append"
  <2>1. PartLen(p) > 0
    BY <1>5 DEF WholeOK, Retriable, FileOK, Appends, AppendOK, PartLen
  <2> QED BY <1>1, <1>2, <1>3, <1>5, <2>1 DEF WholeOK
<1>6. CASE fd[p] # "append"
  BY <1>1, <1>2, <1>4, <1>6 DEF WholeOK, Reading, Succeeded
<1> QED BY <1>5, <1>6

LEMMA PartStepWhole ==
  ASSUME IInv, ModeInv, EndInv, Retriable, ~WriteFaults,
         NEW p \in Parts, FileOK(p), WholeOK(p), PartStep(p)
  PROVE  WholeOK(p)'
<1> USE DEF runAndCtxVars, runVars, modeVars, fileVars, At
<1>1. PartTypeOK /\ ModeOK(p) /\ ElectedOK(p)
  BY DEF IInv, TypeOK, ModeInv, EndInv, ElectedInv
<1>2. CASE Elect206(p)
  <2>1. KeepsFile(p) /\ fd' = fd /\ 206 \in Statuses /\ pc[p] = "wait"
    BY <1>2 DEF Elect206, KeepsFile
  <2>2. pc'[p] = "won206"
    BY <1>1, <1>2 DEF Elect206, Goto, PartTypeOK
  <2> QED BY <2>1, <2>2 DEF WholeOK, KeepsFile, Reading, Succeeded
<1>3. CASE Elect200(p)
  <2>1. KeepsFile(p) /\ fd' = fd
    BY <1>3 DEF Elect200, KeepsFile
  <2>2. pc'[p] = "won200"
    BY <1>1, <1>3 DEF Elect200, Goto, PartTypeOK
  <2> QED BY <2>1, <2>2, QuietWhole DEF Succeeded
<1>4. CASE WinPartial(p)
  <2>1. fd[p] # "trunc" /\ 206 \in Statuses
    BY <1>1, <1>4 DEF WinPartial, ModeOK, Won, WholeOK
  <2> QED BY <1>4, <2>1, SetupPartialWhole DEF WinPartial
<1>5. CASE Answer206(p)
  <2>1. pc[p] = "wait" /\ 206 \in Statuses /\ UNCHANGED <<single, start, stop, written, file, pos>>
    BY <1>5 DEF Answer206
  <2>2. CASE Goto(p, "panic") /\ UNCHANGED fd
    <3>1. KeepsFile(p) /\ pc'[p] = "panic"
      BY <1>1, <2>1, <2>2 DEF KeepsFile, Goto, PartTypeOK
    <3> QED BY <2>2, <3>1, QuietWhole DEF Succeeded
  <2>3. CASE ~(~partial[p] /\ first = "fallback") /\ SetupPartial(p)
    <3>1. fd[p] # "trunc"
      BY <1>1, <2>1, <2>3 DEF ModeOK, Trying
    <3> QED BY <2>1, <2>3, <3>1, SetupPartialWhole
  <2> QED BY <1>5, <2>2, <2>3 DEF Answer206
<1>6. CASE WinFallback(p)
  BY <1>6, WinFallbackWhole
<1>7. CASE Restart(p)
  BY <1>7, RestartWhole
<1>8. CASE Read(p)
  BY <1>8, ReadWhole
<1>9. CASE After(p)
  BY <1>9, AfterWhole
<1>10. CASE IncrTotal(p)
  <2>1. KeepsFile(p) /\ UNCHANGED <<fd, body, err>> /\ pc[p] = "incr"
    BY <1>10 DEF IncrTotal, KeepsFile, tryVars
  <2>2. pc'[p] = IF err[p] = "eof" THEN "after" ELSE "loop"
    BY <1>1, <1>10 DEF IncrTotal, Goto, PartTypeOK
  <2> QED BY <2>1, <2>2 DEF WholeOK, KeepsFile, Reading, Succeeded
<1>11. CASE LoopBreak(p)
  <2>1. KeepsFile(p) /\ UNCHANGED <<fd, err>> /\ pc[p] = "loop"
    BY <1>11 DEF LoopBreak, KeepsFile
  <2>2. pc'[p] = "after"
    BY <1>1, <1>11 DEF LoopBreak, Goto, PartTypeOK
  <2> QED BY <2>1, <2>2 DEF WholeOK, KeepsFile, Reading, Succeeded
<1>12. CASE Superseded(p)
  <2>1. KeepsFile(p) /\ fd' = fd /\ pc[p] = "wait" /\ (~single[p] \/ partial[p])
    BY <1>12 DEF Superseded, KeepsFile
  <2>2. fd[p] # "trunc"
    BY <1>1, <2>1 DEF ModeOK, ElectedOK, Trying
  <2>3. pc'[p] \in {"panic", "exit", "failed"}
    BY <1>1, <1>12, UnreadLabel
  <2> QED BY <2>1, <2>2, <2>3, QuietWhole
<1>13. CASE Unanswered(p) \/ OtherStatus(p) \/ ReadFails(p) \/ Retry(p) \/ GiveUp(p) \/ Recover(p)
  <2>1. KeepsFile(p) /\ fd' = fd
    BY <1>13 DEF Unanswered, OtherStatus, ReadFails, Retry, GiveUp, Recover, KeepsFile
  <2>2. pc'[p] \in {"failed", "wait"} \/ (pc'[p] = "exit" /\ err'[p] = "fail")
    BY <1>1, <1>13 DEF Unanswered, OtherStatus, ReadFails, Retry, GiveUp, Recover, Goto, Leave, PartTypeOK
  <2> QED BY <2>1, <2>2, QuietWhole DEF Succeeded
<1>14. CASE Finish(p)
  <2>1. KeepsFile(p) /\ UNCHANGED <<fd, err>> /\ pc[p] = "exit"
    BY <1>14 DEF Finish, KeepsFile, tryVars
  <2>2. pc'[p] = "end"
    BY <1>1, <1>14 DEF Finish, Goto, PartTypeOK
  <2> QED BY <2>1, <2>2, QuietWhole DEF Succeeded
<1> QED BY <1>2, <1>3, <1>4, <1>5, <1>6, <1>7, <1>8, <1>9, <1>10, <1>11, <1>12, <1>13, <1>14 DEF PartStep
-----------------------------------------------------------------------------
(* What Run makes of the parts' files. *)

LEMMA FirstPartIs ==
  /\ live = Parts => FirstPart = 1
  /\ \A k \in Parts : live = {k} => FirstPart = k
<1>1. ASSUME live = Parts PROVE FirstPart = 1
  <2>1. 1 \in live /\ \A q \in live : 1 <= q
    BY <1>1, NAssumption
  <2>2. \A p \in live : (\A q \in live : p <= q) => p = 1
    BY <1>1, <2>1
  <2> QED BY <2>1, <2>2 DEF FirstPart
<1>2. ASSUME NEW k \in Parts, live = {k} PROVE FirstPart = k
  <2>1. k \in live /\ \A q \in live : k <= q
    BY <1>2
  <2> QED BY <1>2, <2>1 DEF FirstPart
<1> QED BY <1>1, <1>2

\* At the merge, no part has failed, and a truncated file is the whole body.
LEMMA AtMerge ==
  ASSUME IInv, ModeInv, EndInv, ~WriteFaults, Retriable, FileInv, WholeInv, main = "merge",
         NEW p \in live
  PROVE  /\ p \in Parts /\ PartTypeOK
         /\ IsDone(p)
         /\ fd[p] \in {"nil", "append", "trunc"}
         /\ fd[p] = "trunc" => Succeeded(p) /\ written[p] = Size
         /\ pc[p] = "end" => Succeeded(p)
<1>1. p \in Parts /\ PartTypeOK
  BY DEF IInv, TypeOK, RunTypeOK
<1>2. IsDone(p) /\ ~errCh
  BY DEF EndInv, MergeInv
<1>3. fd[p] \in {"nil", "append", "trunc"}
  BY <1>1 DEF WholeInv, OutputInv, Over, PartTypeOK
<1>4. pc[p] = "end" => Succeeded(p)
  BY <1>1, <1>2 DEF EndInv, CountInv, Failed, Succeeded
<1>5. fd[p] = "trunc" => pc[p] = "end"
  BY <1>1 DEF ModeInv, ModeOK, AllEnded, Running
<1> QED BY <1>1, <1>2, <1>3, <1>4, <1>5 DEF WholeInv, PartsWhole, WholeOK

\* The file of the single part.
LEMMA MergeSingleOutput ==
  ASSUME IInv, ModeInv, EndInv, ~WriteFaults, Retriable, FileInv, WholeInv, MergeSingle,
         result' = "ok"
  PROVE  Output' = Slice(0, Size)
<1>1. main = "merge" /\ sessionSingle /\ UNCHANGED <<live, file, fd, output>>
  BY DEF MergeSingle, shapeVars, offRunVars, partVars, fileVars
<1>2. PICK k \in Parts : /\ k \in live /\ FirstPart = k
                         /\ N = 1 \/ (pc[k] = "end" /\ (Succeeded(k) => fd[k] = "trunc"))
  <2>1. CASE live = Parts
    <3>1. N = 1 /\ 1 \in Parts
      BY <1>1, <2>1, NAssumption DEF EndInv, LiveInv
    <3> QED BY <2>1, <3>1, FirstPartIs
  <2>2. CASE Collapsed
    <3>1. PICK k \in Parts : live = {k} /\ pc[k] = "end" /\ (Succeeded(k) => fd[k] = "trunc")
      BY <2>2 DEF Collapsed
    <3> QED BY <3>1, FirstPartIs
  <2> QED BY <2>1, <2>2 DEF EndInv, LiveInv
<1>3. /\ PartTypeOK /\ IsDone(k) /\ fd[k] \in {"nil", "append", "trunc"}
      /\ fd[k] = "trunc" => written[k] = Size
      /\ pc[k] = "end" => Succeeded(k)
  BY <1>1, <1>2, AtMerge
<1>4. WholeOK(k) /\ FileOK(k)
  BY DEF WholeInv, PartsWhole, FileInv
<1>5. Len(file[k]) = IF Resumable THEN ContentLength ELSE written[k]
  BY <1>2 DEF MergeSingle, SizeExpected
<1>6. Output' = file[k]
  <2>1. FirstPart' = k
    BY <1>1, <1>2 DEF FirstPart
  <2> QED BY <1>1, <1>3, <2>1 DEF Output
<1>7. ContentLength \in Int /\ Size \in Nat /\ (ContentLength # -1 => ContentLength = Size)
      /\ (Resumable => ContentLength = Size)
  BY ContentLengthAssumption, SizeAssumption, ResumableAssumption
<1>8. CASE fd[k] = "trunc"
  <2>1. Len(file[k]) = written[k] /\ written[k] = Size
    BY <1>3, <1>5, <1>7, <1>8
  <2>2. CASE file[k] = <<>> /\ written[k] = 0
    BY <1>6, <2>1, <2>2, SliceEmpty
  <2>3. CASE file[k] = Slice(0, written[k])
    BY <1>6, <2>1, <2>3
  <2>4. CASE pos[k] = Len(file[k]) /\ pos[k] > written[k]
    BY <1>3, <2>1, <2>4 DEF PartTypeOK
  <2> QED BY <1>4, <1>8, <2>2, <2>3, <2>4 DEF FileOK, TruncOK
<1>9. CASE fd[k] # "trunc"
  <2>1. N = 1 /\ k = 1
    BY <1>2, <1>3, <1>9
  <2>2. start[k] = 0 /\ stop[k] = ContentLength - 1
    <3>1. PartStart(ContentLength, N, k) = 0 * Fragment(ContentLength, N)
          /\ PartStop(ContentLength, N, k) = ContentLength - 1
      BY <2>1 DEF PartStart, PartStop
    <3>2. Fragment(ContentLength, N) \in Int
      <4>1. N = 1
        BY <2>1
      <4> QED BY <1>7, <4>1, Z3 DEF Fragment, TruncDiv
    <3>3. 0 * Fragment(ContentLength, N) = 0
      BY <3>2, Z3
    <3> QED BY <1>3, <1>4, <1>9, <3>1, <3>3 DEF WholeOK
  <2>3. written[k] = Size /\ ContentLength = Size
    BY <1>3, <1>7, <2>2 DEF IsDone, PartLen, PartTypeOK
  <2>4. Len(file[k]) = written[k]
    BY <1>5, <2>3
  <2>5. CASE fd[k] = "nil"
    BY <1>4, <1>6, <2>2, <2>3, <2>4, <2>5 DEF WholeOK
  <2>6. CASE fd[k] = "append"
    <3>1. Appends(k)
      BY <1>4, <2>6 DEF WholeOK, Retriable, Appends
    <3> QED BY <1>4, <1>6, <2>2, <2>3, <2>4, <3>1 DEF FileOK, AppendOK
  <2> QED BY <1>3, <1>9, <2>5, <2>6
<1> QED BY <1>8, <1>9

\* The files of all parts, in their order; a last one that concat drops leaves the
\* result too short.
LEMMA ConcatOutput ==
  ASSUME IInv, ModeInv, EndInv, ~WriteFaults, Retriable, FileInv, WholeInv, Concat,
         result' = "ok"
  PROVE  Output' = Slice(0, Size)
<1>1. /\ main = "merge" /\ ~sessionSingle /\ Resumable /\ SizesAgree /\ live' = live
      /\ output' = Joined /\ Len(Joined) = ContentLength
      /\ fd' = [p \in Parts |-> IF p = 1 THEN "merged" ELSE IF p \in Dropped THEN fd[p] ELSE "removed"]
  BY DEF Concat, shapeVars
<1>2. live = Parts /\ N > 1 /\ 1 \in Parts /\ N \in Parts
  BY <1>1, NAssumption DEF EndInv, LiveInv
<1>3. ContentLength = Size /\ ContentLength > 1
  BY <1>2, PartsAssumption, ContentLengthAssumption, SizeAssumption, NAssumption
<1>4. Output' = Joined
  <2>1. FirstPart' = 1
    <3>1. FirstPart' = FirstPart
      BY <1>1 DEF FirstPart
    <3> QED BY <1>2, <3>1, FirstPartIs
  <2>2. fd'[1] = "merged"
    BY <1>1, <1>2
  <2> QED BY <1>1, <2>1, <2>2 DEF Output
<1>5. ASSUME NEW p \in Parts PROVE file[p] = Slice(UpTo(p - 1), UpTo(p) - UpTo(p - 1))
  <2>1. p \in live
    BY <1>2
  <2>2. PartTypeOK /\ IsDone(p) /\ fd[p] \in {"nil", "append", "trunc"} /\ Len(file[p]) = written[p]
    BY <1>1, <2>1, AtMerge DEF SizesAgree
  <2>3. fd[p] # "trunc"
    BY <1>1, <2>1 DEF EndInv, MergeInv
  <2>4. Appends(p)
    BY <1>3, <2>2, <2>3 DEF Appends
  <2>5. file[p] = Slice(start[p], written[p])
    BY <2>2, <2>4 DEF FileInv, FileOK, AppendOK
  <2>6. start[p] = UpTo(p - 1) /\ stop[p] = UpTo(p) - 1 /\ UpTo(p - 1) \in Nat /\ UpTo(p) \in Nat
    BY <1>2, <2>2, <2>3, UpToStep DEF WholeInv, PartsWhole, WholeOK
  <2>7. written[p] = UpTo(p) - UpTo(p - 1)
    BY <2>2, <2>6 DEF IsDone, PartLen, PartTypeOK
  <2> QED BY <2>5, <2>6, <2>7
<1>6. Joined = Slice(0, IF N \in Dropped THEN UpTo(N - 1) ELSE UpTo(N))
  BY <1>2, <1>5, JoinedIs
<1>7. UpTo(N) = ContentLength /\ UpTo(N - 1) \in Nat /\ UpTo(N - 1) < UpTo(N)
  BY <1>2, UpToStep DEF UpTo
<1>8. N \notin Dropped
  <2> SUFFICES ASSUME N \in Dropped PROVE FALSE
    OBVIOUS
  <2>1. Len(Joined) = UpTo(N - 1)
    BY <1>6, <1>7, SliceType
  <2> QED BY <1>1, <1>7, <2>1
<1> QED BY <1>3, <1>4, <1>6, <1>7, <1>8
-----------------------------------------------------------------------------
(* The invariant holds. *)

LEMMA PartStepFd ==
  ASSUME PartTypeOK, NEW p \in Parts, PartStep(p)
  PROVE  fd'[p] \in {fd[p], "append", "trunc"}
<1> USE DEF PartTypeOK, modeVars, fileVars
<1>1. ASSUME SetupPartial(p) PROVE fd'[p] \in {fd[p], "append", "trunc"}
  BY <1>1 DEF SetupPartial
<1>2. CASE WinPartial(p) \/ Answer206(p)
  BY <1>1, <1>2 DEF WinPartial, Answer206
<1>3. CASE WinFallback(p)
  BY <1>3 DEF WinFallback
<1>4. CASE ~WinPartial(p) /\ ~Answer206(p) /\ ~WinFallback(p)
  BY <1>4 DEF PartStep, Elect206, Elect200, Superseded, Restart, Unanswered, OtherStatus,
     LoopBreak, ReadFails, Read, IncrTotal, After, Retry, GiveUp, Recover, Finish
<1> QED BY <1>2, <1>3, <1>4

LEMMA PartStepWholeInv ==
  ASSUME IInv, ModeInv, EndInv, Retriable, ~WriteFaults, FileInv, WholeInv,
         NEW p \in Parts, PartStep(p)
  PROVE  WholeInv'
<1>1. PartTypeOK /\ Running(p) /\ UNCHANGED <<main, result>>
  BY PartStepShape DEF IInv, TypeOK, runVars
<1>2. ASSUME NEW q \in Parts, q # p PROVE Keeps(q)
  BY <1>1, <1>2, PartStepLocal
<1>3. PartsWhole'
  <2>1. ASSUME NEW q \in Parts, q # p PROVE WholeOK(q)'
    BY <1>2, <2>1, KeepsWhole DEF WholeInv, PartsWhole
  <2>2. WholeOK(p)'
    BY PartStepWhole DEF WholeInv, PartsWhole, FileInv
  <2> QED BY <2>1, <2>2 DEF PartsWhole
<1>4. OutputInv'
  <2>1. ASSUME NEW q \in Parts, fd'[q] \in {"merged", "removed"} PROVE Over'
    <3>1. fd[q] \in {"merged", "removed"}
      BY <1>1, <1>2, <2>1, PartStepFd DEF Keeps
    <3> QED BY <1>1, <3>1 DEF WholeInv, OutputInv, Over
  <2>2. result' # "ok"
    BY <1>1 DEF WholeInv, OutputInv, AllEnded
  <2> QED BY <2>1, <2>2 DEF OutputInv
<1> QED BY <1>3, <1>4 DEF WholeInv

LEMMA MainStepWholeInv ==
  ASSUME IInv, ModeInv, EndInv, Retriable, ~WriteFaults, FileInv, WholeInv, MainStep
  PROVE  WholeInv'
<1> USE DEF offRunVars, runVars, shapeVars, endVars, ctxVars
<1>1. PartTypeOK
  BY DEF IInv, TypeOK
\* The steps that leave the parts alone.
<1>2. ASSUME UNCHANGED <<partVars, nexti>>, Over => Over',
             result' = "ok" => result = "ok" /\ UNCHANGED <<live, output>>
      PROVE  WholeInv'
  <2>1. UNCHANGED <<pc, body, err, single, partial, start, stop, written, file, fd, pos>>
    BY <1>2 DEF partVars, tryVars, modeVars, fileVars
  <2>2. PartsWhole'
    <3> SUFFICES ASSUME NEW q \in Parts PROVE WholeOK(q)'
      BY DEF PartsWhole
    <3>1. Keeps(q)
      BY <2>1 DEF Keeps, KeepsFile
    <3> QED BY <3>1, KeepsWhole DEF WholeInv, PartsWhole
  <2>3. OutputInv'
    <3>1. result' = "ok" => Output' = Output /\ (AllEnded' <=> AllEnded) /\ (Launched' <=> Launched)
      BY <1>2, <2>1 DEF Output, FirstPart, AllEnded, Running, Launched
    <3> QED BY <1>2, <2>1, <3>1 DEF WholeInv, OutputInv
  <2> QED BY <2>2, <2>3 DEF WholeInv
<1>3. CASE InitPart
  <2>1. UNCHANGED <<body, err, single, partial, start, stop, written, file, fd, pos, result>>
        /\ main = "launch"
    BY <1>3 DEF InitPart, tryVars, modeVars, fileVars
  <2>2. PartsWhole'
    <3> SUFFICES ASSUME NEW q \in Parts PROVE WholeOK(q)'
      BY DEF PartsWhole
    <3>1. pc'[q] \in {pc[q], "wait"}
      BY <1>1, <1>3 DEF InitPart, Goto, PartTypeOK
    <3>2. KeepsFile(q) /\ WholeOK(q)
      BY <2>1 DEF KeepsFile, WholeInv, PartsWhole
    <3>3. CASE pc'[q] = pc[q]
      BY <2>1, <3>2, <3>3, KeepsWhole DEF Keeps
    <3>4. CASE pc'[q] = "wait"
      BY <2>1, <3>2, <3>4, QuietWhole DEF Succeeded
    <3> QED BY <3>1, <3>3, <3>4
  <2>3. OutputInv'
    BY <2>1 DEF WholeInv, OutputInv, Over
  <2> QED BY <2>2, <2>3 DEF WholeInv
<1>4. CASE Concat
  <2>1. UNCHANGED <<pc, body, err, single, partial, start, stop, written, file, pos, nexti>>
        /\ main = "merge" /\ main' = "save"
    BY <1>4 DEF Concat, tryVars, modeVars
  <2>2. PartsWhole'
    <3> SUFFICES ASSUME NEW q \in Parts PROVE WholeOK(q)'
      BY DEF PartsWhole
    <3>1. KeepsFile(q) /\ WholeOK(q)
      BY <2>1 DEF KeepsFile, WholeInv, PartsWhole
    <3>2. fd'[q] \in {"merged", "removed", fd[q]}
      BY <1>4 DEF Concat
    <3>3. pc'[q] \in {"new", "end"} /\ (Succeeded(q)' <=> Succeeded(q))
      BY <2>1 DEF ModeInv, AllEnded, Running, Succeeded
    <3> QED BY <3>1, <3>2, <3>3, QuietWhole
  <2>3. OutputInv'
    <3>1. Over' /\ Launched' /\ AllEnded'
      BY <2>1 DEF ModeInv, Over, Launched, AllEnded, Running
    <3> QED BY <1>4, <3>1, ConcatOutput DEF OutputInv
  <2> QED BY <2>2, <2>3 DEF WholeInv
<1>5. CASE MergeSingle
  <2>1. UNCHANGED <<pc, body, err, single, partial, start, stop, written, file, fd, pos, nexti>>
        /\ main = "merge" /\ main' = "save"
    BY <1>5 DEF MergeSingle, partVars, tryVars, modeVars, fileVars
  <2>2. PartsWhole'
    <3> SUFFICES ASSUME NEW q \in Parts PROVE WholeOK(q)'
      BY DEF PartsWhole
    <3>1. Keeps(q)
      BY <2>1 DEF Keeps, KeepsFile
    <3> QED BY <3>1, KeepsWhole DEF WholeInv, PartsWhole
  <2>3. OutputInv'
    <3>1. Over' /\ Launched' /\ AllEnded'
      BY <2>1 DEF ModeInv, Over, Launched, AllEnded, Running
    <3> QED BY <1>5, <3>1, MergeSingleOutput DEF OutputInv
  <2> QED BY <2>2, <2>3 DEF WholeInv
<1>6. CASE Collapse
  <2>1. UNCHANGED <<partVars, nexti, result>> /\ main = "collapse"
    BY <1>6 DEF Collapse
  <2>2. ~Over /\ result # "ok"
    BY <2>1 DEF WholeInv, OutputInv, Over
  <2> QED BY <1>2, <2>1, <2>2
<1>7. CASE MainStep /\ ~InitPart /\ ~Concat /\ ~MergeSingle /\ ~Collapse
  <2>1. UNCHANGED <<partVars, nexti, live, output>>
    BY <1>7 DEF MainStep, InitPartFails, FallbackRestored, FallbackToSingle, AddTotalBar,
       AddTotalBarFails, NothingToPrepare, Abort, JoinError, JoinPanic, Join,
       MergeRefused, Classify, DumpState, CloseFiles
  <2>2. (Over => Over') /\ (result' = "ok" => result = "ok")
    BY <1>7 DEF MainStep, InitPartFails, FallbackRestored, FallbackToSingle, AddTotalBar,
       AddTotalBarFails, NothingToPrepare, Abort, JoinError, JoinPanic, Join,
       MergeRefused, Classify, DumpState, CloseFiles, Over
  <2> QED BY <1>2, <2>1, <2>2
<1> QED BY <1>3, <1>4, <1>5, <1>6, <1>7

LEMMA NextWholeInv ==
  ASSUME IInv, ModeInv, EndInv, Retriable, ~WriteFaults, FileInv, WholeInv, [Next]_vars
  PROVE  WholeInv'
<1>1. CASE MainStep
  BY <1>1, MainStepWholeInv
<1>2. CASE \E p \in Parts : PartStep(p)
  BY <1>2, PartStepWholeInv
<1>3. CASE Waiter \/ Drain \/ Signal \/ UNCHANGED vars
  <2>1. UNCHANGED <<pc, body, err, single, partial, start, stop, written, file, fd, pos,
                    nexti, live, main, result, output>>
    BY <1>3 DEF Waiter, Drain, Signal, vars, runAndCtxVars, offRunVars, runVars, shapeVars,
                partVars, tryVars, modeVars, fileVars
  <2>2. PartsWhole'
    <3> SUFFICES ASSUME NEW q \in Parts PROVE WholeOK(q)'
      BY DEF PartsWhole
    <3>1. Keeps(q)
      BY <2>1 DEF Keeps, KeepsFile
    <3> QED BY <3>1, KeepsWhole DEF WholeInv, PartsWhole
  <2>3. OutputInv'
    BY <2>1 DEF WholeInv, OutputInv, Over, Launched, AllEnded, Running, Output, FirstPart
  <2> QED BY <2>2, <2>3 DEF WholeInv
<1> QED BY <1>1, <1>2, <1>3 DEF Next, Terminated

\* When Run returns without an error, the file that it renames to the output is the
\* body, byte for byte: whatever the parts were answered and in which order, what
\* was resumed, retried, restarted or damaged before, in one part or several.
\* What is assumed is that no write is lost and that a part is not answered 206
\* in a session whose Stop <= 0 makes each retry ask for the whole body.
THEOREM DoneIsWhole == ~WriteFaults /\ Retriable => (Spec => []WholeWhenDone)
<1> SUFFICES ASSUME ~WriteFaults, Retriable PROVE Spec => []WholeWhenDone
  OBVIOUS
<1>1. Spec => []FileInv
  BY InitFileInv, NextFileInv, InvariantEnd, PTL DEF Spec
<1>2. IInv /\ ModeInv /\ EndInv /\ FileInv /\ WholeInv /\ [Next]_vars => WholeInv'
  BY NextWholeInv
<1>3. Spec => []WholeInv
  BY <1>1, <1>2, InitWholeInv, InvariantEnd, PTL DEF Spec
<1>4. WholeInv => WholeWhenDone
  BY DEF WholeInv, OutputInv, WholeWhenDone
<1> QED BY <1>3, <1>4, PTL
-----------------------------------------------------------------------------
(* The saved state, in a session that is not answered 200.  A part's file is  *)
(* as long as Written says at any time, writes that fail included: what is to *)
(* be shown is that Run saves nothing once concat has taken the files away,   *)
(* and that no part writes after the state was saved.                         *)

SizesInv ==
  \A p \in Parts :
    /\ Len(file[p]) = written[p]
    /\ N > 1 => /\ start[p] = PartStart(ContentLength, N, p)
                /\ stop[p] = PartStop(ContentLength, N, p)

Merged(p) == fd[p] \in {"merged", "removed"}

\* After concat the session is whole, and its state is not saved.
MergedInv ==
  (\E p \in Parts : Merged(p)) =>
    /\ main \in {"save", "close", "exited"} /\ dump.kind = "none"
    /\ main = "save" => result = "ok" /\ Resumable /\ TotalWritten(live) = ContentLength

\* Run waits for the parts, or returns early.
SavedInv ==
  /\ Over => AllEnded \/ EarlyReturn
  /\ dump.kind # "none" =>
       main \in {"close", "exited"} /\ (EarlyReturn \/ (AllEnded /\ dump.written = written))
  /\ main \in {"launch", "first"} => ~bar

DumpInv == SizesInv /\ MergedInv /\ SavedInv

LEMMA InitDumpInv == Damage = {0} /\ Init => DumpInv
<1> SUFFICES ASSUME Damage = {0}, Init PROVE DumpInv
  OBVIOUS
<1>1. SizesInv
  <2> SUFFICES ASSUME NEW p \in Parts PROVE Len(file[p]) = written[p]
    BY DEF SizesInv, Init
  <2>1. PICK w \in [Parts -> 0 .. Size], d \in [Parts -> Damage] :
          written = w /\ file = [q \in Parts |-> Slice(start[q], w[q] + d[q])]
    BY DEF Init
  <2>2. w[p] \in Nat /\ d[p] = 0
    <3>1. w[p] \in 0 .. Size /\ d[p] \in Damage
      OBVIOUS
    <3> QED BY <3>1, SizeAssumption
  <2>3. start[p] \in Int
    BY PartStartStopType DEF Init
  <2>4. Len(Slice(start[p], w[p] + d[p])) = w[p]
    <3>1. w[p] + d[p] = w[p]
      BY <2>2
    <3> QED BY <2>2, <2>3, <3>1, SliceType
  <2> QED BY <2>1, <2>4
<1>2. MergedInv /\ SavedInv
  BY DEF Init, MergedInv, Merged, SavedInv, Over
<1> QED BY <1>1, <1>2 DEF DumpInv

-----------------------------------------------------------------------------
(* The sizes. *)

\* What concat makes of files of the size of their parts is as long as the body.
LEMMA JoinedLen ==
  ASSUME N > 1, Dropped = {}, PartTypeOK,
         \A p \in Parts : Len(file[p]) = UpTo(p) - UpTo(p - 1)
  PROVE  Len(Joined) = ContentLength
<1> DEFINE T == Seq(Bytes)
           b == <<>>
           step == [k \in Nat |-> [t \in T |-> IF k \in Parts THEN t \o file[k] ELSE t]]
<1>1. N \in Nat /\ \A n \in 1 .. N : n - 1 \in 0 .. N
  BY NAssumption
<1>2. \A k \in Parts : file[k] \in T
  BY DEF PartTypeOK, Bytes
<1>3. \A k \in Nat, t \in T : (IF k \in Parts THEN t \o file[k] ELSE t) \in T
  BY <1>2
<1>4. b \in T
  OBVIOUS
<1>5. step \in [Nat -> [T -> T]]
  BY <1>3
<1>6. \A k \in Nat, t \in T : step[k][t] = IF k \in Parts THEN t \o file[k] ELSE t
  OBVIOUS
<1> HIDE DEF T, step, b
<1>7. PICK g \in [Nat -> T] : Recurs(g, b, step)
  BY <1>4, <1>5, Recursion
<1>8. g[0] = <<>> /\ \A k \in Parts : g[k] = g[k - 1] \o file[k]
  <2>1. \A k \in Parts : k \in Nat /\ k # 0 /\ k - 1 \in Nat
    OBVIOUS
  <2> QED BY <1>6, <1>7, <2>1 DEF Recurs, b
<1> DEFINE joined[n \in 0 .. N] ==
             IF n = 0 THEN <<>>
             ELSE IF n \in Dropped THEN joined[n - 1] ELSE joined[n - 1] \o file[n]
           f == [n \in 0 .. N |-> g[n]]
<1> HIDE DEF joined
<1>9. f = [n \in 0 .. N |-> IF n = 0 THEN <<>>
                            ELSE IF n \in Dropped THEN f[n - 1] ELSE f[n - 1] \o file[n]]
  <2>1. ASSUME NEW n \in 0 .. N, n # 0
        PROVE  g[n] = IF n \in Dropped THEN f[n - 1] ELSE f[n - 1] \o file[n]
    <3>1. n \in Parts /\ n - 1 \in 0 .. N
      BY <1>1, <2>1
    <3> QED BY <1>8, <3>1
  <2> QED BY <1>8, <2>1
<1> HIDE DEF f
<1>10. joined = [n \in 0 .. N |-> IF n = 0 THEN <<>>
                                  ELSE IF n \in Dropped THEN joined[n - 1] ELSE joined[n - 1] \o file[n]]
  BY <1>9 DEF joined
<1> DEFINE S == {n \in Nat : n <= N => joined[n] \in T /\ Len(joined[n]) = UpTo(n)}
<1>11. 0 \in S
  <2>1. UpTo(0) = 0
    <3>1. (ContentLength \div N) \in Int
      BY <1>1, ContentLengthAssumption, SizeAssumption, Z3
    <3> QED BY <1>1, <3>1 DEF UpTo
  <2>2. joined[0] = <<>>
    BY <1>1, <1>10
  <2> QED BY <1>4, <2>1, <2>2 DEF b
<1>12. ASSUME NEW n \in Nat, n \in S PROVE n + 1 \in S
  <2> SUFFICES ASSUME n + 1 <= N PROVE joined[n + 1] \in T /\ Len(joined[n + 1]) = UpTo(n + 1)
    OBVIOUS
  <2>1. n + 1 \in Parts /\ n + 1 \in 0 .. N /\ n + 1 # 0 /\ (n + 1) - 1 = n
    BY <1>1
  <2>2. joined[n] \in T /\ Len(joined[n]) = UpTo(n)
    BY <1>1, <1>12
  <2>3. joined[n + 1] = joined[n] \o file[n + 1]
    BY <1>10, <2>1
  <2>4. UpTo(n) \in Nat /\ UpTo(n + 1) \in Nat
    BY <2>1, UpToStep
  <2>5. Len(file[n + 1]) = UpTo(n + 1) - UpTo(n) /\ file[n + 1] \in T
    BY <1>2, <2>1
  <2>6. joined[n] \o file[n + 1] \in T /\ Len(joined[n] \o file[n + 1]) = Len(joined[n]) + Len(file[n + 1])
    BY <2>2, <2>5, ConcatProperties DEF T
  <2> HIDE DEF S
  <2> QED BY <2>2, <2>3, <2>4, <2>5, <2>6
<1> HIDE DEF S
<1>13. Nat \subseteq S
  BY <1>11, <1>12, SetInduction
<1>14. Len(joined[N]) = UpTo(N)
  BY <1>1, <1>13 DEF S
<1>15. Joined = joined[N]
  BY DEF Joined, joined
<1> QED BY <1>14, <1>15 DEF UpTo

\* What the parts have written, when each has all its bytes, is the whole body.
LEMMA AllWritten ==
  ASSUME N > 1, PartTypeOK, \A p \in Parts : written[p] = UpTo(p) - UpTo(p - 1)
  PROVE  TotalWritten(Parts) = ContentLength
<1>1. N \in Nat /\ written \in [1 .. N -> Int]
  BY NAssumption DEF PartTypeOK
<1> DEFINE h == UpToN(written, 1 .. N)
<1>2. SumFunctionOnSet(written, 1 .. N) = h[N]
  BY <1>1, SumIsUpToN
<1>3. AddsUp(h, written, 1 .. N)
  BY <1>1, UpToNIs
<1> HIDE DEF h
<1> DEFINE S == {n \in Nat : n <= N => h[n] = UpTo(n)}
<1>4. 0 \in S
  <2>1. (ContentLength \div N) \in Int
    BY <1>1, ContentLengthAssumption, SizeAssumption, Z3
  <2> QED BY <1>1, <1>3, <2>1 DEF UpTo, AddsUp
<1>5. ASSUME NEW n \in Nat, n \in S PROVE n + 1 \in S
  <2> SUFFICES ASSUME n + 1 <= N PROVE h[n + 1] = UpTo(n + 1)
    OBVIOUS
  <2>1. n + 1 \in 1 .. N /\ n + 1 \in Nat \ {0} /\ (n + 1) - 1 = n /\ h[n] = UpTo(n)
    BY <1>1, <1>5
  <2>2. h[n + 1] = h[n] + written[n + 1]
    BY <1>3, <2>1 DEF AddsUp
  <2>3. UpTo(n) \in Nat /\ UpTo(n + 1) \in Nat
    BY <2>1, UpToStep
  <2>4. written[n + 1] = UpTo(n + 1) - UpTo(n)
    BY <2>1
  <2> QED BY <2>1, <2>2, <2>3, <2>4
<1> HIDE DEF S
<1>6. Nat \subseteq S
  BY <1>4, <1>5, SetInduction
<1>7. h[N] = UpTo(N)
  BY <1>1, <1>6 DEF S
<1> QED BY <1>2, <1>7 DEF TotalWritten, UpTo

-----------------------------------------------------------------------------
(* concat drops the last of an odd number of files when it is not open: when  *)
(* its part was complete from the start.                                      *)

KeptInv ==
  /\ pc[N] = "new" => nexti <= N /\ ~IsContentDownloaded(N)
  /\ pc[N] \in {"loop", "incr", "after"} \/ Succeeded(N) => fd[N] # "nil"

EvenOrKept == N = 1 \/ N % 2 = 0 \/ KeptInv

LEMMA PartStepKept ==
  ASSUME 200 \notin Statuses, IInv, RangedInv, KeptInv, NEW p \in Parts, PartStep(p)
  PROVE  KeptInv'
<1> USE DEF fileVars, tryVars
<1>1. PartTypeOK /\ nexti' = nexti /\ pc'[p] # "new" /\ N \in Parts
  BY PartStepShape, NAssumption DEF IInv, TypeOK, runVars, shapeVars
<1>2. CASE p # N
  <2>1. Keeps(N)
    BY <1>1, <1>2, PartStepLocal
  <2> QED BY <1>1, <2>1 DEF KeptInv, Keeps, KeepsFile, Succeeded, IsContentDownloaded, IsDone, PartLen
<1>3. CASE p = N
  <2> SUFFICES ASSUME pc'[p] \in {"loop", "incr", "after"} \/ Succeeded(p)' PROVE fd'[p] # "nil"
    BY <1>1, <1>3 DEF KeptInv
  <2>1. ~Elect200(p) /\ ~WinFallback(p) /\ ~Superseded(p) /\ ~Restart(p)
    BY DEF RangedInv, Elect200, WinFallback, Superseded, Restart, At
  <2>2. CASE WinPartial(p) \/ Answer206(p)
    <3>1. ASSUME SetupPartial(p) PROVE fd'[p] # "nil"
      <4> DEFINE opened == [fd EXCEPT ![p] = IF @ = "nil" THEN "append" ELSE @]
      <4>1. opened[p] # "nil"
        BY <1>1 DEF PartTypeOK
      <4>2. Leave(p, "fail") => pc'[p] = "exit" /\ err'[p] = "fail"
        BY <1>1 DEF Leave, Goto, PartTypeOK
      <4>3. ~Leave(p, "fail")
        BY <4>2 DEF Succeeded
      <4> QED BY <3>1, <4>1, <4>3 DEF SetupPartial
    <3>2. Goto(p, "panic") => pc'[p] = "panic"
      BY <1>1 DEF Goto, PartTypeOK
    <3> QED BY <2>2, <3>1, <3>2 DEF WinPartial, Answer206, Succeeded
  <2>3. CASE LoopBreak(p) \/ Read(p) \/ IncrTotal(p) \/ After(p)
    <3>1. fd' = fd /\ pc[p] \in {"loop", "incr", "after"}
      BY <2>3 DEF LoopBreak, Read, IncrTotal, After, At
    <3> QED BY <1>3, <3>1 DEF KeptInv
  <2>4. CASE Finish(p)
    <3>1. fd' = fd /\ err' = err /\ pc[p] = "exit" /\ pc'[p] = "end"
      BY <1>1, <2>4 DEF Finish, At, Goto, PartTypeOK
    <3> QED BY <1>3, <3>1 DEF KeptInv, Succeeded
  <2>5. CASE Elect206(p) \/ Unanswered(p) \/ OtherStatus(p) \/ ReadFails(p) \/ Retry(p) \/ GiveUp(p)
             \/ Recover(p)
    <3>1. pc'[p] \in {"won206", "failed", "wait"} \/ (pc'[p] = "exit" /\ err'[p] = "fail")
      BY <1>1, <2>5 DEF Elect206, Unanswered, OtherStatus, ReadFails, Retry, GiveUp, Recover, Goto, Leave,
                        PartTypeOK
    <3> QED BY <3>1 DEF Succeeded
  <2> QED BY <2>1, <2>2, <2>3, <2>4, <2>5 DEF PartStep
<1> QED BY <1>2, <1>3

LEMMA NextKept ==
  ASSUME 200 \notin Statuses, IInv, RangedInv, KeptInv, [Next]_vars
  PROVE  KeptInv'
<1> USE DEF offRunVars, shapeVars, partVars, tryVars, modeVars, fileVars
<1>1. CASE \E p \in Parts : PartStep(p)
  BY <1>1, PartStepKept
<1>2. PartTypeOK /\ nexti \in 1 .. (N + 1) /\ N \in Parts /\ N \in Nat
  BY NAssumption DEF IInv, TypeOK, RunTypeOK
<1>3. CASE InitPart
  <2>1. UNCHANGED <<err, start, stop, written, fd>> /\ nexti' = nexti + 1
    BY <1>3 DEF InitPart
  <2>2. CASE nexti # N
    <3>1. pc'[N] = pc[N]
      BY <1>2, <1>3, <2>2 DEF InitPart, Goto, PartTypeOK
    <3>2. nexti <= N => nexti' <= N
      BY <1>2, <2>1, <2>2
    <3> QED BY <2>1, <3>1, <3>2 DEF KeptInv, Succeeded, IsContentDownloaded, IsDone, PartLen
  <2>3. CASE nexti = N
    <3>1. pc[N] = "new"
      BY <1>2, <1>3, <2>3 DEF InitPart, IInv, TypeOK, LaunchOK
    <3>2. pc'[N] = "wait"
      BY <1>2, <1>3, <2>3, <3>1 DEF InitPart, Goto, PartTypeOK, KeptInv
    <3> QED BY <3>2 DEF KeptInv, Succeeded
  <2> QED BY <2>2, <2>3
<1>4. CASE Concat
  <2>1. UNCHANGED <<pc, err, start, stop, written, nexti>> /\ fd'[N] \in {"merged", "removed", fd[N]}
    BY <1>2, <1>4 DEF Concat
  <2> QED BY <2>1 DEF KeptInv, Succeeded, IsContentDownloaded, IsDone, PartLen
<1>5. CASE (MainStep /\ ~InitPart /\ ~Concat) \/ Waiter \/ Drain \/ Signal \/ UNCHANGED vars
  <2>1. UNCHANGED <<pc, err, start, stop, written, fd, nexti>>
    BY <1>5 DEF MainStep, InitPartFails, FallbackRestored, FallbackToSingle, AddTotalBar,
       AddTotalBarFails, NothingToPrepare, Abort, Collapse, JoinError, JoinPanic, Join,
       MergeSingle, MergeRefused, Classify, DumpState, CloseFiles, Waiter, Drain, Signal, vars,
       runAndCtxVars, runVars
  <2> QED BY <2>1 DEF KeptInv, Succeeded, IsContentDownloaded, IsDone, PartLen
<1> QED BY <1>1, <1>3, <1>4, <1>5 DEF Next, Terminated

\* At the merge every part but the ones complete from the start has its file open.
LEMMA NoneDropped ==
  ASSUME EvenOrKept, IInv, ModeInv, EndInv, RangedInv, main = "merge", N > 1
  PROVE  Dropped = {}
<1>1. CASE N % 2 = 0
  BY <1>1 DEF Dropped
<1>2. CASE KeptInv
  <2>1. N \in Parts /\ nexti > N /\ nexti \in Nat /\ pc[N] \in {"new", "end"}
    BY NAssumption DEF IInv, TypeOK, RunTypeOK, ModeInv, Launched, AllEnded, Running
  <2>2. pc[N] = "end"
    BY <1>2, <2>1, NAssumption DEF KeptInv
  <2>3. Succeeded(N)
    BY <2>1, <2>2 DEF EndInv, CountInv, MergeInv, Failed, Succeeded
  <2> QED BY <1>2, <2>3 DEF KeptInv, Dropped
<1> QED BY <1>1, <1>2, NAssumption DEF EvenOrKept

-----------------------------------------------------------------------------
(* The steps. *)

\* Reading n bytes makes the file n bytes longer, lost bytes or not.
LEMMA ReadSizes ==
  ASSUME PartTypeOK, NEW p \in Parts, Read(p), fd[p] # "trunc", Len(file[p]) = written[p]
  PROVE  Len(file'[p]) = written'[p]
<1> DEFINE rest   == body[p].to - body[p].from + 1
           offset == IF fd[p] = "trunc" THEN pos[p] ELSE Len(file[p])
<1>1. PICK n \in 0 .. rest :
        /\ IF n = 0 THEN UNCHANGED <<file, pos>>
           ELSE file' = [file EXCEPT ![p] = WriteAt(@, offset, body[p].from, n)]
        /\ written' = [written EXCEPT ![p] = @ + n]
  BY Zenon DEF Read
<1> USE DEF PartTypeOK
<1>2. n \in Nat /\ body[p].from \in Int /\ file[p] \in Seq(Bytes) /\ offset = Len(file[p])
  BY DEF Bytes
<1>3. written'[p] = written[p] + n
  BY <1>1
<1>4. CASE n = 0
  BY <1>1, <1>3, <1>4
<1>5. CASE n # 0
  <2>1. file'[p] = WriteAt(file[p], Len(file[p]), body[p].from, n)
    BY <1>1, <1>2, <1>5
  <2> HIDE DEF rest, offset
  <2>2. Len(file'[p]) = IF Len(file[p]) > Len(file[p]) + n THEN Len(file[p]) ELSE Len(file[p]) + n
    <3>1. Len(file[p]) \in Nat
      BY <1>2
    <3> QED BY <1>2, <2>1, <3>1, WriteAtType
  <2> QED BY <1>2, <1>3, <2>2
<1> QED BY <1>4, <1>5

LEMMA PartStepSizes ==
  ASSUME 200 \notin Statuses, IInv, RangedInv, SizesInv, NEW p \in Parts, PartStep(p)
  PROVE  SizesInv'
<1> USE DEF modeVars, fileVars
<1>1. PartTypeOK
  BY DEF IInv, TypeOK
<1>2. ASSUME NEW q \in Parts, q # p PROVE Keeps(q)
  BY <1>1, <1>2, PartStepLocal
<1>3. ~WinFallback(p) /\ ~Restart(p) /\ fd[p] # "trunc"
  BY DEF RangedInv, WinFallback, Restart, At
<1>4. Len(file'[p]) = written'[p]
  <2>1. CASE Read(p)
    BY <1>1, <1>3, <2>1, ReadSizes DEF SizesInv
  <2>2. CASE ~Read(p)
    <3>1. file' = file /\ written' = written
      BY <1>3, <2>2 DEF PartStep, Elect206, WinPartial, Answer206, Elect200, Superseded, Unanswered,
         OtherStatus, LoopBreak, ReadFails, IncrTotal, After, Retry, GiveUp, Recover, Finish
    <3> QED BY <3>1 DEF SizesInv
  <2> QED BY <2>1, <2>2
<1>5. N > 1 => start'[p] = start[p] /\ stop'[p] = stop[p]
  <2>1. CASE After(p)
    <3> SUFFICES ASSUME N > 1 PROVE start'[p] = start[p] /\ stop'[p] = stop[p]
      OBVIOUS
    <3>1. PartLen(p) > 0
      <4>1. start[p] = UpTo(p - 1) /\ stop[p] = UpTo(p) - 1
            /\ UpTo(p - 1) \in Nat /\ UpTo(p) \in Nat /\ UpTo(p - 1) < UpTo(p)
        BY UpToStep DEF SizesInv
      <4> QED BY <4>1 DEF PartLen
    <3>2. ~(PartLen(p) <= 0)
      <4>1. PartLen(p) \in Int
        BY <1>1 DEF PartTypeOK, PartLen
      <4> QED BY <3>1, <4>1
    <3> QED BY <1>1, <2>1, <3>2 DEF After, PartTypeOK
  <2>2. CASE ~After(p)
    BY <1>3, <2>2 DEF PartStep, Elect206, WinPartial, Answer206, Elect200, Superseded, Unanswered,
       OtherStatus, LoopBreak, ReadFails, Read, IncrTotal, Retry, GiveUp, Recover, Finish
  <2> QED BY <2>1, <2>2

<1> QED BY <1>2, <1>4, <1>5 DEF SizesInv, Keeps, KeepsFile

LEMMA PartStepDump ==
  ASSUME 200 \notin Statuses, IInv, RangedInv, DumpInv, NEW p \in Parts, PartStep(p)
  PROVE  DumpInv'
<1>1. /\ Running(p) /\ UNCHANGED <<main, nexti, sessionSingle, live, result, dump>>
      /\ first # "none" => first' = first
  BY PartStepShape DEF runVars, shapeVars, endVars
<1>2. PartTypeOK
  BY DEF IInv, TypeOK
<1>3. ~AllEnded
  BY <1>1 DEF AllEnded
<1>4. bar' = bar
  BY DEF PartStep, Elect206, WinPartial, Answer206, Elect200, WinFallback, Superseded, Restart,
     Unanswered, OtherStatus, LoopBreak, ReadFails, Read, IncrTotal, After, Retry, GiveUp, Recover,
     Finish, chanVars
<1>5. SizesInv'
  BY PartStepSizes DEF DumpInv
<1>6. EarlyReturn => EarlyReturn'
  BY <1>1, <1>4 DEF EarlyReturn
<1>7. SavedInv'
  BY <1>1, <1>3, <1>4, <1>6 DEF DumpInv, SavedInv, Over
<1>8. MergedInv'
  <2> SUFFICES ASSUME \E q \in Parts : Merged(q)'
               PROVE  /\ main \in {"close", "exited"} /\ dump.kind = "none"
    BY <1>1 DEF MergedInv
  <2>1. PICK q \in Parts : Merged(q)'
    OBVIOUS
  <2>2. Merged(q)
    <3>1. CASE q = p
      BY <1>2, <2>1, <3>1, PartStepFd DEF Merged
    <3>2. CASE q # p
      BY <1>2, <2>1, <3>2, PartStepLocal DEF Keeps, Merged
    <3> QED BY <3>1, <3>2
  <2>3. main # "save"
    BY <1>3, <2>2 DEF DumpInv, MergedInv, SavedInv, Over, EarlyReturn
  <2> QED BY <2>2, <2>3 DEF DumpInv, MergedInv
<1> QED BY <1>5, <1>7, <1>8 DEF DumpInv

\* concat leaves a session that is whole.
LEMMA ConcatDump ==
  ASSUME EvenOrKept, IInv, ModeInv, EndInv, RangedInv, DumpInv, Concat
  PROVE  DumpInv'
<1>1. /\ main = "merge" /\ main' = "save" /\ ~sessionSingle /\ Resumable
      /\ result' = IF Len(Joined) = ContentLength THEN "ok" ELSE "err"
      /\ UNCHANGED <<pc, start, stop, written, file, live, dump, bar>>
  BY DEF Concat, shapeVars, endVars, chanVars, modeVars
<1>2. PartTypeOK /\ live = Parts /\ N > 1
  BY <1>1, NAssumption DEF IInv, TypeOK, EndInv, LiveInv, RangedInv
<1>3. Dropped = {}
  BY <1>1, <1>2, NoneDropped
<1>4. ASSUME NEW p \in Parts
      PROVE  written[p] = UpTo(p) - UpTo(p - 1) /\ Len(file[p]) = UpTo(p) - UpTo(p - 1)
  <2>1. start[p] = UpTo(p - 1) /\ stop[p] = UpTo(p) - 1 /\ UpTo(p - 1) \in Nat /\ UpTo(p) \in Nat
    BY <1>2, UpToStep DEF DumpInv, SizesInv
  <2>2. IsDone(p) /\ Len(file[p]) = written[p]
    BY <1>1, <1>2 DEF EndInv, MergeInv, DumpInv, SizesInv
  <2> QED BY <2>1, <2>2 DEF IsDone, PartLen
<1>5. result' = "ok"
  BY <1>1, <1>2, <1>3, <1>4, JoinedLen
<1>6. TotalWritten(Parts) = ContentLength
  BY <1>2, <1>4, AllWritten
<1>7. AllEnded /\ AllEnded'
  BY <1>1 DEF ModeInv, AllEnded, Running
<1>8. SizesInv'
  BY <1>1 DEF DumpInv, SizesInv
<1>9. dump.kind = "none"
  BY <1>1 DEF DumpInv, SavedInv
<1>10. MergedInv'
  BY <1>1, <1>2, <1>5, <1>6, <1>9 DEF MergedInv, TotalWritten
<1>11. SavedInv'
  BY <1>1, <1>7, <1>9 DEF SavedInv
<1> QED BY <1>8, <1>10, <1>11 DEF DumpInv

LEMMA MainStepDump ==
  ASSUME EvenOrKept, IInv, ModeInv, EndInv, RangedInv, DumpInv, MainStep
  PROVE  DumpInv'
<1> USE DEF offRunVars, shapeVars, endVars, ctxVars, chanVars, partVars, modeVars, fileVars
\* Before the end nothing is merged and nothing is saved.
<1>1. ~Over => (\A p \in Parts : ~Merged(p)) /\ dump.kind = "none"
  BY DEF DumpInv, MergedInv, SavedInv, Over
<1>2. CASE InitPart
  <2>1. /\ main = "launch" /\ main' \in {"launch", "first"} /\ bar' = bar
        /\ UNCHANGED <<start, stop, written, file, fd, dump>>
    BY <1>2 DEF InitPart
  <2>2. SizesInv'
    BY <2>1 DEF DumpInv, SizesInv
  <2>3. (\A p \in Parts : ~Merged(p)') /\ dump'.kind = "none"
    BY <1>1, <2>1 DEF Over, Merged
  <2> QED BY <2>1, <2>2, <2>3 DEF DumpInv, MergedInv, SavedInv, Over
<1>3. CASE Concat
  BY <1>3, ConcatDump
<1>4. CASE InitPartFails \/ FallbackRestored \/ FallbackToSingle \/ AddTotalBar
           \/ NothingToPrepare \/ Collapse \/ Join
  <2>1. /\ ~Over /\ ~Over' /\ main' \notin {"launch", "first"}
        /\ UNCHANGED <<pc, start, stop, written, file, fd, dump>>
    BY <1>4 DEF InitPartFails, FallbackRestored, FallbackToSingle, AddTotalBar, NothingToPrepare,
                Collapse, Join, Over
  <2>2. SizesInv'
    BY <2>1 DEF DumpInv, SizesInv
  <2>3. (\A p \in Parts : ~Merged(p)') /\ dump'.kind = "none"
    BY <1>1, <2>1 DEF Merged
  <2> QED BY <2>1, <2>2, <2>3 DEF DumpInv, MergedInv, SavedInv
<1>5. CASE AddTotalBarFails \/ Abort \/ JoinError \/ JoinPanic \/ MergeSingle \/ MergeRefused
  <2>1. /\ ~Over /\ main' = "save"
        /\ UNCHANGED <<pc, start, stop, written, file, fd, dump>>
    BY <1>5 DEF AddTotalBarFails, Abort, JoinError, JoinPanic, MergeSingle, MergeRefused, Over
  <2>2. SizesInv'
    BY <2>1 DEF DumpInv, SizesInv
  <2>3. (\A p \in Parts : ~Merged(p)') /\ dump'.kind = "none"
    BY <1>1, <2>1 DEF Merged
  <2>4. AllEnded' \/ EarlyReturn'
    <3>1. CASE AddTotalBarFails
      BY <3>1 DEF AddTotalBarFails, EarlyReturn, DumpInv, SavedInv, ModeInv, Launched
    <3>2. CASE Abort \/ JoinError \/ JoinPanic
      BY <2>1, <3>2 DEF Abort, JoinError, JoinPanic, AllEnded, Running
    <3>3. CASE MergeSingle \/ MergeRefused
      BY <2>1, <3>3 DEF MergeSingle, MergeRefused, ModeInv, AllEnded, Running
    <3> QED BY <1>5, <3>1, <3>2, <3>3
  <2> QED BY <2>1, <2>2, <2>3, <2>4 DEF DumpInv, MergedInv, SavedInv
<1>6. CASE Classify
  <2>1. /\ main = "save" /\ main' \in {"dump", "close"}
        /\ first # "none" => first' = first
        /\ UNCHANGED <<pc, start, stop, written, file, fd, dump, live, result, nexti, sessionSingle, bar>>
        /\ outcome' = StateQuery(TotalWritten(live), result = "err")
        /\ outcome' = "completed" => main' = "close"
    BY <1>6 DEF Classify, CancelRun
  <2>2. SizesInv'
    BY <2>1 DEF DumpInv, SizesInv
  <2>3. (\E p \in Parts : Merged(p)) => main' = "close" /\ dump.kind = "none"
    <3> SUFFICES ASSUME \E p \in Parts : Merged(p) PROVE main' = "close" /\ dump.kind = "none"
      OBVIOUS
    <3>1. result = "ok" /\ Resumable /\ TotalWritten(live) = ContentLength /\ dump.kind = "none"
      BY <2>1 DEF DumpInv, MergedInv
    <3>2. outcome' = "completed"
      BY <2>1, <3>1 DEF StateQuery
    <3> QED BY <2>1, <3>1, <3>2
  <2>4. MergedInv'
    BY <2>1, <2>3 DEF MergedInv, Merged
  <2>5. dump.kind = "none" /\ (AllEnded' \/ EarlyReturn')
    BY <2>1 DEF DumpInv, SavedInv, Over, AllEnded, Running, EarlyReturn
  <2> QED BY <2>1, <2>2, <2>4, <2>5 DEF DumpInv, SavedInv
<1>7. CASE DumpState
  <2>1. /\ main = "dump" /\ main' = "close" /\ dump'.written = written
        /\ UNCHANGED <<pc, start, stop, written, file, fd, result, first, nexti, sessionSingle, bar>>
    BY <1>7 DEF DumpState
  <2>2. SizesInv'
    BY <2>1 DEF DumpInv, SizesInv
  <2>3. \A p \in Parts : ~Merged(p)'
    BY <2>1 DEF DumpInv, MergedInv, Merged
  <2>4. AllEnded' \/ EarlyReturn'
    BY <2>1 DEF DumpInv, SavedInv, Over, AllEnded, Running, EarlyReturn
  <2> QED BY <2>1, <2>2, <2>3, <2>4 DEF DumpInv, MergedInv, SavedInv
<1>8. CASE CloseFiles
  <2>1. /\ main = "close" /\ main' = "exited"
        /\ UNCHANGED <<pc, start, stop, written, file, fd, first, nexti, sessionSingle, bar, dump>>
        /\ nexti > N => result' = result
    <3>1. ASSUME nexti > N PROVE result' = result
      <4>1. nexti \in Int /\ live \subseteq Parts
        BY DEF IInv, TypeOK, RunTypeOK
      <4>2. ~ \E p \in live : p > nexti
        BY <3>1, <4>1, NAssumption
      <4> QED BY <1>8, <4>2 DEF CloseFiles
    <3> QED BY <1>8, <3>1 DEF CloseFiles
  <2>2. SizesInv'
    BY <2>1 DEF DumpInv, SizesInv
  <2>3. MergedInv'
    BY <2>1 DEF DumpInv, MergedInv, Merged
  <2>4. (AllEnded' <=> AllEnded) /\ (EarlyReturn => EarlyReturn')
    BY <2>1 DEF AllEnded, Running, EarlyReturn
  <2> QED BY <2>1, <2>2, <2>3, <2>4 DEF DumpInv, SavedInv, Over
<1> QED BY <1>2, <1>3, <1>4, <1>5, <1>6, <1>7, <1>8 DEF MainStep

LEMMA NextDump ==
  ASSUME 200 \notin Statuses, EvenOrKept,
         IInv, ModeInv, EndInv, RangedInv, DumpInv, [Next]_vars
  PROVE  DumpInv'
<1>1. CASE MainStep
  BY <1>1, MainStepDump
<1>2. CASE \E p \in Parts : PartStep(p)
  BY <1>2, PartStepDump
<1>3. CASE Waiter \/ Drain \/ Signal \/ UNCHANGED vars
  <2>1. /\ UNCHANGED <<pc, start, stop, written, file, fd, dump, main, live, result, nexti,
                       sessionSingle, bar>>
        /\ first # "none" => first' = first
    BY <1>3 DEF Waiter, Drain, Signal, CancelRun, vars, runAndCtxVars, offRunVars, runVars, shapeVars,
                endVars, ctxVars, chanVars, partVars, modeVars, fileVars
  <2>2. SizesInv' /\ MergedInv'
    BY <2>1 DEF DumpInv, SizesInv, MergedInv, Merged, TotalWritten
  <2>3. SavedInv'
    BY <2>1 DEF DumpInv, SavedInv, Over, AllEnded, Running, EarlyReturn
  <2> QED BY <2>2, <2>3 DEF DumpInv
<1> QED BY <1>1, <1>2, <1>3 DEF Next, Terminated

\* "Session state saved; to resume run": when the requests for ranges are honoured,
\* or fail, the files of the parts are there and as long as the state saved says,
\* whatever ended the run, so Part.init of the next run accepts them.  Left out is
\* a session of an odd number of parts the last of which is complete at the start:
\* concat drops its file, and has removed the others by then (getparty.go:952).
THEOREM SavedStateFits ==
  200 \notin Statuses /\ Damage = {0} =>
    (Spec /\ (N = 1 \/ N % 2 = 0 \/ ~IsContentDownloaded(N)) => []DumpResumable)
<1> SUFFICES ASSUME 200 \notin Statuses, Damage = {0}
             PROVE  Spec /\ (N = 1 \/ N % 2 = 0 \/ ~IsContentDownloaded(N)) => []DumpResumable
  OBVIOUS
<1>1. Init => RangedInv
  BY DEF Init, RangedInv, Succeeded
<1>2. IInv /\ ModeInv /\ RangedInv /\ [Next]_vars => RangedInv'
  BY RangedNext
<1>3. Spec => []RangedInv
  BY <1>1, <1>2, InvariantEnd, PTL DEF Spec
<1>4. Init /\ (N = 1 \/ N % 2 = 0 \/ ~IsContentDownloaded(N)) => EvenOrKept
  <2>1. Init => pc[N] = "new" /\ nexti = 1 /\ N >= 1
    BY NAssumption DEF Init
  <2> QED BY <2>1 DEF EvenOrKept, KeptInv, Succeeded
<1>5. IInv /\ RangedInv /\ EvenOrKept /\ [Next]_vars => EvenOrKept'
  BY NextKept DEF EvenOrKept
<1>6. Spec /\ (N = 1 \/ N % 2 = 0 \/ ~IsContentDownloaded(N)) => []EvenOrKept
  BY <1>3, <1>4, <1>5, InvariantEnd, PTL DEF Spec
<1>7. IInv /\ ModeInv /\ EndInv /\ RangedInv /\ EvenOrKept /\ DumpInv /\ [Next]_vars => DumpInv'
  BY NextDump
<1>8. Spec /\ (N = 1 \/ N % 2 = 0 \/ ~IsContentDownloaded(N)) => []DumpInv
  BY <1>3, <1>6, <1>7, InitDumpInv, InvariantEnd, PTL DEF Spec
<1>9. DumpInv /\ RangedInv => DumpResumable
  <2> SUFFICES ASSUME DumpInv, RangedInv, dump.kind # "none", ~EarlyReturn, NEW p \in Parts
               PROVE  FileMatchesDump(p)
    BY DEF DumpResumable, RangedInv
  <2>1. dump.written = written /\ ~Merged(p)
    BY DEF DumpInv, SavedInv, MergedInv
  <2> QED BY <2>1 DEF FileMatchesDump, Merged, DumpInv, SizesInv
<1> QED BY <1>3, <1>8, <1>9, PTL
=============================================================================
