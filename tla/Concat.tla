------------------------------- MODULE Concat -------------------------------
(***************************************************************************)
(* Session.merge of several parts and the rounds of concat.  In a round    *)
(* the files are paired, one goroutine a pair copies the second file to    *)
(* the end of the first and removes it; what is left goes to the next      *)
(* round.                                                                  *)
(*                                                                         *)
(* A file is a sequence of blocks <<part, number>>, a block what one read  *)
(* of io.Copy moves.  The sizes merge checks first agree here: Download    *)
(* has the parts whose size does not.                                      *)
(***************************************************************************)
EXTENDS Naturals, Sequences, SequencesExt

CONSTANTS
  N,          \* number of parts, two or more
  Blocks,     \* Blocks[p] is the length of part p
  IoFaults    \* may a system call fail

ASSUME ConcatAssumption ==
  /\ N \in Nat \ {0, 1}
  /\ Blocks \in [1..N -> Nat \ {0}]
  /\ IoFaults \in BOOLEAN

VARIABLES
  pc,         \* merge: "check", "launch", "wait", "ok" or "error"
  parts,      \* the files of the round, by the part they started as
  next,       \* index in parts of the next pair to launch
  handle,     \* outFile.file: "nil", "write" (appending), "read" or "closed"
  exists,     \* the files that have not been removed
  disk,       \* what the file of a part holds, or held when it was removed
  worker,     \* goroutine of the pair whose first is p: "none", "copy", "remove" or "report"
  pos,        \* blocks that goroutine has copied
  errCh,      \* does the channel, of capacity 1, hold an error
  bar         \* increments of the merge bar

vars == <<pc, parts, next, handle, exists, disk, worker, pos, errCh, bar>>

Ids == 1..N
PartBody(p) == [k \in 1..Blocks[p] |-> <<p, k>>]

\* The first n parts of the body
BodyUpTo[n \in 0..N] == IF n = 0 THEN <<>> ELSE BodyUpTo[n - 1] \o PartBody(n)
Body == BodyUpTo[N]

(* A part downloaded in this run has its file open for appending, a part   *)
(* that was done when the session was restored has never opened it.        *)
Init ==
  /\ pc = "check" /\ parts = [i \in Ids |-> i] /\ next = 1
  /\ handle \in [Ids -> {"nil", "write"}]
  /\ exists = Ids /\ disk = [p \in Ids |-> PartBody(p)]
  /\ worker = [p \in Ids |-> "none"] /\ pos = [p \in Ids |-> 0]
  /\ errCh = FALSE /\ bar = 0

-----------------------------------------------------------------------------
(* The goroutine of merge.                                                 *)

Begin == pc = "check" /\ pc' = "launch"
         /\ UNCHANGED <<parts, next, handle, exists, disk, worker, pos, errCh, bar>>

\* The bar cannot be added: nothing has been touched.
BarFails == IoFaults /\ pc = "check" /\ pc' = "error"
            /\ UNCHANGED <<parts, next, handle, exists, disk, worker, pos, errCh, bar>>

Dst == parts[next]
Src == parts[next + 1]
HasPair == pc = "launch" /\ Len(parts) >= 2 /\ next < Len(parts)

\* Both files are open, the source from its start, and the goroutine runs.
Launch ==
  /\ HasPair
  /\ handle' = [handle EXCEPT ![Dst] = "write", ![Src] = "read"]
  /\ worker' = [worker EXCEPT ![Dst] = "copy"]
  /\ pos' = [pos EXCEPT ![Dst] = 0]
  /\ next' = next + 2
  /\ UNCHANGED <<pc, parts, exists, disk, errCh, bar>>

\* outFile.Open fails, or the Close in it: concat returns at once, without wg.Wait.
LaunchFails ==
  /\ IoFaults /\ HasPair
  /\ \/ handle[Dst] = "nil" /\ UNCHANGED handle
     \/ \E h \in {"nil", "closed"} :
          handle' = [handle EXCEPT ![Dst] = "write", ![Src] = h]
  /\ pc' = "error"
  /\ UNCHANGED <<parts, next, exists, disk, worker, pos, errCh, bar>>

\* No pair is left; the last of an odd number waits for the next round.
AllLaunched ==
  /\ pc = "launch" /\ Len(parts) >= 2 /\ next >= Len(parts)
  /\ pc' = "wait"
  /\ UNCHANGED <<parts, next, handle, exists, disk, worker, pos, errCh, bar>>

Quiet == \A p \in Ids : worker[p] = "none"

\* Mutant: files merged into others stay in the slice.
CompactNone(ps) == ps

\* Files that are not open go: those just merged, and any that never were.
Compact(ps) ==
  LET kept[i \in 0..Len(ps)] ==
        IF i = 0 THEN <<>>
        ELSE IF handle[ps[i]] # "nil" THEN Append(kept[i - 1], ps[i]) ELSE kept[i - 1]
  IN  kept[Len(ps)]

NextRound ==
  /\ pc = "wait" /\ Quiet /\ ~errCh
  /\ parts' = Compact(parts) /\ next' = 1 /\ pc' = "launch"
  /\ UNCHANGED <<handle, exists, disk, worker, pos, errCh, bar>>

RoundFailed ==
  /\ pc = "wait" /\ Quiet /\ errCh
  /\ handle' = [p \in Ids |-> IF p \in ToSet(parts) /\ handle[p] # "nil"
                              THEN "closed" ELSE handle[p]]
  /\ pc' = "error" /\ errCh' = FALSE
  /\ UNCHANGED <<parts, next, exists, disk, worker, pos, bar>>

\* Mutant: merge takes what concat has left.
SizeIgnored == TRUE

\* The size of the first file, which the deferred function of merge compares.
SizeAgrees == Len(disk[1]) = Len(Body)

\* One file is left: the last increment, and the deferred check of merge.
Finish ==
  /\ pc = "launch" /\ Len(parts) < 2
  /\ bar' = bar + 1
  /\ \/ SizeAgrees /\ pc' = "ok"
     \/ (IoFaults \/ ~SizeAgrees) /\ pc' = "error"
  /\ UNCHANGED <<parts, next, handle, exists, disk, worker, pos, errCh>>

-----------------------------------------------------------------------------
(* The goroutine of a pair, d the file it appends to.                      *)

SourceOf(d) == parts[CHOOSE i \in 2..Len(parts) : parts[i - 1] = d]

\* Mutant: the file is opened for writing without O_APPEND.
PutFromStart(d, block) ==
  [k \in 1..Max({Len(disk[d]), pos[d] + 1}) |-> IF k = pos[d] + 1 THEN block ELSE disk[d][k]]

\* Where a block that was read goes: the file is open for appending.
Put(d, block) == Append(disk[d], block)

CopyBlock(d) ==
  /\ worker[d] = "copy" /\ pos[d] < Len(disk[SourceOf(d)])
  /\ disk' = [disk EXCEPT ![d] = Put(d, disk[SourceOf(d)][pos[d] + 1])]
  /\ pos' = [pos EXCEPT ![d] = @ + 1]
  /\ UNCHANGED <<pc, parts, next, handle, exists, worker, errCh, bar>>

\* Mutant: a short copy is taken for a complete one.
AtEndShort(d) == pos[d] > 0

\* io.Copy returns nil at the end of the source only.
AtEnd(d) == pos[d] = Len(disk[SourceOf(d)])

CopyEnds(d) ==
  /\ worker[d] = "copy" /\ AtEnd(d)
  /\ worker' = [worker EXCEPT ![d] = "remove"]
  /\ UNCHANGED <<pc, parts, next, handle, exists, disk, pos, errCh, bar>>

CopyFails(d) ==
  /\ IoFaults /\ worker[d] = "copy"
  /\ worker' = [worker EXCEPT ![d] = "report"]
  /\ UNCHANGED <<pc, parts, next, handle, exists, disk, pos, errCh, bar>>

RemoveSource(d) ==
  /\ worker[d] = "remove"
  /\ exists' = exists \ {SourceOf(d)}
  /\ handle' = [handle EXCEPT ![SourceOf(d)] = "nil"]
  /\ worker' = [worker EXCEPT ![d] = "none"]
  /\ bar' = bar + 1
  /\ UNCHANGED <<pc, parts, next, disk, pos, errCh>>

\* Both arguments of cmp.Or are evaluated: a failed Close does not keep the file.
RemoveFails(d) ==
  /\ IoFaults /\ worker[d] = "remove"
  /\ exists' \in {exists, exists \ {SourceOf(d)}}
  /\ handle' = [handle EXCEPT ![SourceOf(d)] = "closed"]
  /\ worker' = [worker EXCEPT ![d] = "report"]
  /\ UNCHANGED <<pc, parts, next, disk, pos, errCh, bar>>

\* Mutant: a plain send, without the default.
SendBlocking == ~errCh /\ errCh' = TRUE

\* The select with a default: an error is dropped when the channel holds one.
Send == errCh' = TRUE

Report(d) ==
  /\ worker[d] = "report" /\ Send
  /\ worker' = [worker EXCEPT ![d] = "none"]
  /\ UNCHANGED <<pc, parts, next, handle, exists, disk, pos, bar>>

WorkerStep(d) == CopyBlock(d) \/ CopyEnds(d) \/ CopyFails(d)
                 \/ RemoveSource(d) \/ RemoveFails(d) \/ Report(d)
MainStep == Begin \/ BarFails \/ Launch \/ LaunchFails \/ AllLaunched
            \/ NextRound \/ RoundFailed \/ Finish

Next == MainStep \/ \E d \in Ids : WorkerStep(d)

\* A goroutine that merge has not waited for may be cut off by the end of the program.
Fairness ==
  /\ WF_vars(MainStep)
  /\ \A d \in Ids : WF_vars(pc \in {"launch", "wait"} /\ WorkerStep(d))

Spec == Init /\ [][Next]_vars /\ Fairness

-----------------------------------------------------------------------------
TypeOK ==
  /\ pc \in {"check", "launch", "wait", "ok", "error"}
  /\ parts \in Seq(Ids) /\ Len(parts) \in 1..N
  /\ next \in 1..(N + 2)
  /\ handle \in [Ids -> {"nil", "write", "read", "closed"}]
  /\ exists \subseteq Ids
  /\ disk \in [Ids -> Seq(Ids \X Nat)]
  /\ worker \in [Ids -> {"none", "copy", "remove", "report"}]
  /\ pos \in [Ids -> 0..Len(Body)]
  /\ errCh \in BOOLEAN
  /\ bar \in 0..N

(* Session.merge returns nil (session.go:133) only when the first file is  *)
(* the body in order and no other file is left, whatever was dropped from  *)
(* a round (getparty.go:952) and whatever failed on the way.               *)
MergedIsWhole == pc = "ok" => disk[1] = Body /\ exists = {1}

(* The state saved after an error of merge says that every part is         *)
(* complete, and the next run compares the sizes only (part.go:131): a     *)
(* file as long as its part still holds that part, however far the         *)
(* goroutines of concat came, and while they may still run.                *)
SizeStillTells ==
  \A p \in exists : Len(disk[p]) = Blocks[p] => disk[p] = PartBody(p)

\* Part q belongs to the last of the files that have it whole: its own, and when
\* that has been merged and removed, the file it was merged into.
Holds(p, q) == ToSet(PartBody(q)) \subseteq ToSet(disk[p])
Piece(p) == {q \in Ids : Holds(p, q) /\ \A r \in exists : Holds(r, q) => r <= p}

Abstract == INSTANCE Merge WITH
  pieces <- {Piece(p) : p \in exists},
  verdict <- IF pc \in {"ok", "error"} THEN pc ELSE "none"

(* concat, with its rounds and its goroutines, joins neighbouring files    *)
(* one pair at a time: at any moment, after any failure, each part is      *)
(* whole in one of the files, and the removal of a file (getparty.go:925)  *)
(* is the moment two of them become one.                                   *)
ImplementsMerge == Abstract!MergeSpec

(* merge always returns: no goroutine is left blocked on errCh, which has  *)
(* room for one error of many (getparty.go:918-921), and the rounds get    *)
(* shorter (getparty.go:886).                                              *)
Terminates == <>(pc \in {"ok", "error"})

(* "dst.file can be nil when session is restored with some done part"      *)
(* (getparty.go:899): a restored session whose files are all in place and  *)
(* readable is merged.                                                     *)
RestoredMerges == ~IoFaults => pc # "error"
=============================================================================
