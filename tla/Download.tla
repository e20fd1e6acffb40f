------------------------------ MODULE Download ------------------------------
(***************************************************************************)
(* One run of getparty from the session it got from getState to its exit:   *)
(* Cmd.Run of getparty.go, the goroutine that runs Part.download for each   *)
(* part, and the contexts and channels they share.                          *)
(*                                                                         *)
(*   - the first status a part gets elects the mode of the session: 206     *)
(*     "partial", 200 "fallback" to a single part.  The election is a send  *)
(*     on firstResp.id (capacity 1) followed, in a separate step, by the    *)
(*     cancellation of firstResp.ctx with the status as its cause;          *)
(*   - a part writes what it reads to its own file, counts it in Written    *)
(*     and, unless it is single, sends the count on progress.totalCh,       *)
(*     which has readers only once Run has seen "partial";                  *)
(*   - Run waits for the parts, looks at errCh and doneCount, merges, and   *)
(*     in its deferred function decides what to save.                       *)
(*                                                                         *)
(* A body is a sequence of bytes 0 .. Size-1 and a file is the sequence of  *)
(* the body offsets it holds, Hole where nothing was written, so that a     *)
(* file in the wrong order, with a gap or with a repetition is visible.     *)
(***************************************************************************)
EXTENDS Partition, Sequences, FiniteSets, Functions

CONSTANTS
  N,              \* number of parts of the session
  Size,           \* bytes of the body the server serves
  ContentLength,  \* session.ContentLength, -1 when HEAD did not tell
  Resumable,      \* session.isResumable()
  Statuses,       \* statuses GET may be answered: 200, 206, 404
  MaxTry,         \* --max-retry, 0 for infinite
  Damage,         \* bytes a part file may hold beyond its Written at start
  WriteFaults,    \* a write to a part file may fail and a later one succeed
  Hole            \* a byte of a file no write has covered

Parts == 1 .. N

ASSUME NAssumption == N \in Nat \ {0}
ASSUME SizeAssumption == Size \in Nat
ASSUME ContentLengthAssumption == ContentLength \in {-1, Size}
ASSUME ResumableAssumption == Resumable \in BOOLEAN /\ (Resumable => ContentLength >= 0)
ASSUME StatusesAssumption == Statuses \subseteq {200, 206, 404}
ASSUME MaxTryAssumption == MaxTry \in Nat
ASSUME DamageAssumption == Damage \subseteq Int
ASSUME WriteFaultsAssumption == WriteFaults \in BOOLEAN
ASSUME HoleAssumption == Hole \notin Int
\* makeParts: several parts only when each has minFragment = 512 bytes, so the
\* last byte of a part is never byte 0.
ASSUME PartsAssumption == N > 1 => ContentLength >= 2 * N

VARIABLES
  \* set when the session is created, constant during the run
  restored,   \* session.restored
  current,    \* session.totalWritten() before the download
  cap,        \* capacity of progress.totalCh
  \* Run
  main,       \* where Run is; from "save" on, in its deferred function
  nexti,      \* the part the launch loop is at
  sessionSingle, \* session.Single
  live,       \* ids of session.Parts
  result,     \* how Run ends: "none" yet, "ok", "err" or "panic"
  outcome,    \* the sessionState of the deferred function
  dump,       \* the saved state: kind of file name and Written of each part
  \* contexts and the election
  mctx,       \* Cmd.Ctx has been canceled by a signal
  ctx,        \* cause of Run's ctx, "live" while not canceled
  first,      \* cause of firstResp.ctx, "none" while not canceled
  id,         \* content of firstResp.id, 0 when empty
  \* channels and counters
  total,      \* elements queued in progress.totalCh
  bar,        \* addTotalBar has succeeded: totalCh has readers
  errCh,      \* errCh holds an error
  doneCount,
  \* the parts
  pc,         \* where the goroutine of the part is
  attempt,    \* attempt argument of the retried function
  body,       \* offset of the next byte of the response, and of its last
  err,        \* last error: "nil", "eof", or "fail" for any other
  single,     \* Part.single
  partial,    \* local variable partial of Part.download
  start, stop, written, \* Part.Start, Part.Stop, Part.Written
  file,       \* content of the part's file
  fd,         \* outFile.file: "nil", or the flags it was opened with; after
              \* concat "merged", or "removed" for the files merged into it
  pos,        \* offset of a file that was not opened with O_APPEND
  output      \* content of the file that concat has made of the parts' files

sessionVars == <<restored, current, cap>>
shapeVars   == <<nexti, sessionSingle, live>>
endVars     == <<outcome, dump>>
runVars     == <<main, shapeVars, result, endVars>>
ctxVars     == <<mctx, ctx, first>>
chanVars    == <<total, bar, errCh, doneCount>>
tryVars     == <<attempt, body, err>>
modeVars    == <<single, partial, start, stop>>
fileVars    == <<written, file, fd, pos>>
runAndCtxVars == <<sessionVars, runVars, ctxVars, output>>
partVars      == <<pc, tryVars, modeVars, fileVars>>
offRunVars    == <<sessionVars, id, chanVars, partVars, output>>
vars == <<runAndCtxVars, id, chanVars, partVars>>

-----------------------------------------------------------------------------
(* Operators on parts, files and contexts. *)

\* n bytes of the body from offset a on.
Slice(a, n) == [i \in 1 .. n |-> a + i - 1]

\* The file f after a write of the n > 0 body bytes from a on at offset o;
\* a write beyond the end of f leaves a hole.
WriteAt(f, o, a, n) ==
  [i \in 1 .. (IF Len(f) > o + n THEN Len(f) ELSE o + n) |->
     IF i \in (o + 1) .. (o + n) THEN a + (i - o) - 1
     ELSE IF i <= Len(f) THEN f[i] ELSE Hole]

\* Mutant of PartLen: Stop taken for the byte after the last.
PartLenExclusive(p) == stop[p] - start[p]

\* Part.len, Part.isDone, Part.isContentDownloaded
PartLen(p) == stop[p] - start[p] + 1
IsDone(p) == written[p] = PartLen(p)
IsContentDownloaded(p) == written[p] # 0 /\ IsDone(p)

\* Mutant of RangeFrom: a retry asks for the whole part again.
RangeFromStart(p) == IF stop[p] <= 0 THEN 0 ELSE start[p]

\* Part.getRange: first and last byte asked for
RangeFrom(p) == IF stop[p] <= 0 THEN 0 ELSE start[p] + written[p]
RangeTo(p)   == IF stop[p] <= 0 THEN Size - 1 ELSE stop[p]

\* The goroutine of p runs: the WaitGroup counts it.
Running(p) == pc[p] \notin {"new", "end"}
AllEnded == \A p \in Parts : ~Running(p)

TotalWritten(S) == SumFunctionOnSet(written, S)

\* cancel(cause) of Run's ctx: only the first cause counts, and the child
\* firstResp.ctx is canceled with it.
CancelRun(cause) ==
  /\ ctx' = IF ctx = "live" THEN cause ELSE ctx
  /\ first' = IF first = "none" THEN "canceled" ELSE first

Exited == main = "exited"
Goto(p, label) == pc' = [pc EXCEPT ![p] = label]

-----------------------------------------------------------------------------
(* The session: made by makeParts, or read back from a state file.  A state *)
(* file found next to the output (getState, the case that goes back to the  *)
(* top of its loop) gives a session with Written # 0 and restored = FALSE.  *)

\* Session.uncompletedPartsCount
UncompletedParts == Cardinality({p \in Parts : ~IsContentDownloaded(p)})

Init ==
  /\ restored \in BOOLEAN
  /\ start = [p \in Parts |-> PartStart(ContentLength, N, p)]
  /\ stop = [p \in Parts |-> PartStop(ContentLength, N, p)]
  /\ \E w \in [Parts -> 0 .. Size], d \in [Parts -> Damage] :
       /\ \A p \in Parts : w[p] # 0 => (Resumable \/ restored) /\ w[p] <= PartLen(p)
       /\ \A p \in Parts : w[p] + d[p] >= 0
       /\ written = w
       /\ file = [p \in Parts |-> Slice(start[p], w[p] + d[p])]
  /\ current = TotalWritten(Parts)
  /\ cap = IF UncompletedParts < 12 THEN UncompletedParts ELSE 12
  /\ output = <<>>
  /\ main = "launch" /\ nexti = 1
  /\ sessionSingle = (N = 1) /\ live = Parts
  /\ result = "none" /\ outcome = "none"
  /\ dump = [kind |-> "none", written |-> [p \in Parts |-> 0]]
  /\ mctx = FALSE /\ ctx = "live" /\ first = "none" /\ id = 0
  /\ total = 0 /\ bar = FALSE /\ errCh = FALSE /\ doneCount = 0
  /\ pc = [p \in Parts |-> "new"]
  /\ attempt = [p \in Parts |-> 0]
  /\ body = [p \in Parts |-> [from |-> 0, to |-> -1]]
  /\ err = [p \in Parts |-> "nil"]
  /\ single = [p \in Parts |-> N = 1]
  /\ partial = [p \in Parts |-> FALSE]
  /\ fd = [p \in Parts |-> "nil"]
  /\ pos = [p \in Parts |-> 0]

-----------------------------------------------------------------------------
(* Run: the launch loop. *)

\* Part.init fails: the file of a restored part has not the size it had.
InitFails(p) == restored /\ written[p] # 0 /\ Len(file[p]) # written[p]

InitPart ==
  /\ main = "launch" /\ ~InitFails(nexti)
  /\ IF IsContentDownloaded(nexti)
       THEN doneCount' = doneCount + 1 /\ UNCHANGED pc
       ELSE Goto(nexti, "wait") /\ UNCHANGED doneCount
  /\ nexti' = nexti + 1
  /\ main' = IF nexti = N THEN "first" ELSE "launch"
  /\ UNCHANGED <<sessionVars, sessionSingle, live, result, endVars, ctxVars, id,
                 total, bar, errCh, tryVars, modeVars, fileVars, output>>

InitPartFails ==
  /\ main = "launch" /\ InitFails(nexti)
  /\ CancelRun("session")
  /\ main' = "abort"
  /\ UNCHANGED <<shapeVars, result, endVars, mctx, offRunVars>>

\* Mutant of Waiter: it waits for a part to have been answered.
WaiterElected ==
  /\ nexti > N /\ AllEnded /\ first = "none" /\ id # 0
  /\ first' = "canceled"
  /\ UNCHANGED <<runVars, mctx, ctx, offRunVars>>

\* The goroutine that cancels firstResp when all parts have ended.
Waiter ==
  /\ nexti > N /\ AllEnded /\ first = "none"
  /\ first' = "canceled"
  /\ UNCHANGED <<runVars, mctx, ctx, offRunVars>>

\* The user's Ctrl-C, or SIGTERM.
Signal ==
  /\ ~mctx
  /\ mctx' = TRUE
  /\ CancelRun("signal")
  /\ UNCHANGED <<runVars, offRunVars>>

-----------------------------------------------------------------------------
(* Run: from the first status to the return. *)

FallbackRestored ==
  /\ main = "first" /\ first = "fallback" /\ restored
  /\ CancelRun("session")
  /\ main' = "abortPanic"
  /\ UNCHANGED <<shapeVars, result, endVars, mctx, offRunVars>>

FallbackToSingle ==
  /\ main = "first" /\ first = "fallback" /\ ~restored /\ ~sessionSingle
  /\ sessionSingle' = TRUE
  /\ main' = "collapse"
  /\ UNCHANGED <<nexti, live, result, endVars, ctxVars, offRunVars>>

AddTotalBar ==
  /\ main = "first" /\ first = "partial" /\ ~sessionSingle
  /\ bar' = TRUE
  /\ main' = "wait"
  /\ UNCHANGED <<sessionVars, shapeVars, result, endVars, ctxVars, id, total,
                 errCh, doneCount, partVars, output>>

\* A bar cannot be added once the signal has ended the progress container: Run
\* returns, and does not wait for the parts.
AddTotalBarFails ==
  /\ main = "first" /\ first = "partial" /\ ~sessionSingle /\ mctx
  /\ result' = "err"
  /\ main' = "save"
  /\ UNCHANGED <<shapeVars, endVars, ctxVars, offRunVars>>

NothingToPrepare ==
  /\ main = "first"
  /\ \/ first = "canceled"
     \/ /\ sessionSingle
        /\ \/ first = "partial"
           \/ first = "fallback" /\ ~restored
  /\ main' = "wait"
  /\ UNCHANGED <<shapeVars, result, endVars, ctxVars, offRunVars>>

\* wg.Wait() of the two paths that give up
Abort ==
  /\ main \in {"abort", "abortPanic"} /\ AllEnded
  /\ result' = IF main = "abort" THEN "err" ELSE "panic"
  /\ main' = "save"
  /\ UNCHANGED <<shapeVars, endVars, ctxVars, offRunVars>>

\* Mutant of Collapse: the id is taken before wg.Wait.
CollapseAtOnce ==
  /\ main = "collapse"
  /\ live' = {id}
  /\ id' = 0
  /\ main' = "wait"
  /\ UNCHANGED <<sessionVars, nexti, sessionSingle, result, endVars, ctxVars,
                 chanVars, partVars, output>>

\* wg.Wait(), then the part that got the first 200 becomes the only one.
Collapse ==
  /\ main = "collapse" /\ AllEnded
  /\ live' = {id}
  /\ id' = 0
  /\ main' = "wait"
  /\ UNCHANGED <<sessionVars, nexti, sessionSingle, result, endVars, ctxVars,
                 chanVars, partVars, output>>

\* Mutant of JoinError: Run returns the first error without wg.Wait.
JoinErrorAtOnce ==
  /\ main = "wait" /\ (errCh \/ mctx)
  /\ result' = "err"
  /\ main' = "save"
  /\ UNCHANGED <<shapeVars, endVars, ctxVars, offRunVars>>

JoinError ==
  /\ main = "wait" /\ AllEnded /\ (errCh \/ mctx)
  /\ result' = "err"
  /\ main' = "save"
  /\ UNCHANGED <<shapeVars, endVars, ctxVars, offRunVars>>

JoinPanic ==
  /\ main = "wait" /\ AllEnded /\ ~errCh /\ ~mctx
  /\ doneCount # Cardinality(live)
  /\ CancelRun("session")
  /\ result' = "panic"
  /\ main' = "save"
  /\ UNCHANGED <<shapeVars, endVars, mctx, offRunVars>>

Join ==
  /\ main = "wait" /\ AllEnded /\ ~errCh /\ ~mctx
  /\ doneCount = Cardinality(live)
  /\ main' = "merge"
  /\ UNCHANGED <<shapeVars, result, endVars, ctxVars, offRunVars>>

-----------------------------------------------------------------------------
(* Session.merge and the deferred function of Run. *)

\* The part whose file Run takes for the whole: session.Parts[0].
FirstPart == CHOOSE p \in live : \A q \in live : p <= q

\* Mutant of SizeExpected: whatever size the file has will do.
SizeFound == Len(file[FirstPart])

SizeExpected == IF Resumable THEN ContentLength ELSE written[FirstPart]

\* The single part's file is the result; its size must be the one expected.
MergeSingle ==
  /\ main = "merge" /\ sessionSingle
  /\ result' = IF Len(file[FirstPart]) = SizeExpected THEN "ok" ELSE "err"
  /\ main' = "save"
  /\ UNCHANGED <<shapeVars, endVars, ctxVars, offRunVars>>

\* Mutant of SizesAgree: the sizes of the part files are not looked at.
SizesIgnored == TRUE

SizesAgree == \A p \in live : Len(file[p]) = written[p]

\* merge returns before it touches a file; after a signal no bar can be added.
MergeRefused ==
  /\ main = "merge" /\ ~sessionSingle
  /\ ~Resumable \/ ~SizesAgree \/ mctx
  /\ result' = "err"
  /\ main' = "save"
  /\ UNCHANGED <<shapeVars, endVars, ctxVars, offRunVars>>

\* A last part without a pair is skipped by the first round of concat, and kept
\* for the next round only if its file is open.
Dropped == IF N % 2 = 1 /\ fd[N] = "nil" THEN {N} ELSE {}

\* Mutant of Joined: the files of a pair take each other's place.
JoinedBackwards ==
  LET joined[n \in 0 .. N] ==
        IF n = 0 THEN <<>>
        ELSE IF n \in Dropped THEN joined[n - 1] ELSE file[n] \o joined[n - 1]
  IN  joined[N]

\* The file of each pair is appended to the other's, round after round, until
\* the first file holds them all in the order of the parts.
Joined ==
  LET joined[n \in 0 .. N] ==
        IF n = 0 THEN <<>>
        ELSE IF n \in Dropped THEN joined[n - 1] ELSE joined[n - 1] \o file[n]
  IN  joined[N]

\* concat, and the check of the size of what it made
Concat ==
  /\ main = "merge" /\ ~sessionSingle
  /\ Resumable /\ SizesAgree
  /\ output' = Joined
  /\ result' = IF Len(Joined) = ContentLength THEN "ok" ELSE "err"
  /\ fd' = [p \in Parts |-> IF p = 1 THEN "merged"
                            ELSE IF p \in Dropped THEN fd[p] ELSE "removed"]
  /\ main' = "save"
  /\ UNCHANGED <<sessionVars, shapeVars, endVars, ctxVars, id, chanVars, pc,
                 tryVars, modeVars, written, file, pos>>

\* makeStateQuery, asked with the bytes written so far and the error Run
\* returns, which is nil while Run panics.
StateQuery(newCurrent, failed) ==
  CASE ~Resumable /\ failed  -> "uncompleted"
    [] ~Resumable /\ ~failed -> "completed"
    [] Resumable /\ newCurrent # ContentLength ->
         IF newCurrent # current THEN "uncompletedWithAdvance" ELSE "uncompleted"
    [] Resumable /\ newCurrent = ContentLength ->
         IF failed THEN "completedWithError" ELSE "completed"

\* cancel(nil); state := stateQuery(session.totalWritten(), err)
Classify ==
  /\ main = "save"
  /\ CancelRun("ended")
  /\ outcome' = StateQuery(TotalWritten(live), result = "err")
  /\ main' = IF outcome' \in {"uncompletedWithAdvance", "completedWithError"}
               THEN "dump" ELSE "close"
  /\ UNCHANGED <<shapeVars, result, dump, mctx, offRunVars>>

\* session.dumpState
DumpState ==
  /\ main = "dump"
  /\ dump' = [kind |-> IF ctx = "session" THEN "recovered" ELSE "json",
              written |-> written]
  /\ main' = "close"
  /\ UNCHANGED <<shapeVars, result, outcome, ctxVars, offRunVars>>

\* Unless the download is completed, the files of the parts are closed, and the
\* one of a part without a byte is looked at, which a part that has not been
\* through Part.init does not have.  Then the process exits.
CloseFiles ==
  /\ main = "close"
  /\ result' = IF outcome # "completed" /\ \E p \in live : p > nexti /\ written[p] = 0
                 THEN "panic" ELSE result
  /\ main' = "exited"
  /\ UNCHANGED <<shapeVars, endVars, ctxVars, offRunVars>>

\* The process is gone.
Terminated == Exited /\ UNCHANGED vars

-----------------------------------------------------------------------------
(* Part.download: the answer to the GET of an attempt. *)

At(p, label) == ~Exited /\ pc[p] = label

\* The attempt or the part ends without an error to return, or with one.
Leave(p, e) ==
  /\ Goto(p, "exit")
  /\ err' = [err EXCEPT ![p] = e]

\* The bytes from..to of a body are about to be read.
EnterLoop(p, from, to) ==
  /\ Goto(p, "loop")
  /\ body' = [body EXCEPT ![p] = [from |-> from, to |-> to]]
  /\ err' = [err EXCEPT ![p] = "nil"]

NoBody == [from |-> 0, to |-> -1]

\* 206: the file is opened, once, for appending, and the part gets a bar; both
\* can fail, the bar only after a signal.
SetupPartial(p) ==
  LET opened == [fd EXCEPT ![p] = IF @ = "nil" THEN "append" ELSE @]
  IN  \/ /\ fd' = opened
         /\ partial' = [partial EXCEPT ![p] = TRUE]
         /\ EnterLoop(p, RangeFrom(p), RangeTo(p))
      \/ /\ \/ fd[p] = "nil" /\ UNCHANGED fd
            \/ mctx /\ fd' = opened
         /\ Leave(p, "fail")
         /\ UNCHANGED <<partial, body>>

\* 206 to the first part answered: it fills firstResp.id ...
Elect206(p) ==
  /\ At(p, "wait") /\ 206 \in Statuses /\ RangeFrom(p) <= RangeTo(p)
  /\ id = 0
  /\ id' = p
  /\ Goto(p, "won206")
  /\ UNCHANGED <<runAndCtxVars, chanVars, tryVars, modeVars, fileVars>>

\* ... and then makes the election known.
WinPartial(p) ==
  /\ At(p, "won206")
  /\ first' = IF first = "none" THEN "partial" ELSE first
  /\ SetupPartial(p)
  /\ UNCHANGED <<sessionVars, runVars, mctx, ctx, id, chanVars, attempt, single,
                 start, stop, written, file, pos, output>>

\* 206 to any other part
Answer206(p) ==
  /\ At(p, "wait") /\ 206 \in Statuses /\ RangeFrom(p) <= RangeTo(p)
  /\ id # 0
  /\ IF ~partial[p] /\ first = "fallback"
       THEN Goto(p, "panic") /\ UNCHANGED <<body, err, partial, fd>>
       ELSE SetupPartial(p)
  /\ UNCHANGED <<runAndCtxVars, id, chanVars, attempt, single, start, stop,
                 written, file, pos>>

\* 200 to the first part answered
Elect200(p) ==
  /\ At(p, "wait") /\ 200 \in Statuses
  /\ id = 0
  /\ id' = p
  /\ Goto(p, "won200")
  /\ UNCHANGED <<runAndCtxVars, chanVars, tryVars, modeVars, fileVars>>

\* It becomes the single part of a body whose length the answer may not tell.
WinFallback(p) ==
  /\ At(p, "won200")
  /\ first' = IF first = "none" THEN "fallback" ELSE first
  /\ \/ /\ written[p] # 0
        /\ Goto(p, "panic")
        /\ UNCHANGED <<body, err, modeVars, file, fd, pos>>
     \/ /\ written[p] = 0
        /\ file' = [file EXCEPT ![p] = <<>>]
        /\ fd' = [fd EXCEPT ![p] = "trunc"]
        /\ pos' = [pos EXCEPT ![p] = 0]
        /\ \/ /\ \E cl \in {-1, Size} : stop' = [stop EXCEPT ![p] = cl - 1]
              /\ start' = [start EXCEPT ![p] = 0]
              /\ single' = [single EXCEPT ![p] = TRUE]
              /\ EnterLoop(p, 0, Size - 1)
           \/ /\ mctx
              /\ Leave(p, "fail")
              /\ UNCHANGED <<body, single, start, stop>>
        /\ UNCHANGED partial
     \/ /\ written[p] = 0
        /\ Leave(p, "fail")
        /\ UNCHANGED <<body, modeVars, file, fd, pos>>
  /\ UNCHANGED <<sessionVars, runVars, mctx, ctx, id, chanVars, attempt, written,
                 output>>

\* 200 to a part that is not the single one: another part was elected, or this
\* part was answered 206 before.
Superseded(p) ==
  /\ At(p, "wait") /\ 200 \in Statuses
  /\ id # 0 /\ (~single[p] \/ partial[p])
  /\ IF first = "partial" THEN Goto(p, "panic") /\ UNCHANGED err
                          ELSE Leave(p, "nil")
  /\ UNCHANGED <<runAndCtxVars, id, chanVars, attempt, body, modeVars, fileVars>>

\* Mutant of Restart: the body is read again after what the file holds.
RestartKeeps(p) ==
  /\ At(p, "wait") /\ 200 \in Statuses
  /\ id # 0 /\ single[p] /\ ~partial[p]
  /\ EnterLoop(p, 0, Size - 1)
  /\ UNCHANGED <<runAndCtxVars, id, chanVars, attempt, modeVars, fileVars>>

\* 200 to a retry of the single part: the file is truncated, and the offset of
\* its descriptor stays where it was.
Restart(p) ==
  /\ At(p, "wait") /\ 200 \in Statuses
  /\ id # 0 /\ single[p] /\ ~partial[p]
  /\ IF written[p] = 0 THEN UNCHANGED <<file, written>>
     ELSE /\ file' = [file EXCEPT ![p] = <<>>]
          /\ written' = [written EXCEPT ![p] = 0]
  /\ EnterLoop(p, 0, Size - 1)
  /\ UNCHANGED <<runAndCtxVars, id, chanVars, attempt, modeVars, fd, pos>>

\* A 5xx, or no answer: connection refused or lost, timeout, canceled context.
Unanswered(p) ==
  /\ At(p, "wait")
  /\ Goto(p, "failed")
  /\ UNCHANGED <<runAndCtxVars, id, chanVars, tryVars, modeVars, fileVars>>

\* Any other status ends the part: 404, and 416 for the empty range a part asks
\* for when it has all its bytes but lost the end of the body.
OtherStatus(p) ==
  /\ At(p, "wait")
  /\ \/ 404 \in Statuses
     \/ 206 \in Statuses /\ RangeFrom(p) > RangeTo(p)
  /\ Leave(p, "fail")
  /\ UNCHANGED <<runAndCtxVars, id, chanVars, attempt, body, modeVars, fileVars>>

-----------------------------------------------------------------------------
(* Part.download: the read loop. *)

\* timer.Reset finds the timer fired: the loop ends and leaves err alone.
LoopBreak(p) ==
  /\ At(p, "loop")
  /\ Goto(p, "after")
  /\ body' = [body EXCEPT ![p] = NoBody]
  /\ UNCHANGED <<runAndCtxVars, id, chanVars, attempt, err, modeVars, fileVars>>

\* io.CopyBuffer fails before a byte is written.
ReadFails(p) ==
  /\ At(p, "loop")
  /\ Goto(p, "failed")
  /\ body' = [body EXCEPT ![p] = NoBody]
  /\ UNCHANGED <<runAndCtxVars, id, chanVars, attempt, err, modeVars, fileVars>>

\* io.CopyBuffer writes n bytes to the file: a whole block (e = "nil"), or fewer
\* than a block because the body ended (e = "eof").  When a write fails after
\* others succeeded the bytes it was given are lost, and the loop goes on.
Read(p) ==
  /\ At(p, "loop")
  /\ LET rest   == body[p].to - body[p].from + 1
         offset == IF fd[p] = "trunc" THEN pos[p] ELSE Len(file[p])
     IN  \E n \in 0 .. rest, e \in {"nil", "eof"} :
           /\ e = "nil" => n > 0
           /\ e = "eof" => n = rest
           /\ IF n = 0 THEN UNCHANGED <<file, pos>>
              ELSE /\ file' = [file EXCEPT ![p] = WriteAt(@, offset, body[p].from, n)]
                   /\ pos' = [pos EXCEPT ![p] = IF fd[p] = "trunc" THEN @ + n ELSE @]
           /\ written' = [written EXCEPT ![p] = @ + n]
           /\ err' = [err EXCEPT ![p] = e]
           /\ Goto(p, IF ~single[p] THEN "incr" ELSE IF e = "eof" THEN "after" ELSE "loop")
           /\ \E lost \in 0 .. (IF WriteFaults /\ e = "nil" THEN rest - n ELSE 0) :
                body' = [body EXCEPT ![p] =
                           IF e = "eof" THEN NoBody
                           ELSE [from |-> body[p].from + n + lost, to |-> body[p].to]]
  /\ UNCHANGED <<runAndCtxVars, id, chanVars, attempt, modeVars, fd>>

\* p.progress.incrTotal: blocks while totalCh is full
IncrTotal(p) ==
  /\ At(p, "incr")
  /\ total < cap
  /\ total' = total + 1
  /\ Goto(p, IF err[p] = "eof" THEN "after" ELSE "loop")
  /\ UNCHANGED <<runAndCtxVars, id, bar, errCh, doneCount, tryVars, modeVars,
                 fileVars>>

\* Mutant of Drain: the readers stop at a signal.
DrainUntilSignal ==
  /\ bar /\ total > 0 /\ ~mctx
  /\ total' = total - 1
  /\ UNCHANGED <<runAndCtxVars, id, bar, errCh, doneCount, partVars>>

\* The readers of totalCh that Run starts after addTotalBar.
Drain ==
  /\ bar /\ total > 0
  /\ total' = total - 1
  /\ UNCHANGED <<runAndCtxVars, id, bar, errCh, doneCount, partVars>>

\* After the loop: a body of unknown length that has ended gives the part its
\* length; a part that has its length is done if the body has ended too.
After(p) ==
  /\ At(p, "after")
  /\ LET ended   == PartLen(p) <= 0 /\ err[p] = "eof"
         newStop == IF ended THEN written[p] - 1 ELSE stop[p]
         newStart == IF ended THEN 0 ELSE start[p]
         done    == written[p] = newStop - newStart + 1
     IN  /\ single' = [single EXCEPT ![p] = @ \/ ended]
         /\ start' = [start EXCEPT ![p] = newStart]
         /\ stop' = [stop EXCEPT ![p] = newStop]
         /\ IF ~done THEN Goto(p, "failed") /\ UNCHANGED err
            ELSE IF err[p] = "eof" THEN Leave(p, "nil")
            ELSE Goto(p, "panic") /\ UNCHANGED err
  /\ UNCHANGED <<runAndCtxVars, id, chanVars, attempt, body, partial, fileVars>>

-----------------------------------------------------------------------------
(* Part.download: the end of an attempt, and of the goroutine. *)

\* Mutant of MayRetry: one more try than asked for.
MayRetryOnceMore(p) == MaxTry = 0 \/ attempt[p] <= MaxTry

MayRetry(p) == MaxTry = 0 \/ attempt[p] < MaxTry

\* backoff.RetryWithContext calls the function again.
Retry(p) ==
  /\ At(p, "failed")
  /\ ctx = "live" /\ MayRetry(p)
  /\ attempt' = [attempt EXCEPT ![p] = IF MaxTry = 0 THEN 0 ELSE @ + 1]
  /\ err' = [err EXCEPT ![p] = "nil"]
  /\ Goto(p, "wait")
  /\ UNCHANGED <<runAndCtxVars, id, chanVars, body, modeVars, fileVars>>

\* ErrMaxRetry, or the context canceled meanwhile
GiveUp(p) ==
  /\ At(p, "failed")
  /\ \/ ctx # "live"
     \/ ~MayRetry(p)
  /\ Leave(p, "fail")
  /\ UNCHANGED <<runAndCtxVars, id, chanVars, attempt, body, modeVars, fileVars>>

\* The goroutine recovers a panic of Part.download and cancels the session.
Recover(p) ==
  /\ At(p, "panic")
  /\ CancelRun("session")
  /\ Leave(p, "fail")
  /\ UNCHANGED <<sessionVars, runVars, mctx, id, chanVars, attempt, body,
                 modeVars, fileVars, output>>

\* Mutant of Finish: a part that ends without an error counts as done.
FinishCounted(p) ==
  /\ At(p, "exit")
  /\ IF err[p] = "fail" THEN errCh' = TRUE /\ UNCHANGED doneCount
                        ELSE doneCount' = doneCount + 1 /\ UNCHANGED errCh
  /\ Goto(p, "end")
  /\ UNCHANGED <<runAndCtxVars, id, total, bar, tryVars, modeVars, fileVars>>

\* errCh, doneCount and wg.Done
Finish(p) ==
  /\ At(p, "exit")
  /\ IF err[p] = "fail" THEN errCh' = TRUE /\ UNCHANGED doneCount
     ELSE /\ doneCount' = IF IsDone(p) THEN doneCount + 1 ELSE doneCount
          /\ UNCHANGED errCh
  /\ Goto(p, "end")
  /\ UNCHANGED <<runAndCtxVars, id, total, bar, tryVars, modeVars, fileVars>>

-----------------------------------------------------------------------------
PartStep(p) ==
  \/ Elect206(p) \/ WinPartial(p) \/ Answer206(p)
  \/ Elect200(p) \/ WinFallback(p) \/ Superseded(p) \/ Restart(p)
  \/ Unanswered(p) \/ OtherStatus(p)
  \/ LoopBreak(p) \/ ReadFails(p) \/ Read(p) \/ IncrTotal(p) \/ After(p)
  \/ Retry(p) \/ GiveUp(p) \/ Recover(p) \/ Finish(p)

MainStep ==
  \/ InitPart \/ InitPartFails
  \/ FallbackRestored \/ FallbackToSingle \/ AddTotalBar \/ AddTotalBarFails
  \/ NothingToPrepare \/ Abort \/ Collapse \/ JoinError \/ JoinPanic \/ Join
  \/ MergeSingle \/ MergeRefused \/ Concat \/ Classify \/ DumpState \/ CloseFiles

Next ==
  \/ MainStep
  \/ \E p \in Parts : PartStep(p)
  \/ ~Exited /\ (Waiter \/ Drain \/ Signal)
  \/ Terminated

Spec == Init /\ [][Next]_vars

\* Every goroutine is scheduled, and a request or a read ends, with its timeout
\* at the latest; the signal may never come.
Fairness ==
  /\ WF_vars(MainStep)
  /\ WF_vars(~Exited /\ Waiter)
  /\ WF_vars(~Exited /\ Drain)
  /\ \A p \in Parts : WF_vars(PartStep(p))

FairSpec == Spec /\ Fairness

-----------------------------------------------------------------------------
(* Properties that hold. *)

RunTypeOK ==
  /\ restored \in BOOLEAN
  /\ cap \in Nat
  /\ main \in {"launch", "abort", "abortPanic", "first", "collapse", "wait", "merge",
               "save", "dump", "close", "exited"}
  /\ nexti \in 1 .. (N + 1)
  /\ sessionSingle \in BOOLEAN
  /\ live \subseteq Parts
  /\ result \in {"none", "ok", "err", "panic"}
  /\ outcome \in {"none", "uncompleted", "completed", "uncompletedWithAdvance",
                  "completedWithError"}
  /\ dump \in [kind : {"none", "json", "recovered"}, written : [Parts -> Nat]]

SharedTypeOK ==
  /\ mctx \in BOOLEAN
  /\ ctx \in {"live", "session", "signal", "ended"}
  /\ first \in {"none", "partial", "fallback", "canceled"}
  /\ id \in 0 .. N
  /\ total \in 0 .. cap
  /\ bar \in BOOLEAN
  /\ errCh \in BOOLEAN
  /\ doneCount \in Nat

PartTypeOK ==
  /\ pc \in [Parts -> {"new", "wait", "won206", "won200", "loop", "incr", "after",
                       "failed", "panic", "exit", "end"}]
  /\ attempt \in [Parts -> 0 .. MaxTry]
  /\ body \in [Parts -> [from : Int, to : Int]]
  /\ err \in [Parts -> {"nil", "eof", "fail"}]
  /\ single \in [Parts -> BOOLEAN]
  /\ partial \in [Parts -> BOOLEAN]
  /\ start \in [Parts -> Int]
  /\ stop \in [Parts -> Int]
  /\ written \in [Parts -> Nat]
  /\ file \in [Parts -> Seq(Int \cup {Hole})]
  /\ fd \in [Parts -> {"nil", "append", "trunc", "merged", "removed"}]
  /\ pos \in [Parts -> Nat]

\* A goroutine that runs has been launched; a part is counted on totalCh only
\* while it is one of several.
LaunchOK ==
  /\ main = "launch" => nexti \in Parts
  /\ \A p \in Parts : pc[p] # "new" => p < nexti
  /\ \A p \in Parts : pc[p] = "incr" => ~single[p]

\* The shape of the state: totalCh never holds more than its capacity, no part
\* is tried more than --max-retry allows, and Run only collapses to a part that is
\* one.  current and output are sums over the parts and have no clause.
TypeOK == RunTypeOK /\ SharedTypeOK /\ PartTypeOK /\ LaunchOK

\* Part.init and merge judge a part's file by its size alone: Len(file) = Written
\* must mean that it holds the bytes Written says, in order, from Start on.
\* The range of a part with Stop <= 0 is always "bytes=0-": a 206 to a session of
\* unknown length, or of one byte, is left out.
SizeTellsTruth ==
  ~WriteFaults =>
    \A p \in Parts :
      /\ Len(file[p]) = written[p]
      /\ \/ fd[p] = "trunc"
         \/ fd[p] \in {"nil", "append"} /\ ContentLength > 1
      => file[p] = Slice(start[p], written[p])

\* What Run renames to the output when the session is completed
Output == IF fd[FirstPart] = "merged" THEN output ELSE file[FirstPart]

\* The file that Run renames to the output when it returns without an error is
\* the body: no byte is missing, repeated or out of place.
WholeWhenDone ==
  outcome = "completed" /\ result = "ok" => Output = Slice(0, Size)

\* Run goes on to merge only when each part it merges has all its bytes, although
\* doneCount counts parts and not which.
MergeFindsAllDone == main = "merge" => \A p \in live : IsDone(p)

\* part.go:53, "id must not be depleted until all parts done": while a part runs no
\* second part is elected, and Run finds the id it takes in fallback mode.
IdNotDepleted ==
  /\ first \in {"partial", "fallback"} /\ ~AllEnded => id # 0
  /\ main = "collapse" => id # 0

\* The assertion after wg.Wait, "done count != session parts", does not fail when
\* every part is answered 206, nor when none is and the session is new; see
\* ElectionWindow.cfg and CollapseCount.cfg for when it does.
DoneCountAgrees ==
  main = "wait" /\ AllEnded /\ ~errCh /\ ~mctx => doneCount = Cardinality(live)

\* Run has returned on the error of addTotalBar, with the parts still running.
EarlyReturn ==
  /\ result = "err" /\ first = "partial" /\ nexti > N
  /\ ~bar /\ ~sessionSingle

FileMatchesDump(p) ==
  dump.written[p] # 0 =>
    /\ Len(file[p]) = dump.written[p]
    /\ fd[p] \notin {"merged", "removed"}

\* "Session state saved; to resume run": Part.init of the next run accepts the
\* files of a saved session, whatever error, signal or panic has ended this one. A run
\* that Part.init has stopped at a file of another size is left out: the state it saves
\* says of that file what the one before said.
DumpResumable ==
  Exited /\ dump.kind # "none" /\ nexti > N /\ ~EarlyReturn => \A p \in live : FileMatchesDump(p)

\* Once the session is known to be partial and all its parts are launched, Run ends
\* whatever comes - a signal, errors, a panic of a part: no part stays blocked on
\* totalCh. A launch that stops at a file of another size is left out: Run then waits
\* for the parts it has launched (getparty.go:358-361), nobody reads totalCh, and a part
\* that has filled it stays there for good (progress.go:46).
ElectedTerminates == first = "partial" /\ nexti > N ~> Exited

\* A session whose answers are all 200 ends.
Terminates == <>Exited

-----------------------------------------------------------------------------
(* What the code, its comments and its messages say, and the code does not do. *)

\* part.go:322, "there is no way to resume on http.StatusOK so retry from
\* scratch": after the retry the file is as long as what was written to it.
RestartsFromScratch ==
  \A p \in Parts : fd[p] = "trunc" => Len(file[p]) \in {0, written[p]}

\* part.go:415, "expected EOF, got": a part that has its bytes has seen the end.
DoneMeansEOF ==
  \A p \in Parts : pc[p] = "after" /\ PartLen(p) > 0 /\ IsDone(p) => err[p] = "eof"

\* progress.go:43, "addTotalBar must be called before calling this one otherwise
\* incrTotal will block after p.totalCh is full": nobody is left blocked there
\* while Run waits for the parts without having called addTotalBar.
NoStuckOnTotal ==
  ~ \E p \in Parts : /\ pc[p] = "incr" /\ total = cap
                     /\ ~bar /\ main \in {"abort", "abortPanic", "collapse", "wait"}

\* getparty.go:322, "saved": what Run renames to the output, and drops the state
\* file for, is a completed download.
CompletedIsWhole ==
  Exited /\ outcome = "completed" /\ result # "err" => Output = Slice(0, Size)

=============================================================================
