# getparty in TLA+

A verification project for [getparty](https://github.com/vbauerster/getparty), an
HTTP download manager in Go that fetches a file in several parts at once.  The
modules are translated from the source in `src/`; `PROJECT.json` maps every
definition to the lines it stands for, lists the runs, the mutants, the hazards
and the findings.

## 1. Inventory

### Components

| component | source | state | operations |
|---|---|---|---|
| `Session` | `session.go` | `ContentLength`, `Parts`, `Single`, `restored`, `Elapsed` | `makeParts`, `loadState`, `dumpState`, `merge`, `totalWritten` |
| `Part` | `part.go` | `Start`, `Stop`, `Written`, `single`, `output`; per call `partial`, `attempt`, `err` | `init`, `download`, `reset`, `getRange`, `len`, `isDone` |
| contexts | `part.go` 47-61, `getparty.go` 267, 334 | `Cmd.Ctx`, Run's `ctx`, `firstResp.ctx` and their causes; the channel `firstResp.id` (capacity 1) | send, receive, cancel with a cause |
| `Cmd.Run` | `getparty.go` 230-512 | where it is, `doneCount`, `errCh`, the named result `err` | launch, wait for the first status, collapse or add the total bar, join, merge, deferred save |
| total bar | `progress.go`, `getparty.go` 442-484 | `totalCh` and the stash of each reader | `incrTotal`, `addTotalBar`, the readers |
| `concat` | `getparty.go` 885-959 | the list of files of the round, `errCh` | one goroutine per pair, round after round |
| `outFile` | `out_file.go` | an `*os.File` or nil | `Open`, `Close`, `Write`, `Truncate`, `Stat` |
| `getState` | `getparty.go` 529-643 | options, the state file | restore, restore a state file found by chance, or a new session |
| `follow` | `getparty.go` 688-805 | `fc`, `attempt`, `location`, `timeout` | HEAD, redirect, retry |
| chunk scores | `chunk_scoring.go` | a heap of four sizes with success and failure counts, owned by a goroutine behind a channel | `get`, `put` |
| best mirror | `best_mirror.go` | worker pool, `src` and `dst` channels | `readLines`, `query`, sort |
| the rest | `decorators.go`, `loggers.go`, `errors.go`, `round_tripper_builder.go`, `cmd/getparty/main.go` | none that the download depends on | drawing, logging, configuration, exit codes |

### Interactions

`Run` starts one goroutine per part that is not complete.  The first part that
gets a status *elects* the mode of the session: it sends its `Id` on
`firstResp.id` and then cancels `firstResp.ctx` with `errContextPartial` (206) or
`errContextFallback` (200).  `Run` waits for that cancellation; a signal or the end
of all parts also ends the wait.  In fallback mode `Run` waits for the parts and
keeps only the elected one; in partial mode it adds the total bar and starts the
readers of `totalCh`, to which every part sends what it reads.  Then it waits for
the parts, looks at the first error and at the number of parts done, merges the
part files, and its deferred function decides by `Written` and `err` whether to
save the session, clean up, or rename the result.

### What is hard

* The election takes two steps, and a part may be answered in between.
* Statuses may differ from one request to the next, of one part or of several.
* A part's file, its `Written` and the range of its next request must agree after
  any failure, because a size is all that `Part.init` and `merge` ever compare.
* A send on `totalCh` blocks, and its readers exist only in partial mode.
* The timer of an attempt fires at any time, also with the last block.
* The deferred function of `Run` runs after errors, signals and panics alike.
* A session is restored after a crash or a signal, from files and a state that may
  not agree any more.

### What makes each component correct

* `makeParts`: every byte belongs to exactly one part, no part is tiny.
* `Part.download`: the file holds the bytes `Written` says, in order.
* election: one part is elected, its id is there when `Run` takes it.
* `Run`: merges complete parts only, reports what it saves truthfully, ends.
* `merge`: the output is the body, whatever happened before.
* save: the next run accepts the files of a saved session.
* score manager: a size that fails loses its place; no send on a closed channel.
* `follow`: at most `--max-follow` redirects and `--max-retry` retries.
* best mirror: ends, and on success returns every mirror that answered, fastest first.
* `getState`: the session is for the URL, headers and content of the last answer.
* one run after the other: what is called saved is the body; a stopped run leaves parts that
  are the body and files that agree with them.

The list `hazards` of `PROJECT.json` has these at the lines where they bite.

## 2. Plan

Written, in this order:

1. `Partition`, the closed forms of the bounds of the parts; `MakeParts`, the loop
   that computes them; `MakeParts_proofs`.
2. `Download`, one run from the session to the exit; `Download_proofs` and
   `DownloadFiles_proofs`.
3. `Merge`, what a merge of part files promises, and `Concat`, the rounds of `concat`,
   which implement it.
4. `ChunkScore`, the score manager and the attempts of a part that ask it.
5. `BestMirror` and `Follow`, and `GetState`, which composes the two.
6. `Resume`, several runs with kills between any two steps.

7. `Concat_proofs`, `ChunkScore_proofs`, `GetState_proofs`, `Resume_proofs`, and
   `Induction`, the lemmas on induction and recursion they share: a theorem for every
   safety invariant that a run checks, and for the refinement of `Merge`.

To be written:

8. The directory of the part files in `Resume` (section 6), and sessions whose server
   no longer tells `Accept-Ranges`.

## 3. Modules

### `Partition`, `MakeParts`, `MCMakeParts`, `MakeParts_proofs`

`MakeParts` is `Session.makeParts` with one step per iteration: `RejectZero` and
`RejectFragments` are its early returns, `EnterLoop` the code up to the loop,
`AddPart` an iteration, `Assign` what follows the loop.  The variables are the
local variables of the function and the fields it reads and writes.  `ToInt64` is the
conversion of the unsigned count, which wraps at `HalfWord`; `TruncDiv` is Go's
division.  `Partition` has the closed forms `PartStart` and `PartStop`, which
`Download` uses for the sessions it starts from; that the loop computes them is
`LoopComputesClosedForm`.

### `Download`, `MCDownload`, `Download_proofs`, `DownloadFiles_proofs`, `Induction`

The state is that of the goroutines and of what they share.  `main` and `nexti` say
where `Run` is; `pc[p]` says where the goroutine of part `p` is:

| `pc[p]` | the goroutine |
|---|---|
| `new` | has not been started (or the part was complete before) |
| `wait` | is in `httpClient.Do` |
| `won206`, `won200` | has sent its id and not yet canceled `firstResp.ctx` |
| `loop` | is at the head of the read loop, `body[p]` being what the response still has to give |
| `incr` | is in `incrTotal` |
| `after` | has left the read loop |
| `failed` | returns `retry = true` to `backoff` |
| `panic` | panics |
| `exit` | has returned from `download`; its deferred function is to run |
| `end` | has called `wg.Done` |

Each action is a stretch of code between two points where another goroutine can make
a difference: the sends and cancels of the election, `incrTotal`, a request, a
`CopyBuffer`, `wg.Wait`.  The writes of a part to its own fields belong to one of
these stretches.  `InitPart` launches a part; `Waiter` is the goroutine of lines
401-404, `Signal` the signal, `Drain` the readers of `totalCh`.  `Classify`,
`DumpState` and `CloseFiles` are the deferred function; once the process has exited
no part moves, before that the parts go on even while it saves (`Run` may have
returned early).

Data.  The body is the bytes `0 .. Size-1`; a file is the sequence of the body offsets
it holds, so a repetition, a gap, a hole (`Hole`) and a wrong order all show.
`fd[p]` holds the flags the file was opened with, because a write goes to the end of
the file with `O_APPEND` and to the offset `pos[p]` otherwise, which a truncation does
not move.  One `Read` is one `io.CopyBuffer`: any number of bytes, then either no
error, or the end of the body.  Errors are `fail`, the end of the body is
`eof`; which error it is makes no difference to the code but for `errTimeout`, and a
timeout and a failure are both retried.

The environment.  `Statuses` are what the server may answer, to each request anew;
`Unanswered` is a 5xx, a refused connection or a timeout, `ReadFails` and `LoopBreak`
the end of a response before its end.  `Damage` is by how many bytes a part file may
differ from the saved `Written` at the start: `-1`, `0` and `1` in `download_ranged` and
`download_mixed`, so that `Part.init` refuses some sessions in the middle of the launch
loop, `0` in the others; `WriteFaults` allows a write that fails after others of the
same call succeeded.

The initial states are a session just made, a session restored with `--session`
(`restored`), and one restored from a state file found next to the output, which has
`Written` but not `restored`.

### `Merge`, `Concat`, `MCConcat`, `Concat_proofs`

`Merge` is abstract: the body lies in pieces, two neighbours at a time become one.
`Concat` is `merge` from its size checks on and `concat`: `parts` is the list of the
round, `handle` the `os.File` of each part (nil, open for appending, open for reading,
closed), `worker[d]` the goroutine of the pair whose first file is `d`, `pos[d]` what it
has copied.  `Launch` and `LaunchFails` are the loop over the pairs, `NextRound` with
`Compact` the selection of the files that are still open, `RoundFailed` the look at
`errCh`.  A file is a sequence of blocks, one per read of `io.Copy`.  Every system call
may fail, and `concat` that returns on a failed `Open` leaves its goroutines running.

The refinement mapping takes the pieces from the files: a part belongs to the last of the
files that hold it whole.  A copy is invisible until the source is removed; that step is
`Join`.  A failed copy leaves a file with some blocks too many and nothing joined.

### `ChunkScore`, `ChunkScore_proofs`

`heap` is the slice of `priorityq` and the index each item keeps, with `container/heap`
as `Down`, `Up` and `Fix`; priorities are exact fractions.  `ServePut`, `ServeGet` and
`ServeEnds` are the manager, `Send`, `PutQuery`, `Ask` and `Answer` the two methods on
its channel, the rest is `Part.download` reduced to blocks read and attempts ended;
`retryPuts` are the goroutines a retry leaves behind to report.  A report that
comes after `Close` panics, and the model stops there (`panicked`).  After its report such a
goroutine may call `flashTimeout`: `flashes` counts the messages no frame has shown, of which the
channel holds one and the goroutines that wait in the send the others.  `Draw` is a frame;
there need be none.

### `BestMirror`, `Follow`, `GetState`, `MCGetState`, `GetState_proofs`

`BestMirror` has the reader of the list, the workers with the unbuffered channel between
them, `dst` and the caller that collects; `cause` and `signal` are the cancellation they
share.  `Sorted` is any order of the mirrors by time, because `slices.SortFunc` need not keep equal
elements in place, and only a query without an error sorts.  `Follow` is one call of `follow`: `fc` redirects in all, `left` the iterations
the `range` of this attempt still has, in unsigned words.  `GetState` is the `for` and
`switch` around them, with the variables of both; `gs` says where it is.  A second pass
through the switch finds `session`, `optHeaders` and `headers` (those of `patcher`)
as the first one left them, which is what `SessionConfirmed` is about.

### `Resume`, `Resume_proofs`

The disk (part files, the two state files, the output) outlives a run; everything else is
the memory of one run.  `StartNew`, `StartFound` and `StartNamed` are the three ways
`getState` comes to a session, `InitPart` and `InitPartFails` the launch loop with
the size check, `Answer206`, `Answer200`, `Answer200Panics` and `Write` the parts,
`Interrupt`, `RefuseFallback`, `Collapse`, `PartFailed`, `Done` and `DonePanics` the end of `Run`,
`CheckSizes` to `Merged` the merge, `CreateState` to `RenameFails` the deferred function,
`Kill` the end of the process at any point.  `DoneCount` is `doneCount` after `wg.Wait`: the parts
that were complete at the launch (`skipped`), also those a collapse has dropped since, and the
open ones that are done; `Run` panics where it is not the number of the parts, and then neither
`merge` nor its look at the sizes follows.  `dumpState` is two steps, because `os.Create`
empties the old file first.  A run is coarser than in `Download`: the election is
one step, and no request is retried, so that the files of one run are right unless the
disk was not what the session says.  Four history variables serve the properties: `sound`,
`suspect`, `refused` and `last`.

## 4. Runs

| run | instance | shows |
|---|---|---|
| `make_parts` | lengths -1..15, all counts of a 5-bit word, `MinFragment` 3 | `ClosedForm`, `EveryByteOnce`, `NoTinyPart` |
| `download_ranged` | 206, new and resumed sessions, files a byte short or long, fairness | `SizeTellsTruth`, `WholeWhenDone`, `DoneCountAgrees`, `DumpResumable`, `ElectedTerminates` |
| `download_fallback` | 200 and 404, new session, fairness | `SizeTellsTruth`, `WholeWhenDone`, `DoneCountAgrees`, `Terminates` |
| `download_mixed` | 200 and 206, all kinds of sessions, files a byte short or long while the total agrees | `SizeTellsTruth`, `WholeWhenDone`, `IdNotDepleted`, `MergeFindsAllDone` |
| `download_unknown` | 200 and 404, unknown length | `WholeWhenDone`, `Terminates` |
| `concat` | five files, one of two blocks, all faults | `MergedIsWhole`, `SizeStillTells`, `ImplementsMerge`, `Terminates` |
| `chunk_score` | four retries, a block an attempt, a channel of one, frames or none | `BestOnTop`, `FailuresReduce`, `ScoresSettled` |
| `get_state` | a list of five lines, two workers, two redirects, two retries, words of three bits | `MirrorsComplete`, `RedirectBudget`, `SessionConfirmed`, `Terminates` |
| `resume` | three runs, four bytes, one part or two | `SavedIsWhole`, `StillResumable`, `RefusedUntouched` |

Three more runs show the code to do other than it says; each checks one property that a
comment or a message of the source states, see section 6.

Bounds of `Download`.  Two parts of two bytes each are enough for an election between parts, for
a part that fails in the middle, and for a part to be complete while the other is not;
`totalCh` then has two places and a part sends up to three times, so it fills.  One
retry (`MaxTry = 1`) gives each part a first attempt, a second one after any failure,
and giving up.  `stuck_on_total` needs parts of three bytes.  `makeParts` is run over
every count of the word, the wrapping ones included; it is proved for every word.
In `download_mixed` the initial damage is the one the last check of `merge` cannot
see (`HiddenInit`): what one file has lost another has got.

Bounds of the others.  Five files make three rounds (5, 3, 2), two of them with an odd
file left over and the first with two goroutines at once; the file of two blocks lets
a copy fail in its middle.  The four sizes of the heap are those of the code; four retries
are enough for every size to have failed and for failures of one size to be
reported late.  The list of mirrors has a comment, a repetition and a line
that is no URL; a channel `dst` of one place makes the workers wait.  Three runs are one to
leave a state, one to make it out of date and one to resume it; two parts share the disk
with sessions of one part, and a part of two bytes can be half done.  `Resume` was also
run with four runs (15.5 million states) with the same result.

Fairness.  `Fairness` is weak fairness of `Run`, of each goroutine of a part, of the
waiter and of the readers: the Go scheduler runs every goroutine that can run, and
a request or a read ends at the latest with the timer of the attempt.  The signal has
none: nobody needs to press Ctrl-C.  No strong fairness is needed, because
retries are finite (`MaxTry = 1`; with 0, infinite, no run ends and none is claimed to).

In `Concat`, `ChunkScore` and `GetState` it is weak fairness of every goroutine as well, of
the goroutines of `concat` only while `merge` waits for them: after that the end of the
program may cut them off.  A query of a mirror and a HEAD end, with their timeouts at
the latest; that a `Scan` of the mirror list returns is assumed, and is so for a file.
`Resume` states none: its properties are about safety.

Deadlock.  A process that has exited stutters (`Terminated`), so a deadlock is a real
one.  `CHECK_DEADLOCK FALSE` stands in the runs with 206 because the code
really does stop there: a part blocked on `totalCh` for which `Run` waits, the
finding `stuck_on_total`.  `download_fallback` and `download_unknown`, without 206,
check deadlock.  The other models stop where their work is done, and liveness says that it is.

What the properties leave out is said with each of them, and is this. `DumpResumable`:
the early return of `Run` when the total bar cannot be added (see section 6), and a run
that `Part.init` stopped, whose damaged file is what it was. `ElectedTerminates`: the
same stopped run; if a part has been elected by then and has filled `totalCh`, `Run`
waits for it and never adds the readers (getparty.go 358-361, progress.go 46).
`SizeTellsTruth`: a 206 to a session of unknown length, or of at most one byte, whose
range is always `bytes=0-`. `RedirectBudget` leaves out the largest word for
`--max-follow`. `ScoresSettled` leaves out the panic of a late report, and says of the
goroutines of retries that they report, not that they end: one may wait in
`flashTimeout` for good (`FlashStuck.cfg`). `SavedIsWhole` leaves out three histories,
see the end of section 6. `StillResumable` says nothing of a run that was killed, of a
failed merge, of the fallback of a session that had bytes, and of a fallback that ended
while its session still had two parts: that one saves parts that overlap
(`PartsOverlap.cfg`).

## 5. Proofs

Every safety invariant of the listed passing runs, the action property
`RefusedUntouched` and the refinement `ImplementsMerge` are theorems, for every value of
the constants that the assumptions of the module allow.  Liveness (`ElectedTerminates`,
the `Terminates` of four runs, `ScoresSettled`) is only model-checked: the prover does not do
fairness.  The side configurations of section 6 say where a property stops holding; the
hypotheses of the theorems draw the same lines.

| property | theorem | assumed besides the constants' types |
|---|---|---|
| `TypeOK`, of every module | `TypeCorrect` | |
| `ClosedForm`, `EveryByteOnce`, `NoTinyPart` | `MakeParts_proofs` `LoopComputesClosedForm`, `PartsCutTheBody`, `PartsAreBalanced` | |
| `IdNotDepleted` | `Download_proofs` `ElectionStands` | |
| `MergeFindsAllDone` | `Download_proofs` `MergesDoneParts` | |
| `DoneCountAgrees` | `Download_proofs` `RangedCountAgrees` | no 200 |
| `DoneCountAgrees` | `Download_proofs` `FreshCountAgrees` | no 206, nothing written at the start |
| `SizeTellsTruth` | `DownloadFiles_proofs` `SizeIsTruthful` | no failing write (in the property) |
| `WholeWhenDone` | `DownloadFiles_proofs` `DoneIsWhole` | no failing write; `ContentLength > 1` if 206 is answered |
| `DumpResumable` | `DownloadFiles_proofs` `SavedStateFits` | no 200, undamaged files; the last of an odd number of parts is not complete at the start |
| `MergedIsWhole`, `SizeStillTells` | `Concat_proofs` `MergeWhole`, `SizesTell` | |
| `ImplementsMerge` | `Concat_proofs` `MergeRefined` | |
| `BestOnTop`, `FailuresReduce` | `ChunkScore_proofs` `TopIsBest`, `FailuresLeadDown` | |
| `RedirectBudget`, `MirrorsComplete`, `SessionConfirmed` | `GetState_proofs` `RedirectsBounded`, `MirrorsAreAll`, `SessionIsConfirmed` | |
| `SavedIsWhole`, `StillResumable`, `RefusedUntouched` | `Resume_proofs` `SavedWhole`, `StopsResumable`, `RefusedStays` | |

None of these is inductive; what makes each so is an invariant with a part for each
thing that can go wrong.

`Induction` has what the library gives only with an operator for a parameter.
`LeastNatural` comes from the well-founded inclusion of intervals, `SetInduction` from
it; `Recursion` says that a function over the naturals may be defined by recursion,
`RecursionUnique` that there is one, and `SumIsUpToN` that `SumFunctionOnSet` over
`1 .. n` is the sum taken in that order.  With these `Joined`, `BodyUpTo`, `Compact` and
the totals of `Written` can be reasoned about for any number of parts.

`MakeParts_proofs`.  `IInv` says what the loop has done so far:
the part `i` is `(i-1) * fragment .. i * fragment - 1`, `offset` is
`Len(parts) * fragment`, and an `n` above 1 has come with a fragment of at least
`MinFragment`.  The products need `DivisionBounds` (quotient and remainder of
`TruncDiv`) and `MultiplesGrow` (monotony); `EnterLoopCount` shows that a wrapped
count, which is negative, never passes the test of `minFragment`.

`Download_proofs`, the election.  `IInv` adds to the types that a part between its send
and its cancel (`won206`, `won200`) is the one whose id is in the channel, that the id
stays there as long as `Run` has not joined or a part runs, and that `Run` is in
`collapse` only after a fallback.

`Download_proofs`, the end of the parts.  `ModeInv` is about who may touch a file in
which way: a part whose file was truncated by a 200 was never answered 206 and is
answered again only in fallback mode, or not at all because the context is gone; the
elected part of a session that goes on trying has opened its file; `firstResp` is
canceled without a status only after `ctx`, or when all parts have ended.  `EndInv` says
what the ended parts have left: `CountInv`, that `doneCount` is the number of the
parts that are done or were skipped, and that a part that failed has left an error;
`ElectedInv`, that the part elected with 200 ends without an error only when it is
done; `LiveInv`, that `Run` keeps all parts, or, in fallback mode and with all ended, the
elected one; `CancelInv`, that a canceled context has a reason `Run` will see;
`MergeInv`, which is `MergeFindsAllDone` and what the merge needs beside it.

That the count is the number of the parts is true of fewer sessions.  With 206 only,
`RangedInv` says that a part which ends without an error is done.  With 200 only and
nothing written before, `FreshInv` says that nobody but the elected part has a byte.
Neither hypothesis can go: with both statuses a part answered between the send and the cancel
leaves without being counted (`ElectionWindow.cfg`), and with 200 only and parts complete
at the start the collapse keeps one part of those counted (`CollapseCount.cfg`).

`DownloadFiles_proofs`, the bytes.  `FileInv`: a file opened for appending has a part with a
range of its own, and holds the body from `Start` on if it is as long as `Written`; a
truncated one starts at 0 and either holds `Written` bytes, with its offset at the end
or nothing written, or has its offset at the end of a file that is longer (the hole of
`RestartHole.cfg`, which makes the size disagree and so never lies); and the next
byte of the response in the read loop is `Start + Written`.  `WholeInv` adds that a part
that appends has the bounds of `makeParts`, that a truncated file which ended
well has the whole body, and that what `Run` renames is fixed when it merges.
`JoinedIs` says that the files, one after the other, are the body up to the last byte
of the last of them.  That no write fails is needed (`WriteGap.cfg`).  So is
`Retriable`: a part with `Stop <= 0` asks for `bytes=0-` at every retry, so that a 206
appends the body a second time (part.go 430).

`DownloadFiles_proofs`, the saved state.  `SizesInv` has every file as long as `Written`,
failing writes included.  `MergedInv` says that after `concat` has taken files away
the session is whole, so `Classify` finds it completed and nothing is saved; this is where
the sum of `Written` (`AllWritten`) and the length of what is joined (`JoinedLen`) are
needed.  `SavedInv` says that no part runs once `Run` is over, but for the early return
that `DumpResumable` leaves out.  `KeptInv` is that the last part has its file open, for an
odd number of parts (the finding `concat_drop` is what happens without it).  With a 200
the property is false for the offset that a truncation leaves behind
(`RestartHole.cfg`), with damaged files for a new run of a state found by chance,
which accepts them.

`Concat_proofs`.  `OrderInv`: the list of the round goes up, begins with the first file and
misses no file that is left before its last (one behind it, that `concat` has dropped, may
be left).  `RoundInv` and `WorkerInv` say what each file's handle and goroutine are in this
round, `FileInv` that a file holds the body from its part's offset on, `LenInv` that it
reaches to the next file that is left, and, unless something has failed, further
by what a copy under way has given it only; `BarInv` that the total of the bar does not
overrun.  For the refinement the pieces are the
sets `Own(exists, p)`, from a file to the next one; only `Remove` changes them, and it
unites the sets of two neighbours.

`ChunkScore_proofs`.  A priority is a fraction, and "not higher" is a total
order of fractions (`HigherTotal` and the lemmas after it).  `HeapInv`: `at` and `index` are inverse
and no position is worth more than the one above it; `Down`, `Up` and `Fix` keep that up to the
one position whose priority has changed.  `WorthInv`: the priorities are those of the
counts.  `FailuresReduce` is read off the two.

`GetState_proofs`.  `FollowInv`: the redirects done in all attempts and the iterations
left in the `range` of this one are together `--max-follow` + 1; `SessionInv`: a session in hand
was answered to the headers `getState` still has; `MirrorInv`: a line is read once,
what was answered is queued or about to be sent unless somebody has canceled, and the
mirrors returned without an error are all of them.

`Resume_proofs`.  A file *fits* its part when it is at least as long as `Written`, and holds
the bytes when it is exactly as long: bytes that a kill or a lost state left uncounted only make
it longer, and a size that does not agree is refused.  Two files that fit no more are
those of a merge that was stopped: the first has *swallowed* the second (`Swallowed`), all
parts are done, and the first is too long for its part.  `DiskFits` has that for each state
file, `RunFits` for the session in memory and how far the merge has come, but for the
states in `suspect`; `ProgressInv` and `LastInv` say that `Written` never goes below what the
run began with, that of the state last saved.  `CutsInv`, inductive with the others, is that the
parts of what is `sound` cut the body until a fallback makes one of two the whole of it, and
that a session without bytes is reset before it collapses; `StillResumable` needs it beside
`LastInv`.  `RefusedInv` says that a run that refuses a
file has touched it neither before nor after.  `AbsenceAssumption` says that the
model values for a missing file or state are not files or states.

How the proofs go.  A lemma for each action, and one for a step that leaves the parts or the
files in question alone; `PartStepLocal` says that a part touches no file but its
own.  The definitions are opened where they are needed; what a recursive function does is
behind a lemma.  The constants' assumptions are checked by TLC in every run.

## 6. Findings

Listed runs:

| run | what the code does |
|---|---|
| `stuck_on_total` | `Run` waits forever for a part blocked on `totalCh` (progress.go 46) |
| `concat_drop` | `concat` drops the last of an odd number of files when it was complete before the session was restored, and the merge of a healthy session fails (getparty.go 952) |
| `panic_completed` | a panic of `Run` on a session that cannot be resumed renames the partial file to the output (getparty.go 272, 314-322) |

Configurations kept beside the listed runs, under which TLC finds a counterexample too
(`tlc -config RestartHole.cfg MCDownload`, `tlc -config ScoreClimbs.cfg ChunkScore`,
`tlc -config PartsOverlap.cfg Resume`):

| configuration | property | what the code does |
|---|---|---|
| `RestartHole.cfg` | `RestartsFromScratch` | a retry after a 200 truncates the file but writes on at the old offset (part.go 321-327) |
| `ElectionWindow.cfg` | `DoneCountAgrees` | a part answered between the send and the cancel of the election leaves without a trace, and `Run` panics (part.go 270-272, 313-319) |
| `CollapseCount.cfg` | `DoneCountAgrees` | a part complete in a state found next to the output stays in `doneCount` when a 200 makes another part the only one, and `Run` panics (getparty.go 365, 506) |
| `LostEnd.cfg` | `DoneMeansEOF` | a timer that fires with the last block makes a complete part panic (part.go 415) |
| `WriteGap.cfg` | `WholeWhenDone` | bytes of a failed write are lost and no size tells (part.go 365) |
| `FlashStuck.cfg` | `FlashRoom` | the part has returned, its bar is drawn no more, and the goroutine of a second timeout waits to send on the channel of the flash (part.go 227, decorators.go 43-46) |
| `PartsOverlap.cfg` | `SavedCutsBody` | a fallback that is refused or interrupted before `Run` drops the other parts saves the elected one as the whole body beside them, and calls that a state to resume from (part.go 311, getparty.go 287, 412-421) |
| `ScoreClimbs.cfg` | `SizeReduced` | when the smallest size fails about as often as it succeeds, the largest, which never succeeded, is worth more, and a timeout is followed by it (chunk_scoring.go 53-63) |

`panic_completed` needs a server that announced ranges when the state was saved and has
stopped to, and answers 200 now; `WriteGap.cfg` needs a file system whose writes fail
and later succeed.

Others are in a model and have no run of their own.

* When the total bar cannot be added `Run` returns without waiting for the parts
  (`AddTotalBarFails` of `Download`, getparty.go 450-452), and the `Written` it saves can
  be behind the files.
* An error of `Part.init` ends in a panic of the deferred function, which calls `Stat` on
  the nil output of the parts not yet initialised (`CloseFiles`, getparty.go 298).
* `concat` that cannot open a file returns without waiting for its goroutines
  (`LaunchFails` of `Concat`, getparty.go 904, 911).
* A cancellation with no mirror collected is reported as `ErrMirrorNone` (`Return` of
  `BestMirror`, best_mirror.go 147-149).
* A report of a retry that is slower than the return of the part is sent on a closed
  channel (`RetryPut` of `ChunkScore`, part.go 224).
* When `Part.init` refuses a file `Run` cancels and waits for the parts it has launched; one
  that was elected and has filled `totalCh` does not end (`InitPartFails` of `Download`,
  getparty.go 358-361).
* The parts that `PartsOverlap.cfg` saves are of no use to a later run: concatenated they are
  longer than the body, and `merge` refuses them each time (session.go 91-107).

Three histories of `Resume` can end with a file that is called saved and is not the body;
`SavedIsWhole` names them.  A restored session is answered 200 by a part with nothing
written: it is truncated and filled until `Run` panics, and when the sum of `Written` is
by then the length, the deferred function, for which `err` is nil, renames the first file
(getparty.go 417, 272).  A session found next to the output has a complete part, and another
one gets a 200: what is left after the collapse is one part, `doneCount` says two, `Run`
panics with `err` nil, and the file is renamed without the size check of `merge`; with
a retry before, which leaves a hole (`RestartHole.cfg`; `Resume` has no retries), it is not the body
(getparty.go 365, 508).  And a state saved as `.recovered` is passed over by a new run,
whose server ignores ranges: it truncates a part file and is killed; if the file
is then as long as the recovered state says, the state is resumed on top of it
(part.go 302, 131).

One more is beside the models: a session started with `-o dir/file` saves
`dir/file.json`, and when that is resumed `session.dir` is `dir` and `OutputName` still
`dir/file`, so that `Part.init` looks for `dir/dir/file.01` and refuses (getparty.go 594,
part.go 124).

## 7. Not modelled

Drawing, logging, options, TLS, passwords, output names and exit codes have no state
that the download depends on.  In `Download` these are left
out: the speed limit (it only delays), the bars, `expvar`, errors of closing, renaming
and of `dumpState` (each is logged or ends the process after the decision was made),
a server that changes the body between requests, and errors in the middle of
`concat`, which `Concat` has.  `Resume` leaves out names of files, retries, sessions that
cannot be resumed and a body that is another one with the same length.  `GetState`
leaves out what a file name or a cookie does to a request, `BestMirror` a list typed at a
terminal, `ChunkScore` the bytes behind a size, which `Download` has as "any number".
