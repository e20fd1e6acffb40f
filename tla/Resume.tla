------------------------------- MODULE Resume -------------------------------
(***************************************************************************)
(* Run after run of getparty on one URL, in one directory, with crashes    *)
(* between any two steps.  A run makes a session, finds one in the state   *)
(* file next to the output, or is given a state file with --session; what  *)
(* it leaves on the disk is all that the next one knows.                   *)
(*                                                                         *)
(* The part files have one name for all sessions, <output>.<id>, however   *)
(* many parts a session has.  A state saved after a signal or an error is  *)
(* <output>.json, after a panic or a refused file <output>.recovered.      *)
(*                                                                         *)
(* A run is less detailed than in Download: an answer elects the mode in   *)
(* one step and no request is retried.  The server always tells the length *)
(* and "Accept-Ranges: bytes", whatever it then does.                      *)
(***************************************************************************)
EXTENDS Partition, Sequences, FiniteSets, Functions

CONSTANTS
  Length,    \* of the body
  Counts,    \* values of --parts
  MaxRuns,   \* bound on the number of runs
  Absent, None, Broken

ASSUME ResumeAssumption ==
  /\ Counts \subseteq {1, 2} /\ Length \in Nat /\ Length >= 4
  /\ MaxRuns \in Nat

\* What is not there is told from what is.
ASSUME AbsenceAssumption ==
  /\ Absent \notin Seq(Int)
  /\ {None, Broken} \cap [single : BOOLEAN,
                         parts : Seq([id : Int, start : Int, stop : Int, written : Int])] = {}

Kinds == {"json", "recovered"}
Ids == {1, 2}

VARIABLES
  \* the disk
  file,      \* content of each part file, as offsets of the body, or Absent
  state,     \* each state file: None, Broken while it is being written, or its content
  output,    \* Absent, or its bytes and whether "merge" or "panic" led to the rename
  \* the run
  phase,     \* "idle", "launch", "download", "merge", "concat", "finish",
             \* "end", "save" or "close"
  runs,      \* runs there have been
  name,      \* opt.SessionName: "none" or the kind of state file
  restored,  \* session.restored
  single,    \* session.Single
  parts,     \* session.Parts
  begun,     \* session.totalWritten() at the start
  next,      \* the part the launch loop is at
  skipped,   \* parts it has found complete: doneCount before any part has ended
  mode,      \* "none", "partial" or "fallback"
  elected,   \* index of the part that was answered first
  open,      \* indexes of the parts that have opened their files
  canceled,  \* the context was canceled with errSessionCanceled
  err,       \* result of Run
  \* history
  sound,     \* when the session started its parts were the body and the part files what
             \* it said of them, and no merge has touched them since
  suspect,   \* the states, and "run", that count on a file which a run has since truncated,
             \* merged away or renamed
  refused,   \* the files whose size was not what the restored session said
  last       \* the state the last run saved, when it was sound

diskVars == <<file, state, output>>
sessionVars == <<name, restored, single, parts>>
endVars == <<canceled, err>>
historyVars == <<sound, suspect, refused, last>>
launchVars == <<next, skipped>>
vars == <<diskVars, phase, runs, sessionVars, begun, launchVars, mode, elected, open, endVars, historyVars>>

Slice(from, to) == [k \in 1..(to - from) |-> from + k - 1]
Body == Slice(0, Length)

Bytes(id) == IF file[id] = Absent THEN <<>> ELSE file[id]
SizeIs(id, n) == file[id] # Absent /\ Len(file[id]) = n

PartLen(p) == p.stop - p.start + 1
IsDone(p) == p.written = PartLen(p)
IsContentDownloaded(p) == p.written # 0 /\ IsDone(p)
Total(ps) == SumFunctionOnSet([i \in DOMAIN ps |-> ps[i].written], DOMAIN ps)

\* The part files are what the session ps says, byte by byte.
Matches(ps) ==
  \A i \in DOMAIN ps : Bytes(ps[i].id) = Slice(ps[i].start, ps[i].start + ps[i].written)

\* Its parts, one after the other, are the body.
CutsBody(ps) ==
  /\ ps[1].start = 0 /\ ps[Len(ps)].stop = Length - 1
  /\ \A i \in 1..(Len(ps) - 1) : ps[i + 1].start = ps[i].stop + 1

Resumable(ps) == Matches(ps) /\ CutsBody(ps)

Init ==
  /\ file = [id \in Ids |-> Absent] /\ state = [k \in Kinds |-> None] /\ output = Absent
  /\ phase = "idle" /\ runs = 0
  /\ name = "none" /\ restored = FALSE /\ single = FALSE /\ parts = <<>>
  /\ begun = 0 /\ next = 1 /\ skipped = 0 /\ mode = "none" /\ elected = 0 /\ open = {}
  /\ canceled = FALSE /\ err = "nil"
  /\ sound = FALSE /\ suspect = {} /\ refused = {} /\ last = "none"

-----------------------------------------------------------------------------
(* getState.                                                               *)

MakeParts(n) ==
  [i \in 1..n |-> [id |-> i, start |-> PartStart(Length, n, i), stop |-> PartStop(Length, n, i),
                   written |-> 0]]

Start(kind, again, one, ps) ==
  /\ phase = "idle" /\ runs < MaxRuns
  /\ phase' = "launch" /\ runs' = runs + 1
  /\ name' = kind /\ restored' = again /\ single' = one /\ parts' = ps
  /\ begun' = Total(ps) /\ next' = 1 /\ skipped' = 0
  /\ mode' = "none" /\ elected' = 0 /\ open' = {}
  /\ canceled' = FALSE /\ err' = "nil"
  /\ sound' = Resumable(ps) /\ last' = "none"
  /\ suspect' = (suspect \ {"run"}) \cup IF kind \in suspect THEN {"run"} ELSE {}
  /\ refused' = {ps[i].id : i \in {j \in DOMAIN ps :
                   again /\ ps[j].written # 0 /\ ~SizeIs(ps[j].id, ps[j].written)}}
  /\ UNCHANGED <<file, state>>

\* An output that is there is removed, if the user or --force says so.
StartNew(n) ==
  /\ state["json"] = None
  /\ Start("none", FALSE, n = 1, MakeParts(n)) /\ output' = Absent

Loaded(kind) == state[kind] \notin {None, Broken}

\* Next to the output; restored only if the headers are not the same.
StartFound(again) ==
  /\ Loaded("json")
  /\ Start("json", again, state["json"].single, state["json"].parts)
  /\ UNCHANGED output

StartNamed(kind) ==
  /\ Loaded(kind)
  /\ Start(kind, TRUE, state[kind].single, state[kind].parts)
  /\ UNCHANGED output

-----------------------------------------------------------------------------
(* The launch loop and the parts.                                          *)

\* Mutant: only that the file is there is checked.
FileFitsAnyhow(p) == restored /\ p.written # 0 => file[p.id] # Absent

FileFits(p) == restored /\ p.written # 0 => SizeIs(p.id, p.written)

InitPart ==
  /\ phase = "launch" /\ next <= Len(parts) /\ FileFits(parts[next])
  /\ next' = next + 1
  /\ skipped' = IF IsContentDownloaded(parts[next]) THEN skipped + 1 ELSE skipped
  /\ UNCHANGED <<diskVars, phase, runs, sessionVars, begun, mode, elected, open, endVars, historyVars>>

InitPartFails ==
  /\ phase = "launch" /\ next <= Len(parts) /\ ~FileFits(parts[next])
  /\ phase' = "end" /\ canceled' = TRUE /\ err' = "size"
  /\ UNCHANGED <<diskVars, runs, sessionVars, begun, launchVars, mode, elected, open, historyVars>>

Launched ==
  /\ phase = "launch" /\ next > Len(parts) /\ phase' = "download"
  /\ UNCHANGED <<diskVars, runs, sessionVars, begun, launchVars, mode, elected, open, endVars, historyVars>>

Downloading(i) ==
  /\ phase \in {"launch", "download"}
  /\ i \in DOMAIN parts /\ i < next /\ ~IsContentDownloaded(parts[i])

\* Mutant: opened without O_APPEND, with O_TRUNC.
OpenedTruncated(id) == <<>>

\* O_CREATE|O_APPEND
Opened(id) == Bytes(id)

\* The first answer, or a later one, is 206.
Answer206(i) ==
  /\ Downloading(i) /\ mode # "fallback" /\ i \notin open
  /\ mode' = "partial"
  /\ elected' = IF mode = "none" THEN i ELSE elected
  /\ open' = open \cup {i}
  /\ file' = [file EXCEPT ![parts[i].id] = Opened(parts[i].id)]
  /\ UNCHANGED <<state, output, phase, runs, sessionVars, begun, launchVars, endVars, historyVars>>

\* The states that say the file has bytes.
CountsOn(id) ==
  {k \in Kinds : Loaded(k) /\ \E j \in DOMAIN state[k].parts :
                   state[k].parts[j].id = id /\ state[k].parts[j].written # 0}

\* Mutant: Stop taken for the byte after the last.
ResetStopExclusive == Length

\* Part.reset
ResetStop == Length - 1

\* The first answer is 200, O_CREATE|O_TRUNC: the part restarts as the whole body.
Answer200(i) ==
  /\ Downloading(i) /\ mode = "none" /\ parts[i].written = 0
  /\ mode' = "fallback" /\ elected' = i /\ open' = {i}
  /\ file' = [file EXCEPT ![parts[i].id] = <<>>]
  /\ parts' = [parts EXCEPT ![i].start = 0, ![i].stop = ResetStop]
  /\ suspect' = suspect \cup CountsOn(parts[i].id)
  /\ UNCHANGED <<state, output, phase, runs, name, restored, single, begun, launchVars, endVars,
                 sound, refused, last>>

\* The first answer is 200 to a part that asked for its rest.
Answer200Panics(i) ==
  /\ Downloading(i) /\ mode = "none" /\ parts[i].written # 0
  /\ mode' = "fallback" /\ elected' = i
  /\ canceled' = TRUE /\ err' = "panic of a part"
  /\ UNCHANGED <<diskVars, phase, runs, sessionVars, begun, launchVars, open, historyVars>>

Write(i) ==
  /\ Downloading(i) /\ i \in open /\ ~IsDone(parts[i])
  /\ file' = [file EXCEPT ![parts[i].id] = Append(@, parts[i].start + parts[i].written)]
  /\ parts' = [parts EXCEPT ![i].written = @ + 1]
  /\ UNCHANGED <<state, output, phase, runs, name, restored, single, begun, launchVars, mode, elected,
                 open, endVars, historyVars>>

-----------------------------------------------------------------------------
(* Run, once its parts have ended.                                         *)

\* A signal, or a part that gives up or, with errSessionCanceled, panics.  When the
\* signal comes first Run has not looked at the mode.
Interrupt ==
  /\ phase = "download" /\ err = "nil" /\ phase' = "end"
  /\ err' = "stopped" /\ canceled' \in IF mode = "none" THEN {FALSE} ELSE BOOLEAN
  /\ UNCHANGED <<diskVars, runs, sessionVars, begun, launchVars, mode, elected, open, historyVars>>

\* The fallback of a restored session: Run panics, and err stays nil.
RefuseFallback ==
  /\ phase = "download" /\ mode = "fallback" /\ restored
  /\ phase' = "end" /\ canceled' = TRUE /\ err' = "nil"
  /\ UNCHANGED <<diskVars, runs, sessionVars, begun, launchVars, mode, elected, open, historyVars>>

\* The fallback of any other. Run waits for the part first, which here may go on:
\* until it ends nothing depends on which comes first.
Collapse ==
  /\ phase = "download" /\ mode = "fallback" /\ ~restored /\ ~single
  /\ single' = TRUE /\ parts' = <<parts[elected]>> /\ elected' = 1
  /\ open' = (IF open = {} THEN {} ELSE {1}) /\ next' = 2
  /\ sound' = (sound /\ begun = 0)
  /\ UNCHANGED <<diskVars, phase, runs, name, restored, begun, skipped, mode, endVars, suspect, refused, last>>

PartFailed ==
  /\ phase = "download" /\ err # "nil" /\ phase' = "end"
  /\ (mode = "fallback" => ~restored /\ single)
  /\ UNCHANGED <<diskVars, runs, sessionVars, begun, launchVars, mode, elected, open, endVars, historyVars>>

\* Every part has ended without an error, and all that are left have their bytes.
Joined ==
  /\ phase = "download" /\ err = "nil" /\ \A i \in DOMAIN parts : IsDone(parts[i])
  /\ (mode = "fallback" => ~restored /\ single)

\* Of the parts that have run, those that are done have opened their files.
DoneCount == skipped + Cardinality({i \in open : IsDone(parts[i])})

Done ==
  /\ Joined /\ DoneCount = Len(parts)
  /\ phase' = "merge"
  /\ UNCHANGED <<diskVars, runs, sessionVars, begun, launchVars, mode, elected, open, endVars, historyVars>>

\* A part that was complete at the start has been counted and then dropped by Collapse:
\* Run panics, and err stays nil.
DonePanics ==
  /\ Joined /\ DoneCount # Len(parts)
  /\ phase' = "end" /\ canceled' = TRUE
  /\ UNCHANGED <<diskVars, runs, sessionVars, begun, launchVars, mode, elected, open, err, historyVars>>

-----------------------------------------------------------------------------
(* merge, and concat of two files: Concat has its rounds.                  *)

First == parts[1].id
Last == parts[Len(parts)].id

\* Mutant: the length of what was merged is not looked at.
HasLengthAnyhow == file[First] # Absent

HasLength == SizeIs(First, Length)

SizesAgree == \A i \in DOMAIN parts : SizeIs(parts[i].id, parts[i].written)

Concatenating == phase \in {"merge", "concat", "finish"}

CheckSizes ==
  /\ phase = "merge" /\ (single \/ SizesAgree)
  /\ phase' = IF single THEN "finish" ELSE "concat"
  /\ UNCHANGED <<diskVars, runs, sessionVars, begun, launchVars, mode, elected, open, endVars, historyVars>>

\* A size that does not agree.
MergeRefused ==
  /\ \/ phase = "merge" /\ ~single /\ ~SizesAgree
     \/ phase = "finish" /\ ~HasLength
  /\ phase' = "end" /\ err' = "size"
  /\ UNCHANGED <<diskVars, runs, sessionVars, begun, launchVars, mode, elected, open, canceled, historyVars>>

\* A system call that fails.
MergeFails ==
  /\ Concatenating /\ phase' = "end" /\ err' = "io"
  /\ UNCHANGED <<diskVars, runs, sessionVars, begun, launchVars, mode, elected, open, canceled, historyVars>>

Copied == Len(file[First]) - parts[1].written

CopyByte ==
  /\ phase = "concat" /\ Copied < Len(file[Last])
  /\ file' = [file EXCEPT ![First] = Append(@, file[Last][Copied + 1])]
  /\ sound' = FALSE
  /\ UNCHANGED <<state, output, phase, runs, sessionVars, begun, launchVars, mode, elected, open, endVars,
                 suspect, refused, last>>

RemoveMerged ==
  /\ phase = "concat" /\ Copied = Len(file[Last])
  /\ file' = [file EXCEPT ![Last] = Absent]
  /\ suspect' = suspect \cup CountsOn(Last) /\ phase' = "finish"
  /\ UNCHANGED <<state, output, runs, sessionVars, begun, launchVars, mode, elected, open, endVars,
                 sound, refused, last>>

Merged ==
  /\ phase = "finish" /\ HasLength /\ phase' = "end"
  /\ UNCHANGED <<diskVars, runs, sessionVars, begun, launchVars, mode, elected, open, endVars, historyVars>>

-----------------------------------------------------------------------------
(* The deferred function of Run.                                           *)

\* stateQuery
Outcome ==
  IF Total(parts) = Length THEN IF err = "nil" THEN "completed" ELSE "withError"
  ELSE IF Total(parts) # begun THEN "advance" ELSE "uncompleted"

Kind == IF canceled THEN "recovered" ELSE "json"

\* os.Create, and with it the end of what the file held.
CreateState ==
  /\ phase = "end" /\ Outcome \in {"advance", "withError"}
  /\ state' = [state EXCEPT ![Kind] = Broken]
  /\ phase' = "save"
  /\ UNCHANGED <<file, output, runs, sessionVars, begun, launchVars, mode, elected, open, endVars, historyVars>>

\* The elected part is the whole body beside another part of it.
Overlapping == mode = "fallback" /\ Len(parts) > 1

EncodeState ==
  /\ phase = "save" /\ phase' = "close"
  /\ state' = [state EXCEPT ![Kind] = [single |-> single, parts |-> parts]]
  /\ suspect' = IF "run" \in suspect THEN suspect \cup {Kind} ELSE suspect \ {Kind}
  /\ last' = IF sound THEN Kind ELSE "none"
  /\ UNCHANGED <<file, output, runs, sessionVars, begun, launchVars, mode, elected, open, endVars,
                 sound, refused>>

\* Part.init has not been called for a part beyond the one it failed for: its output
\* is nil, and the panic leaves the loop there.
Empty(id) ==
  \E i \in DOMAIN parts : i <= next /\ parts[i].id = id /\ parts[i].written = 0 /\ file[id] = <<>>

CloseFiles ==
  /\ \/ phase = "close"
     \/ phase = "end" /\ Outcome = "uncompleted"
  /\ file' = [id \in Ids |-> IF Empty(id) THEN Absent ELSE file[id]]
  /\ last' = IF phase = "end" /\ sound THEN name ELSE last
  /\ phase' = "idle"
  /\ UNCHANGED <<state, output, runs, sessionVars, begun, launchVars, mode, elected, open, endVars,
                 sound, suspect, refused>>

\* Sync, Close, Rename, and the state file the session came from is removed.
Complete ==
  /\ phase = "end" /\ Outcome = "completed" /\ file[First] # Absent
  /\ output' = [bytes |-> file[First],
                by |-> IF canceled THEN "panic" ELSE IF "run" \in suspect THEN "suspect" ELSE "merge"]
  /\ file' = [file EXCEPT ![First] = Absent]
  /\ state' = [k \in Kinds |-> IF k = name THEN None ELSE state[k]]
  /\ suspect' = suspect \cup CountsOn(First)
  /\ phase' = "idle"
  /\ UNCHANGED <<runs, sessionVars, begun, launchVars, mode, elected, open, endVars, sound, refused, last>>

RenameFails ==
  /\ phase = "end" /\ Outcome = "completed" /\ phase' = "idle"
  /\ UNCHANGED <<diskVars, runs, sessionVars, begun, launchVars, mode, elected, open, endVars, historyVars>>

-----------------------------------------------------------------------------
\* What is in memory is gone, wherever the run was.
Kill ==
  /\ phase # "idle" /\ phase' = "idle"
  /\ sound' = FALSE /\ last' = "none"
  /\ UNCHANGED <<diskVars, runs, sessionVars, begun, launchVars, mode, elected, open, endVars,
                 suspect, refused>>

GetState ==
  (\E n \in Counts : StartNew(n)) \/ (\E again \in BOOLEAN : StartFound(again))
  \/ \E kind \in Kinds : StartNamed(kind)

PartStep(i) == Answer206(i) \/ Answer200(i) \/ Answer200Panics(i) \/ Write(i)

Run ==
  \/ InitPart \/ InitPartFails \/ Launched
  \/ Interrupt \/ RefuseFallback \/ Collapse \/ PartFailed \/ Done \/ DonePanics

MergeStep == CheckSizes \/ MergeRefused \/ MergeFails \/ CopyByte \/ RemoveMerged \/ Merged

Deferred == CreateState \/ EncodeState \/ CloseFiles \/ Complete \/ RenameFails

Next == GetState \/ Run \/ MergeStep \/ Deferred \/ Kill \/ \E i \in Ids : PartStep(i)

Spec == Init /\ [][Next]_vars

-----------------------------------------------------------------------------
IsSession(ps) ==
  /\ Len(ps) \in 0..2
  /\ \A i \in DOMAIN ps :
       /\ ps[i].id \in Ids /\ ps[i].start \in 0..Length /\ ps[i].stop \in 0..(Length - 1)
       /\ ps[i].written \in 0..PartLen(ps[i])

TypeOK ==
  /\ \A id \in Ids : file[id] # Absent => \A k \in DOMAIN file[id] : file[id][k] \in 0..(Length - 1)
  /\ \A k \in Kinds : Loaded(k) => IsSession(state[k].parts) /\ state[k].parts # <<>>
  /\ phase \in {"idle", "launch", "download", "merge", "concat", "finish", "end", "save", "close"}
  /\ name \in Kinds \cup {"none"} /\ IsSession(parts)
  /\ mode \in {"none", "partial", "fallback"} /\ open \subseteq DOMAIN parts

(* "saved" is said (getparty.go:322) of the body only, after any history   *)
(* of kills, signals, panics, other numbers of parts and state files that  *)
(* are out of date: bytes that nobody counted make a file too long, and    *)
(* the sizes merge looks at tell (session.go:91, 109). Three histories are *)
(* left out. A run from a state that counts on a file which a run, the one *)
(* that loaded it included, has since truncated, merged away or renamed    *)
(* (part.go:302, getparty.go:925, 317): the new bytes may have the size.   *)
(* And the two panics that leave err nil, after which the bytes are only   *)
(* counted and merge's look at the sizes is skipped: a restored session    *)
(* that gets a 200 (getparty.go:417), and a found one that gets a 200      *)
(* beside a part that was complete (getparty.go:508).                      *)
SavedIsWhole ==
  output # Absent => (output.by = "merge" => output.bytes = Body)

(* A run that starts from parts that are the body and files as its session *)
(* says of them, and is stopped by a signal, an error or a panic, leaves a *)
(* state file of which the same is true, with no less in all than the run  *)
(* started with: the next one has only to fetch the rest (part.go:131,     *)
(* getparty.go:275-321). Left out are a run that was killed, a failed      *)
(* merge, the fallback of a session that had bytes, and a fallback that    *)
(* ends before its session is one part (getparty.go:412, 487): the last    *)
(* saves two parts that overlap, and no run completes them; see            *)
(* SavedCutsBody.                                                          *)
StillResumable ==
  phase = "idle" /\ last # "none" /\ ~Overlapping =>
    Loaded(last) /\ Resumable(state[last].parts) /\ Total(state[last].parts) >= begun

(* "Session state saved; to resume run" (getparty.go:287): the parts of    *)
(* every saved state are the body. They are not after a fallback that was  *)
(* refused or stopped before Run kept the one part (part.go:311).          *)
SavedCutsBody == \A k \in Kinds : Loaded(k) => CutsBody(state[k].parts)

(* A part file whose size is not what the state file says is never         *)
(* touched by a run restored from it, whatever the parts launched before   *)
(* it and the deferred function do (part.go:131, getparty.go:357).         *)
RefusedUntouched == [][\A id \in refused : file'[id] = file[id]]_vars
=============================================================================
