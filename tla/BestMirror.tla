----------------------------- MODULE BestMirror -----------------------------
(***************************************************************************)
(* Cmd.bestMirror: a goroutine reads the lines of the mirror list, workers *)
(* query the mirrors it hands them over an unbuffered channel and put      *)
(* those that answer on the channel dst, and the caller collects them and  *)
(* sorts them.  Workers and reader share a context, which a signal, a      *)
(* malformed URL or a failed read of the list cancels.                     *)
(***************************************************************************)
EXTENDS Naturals, Sequences, FiniteSets, Functions

CONSTANTS
  Lines,      \* the list: mirrors, and Junk for comments and invalid lines
  Junk,
  Malformed,  \* the mirrors http.NewRequest may refuse
  Workers,    \* the worker goroutines
  Capacity,   \* of dst, the number of workers up to 8
  Pass,       \* --mirror.pass
  Durations   \* what a query may take

VARIABLES
  signal,     \* m.Ctx is canceled
  cause,      \* cause the context was canceled with by reader or worker, or "none"
  reader,     \* readLines: "scan", "send" or "closed", with its channel
  at,         \* the line it is at
  seen,       \* the mirrors it has handed over
  worker,     \* of each worker: "recv", "query", "send" or "end"
  url,        \* the mirror it works on
  passes,     \* queries of it that have succeeded
  sum,        \* and the time they took
  dst,        \* content of the channel
  mirrors,    \* what has been collected
  verdict,    \* "none" yet, "ok", "empty" (ErrMirrorNone) or "error"
  answered    \* mirrors all of whose queries succeeded: history

workerVars == <<worker, url, passes, sum>>
readerVars == <<reader, at, seen>>
mirrorVars == <<signal, cause, readerVars, workerVars, dst, mirrors, verdict, answered>>

Mirrors == {Lines[i] : i \in DOMAIN Lines} \ {Junk}

MirrorInit ==
  /\ cause = "none"
  /\ reader = "scan" /\ at = 1 /\ seen = {}
  /\ worker = [w \in Workers |-> "recv"] /\ url = [w \in Workers |-> Junk]
  /\ passes = [w \in Workers |-> 0] /\ sum = [w \in Workers |-> 0]
  /\ dst = <<>> /\ mirrors = <<>> /\ verdict = "none" /\ answered = {}

\* The call has returned: nothing of its state is left.
Forget ==
  /\ cause' = "none"
  /\ reader' = "scan" /\ at' = 1 /\ seen' = {}
  /\ worker' = [w \in Workers |-> "recv"] /\ url' = [w \in Workers |-> Junk]
  /\ passes' = [w \in Workers |-> 0] /\ sum' = [w \in Workers |-> 0]
  /\ dst' = <<>> /\ mirrors' = <<>> /\ verdict' = "none" /\ answered' = {}

Canceled == signal \/ cause # "none"
Cancel(why) == cause' = IF Canceled THEN cause ELSE why

-----------------------------------------------------------------------------
(* readLines.                                                              *)

Scan ==
  /\ reader = "scan" /\ at <= Len(Lines)
  /\ IF Lines[at] \in seen \cup {Junk}
       THEN at' = at + 1 /\ UNCHANGED reader
       ELSE reader' = "send" /\ UNCHANGED at
  /\ UNCHANGED <<signal, cause, seen, workerVars, dst, mirrors, verdict, answered>>

ScanEnds ==
  /\ reader = "scan" /\ at > Len(Lines) /\ reader' = "closed"
  /\ UNCHANGED <<signal, cause, at, seen, workerVars, dst, mirrors, verdict, answered>>

ScanFails ==
  /\ reader = "scan" /\ Cancel("scan") /\ reader' = "closed"
  /\ UNCHANGED <<signal, at, seen, workerVars, dst, mirrors, verdict, answered>>

ReaderStops ==
  /\ reader = "send" /\ Canceled /\ reader' = "closed"
  /\ UNCHANGED <<signal, cause, at, seen, workerVars, dst, mirrors, verdict, answered>>

-----------------------------------------------------------------------------
(* A worker.                                                               *)

\* The rendezvous of the reader and a worker; the line counts as seen only now.
Take(w) ==
  /\ worker[w] = "recv" /\ reader = "send"
  /\ url' = [url EXCEPT ![w] = Lines[at]]
  /\ worker' = [worker EXCEPT ![w] = "query"]
  /\ passes' = [passes EXCEPT ![w] = 0] /\ sum' = [sum EXCEPT ![w] = 0]
  /\ seen' = seen \cup {Lines[at]} /\ at' = at + 1 /\ reader' = "scan"
  /\ UNCHANGED <<signal, cause, dst, mirrors, verdict, answered>>

NoMore(w) ==
  /\ worker[w] = "recv" /\ reader = "closed"
  /\ worker' = [worker EXCEPT ![w] = "end"]
  /\ UNCHANGED <<signal, cause, readerVars, url, passes, sum, dst, mirrors, verdict, answered>>

\* http.NewRequest fails: the worker cancels all others.
Refuse(w) ==
  /\ worker[w] = "query" /\ url[w] \in Malformed
  /\ Cancel("request")
  /\ worker' = [worker EXCEPT ![w] = "end"]
  /\ UNCHANGED <<signal, readerVars, url, passes, sum, dst, mirrors, verdict, answered>>

Query(w, dur) ==
  /\ worker[w] = "query"
  /\ passes' = [passes EXCEPT ![w] = @ + 1] /\ sum' = [sum EXCEPT ![w] = @ + dur]
  /\ IF passes[w] + 1 = Pass
       THEN worker' = [worker EXCEPT ![w] = "send"] /\ answered' = answered \cup {url[w]}
       ELSE UNCHANGED <<worker, answered>>
  /\ UNCHANGED <<signal, cause, readerVars, url, dst, mirrors, verdict>>

\* Any pass that fails drops the mirror; after a cancellation it ends the worker.
QueryFails(w) ==
  /\ worker[w] = "query"
  /\ worker' = [worker EXCEPT ![w] = IF Canceled THEN "end" ELSE "recv"]
  /\ UNCHANGED <<signal, cause, readerVars, url, passes, sum, dst, mirrors, verdict, answered>>

SendMirror(w) ==
  /\ worker[w] = "send" /\ Len(dst) < Capacity
  /\ dst' = Append(dst, [url |-> url[w], dur |-> sum[w] \div Pass])
  /\ worker' = [worker EXCEPT ![w] = "recv"]
  /\ UNCHANGED <<signal, cause, readerVars, url, passes, sum, mirrors, verdict, answered>>

SendStops(w) ==
  /\ worker[w] = "send" /\ Canceled
  /\ worker' = [worker EXCEPT ![w] = "end"]
  /\ UNCHANGED <<signal, cause, readerVars, url, passes, sum, dst, mirrors, verdict, answered>>

-----------------------------------------------------------------------------
(* The caller.                                                             *)

Collect ==
  /\ verdict = "none" /\ dst # <<>>
  /\ mirrors' = Append(mirrors, Head(dst)) /\ dst' = Tail(dst)
  /\ UNCHANGED <<signal, cause, readerVars, workerVars, verdict, answered>>

\* slices.SortFunc leaves mirrors that took the same time in any order.
Sorted ==
  \E p \in Bijection(DOMAIN mirrors, DOMAIN mirrors) :
    /\ mirrors' = [i \in DOMAIN mirrors |-> mirrors[p[i]]]
    /\ \A i, j \in DOMAIN mirrors : i < j => mirrors'[i].dur <= mirrors'[j].dur

\* Mutant: what was collected is taken for the whole.
ReturnCollected ==
  /\ verdict = "none" /\ dst = <<>> /\ \A w \in Workers : worker[w] = "end"
  /\ verdict' = IF mirrors = <<>> THEN "empty" ELSE "ok"
  /\ Sorted
  /\ UNCHANGED <<signal, cause, readerVars, workerVars, dst, answered>>

\* dst is closed when the last worker has ended. Without a mirror the cause is lost.
Return ==
  /\ verdict = "none" /\ dst = <<>> /\ \A w \in Workers : worker[w] = "end"
  /\ verdict' = IF mirrors = <<>> THEN "empty" ELSE IF Canceled THEN "error" ELSE "ok"
  /\ IF verdict' = "ok" THEN Sorted ELSE UNCHANGED mirrors
  /\ UNCHANGED <<signal, cause, readerVars, workerVars, dst, answered>>

ReaderStep == Scan \/ ScanEnds \/ ScanFails \/ ReaderStops
WorkerStep(w) ==
  \/ Take(w) \/ NoMore(w) \/ Refuse(w) \/ (\E dur \in Durations : Query(w, dur))
  \/ QueryFails(w) \/ SendMirror(w) \/ SendStops(w)
CallerStep == Collect \/ Return

MirrorNext == ReaderStep \/ CallerStep \/ \E w \in Workers : WorkerStep(w)

\* A query ends, with its timeout at the latest, and so does the list: a terminal
\* at which nobody types any more is left out.
MirrorFairness ==
  /\ WF_mirrorVars(ReaderStep) /\ WF_mirrorVars(CallerStep)
  /\ \A w \in Workers : WF_mirrorVars(WorkerStep(w))

-----------------------------------------------------------------------------
MirrorTypeOK ==
  /\ signal \in BOOLEAN /\ cause \in {"none", "scan", "request"}
  /\ reader \in {"scan", "send", "closed"} /\ at \in 1..(Len(Lines) + 1)
  /\ seen \subseteq Mirrors /\ answered \subseteq seen
  /\ worker \in [Workers -> {"recv", "query", "send", "end"}]
  /\ Len(dst) <= Capacity
  /\ verdict \in {"none", "ok", "empty", "error"}

(* bestMirror returns mirrors without an error only when the whole list    *)
(* was read and each mirror that answered all its queries is there, once,  *)
(* the fastest first: neither a malformed line, nor a failed read of the   *)
(* list, nor a signal leaves a part of it for the whole (best_mirror.go:   *)
(* 150). Its comment (best_mirror.go:24) says that it is not empty then.   *)
OkIsComplete ==
  verdict = "ok" =>
    /\ seen = Mirrors
    /\ {mirrors[i].url : i \in DOMAIN mirrors} = answered
    /\ Len(mirrors) = Cardinality(answered) /\ mirrors # <<>>
    /\ \A i, j \in DOMAIN mirrors : i < j => mirrors[i].dur <= mirrors[j].dur
=============================================================================
