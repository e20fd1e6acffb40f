----------------------------- MODULE ChunkScore -----------------------------
(***************************************************************************)
(* The sizes of the blocks a part reads: chunkScoreManager with its        *)
(* priority queue, and the attempts of Part.download that ask it for a     *)
(* size and report how the size did.                                       *)
(*                                                                         *)
(* Goroutines: the part, the manager (serve), and one for every retry,     *)
(* which reports a failure on the channel scoreManager and, if that was a  *)
(* timeout, makes the bar of the part flash, over a channel of its own.    *)
(* An attempt is a number of blocks and an end: what the answers are is in *)
(* Download.  Priorities are exact fractions; TLC computes the products of *)
(* small counts and weights in hundredths.                                 *)
(***************************************************************************)
EXTENDS Integers, Sequences

CONSTANTS
  MaxTry,       \* --max-retry
  MaxBlocks,    \* bound on the blocks of an attempt
  Capacity,     \* of the channel, 8 in the code
  MaxTimeout    \* seconds that maxTimeout leaves above the smallest --timeout modelled

ASSUME ChunkScoreAssumption ==
  MaxTry \in Nat \ {0} /\ MaxBlocks \in Nat /\ Capacity \in Nat \ {0} /\ MaxTimeout \in Nat

VARIABLES
  heap,         \* priorityq: sizes by position, and the index each item keeps
  success,      \* chunkScore.success of each size
  failure,      \* chunkScore.failure
  priority,     \* chunkScore.priority, as <<numerator, denominator>>
  serve,        \* the manager: "recv", "reply" or "ended"
  queries,      \* the content of the channel
  closed,       \* has the part closed it
  pc,           \* the part: "ask", "wait", "run", "sleep", "return" or "done"
  chunk,        \* size of the current attempt
  attempt,      \* its number
  blocks,       \* blocks it has read
  timeout,      \* opt.timeout, seconds above that
  retryPuts,    \* by size, goroutines of retries that have not sent yet
  flashes,      \* timeouts that bar.flashTimeout() was called for and no frame has shown:
                \* the first is in the channel, of capacity 1, the others wait to send
  canceled,     \* p.ctx
  panicked      \* a send on the closed channel: the program dies

managerVars == <<heap, success, failure, priority, serve>>
partVars == <<pc, chunk, attempt, blocks, timeout>>
vars == <<managerVars, queries, closed, partVars, retryPuts, flashes, canceled, panicked>>

Sizes == {8, 16, 32, 64}
Positions == 0..3
Weight(size) == CASE size = 8 -> 100 [] size = 16 -> 108 [] size = 32 -> 116 [] size = 64 -> 124

Higher(a, b) == a[1] * b[2] > b[1] * a[2]

-----------------------------------------------------------------------------
(* priorityq under container/heap.                                         *)

Less(h, pr, i, j) == Higher(pr[h.at[i]], pr[h.at[j]])

\* Mutant: an item does not learn its new index.
SwapOnly(h, i, j) ==
  [h EXCEPT !.at = [h.at EXCEPT ![i] = h.at[j], ![j] = h.at[i]]]

Swap(h, i, j) ==
  [at |-> [h.at EXCEPT ![i] = h.at[j], ![j] = h.at[i]],
   index |-> [h.index EXCEPT ![h.at[i]] = j, ![h.at[j]] = i]]

\* Of the children of i the first, unless the second comes before it.
Child(h, pr, i) ==
  IF 2 * i + 2 \in Positions /\ Less(h, pr, 2 * i + 2, 2 * i + 1) THEN 2 * i + 2 ELSE 2 * i + 1
Parent(i) == (i - 1) \div 2
Sinks(h, pr, i) == 2 * i + 1 \in Positions /\ Less(h, pr, Child(h, pr, i), i)
Rises(h, pr, i) == i # 0 /\ Less(h, pr, i, Parent(i))

\* The loops of down and up: with four items they turn twice at most.
Down(h, pr, i) ==
  LET j == Child(h, pr, i)
      g == Swap(h, i, j)
  IN  IF ~Sinks(h, pr, i) THEN h
      ELSE IF Sinks(g, pr, j) THEN Swap(g, j, Child(g, pr, j)) ELSE g

Up(h, pr, i) ==
  LET j == Parent(i)
      g == Swap(h, i, j)
  IN  IF ~Rises(h, pr, i) THEN h
      ELSE IF Rises(g, pr, j) THEN Swap(g, j, Parent(j)) ELSE g

Fix(h, pr, i) == LET down == Down(h, pr, i) IN IF down # h THEN down ELSE Up(h, pr, i)
HeapInit(h, pr) == Down(Down(h, pr, 1), pr, 0)

-----------------------------------------------------------------------------
\* The range over the map puts the items in any order.
Init ==
  /\ success = [s \in Sizes |-> 0] /\ failure = [s \in Sizes |-> 0]
  /\ priority = [s \in Sizes |-> <<Weight(s), 1>>]
  /\ \E at \in [Positions -> Sizes] :
       /\ \A s \in Sizes : \E i \in Positions : at[i] = s
       /\ heap = HeapInit([at |-> at, index |-> [s \in Sizes |-> CHOOSE i \in Positions : at[i] = s]],
                          priority)
  /\ serve = "recv" /\ queries = <<>> /\ closed = FALSE
  /\ pc = "ask" /\ chunk = 64 /\ attempt = 0 /\ blocks = 0
  /\ timeout \in 0..MaxTimeout
  /\ retryPuts = [s \in Sizes |-> 0] /\ flashes = 0
  /\ canceled = FALSE /\ panicked = FALSE

-----------------------------------------------------------------------------
(* The manager.                                                            *)

\* Mutant: the queue is not repaired for an item that has only failed.
PrioritySkip(s, ok, bad) == IF ok # 0 THEN <<ok * Weight(s), ok + bad>> ELSE priority[s]

\* priorityq.update: the smallest size keeps its weight until it succeeds.
Priority(s, ok, bad) ==
  CASE ok # 0 -> <<ok * Weight(s), ok + bad>>
    [] ok = 0 /\ s # 8 -> <<Weight(s) - 50, 1>>
    [] OTHER -> priority[s]

ServePut ==
  /\ serve = "recv" /\ queries # <<>> /\ Head(queries).cmd = "put"
  /\ LET q == Head(queries)
         s == q.size
     IN /\ success' = [success EXCEPT ![s] = @ + (IF q.failure THEN 0 ELSE 1)]
        /\ failure' = [failure EXCEPT ![s] = @ + (IF q.failure THEN 1 ELSE 0)]
        /\ priority' = [priority EXCEPT ![s] = Priority(s, success'[s], failure'[s])]
        /\ heap' = IF success'[s] = 0 /\ s = 8 THEN heap ELSE Fix(heap, priority', heap.index[s])
  /\ queries' = Tail(queries)
  /\ UNCHANGED <<serve, closed, partVars, retryPuts, flashes, canceled, panicked>>

ServeGet ==
  /\ serve = "recv" /\ queries # <<>> /\ Head(queries).cmd = "get"
  /\ serve' = "reply" /\ queries' = Tail(queries)
  /\ UNCHANGED <<heap, success, failure, priority, closed, partVars, retryPuts, flashes, canceled, panicked>>

ServeEnds ==
  /\ serve = "recv" /\ closed /\ queries = <<>>
  /\ serve' = "ended"
  /\ UNCHANGED <<heap, success, failure, priority, queries, closed, partVars, retryPuts, flashes, canceled, panicked>>

-----------------------------------------------------------------------------
(* The part.                                                               *)

Send(query) == Len(queries) < Capacity /\ queries' = Append(queries, query)
PutQuery(size, failed) == [cmd |-> "put", size |-> size, failure |-> failed]

Ask ==
  /\ pc = "ask" /\ Send([cmd |-> "get"]) /\ pc' = "wait"
  /\ UNCHANGED <<managerVars, closed, chunk, attempt, blocks, timeout, retryPuts, flashes, canceled, panicked>>

Answer ==
  /\ pc = "wait" /\ serve = "reply"
  /\ chunk' = heap.at[0] /\ blocks' = 0 /\ pc' = "run" /\ serve' = "recv"
  /\ UNCHANGED <<heap, success, failure, priority, queries, closed, attempt, timeout,
                 retryPuts, flashes, canceled, panicked>>

\* A block that fills the limit, or ends in an error after some bytes, is a success.
Block ==
  /\ pc = "run" /\ blocks < MaxBlocks
  /\ Send(PutQuery(chunk, FALSE)) /\ blocks' = blocks + 1
  /\ UNCHANGED <<managerVars, closed, pc, chunk, attempt, timeout, retryPuts, flashes, canceled, panicked>>

\* Mutant: the timeout is not capped.
LongerUncapped == IF chunk = 8 /\ blocks = 0 THEN timeout + 1 ELSE timeout

\* A timeout is longer after the smallest size got nothing, up to maxTimeout; with no
\* block there may still be a short one, before an early end of the body.
Longer == IF chunk = 8 /\ blocks = 0 /\ timeout < MaxTimeout THEN timeout + 1 ELSE timeout

Retry ==
  /\ pc = "run" /\ ~canceled /\ attempt # MaxTry
  /\ timeout' \in {timeout, Longer}
  /\ retryPuts' = [retryPuts EXCEPT ![chunk] = @ + 1]
  /\ pc' = "sleep"
  /\ UNCHANGED <<managerVars, queries, closed, chunk, attempt, blocks, flashes, canceled, panicked>>

\* EOF, ErrMaxRetry, another status, or any end after p.ctx was canceled.
EndAttempt ==
  /\ pc = "run" /\ pc' = "return"
  /\ UNCHANGED <<managerVars, queries, closed, chunk, attempt, blocks, timeout, retryPuts, flashes, canceled, panicked>>

\* The backoff is over, or the context ends it.
Wake ==
  /\ pc = "sleep"
  /\ IF canceled THEN pc' = "return" /\ UNCHANGED attempt
                 ELSE pc' = "ask" /\ attempt' = attempt + 1
  /\ UNCHANGED <<managerVars, queries, closed, chunk, blocks, timeout, retryPuts, flashes, canceled, panicked>>

\* Mutant: download returns without closing the channel.
CloseNever == closed' = closed

Close == closed' = TRUE

Return ==
  /\ pc = "return" /\ Close /\ pc' = "done"
  /\ UNCHANGED <<managerVars, queries, chunk, attempt, blocks, timeout, retryPuts, flashes, canceled, panicked>>

-----------------------------------------------------------------------------
(* The goroutine of a retry. Nothing makes the part wait for it.           *)

\* The report, and a flash if the attempt had timed out and the part has a bar.
RetryPut(s) ==
  /\ retryPuts[s] > 0
  /\ retryPuts' = [retryPuts EXCEPT ![s] = @ - 1]
  /\ IF closed THEN panicked' = TRUE /\ UNCHANGED <<queries, flashes>>
               ELSE /\ Send(PutQuery(s, TRUE)) /\ flashes' \in {flashes, flashes + 1}
                    /\ UNCHANGED panicked
  /\ UNCHANGED <<managerVars, closed, partVars, canceled>>

\* A frame that finds flashDecorator.count = 0 takes a message, and one that waits takes
\* its place. There may be no frame: nothing draws where the output is no terminal, and a
\* bar is not drawn any more once it has been aborted.
Draw ==
  /\ flashes > 0 /\ flashes' = flashes - 1
  /\ UNCHANGED <<managerVars, queries, closed, partVars, retryPuts, canceled, panicked>>

-----------------------------------------------------------------------------

\* A signal, or the failure of another part.
Cancel ==
  /\ ~canceled /\ canceled' = TRUE
  /\ UNCHANGED <<managerVars, queries, closed, partVars, retryPuts, flashes, panicked>>

PartStep == Ask \/ Answer \/ Block \/ Retry \/ EndAttempt \/ Wake \/ Return
ServeStep == ServePut \/ ServeGet \/ ServeEnds
Next == ~panicked /\ (PartStep \/ ServeStep \/ Draw \/ Cancel \/ \E s \in Sizes : RetryPut(s))

\* The goroutines are scheduled; nothing is assumed of the frames.
Fairness ==
  /\ WF_vars(~panicked /\ PartStep)
  /\ WF_vars(~panicked /\ ServeStep)
  /\ \A s \in Sizes : WF_vars(~panicked /\ RetryPut(s))

Spec == Init /\ [][Next]_vars /\ Fairness

-----------------------------------------------------------------------------
Queries == [cmd : {"get"}] \cup [cmd : {"put"}, size : Sizes, failure : BOOLEAN]

TypeOK ==
  /\ heap.at \in [Positions -> Sizes] /\ heap.index \in [Sizes -> Positions]
  /\ success \in [Sizes -> Nat] /\ failure \in [Sizes -> Nat]
  /\ priority \in [Sizes -> Nat \X (Nat \ {0})]
  /\ serve \in {"recv", "reply", "ended"}
  /\ queries \in Seq(Queries) /\ Len(queries) <= Capacity
  /\ pc \in {"ask", "wait", "run", "sleep", "return", "done"}
  /\ chunk \in Sizes /\ attempt \in 0..MaxTry /\ blocks \in 0..MaxBlocks
  /\ timeout \in 0..MaxTimeout
  /\ retryPuts \in [Sizes -> Nat] /\ flashes \in Nat
  /\ closed \in BOOLEAN /\ canceled \in BOOLEAN /\ panicked \in BOOLEAN

\* What a size is worth by its counts alone.
Worth(s) ==
  CASE success[s] # 0 -> <<success[s] * Weight(s), success[s] + failure[s]>>
    [] success[s] = 0 /\ failure[s] # 0 /\ s # 8 -> <<Weight(s) - 50, 1>>
    [] OTHER -> <<Weight(s), 1>>

(* After any sequence of reports, in any order of arrival, pq[0]           *)
(* (chunk_scoring.go:114) is worth at least what each other size is: the   *)
(* heap is repaired after every change of a priority and the indexes it    *)
(* is repaired at (chunk_scoring.go:59,62) follow every swap.              *)
BestOnTop == \A s \in Sizes : ~Higher(Worth(s), Worth(heap.at[0]))

(* "timeout to read 64KiB chunk; on exceed size is reduced"                *)
(* (getparty.go:88), as far as it goes: until a first block arrives the    *)
(* next size is the largest that has not failed, and the smallest in the   *)
(* end, even when reports of failures come late.                           *)
FailuresReduce ==
  (\A s \in Sizes : success[s] = 0) =>
    heap.at[0] = CHOOSE s \in Sizes :
      /\ s = 8 \/ failure[s] = 0
      /\ \A t \in Sizes : (t = 8 \/ failure[t] = 0) => t <= s

(* Part.download, its manager and every report come to an end: no send on  *)
(* the bounded channel of the scores and no receive from it waits for ever *)
(* (part.go:173, part.go:224), unless a late report kills the program      *)
(* first. That the goroutine of a timeout ends is not said: after its      *)
(* report it may wait in flashTimeout for good (part.go:227), see          *)
(* FlashRoom.                                                              *)
ScoresSettled ==
  <>(panicked \/ (pc = "done" /\ serve = "ended" /\ \A s \in Sizes : retryPuts[s] = 0))

(* No goroutine waits in flashTimeout (part.go:227) once the part is done  *)
(* and its bar aborted, where no frame need come any more: one does when   *)
(* a second timeout is reported before a frame has shown the first.        *)
FlashRoom == pc = "done" => flashes <= 1

(* "timeout to read 64KiB chunk; on exceed size is reduced"                *)
(* (getparty.go:88, README.md:42): an attempt that follows a failed one    *)
(* does not read larger blocks.                                            *)
SizeReduced ==
  [][pc = "wait" /\ pc' = "run" /\ attempt > 0 => chunk' <= chunk]_vars
=============================================================================
