------------------------------ MODULE MakeParts ------------------------------
(***************************************************************************)
(* Session.makeParts, one step per iteration of its loop, for every         *)
(* session and every --parts value of the constants.                        *)
(***************************************************************************)
EXTENDS Partition, Sequences

CONSTANTS
  Lengths,      \* the values of session.ContentLength (-1: unknown)
  Counts,       \* the values of --parts, a uint
  MinFragment,  \* minFragment, 512 in the code
  HalfWord      \* 2^63: int64(n) of a uint n >= HalfWord wraps

ASSUME LengthsAssumption == Lengths \subseteq Nat \cup {-1}
ASSUME CountsAssumption == Counts \subseteq 0 .. (2 * HalfWord - 1)
ASSUME MinFragmentAssumption == MinFragment \in Nat \ {0}
ASSUME HalfWordAssumption ==
  HalfWord \in Nat \ {0, 1} /\ \A l \in Lengths : l < HalfWord

VARIABLES
  pc,        \* "entry", "loop", "done" or the error returned
  acceptsRanges, \* strings.EqualFold(s.AcceptRanges, "bytes")
  length,    \* s.ContentLength
  n,         \* the argument, then the number of parts to make
  fragment,  \* bytes of every part but the last
  offset,    \* where the next part starts
  parts,     \* the parts made so far
  single     \* s.Single

vars == <<pc, acceptsRanges, length, n, fragment, offset, parts, single>>

Init ==
  /\ pc = "entry"
  /\ acceptsRanges \in BOOLEAN
  /\ length \in Lengths
  /\ n \in Counts
  /\ fragment = 0
  /\ offset = 0
  /\ parts = <<>>
  /\ single = FALSE

-----------------------------------------------------------------------------

\* Session.isResumable
IsResumable == acceptsRanges /\ length >= 0

\* The conversion int64(n) of an unsigned n.
ToInt64(u) == IF u < HalfWord THEN u ELSE u - 2 * HalfWord

\* return ErrZeroParts
RejectZero ==
  /\ pc = "entry" /\ n = 0
  /\ pc' = "ErrZeroParts"
  /\ UNCHANGED <<acceptsRanges, length, n, fragment, offset, parts, single>>

\* n as the loop sees it: an unresumable session is one part.
EffectiveCount == IF IsResumable THEN n ELSE 1

\* return ErrTooFragmented; the receiver is left untouched
RejectFragments ==
  /\ pc = "entry" /\ n # 0
  /\ EffectiveCount # 1
  /\ TruncDiv(length, ToInt64(EffectiveCount)) < MinFragment
  /\ pc' = "ErrTooFragmented"
  /\ UNCHANGED <<acceptsRanges, length, n, fragment, offset, parts, single>>

\* Mutant of EnterLoop: ErrTooFragmented is not looked at.
EnterLoopUnchecked ==
  /\ pc = "entry" /\ n # 0
  /\ fragment' = TruncDiv(length, ToInt64(EffectiveCount))
  /\ n' = EffectiveCount
  /\ pc' = "loop"
  /\ UNCHANGED <<acceptsRanges, length, offset, parts, single>>

EnterLoop ==
  /\ pc = "entry" /\ n # 0
  /\ LET f == TruncDiv(length, ToInt64(EffectiveCount))
     IN  /\ EffectiveCount = 1 \/ f >= MinFragment
         /\ fragment' = f
  /\ n' = EffectiveCount
  /\ pc' = "loop"
  /\ UNCHANGED <<acceptsRanges, length, offset, parts, single>>

\* Mutant of AddPart: one iteration too many.
AddPartOnceMore ==
  /\ pc = "loop" /\ Len(parts) <= n
  /\ LET p == [start |-> offset, stop |-> offset + fragment - 1]
     IN  /\ parts' = Append(parts, p)
         /\ offset' = offset + (p.stop - p.start + 1)
  /\ UNCHANGED <<pc, acceptsRanges, length, n, fragment, single>>

\* Mutant of AddPart: Stop taken for the byte after the last.
AddPartExclusive ==
  /\ pc = "loop" /\ Len(parts) < n
  /\ LET p == [start |-> offset, stop |-> offset + fragment]
     IN  /\ parts' = Append(parts, p)
         /\ offset' = offset + (p.stop - p.start)
  /\ UNCHANGED <<pc, acceptsRanges, length, n, fragment, single>>

\* p := &Part{...}; offset += p.len(); parts = append(parts, p)
AddPart ==
  /\ pc = "loop" /\ Len(parts) < n
  /\ LET p == [start |-> offset, stop |-> offset + fragment - 1]
     IN  /\ parts' = Append(parts, p)
         /\ offset' = offset + (p.stop - p.start + 1)
  /\ UNCHANGED <<pc, acceptsRanges, length, n, fragment, single>>

\* Mutant of Assign: the remainder of the division is forgotten.
AssignNoRemainder ==
  /\ pc = "loop" /\ Len(parts) = n
  /\ single' = (n = 1)
  /\ pc' = "done"
  /\ UNCHANGED <<acceptsRanges, length, n, fragment, offset, parts>>

\* The remainder goes to the last part, s.Parts and s.Single are assigned.
Assign ==
  /\ pc = "loop" /\ Len(parts) = n
  /\ parts' = IF offset # length THEN [parts EXCEPT ![n].stop = length - 1]
                                 ELSE parts
  /\ single' = (n = 1)
  /\ pc' = "done"
  /\ UNCHANGED <<acceptsRanges, length, n, fragment, offset>>

\* makeParts has returned.
Returned ==
  /\ pc \in {"done", "ErrZeroParts", "ErrTooFragmented"}
  /\ UNCHANGED vars

Next == RejectZero \/ RejectFragments \/ EnterLoop \/ AddPart \/ Assign \/ Returned

Spec == Init /\ [][Next]_vars

-----------------------------------------------------------------------------

\* The shape of the state; the loop never makes more parts than asked.
TypeOK ==
  /\ pc \in {"entry", "loop", "done", "ErrZeroParts", "ErrTooFragmented"}
  /\ acceptsRanges \in BOOLEAN
  /\ length \in Nat \cup {-1}
  /\ n \in Nat
  /\ fragment \in Int
  /\ offset \in Int
  /\ parts \in Seq([start : Int, stop : Int])
  /\ Len(parts) <= n
  /\ single \in BOOLEAN

\* The parts makeParts assigns to the session are the closed forms that the
\* other modules use as the bounds of the parts.
ClosedForm ==
  pc = "done" =>
    /\ Len(parts) = n
    /\ \A i \in 1 .. n : parts[i] = [start |-> PartStart(length, n, i),
                                     stop  |-> PartStop(length, n, i)]

\* Every byte of the body is fetched by exactly one part, and no part asks for
\* a byte beyond the body: a gap would leave a hole in the merged file, an
\* overlap would duplicate bytes.
EveryByteOnce ==
  pc = "done" =>
    /\ \A b \in 0 .. (length - 1) :
         \E i \in 1 .. n :
           /\ b \in parts[i].start .. parts[i].stop
           /\ \A j \in 1 .. n : b \in parts[j].start .. parts[j].stop => j = i
    /\ \A i \in 1 .. n : parts[i].start >= 0 /\ parts[i].stop < length

\* A session cut into several parts has none below minFragment, whatever the
\* conversion of a huge --parts value wraps to, and the last part exceeds the
\* others by fewer bytes than there are parts.
NoTinyPart ==
  pc = "done" /\ n > 1 =>
    /\ \A i \in 1 .. n : parts[i].stop - parts[i].start + 1 >= MinFragment
    /\ parts[n].stop - parts[n].start + 1 < fragment + n

=============================================================================
