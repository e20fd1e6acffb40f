-------------------------------- MODULE Merge --------------------------------
(***************************************************************************)
(* What Session.merge promises, without rounds, goroutines or files: the   *)
(* body lies in pieces, each a run of consecutive parts, and two           *)
(* neighbours at a time become one piece; the merge is a success when one  *)
(* piece is left and may give up before that.  A join that was under way   *)
(* when it gave up may still happen.                                       *)
(***************************************************************************)
EXTENDS Naturals

CONSTANT N    \* number of parts, positive

VARIABLES
  pieces,     \* the pieces, as sets of part ids
  verdict     \* what merge returned: "none" yet, "ok" or "error"

mergeVars == <<pieces, verdict>>

MergeInit == pieces = {{p} : p \in 1..N} /\ verdict = "none"

\* The last part of a is followed by the first of b.
Neighbours(a, b) == \E p \in a : p + 1 \in b /\ \A q \in a : q <= p

Join(a, b) ==
  /\ verdict # "ok"
  /\ Neighbours(a, b)
  /\ pieces' = (pieces \ {a, b}) \cup {a \cup b}
  /\ UNCHANGED verdict

Succeed == verdict = "none" /\ pieces = {1..N} /\ verdict' = "ok" /\ UNCHANGED pieces
Fail == verdict = "none" /\ verdict' = "error" /\ UNCHANGED pieces

MergeNext == Succeed \/ Fail \/ \E a, b \in pieces : Join(a, b)

MergeSpec == MergeInit /\ [][MergeNext]_mergeVars
=============================================================================
