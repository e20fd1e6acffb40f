------------------------------ MODULE Partition ------------------------------
(***************************************************************************)
(* How Session.makeParts cuts a body of `length` bytes into n parts: a      *)
(* part is the byte interval start..stop, both ends included.  These are    *)
(* the closed forms of its loop; module MakeParts runs the loop itself and  *)
(* MakeParts_proofs shows that it computes exactly these bounds.            *)
(***************************************************************************)
EXTENDS Integers

\* Division of Go's int64, which truncates toward zero.
TruncDiv(a, b) ==
  LET abs(x) == IF x < 0 THEN -x ELSE x
      q      == abs(a) \div abs(b)
  IN  IF (a < 0) = (b < 0) THEN q ELSE -q

\* fragment := s.ContentLength / int64(n), for an n that int64 can hold.
Fragment(length, n) == TruncDiv(length, n)

PartStart(length, n, i) == (i - 1) * Fragment(length, n)

\* The last part takes the remainder of the division.
PartStop(length, n, i) ==
  IF i = n THEN length - 1 ELSE i * Fragment(length, n) - 1

=============================================================================
