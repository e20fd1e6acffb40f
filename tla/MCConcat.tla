------------------------------ MODULE MCConcat ------------------------------
(***************************************************************************)
(* The lengths of the parts in the runs of Concat.                         *)
(***************************************************************************)
EXTENDS Concat

\* Files of one block and a longer one, so that a copy can fail in the middle.
MCBlocks == [p \in 1..N |-> IF p = 2 THEN 2 ELSE 1]
=============================================================================
