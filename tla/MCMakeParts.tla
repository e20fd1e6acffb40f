----------------------------- MODULE MCMakeParts -----------------------------
(***************************************************************************)
(* makeParts on every length below a small word size and every --parts      *)
(* value of that word, the wrapping ones included.                          *)
(***************************************************************************)
EXTENDS MakeParts

MCLengths == -1 .. 15
MCCounts == 0 .. 31

=============================================================================
