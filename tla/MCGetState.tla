----------------------------- MODULE MCGetState -----------------------------
(***************************************************************************)
(* The mirror list and the resources of the run of GetState.               *)
(***************************************************************************)
EXTENDS GetState

CONSTANTS m1, m2, bad, elsewhere

\* A comment, a mirror twice, another one, and one that is no URL.
MCLines == <<Junk, m1, m1, m2, bad>>
MCMalformed == {bad}
MCLocations == {Url, elsewhere}
MCResources == {[id |-> 1, ranges |-> TRUE], [id |-> 1, ranges |-> FALSE], [id |-> 2, ranges |-> TRUE]}
=============================================================================
