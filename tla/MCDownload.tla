----------------------------- MODULE MCDownload -----------------------------
(***************************************************************************)
(* The sessions of the runs of Download.                                    *)
(***************************************************************************)
EXTENDS Download

\* A part file may have lost a byte, or got one more, since the state was saved.
MCDamage == {-1, 0, 1}

\* The server did not tell how long the body is.
MCUnknown == -1

\* A session just made by makeParts.
FreshInit == Init /\ ~restored /\ current = 0
FreshSpec == FreshInit /\ [][Next]_vars
FairFreshSpec == FreshSpec /\ Fairness

\* A new session without files, or one read from a state file: the files of its parts
\* may be damaged, and a damaged one stops the launch.
ResumedInit ==
  /\ Init /\ restored = (current # 0)
  /\ \A p \in Parts : written[p] = 0 => file[p] = <<>>
ResumedSpec == ResumedInit /\ [][Next]_vars /\ Fairness

\* Damage that the total size does not show: none, or a byte more in one file for a
\* byte less in another.
HiddenInit == Init /\ SumFunctionOnSet([p \in Parts |-> Len(file[p])], Parts) = current
HiddenSpec == HiddenInit /\ [][Next]_vars

\* A session read from a state file.
RestoredInit == Init /\ restored = TRUE
RestoredSpec == RestoredInit /\ [][Next]_vars

=============================================================================
