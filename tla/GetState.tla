------------------------------ MODULE GetState ------------------------------
(***************************************************************************)
(* Cmd.getState: which session a run starts from.  A state file named with *)
(* --session, the fastest mirror of a list, or a URL; a state file found   *)
(* next to the output sends the loop round once more.  Composes BestMirror *)
(* and Follow.                                                             *)
(*                                                                         *)
(* A resource is what a HEAD tells of the body: its identity stands for    *)
(* type and length, ranges for Accept-Ranges.  Header sets are "user" and  *)
(* "saved".  The name of the output is fixed.                              *)
(***************************************************************************)
EXTENDS Naturals, Sequences, FiniteSets

CONSTANTS
  \* of BestMirror and Follow
  Lines, Junk, Malformed, Workers, Capacity, Pass, Durations,
  MaxUint, MaxFollow, MaxRetry, Locations, Resources,
  \* of getState
  Url,        \* the positional argument
  SavedUrl    \* the URL in a state file

\* Of the constants BestMirror and Follow are parameterised with.
ASSUME GetStateAssumption ==
  /\ Lines \in Seq({Lines[i] : i \in DOMAIN Lines}) /\ Workers # {}
  /\ Capacity \in Nat \ {0} /\ Pass \in Nat \ {0} /\ Durations \subseteq Nat
  /\ MaxUint \in Nat \ {0} /\ MaxFollow \in 0..MaxUint /\ MaxRetry \in 0..MaxUint

VARIABLES
  \* of BestMirror and Follow
  signal, cause, reader, at, seen, worker, url, passes, sum, dst, mirrors, verdict, answered,
  headers, phase, rawURL, location, fc, left, attempt, answer,
  \* of getState
  gs,           \* "switch", "loaded", "mirror", "follow", "refollow" or "done"
  sessionName,  \* opt.SessionName: "none", "named" or "found"
  list,         \* is there a mirror list
  positional,   \* opt.Positional.Location, or Junk
  optHeaders,   \* opt.Headers
  saved,        \* what was loaded from a state file: headers and resource
  session,      \* the local variable session, or NoSession
  returned      \* the result: an error, or a session

B == INSTANCE BestMirror
F == INSTANCE Follow

ownVars == <<gs, sessionName, list, positional, optHeaders, saved, session, returned>>
mirrorVars == <<signal, cause, reader, at, seen, worker, url, passes, sum, dst, mirrors, verdict, answered>>
followVars == <<phase, rawURL, location, fc, left, attempt, answer>>
vars == <<mirrorVars, headers, followVars, ownVars>>

NoSession == [url |-> Junk]
Nothing == [headers |-> "user", resource |-> Junk]
States == [headers : {"user", "saved"}, resource : Resources]

Init ==
  /\ signal = FALSE /\ B!MirrorInit /\ F!FollowInit(Junk)
  /\ headers = "user" /\ optHeaders = "user"
  /\ gs = "switch" /\ session = NoSession /\ returned = [err |-> "none"]
  /\ sessionName \in {"none", "named"} /\ list \in BOOLEAN
  /\ positional \in IF list THEN {Junk} ELSE {Url, Junk}
  /\ saved = Nothing

Refuse(why) == gs' = "done" /\ returned' = [err |-> why]

\* Mutant: the content the server has now is not compared.
AcceptUnchecked(s, resource) == gs' = "done" /\ returned' = s

\* checkContentMismatch compares what the server has now with the state file.
Accept(s, resource) ==
  gs' = "done" /\ returned' = IF saved.resource.id = resource.id THEN s ELSE [err |-> "mismatch"]

\* Mutant: the URL of the state file is kept.
RestoredUrlKept == SavedUrl

\* A location given anew replaces the URL of the state file.
RestoredUrl == IF session # NoSession THEN session.url ELSE SavedUrl

-----------------------------------------------------------------------------
(* The switch.                                                             *)

Load ==
  /\ gs = "switch" /\ sessionName # "none"
  /\ saved' \in States /\ gs' = "loaded"
  /\ UNCHANGED <<mirrorVars, headers, followVars, sessionName, list, positional, optHeaders,
                 session, returned>>

LoadFails ==
  /\ gs = "switch" /\ sessionName # "none" /\ Refuse("load")
  /\ UNCHANGED <<mirrorVars, headers, followVars, sessionName, list, positional, optHeaders,
                 saved, session>>

\* The state found next to the output was made with the same headers: it is
\* returned as it is, Accept-Ranges included, and not marked as restored.
TakeFound ==
  /\ gs = "loaded" /\ session # NoSession /\ saved.headers = session.headers
  /\ headers' = saved.headers
  /\ Accept([err |-> "nil", url |-> RestoredUrl, location |-> session.location,
             headers |-> saved.headers, resource |-> saved.resource, restored |-> FALSE],
            session.resource)
  /\ UNCHANGED <<mirrorVars, followVars, sessionName, list, positional, optHeaders, saved, session>>

\* Mutant: the requests go on with the headers of the command line.
RefollowHeadersUser == "user"

RefollowHeaders == saved.headers

Refollow ==
  /\ gs = "loaded" /\ (session # NoSession => saved.headers # session.headers)
  /\ headers' = RefollowHeaders /\ optHeaders' = saved.headers
  /\ F!Call(RestoredUrl) /\ gs' = "refollow"
  /\ UNCHANGED <<mirrorVars, sessionName, list, positional, saved, session, returned>>

StartMirrors ==
  /\ gs = "switch" /\ sessionName = "none" /\ list
  /\ gs' = "mirror"
  /\ UNCHANGED <<mirrorVars, headers, followVars, sessionName, list, positional, optHeaders, saved,
                 session, returned>>

StartLocation ==
  /\ gs = "switch" /\ sessionName = "none" /\ ~list /\ positional # Junk
  /\ F!Call(positional) /\ gs' = "follow"
  /\ UNCHANGED <<mirrorVars, headers, sessionName, list, positional, optHeaders, saved, session, returned>>

NothingGiven ==
  /\ gs = "switch" /\ sessionName = "none" /\ ~list /\ positional = Junk
  /\ Refuse("flags")
  /\ UNCHANGED <<mirrorVars, headers, followVars, sessionName, list, positional, optHeaders, saved, session>>

-----------------------------------------------------------------------------
(* What the calls return.                                                  *)

\* An error, or ErrMirrorStop: --mirror.top is not 1 and the mirrors are only listed.
MirrorsEnd ==
  /\ gs = "mirror" /\ verdict # "none" /\ Refuse(IF verdict = "ok" THEN "stop" ELSE verdict)
  /\ UNCHANGED <<mirrorVars, headers, followVars, sessionName, list, positional, optHeaders, saved, session>>

FollowFastest ==
  /\ gs = "mirror" /\ verdict = "ok" /\ B!Forget
  /\ positional' = mirrors[1].url
  /\ F!Call(mirrors[1].url) /\ gs' = "follow"
  /\ UNCHANGED <<signal, headers, sessionName, list, optHeaders, saved, session, returned>>

FollowFails ==
  /\ gs \in {"follow", "refollow"} /\ phase = "done" /\ answer.err # "nil"
  /\ Refuse(answer.err)
  /\ UNCHANGED <<mirrorVars, headers, followVars, sessionName, list, positional, optHeaders, saved, session>>

Answered(restored) ==
  [err |-> "nil", url |-> rawURL, location |-> location, headers |-> optHeaders,
   resource |-> answer.resource, restored |-> restored]

\* <output>.json may exist: back to the switch, with the session for its URL and headers.
FindState ==
  /\ gs = "follow" /\ phase = "done" /\ answer.err = "nil"
  /\ session' = Answered(FALSE) /\ sessionName' = "found" /\ gs' = "switch"
  /\ UNCHANGED <<mirrorVars, headers, followVars, list, positional, optHeaders, saved, returned>>

\* A new session, unless makeParts or the user who is asked to overwrite refuses.
NewSession ==
  /\ gs = "follow" /\ phase = "done" /\ answer.err = "nil"
  /\ session' = Answered(FALSE) /\ gs' = "done"
  /\ returned' \in {session', [err |-> "parts"], [err |-> "output"]}
  /\ UNCHANGED <<mirrorVars, headers, followVars, sessionName, list, positional, optHeaders, saved>>

\* The parts of the state file with what the server told now.
Restore ==
  /\ gs = "refollow" /\ phase = "done" /\ answer.err = "nil"
  /\ session' = Answered(TRUE) /\ Accept(session', answer.resource)
  /\ UNCHANGED <<mirrorVars, headers, followVars, sessionName, list, positional, optHeaders, saved>>

Mirroring == gs = "mirror" /\ B!MirrorNext /\ UNCHANGED <<headers, followVars, ownVars>>
Following == gs \in {"follow", "refollow"} /\ F!FollowNext /\ UNCHANGED <<mirrorVars, headers, ownVars>>

Signal ==
  /\ ~signal /\ gs # "done" /\ signal' = TRUE
  /\ UNCHANGED <<cause, reader, at, seen, worker, url, passes, sum, dst, mirrors, verdict, answered,
                 headers, followVars, ownVars>>

Own ==
  \/ Load \/ LoadFails \/ TakeFound \/ Refollow \/ StartMirrors \/ StartLocation \/ NothingGiven
  \/ MirrorsEnd \/ FollowFastest \/ FollowFails \/ FindState \/ NewSession \/ Restore

Next == Own \/ Mirroring \/ Following \/ Signal

Fairness ==
  /\ WF_vars(Own) /\ WF_vars(Following)
  /\ WF_vars(Mirroring /\ B!ReaderStep) /\ WF_vars(Mirroring /\ B!CallerStep)
  /\ \A w \in Workers : WF_vars(Mirroring /\ B!WorkerStep(w))

Spec == Init /\ [][Next]_vars /\ Fairness

-----------------------------------------------------------------------------
TypeOK ==
  /\ B!MirrorTypeOK /\ F!FollowTypeOK
  /\ gs \in {"switch", "loaded", "mirror", "follow", "refollow", "done"}
  /\ sessionName \in {"none", "named", "found"}
  /\ headers \in {"user", "saved"} /\ optHeaders \in {"user", "saved"}

(* BestMirror!OkIsComplete and Follow!RedirectBudget, for the calls        *)
(* getState makes (getparty.go:597, 586, 614).                             *)
MirrorsComplete == B!OkIsComplete
RedirectBudget == F!RedirectBudget

(* A session that getState returns is one the server has just confirmed:   *)
(* its length and type, its URL and the location it leads to are those of  *)
(* the last 200, and the parts will be asked for with the headers that     *)
(* request had, whichever way round the loop it came (getparty.go:580,     *)
(* 595, 614) and whichever URL and headers the state file had.             *)
SessionConfirmed ==
  gs = "done" /\ returned.err = "nil" =>
    /\ returned.resource.id = answer.resource.id
    /\ returned.url = rawURL /\ returned.location = location
    /\ returned.headers = answer.headers /\ headers = answer.headers

(* getState returns: redirects that lead in a circle, servers that never   *)
(* answer, mirrors that do not and a state file found on the way are left  *)
(* behind (getparty.go:554, 705).                                          *)
Terminates == <>(gs = "done")
=============================================================================
