------------------------------- MODULE Follow -------------------------------
(***************************************************************************)
(* Cmd.follow: HEAD requests from one location to the next until one is    *)
(* answered 200.  A request that fails is retried after a backoff, from    *)
(* the location the redirects have led to, with what is left of the        *)
(* redirects allowed.  The counters are unsigned words.                    *)
(***************************************************************************)
EXTENDS Naturals

CONSTANTS
  MaxUint,      \* the largest word
  MaxFollow,    \* --max-follow, 0 for no limit
  MaxRetry,     \* --max-retry, 0 for no limit
  Locations,    \* where redirects may lead
  Resources     \* what a 200 may describe: type, length and Accept-Ranges

VARIABLES
  signal,       \* m.Ctx is canceled
  headers,      \* the headers patcher gives a request
  phase,        \* "idle", "try", "loop", "backoff" or "done"
  rawURL,       \* the argument
  location,     \* where the next request goes
  fc,           \* redirects followed
  left,         \* what range maxFollow - fc has left
  attempt,      \* argument of the retried function
  answer        \* result: an error, or the resource and the headers it was asked with

followVars == <<phase, rawURL, location, fc, left, attempt, answer>>

NoAnswer == [err |-> "none"]

FollowInit(nowhere) ==
  /\ phase = "idle" /\ rawURL = nowhere /\ location = nowhere
  /\ fc = 0 /\ left = 0 /\ attempt = 0 /\ answer = NoAnswer

Word(n) == n % (MaxUint + 1)
Or(a, b) == IF a # 0 THEN a ELSE b
maxRetry == Or(MaxRetry, MaxUint)
maxFollow == Word(Or(MaxFollow, MaxUint - 1) + 1)

Call(where) ==
  /\ phase \in {"idle", "done"}
  /\ rawURL' = where /\ location' = where
  /\ fc' = 0 /\ attempt' = 0 /\ left' = 0 /\ answer' = NoAnswer
  /\ phase' = "try"

Done(result) == phase' = "done" /\ answer' = result
Failed(why) == Done([err |-> why])

\* Mutant: a retry has all the redirects again.
LeftAgain == maxFollow

\* The bound of the loop is computed once an attempt.
Left == Word(maxFollow + MaxUint + 1 - fc)

Try ==
  /\ phase = "try" /\ left' = Left /\ phase' = "loop"
  /\ UNCHANGED <<rawURL, location, fc, attempt, answer>>

Exhausted ==
  /\ phase = "loop" /\ left = 0 /\ Failed("redirect")
  /\ UNCHANGED <<rawURL, location, fc, left, attempt>>

Asking == phase = "loop" /\ left # 0

Redirect(where) ==
  /\ Asking
  /\ location' = where /\ fc' = Word(fc + 1) /\ left' = left - 1
  /\ UNCHANGED <<phase, rawURL, attempt, answer>>

\* Mutant: one retry too many.
UnavailableOnceMore ==
  /\ Asking
  /\ IF attempt > maxRetry THEN Failed("retry") ELSE phase' = "backoff" /\ UNCHANGED answer
  /\ UNCHANGED <<rawURL, location, fc, left, attempt>>

\* The request fails, or the status is 5xx.
Unavailable ==
  /\ Asking
  /\ IF attempt = maxRetry THEN Failed("retry") ELSE phase' = "backoff" /\ UNCHANGED answer
  /\ UNCHANGED <<rawURL, location, fc, left, attempt>>

\* A location that is no URL, a redirect without one, another status, a name that
\* cannot be parsed.
Unusable ==
  /\ Asking /\ Failed("status")
  /\ UNCHANGED <<rawURL, location, fc, left, attempt>>

Found(resource) ==
  /\ Asking /\ Done([err |-> "nil", resource |-> resource, headers |-> headers])
  /\ UNCHANGED <<rawURL, location, fc, left, attempt>>

\* Mutant: an attempt that has led nowhere is not counted.
BackoffUncounted ==
  /\ phase = "backoff"
  /\ IF signal THEN Failed("canceled") /\ UNCHANGED attempt
               ELSE phase' = "try" /\ attempt' = (IF fc = 0 THEN attempt ELSE attempt + 1) /\ UNCHANGED answer
  /\ UNCHANGED <<rawURL, location, fc, left>>

Backoff ==
  /\ phase = "backoff"
  /\ IF signal THEN Failed("canceled") /\ UNCHANGED attempt
               ELSE phase' = "try" /\ attempt' = attempt + 1 /\ UNCHANGED answer
  /\ UNCHANGED <<rawURL, location, fc, left>>

FollowNext ==
  \/ Try \/ Exhausted \/ (\E where \in Locations : Redirect(where))
  \/ Unavailable \/ Unusable \/ (\E resource \in Resources : Found(resource)) \/ Backoff

FollowTypeOK ==
  /\ phase \in {"idle", "try", "loop", "backoff", "done"}
  /\ fc \in 0..MaxUint /\ left \in 0..MaxUint /\ attempt \in 0..maxRetry

(* "max redirections to follow, 0 for infinite" (getparty.go:87): across   *)
(* all retries no request is sent after more redirects than that, and the  *)
(* limit is reported only once it is exceeded; the unsigned difference     *)
(* getparty.go:718 takes does not wrap.  The largest word is left out:     *)
(* adding one to it leaves no request at all (getparty.go:703).            *)
RedirectBudget ==
  MaxFollow \notin {0, MaxUint} =>
    /\ Asking => fc <= MaxFollow /\ fc + left = MaxFollow + 1
    /\ answer.err = "redirect" => fc = MaxFollow + 1
=============================================================================
