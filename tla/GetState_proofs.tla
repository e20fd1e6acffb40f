--------------------------- MODULE GetState_proofs ---------------------------
(***************************************************************************)
(* What getState promises, for any list of mirrors, any number of workers,  *)
(* any limits and any word: the redirects stay within their budget, the     *)
(* mirrors are all there and the session is the one the server confirmed.   *)
(***************************************************************************)
EXTENDS GetState, Integers, FiniteSetTheorems, FunctionTheorems, SequenceTheorems, TLAPS

-----------------------------------------------------------------------------
(* Words.                                                                  *)

LEMMA Remainder ==
  ASSUME NEW a \in Nat, NEW m \in Nat \ {0}
  PROVE  /\ a % m \in 0 .. (m - 1)
         /\ a < m => a % m = a
         /\ \A k \in Nat : a = k + m /\ k < m => a % m = k
<1> DEFINE q == a \div m
           r == a % m
<1>1. a = m * q + r /\ r \in 0 .. (m - 1) /\ q \in Nat
  BY Z3
<1> HIDE DEF q, r
<1>2. q = 0 \/ m * q >= m
  BY <1>1, Z3
<1>3. q = 0 \/ q = 1 \/ m * q >= m + m
  BY <1>1, Z3
<1>4. q = 0 => m * q = 0
  BY <1>1
<1>5. q = 1 => m * q = m
  BY <1>1
<1>6. m * q \in Nat
  BY <1>1, Z3
<1>7. a < m => r = a
  BY <1>1, <1>2, <1>4, <1>6
<1>8. ASSUME NEW k \in Nat, a = k + m, k < m PROVE r = k
  BY <1>1, <1>3, <1>4, <1>5, <1>6, <1>8
<1> QED BY <1>1, <1>7, <1>8 DEF r

-----------------------------------------------------------------------------
(* Follow.                                                                 *)

Reasons == {"redirect", "retry", "status", "canceled"}
HeaderSets == {"user", "saved"}

FollowType ==
  /\ phase \in {"idle", "try", "loop", "backoff", "done"}
  /\ fc \in 0..MaxUint /\ left \in 0..MaxUint /\ attempt \in 0..F!maxRetry
  /\ phase = "backoff" => attempt < F!maxRetry

\* The redirects an attempt has left are those the earlier ones have not used.
BudgetInv ==
  MaxFollow \notin {0, MaxUint} =>
    /\ phase = "loop" => fc + left = MaxFollow + 1
    /\ phase \in {"try", "backoff"} => fc <= MaxFollow + 1
    /\ phase = "done" /\ answer.err = "redirect" => fc = MaxFollow + 1

\* An answer is there when the call is done, and was asked for with the headers then set.
AnswerInv ==
  /\ phase # "done" => answer = F!NoAnswer
  /\ phase = "done" =>
       \/ answer \in [err : Reasons]
       \/ answer \in [err : {"nil"}, resource : Resources, headers : HeaderSets]

FollowInv == FollowType /\ BudgetInv /\ AnswerInv

LEMMA RetryLimit == F!maxRetry \in Nat \ {0} /\ F!maxRetry <= MaxUint
BY GetStateAssumption DEF F!maxRetry, F!Or

\* The limit of the redirects and what an attempt may use of it are words.
LEMMA RedirectLimit ==
  /\ F!maxFollow \in 0..MaxUint
  /\ MaxFollow \notin {0, MaxUint} => F!maxFollow = MaxFollow + 1
<1>1. MaxUint \in Nat \ {0} /\ MaxFollow \in 0..MaxUint
  BY GetStateAssumption
<1> DEFINE limit == F!Or(MaxFollow, MaxUint - 1) + 1
<1>2. limit \in Nat /\ (MaxFollow \notin {0, MaxUint} => limit = MaxFollow + 1 /\ limit < MaxUint + 1)
  BY <1>1 DEF F!Or
<1> HIDE DEF limit
<1>3. limit % (MaxUint + 1) \in 0 .. MaxUint /\ (limit < MaxUint + 1 => limit % (MaxUint + 1) = limit)
  BY <1>1, <1>2, Remainder
<1> QED BY <1>2, <1>3 DEF F!maxFollow, F!Word, limit

LEMMA LeftWord ==
  ASSUME FollowType
  PROVE  /\ F!Left \in 0..MaxUint
         /\ MaxFollow \notin {0, MaxUint} /\ fc <= MaxFollow + 1 => F!Left = MaxFollow + 1 - fc
<1>1. MaxUint \in Nat \ {0} /\ MaxFollow \in 0..MaxUint /\ fc \in 0..MaxUint
  BY GetStateAssumption DEF FollowType
<1>2. F!maxFollow \in 0..MaxUint /\ (MaxFollow \notin {0, MaxUint} => F!maxFollow = MaxFollow + 1)
  BY RedirectLimit
<1> DEFINE n == F!maxFollow + MaxUint + 1 - fc
           m == MaxUint + 1
           k == MaxFollow + 1 - fc
<1>3. n \in Nat /\ m \in Nat \ {0}
  BY <1>1, <1>2
<1>4. MaxFollow \notin {0, MaxUint} /\ fc <= MaxFollow + 1 => k \in Nat /\ n = k + m /\ k < m
  BY <1>1, <1>2
<1>5. F!Left = n % m
  BY DEF F!Left, F!Word
<1>6. m - 1 = MaxUint
  BY <1>1
<1> HIDE DEF n, m, k
<1>7. n % m \in 0 .. (m - 1) /\ \A j \in Nat : n = j + m /\ j < m => n % m = j
  BY <1>3, Remainder
<1>8. MaxFollow \notin {0, MaxUint} /\ fc <= MaxFollow + 1 => n % m = k
  BY <1>4, <1>7
<1> QED BY <1>5, <1>6, <1>7, <1>8 DEF k

LEMMA FollowStart == ASSUME NEW where, F!Call(where) PROVE FollowInv'
<1>1. MaxUint \in Nat \ {0} /\ MaxFollow \in 0..MaxUint /\ F!maxRetry \in Nat \ {0}
  BY GetStateAssumption, RetryLimit
<1>2. phase' = "try" /\ fc' = 0 /\ attempt' = 0 /\ left' = 0 /\ answer' = F!NoAnswer
  BY DEF F!Call
<1>3. FollowType'
  BY <1>1, <1>2 DEF FollowType, F!maxRetry, F!Or
<1>4. BudgetInv'
  BY <1>1, <1>2 DEF BudgetInv
<1>5. AnswerInv'
  BY <1>2 DEF AnswerInv, F!NoAnswer
<1> QED BY <1>3, <1>4, <1>5 DEF FollowInv

LEMMA FollowStep == FollowInv /\ headers \in HeaderSets /\ F!FollowNext => FollowInv'
<1> SUFFICES ASSUME FollowInv, headers \in HeaderSets, F!FollowNext PROVE FollowInv'
  OBVIOUS
<1>0. MaxUint \in Nat \ {0} /\ MaxFollow \in 0..MaxUint /\ F!maxRetry \in Nat \ {0}
  BY GetStateAssumption, RetryLimit
<1>1. FollowType /\ BudgetInv /\ AnswerInv
  BY DEF FollowInv
<1>2. F!maxRetry' = F!maxRetry
  BY DEF F!maxRetry, F!Or
<1>3. CASE F!Try
  <2>1. phase' = "loop" /\ left' = F!Left /\ phase = "try" /\ UNCHANGED <<fc, attempt, answer>>
    BY <1>3 DEF F!Try
  <2>2. FollowType'
    BY <1>1, <1>2, <2>1, LeftWord DEF FollowType
  <2>3. BudgetInv'
    <3>1. MaxFollow \notin {0, MaxUint} => fc <= MaxFollow + 1 /\ left' = MaxFollow + 1 - fc
      BY <1>1, <2>1, LeftWord DEF BudgetInv
    <3>2. fc \in 0..MaxUint
      BY <1>1 DEF FollowType
    <3> QED BY <1>0, <2>1, <3>1, <3>2 DEF BudgetInv
  <2>4. AnswerInv'
    BY <1>1, <2>1 DEF AnswerInv, F!NoAnswer
  <2> QED BY <2>2, <2>3, <2>4 DEF FollowInv
<1>4. CASE F!Exhausted
  <2>1. /\ phase = "loop" /\ left = 0 /\ phase' = "done" /\ answer' = [err |-> "redirect"]
        /\ UNCHANGED <<fc, left, attempt>>
    BY <1>4 DEF F!Exhausted, F!Failed, F!Done
  <2>2. FollowType'
    BY <1>1, <1>2, <2>1 DEF FollowType
  <2>3. BudgetInv'
    <3>1. MaxFollow \notin {0, MaxUint} => fc + 0 = MaxFollow + 1 /\ fc \in 0..MaxUint
      BY <1>1, <2>1 DEF BudgetInv, FollowType
    <3> QED BY <1>0, <2>1, <3>1 DEF BudgetInv
  <2>4. AnswerInv'
    BY <2>1 DEF AnswerInv, Reasons
  <2> QED BY <2>2, <2>3, <2>4 DEF FollowInv
<1>5. ASSUME NEW where \in Locations, F!Redirect(where) PROVE FollowInv'
  <2>1. /\ phase = "loop" /\ phase' = phase /\ left # 0
        /\ fc' = (fc + 1) % (MaxUint + 1) /\ left' = left - 1 /\ UNCHANGED <<attempt, answer>>
    BY <1>5 DEF F!Redirect, F!Asking, F!Word
  <2>2. fc \in 0..MaxUint /\ left \in 0..MaxUint
    BY <1>1 DEF FollowType
  <2> DEFINE m == MaxUint + 1
             n == fc + 1
  <2>3. m \in Nat \ {0} /\ n \in Nat /\ m - 1 = MaxUint
    BY <1>0, <2>2
  <2>4. fc' = n % m
    BY <2>1
  <2> HIDE DEF m, n
  <2>5. fc' \in 0..MaxUint /\ (n < m => fc' = n)
    BY <2>3, <2>4, Remainder
  <2>6. FollowType'
    BY <1>0, <1>1, <1>2, <2>1, <2>2, <2>5 DEF FollowType
  <2>7. BudgetInv'
    <3> SUFFICES ASSUME MaxFollow \notin {0, MaxUint} PROVE fc' + left' = MaxFollow + 1
      BY <2>1 DEF BudgetInv
    <3>1. fc + left = MaxFollow + 1
      BY <1>1, <2>1 DEF BudgetInv
    <3>2. n < m
      BY <1>0, <2>1, <2>2, <3>1 DEF n, m
    <3>3. fc' = fc + 1
      BY <2>5, <3>2 DEF n
    <3> QED BY <1>0, <2>1, <2>2, <3>1, <3>3
  <2>8. AnswerInv'
    BY <1>1, <2>1 DEF AnswerInv, F!NoAnswer
  <2> QED BY <2>6, <2>7, <2>8 DEF FollowInv
<1>6. CASE F!Unavailable
  <2>1. /\ phase = "loop" /\ left # 0 /\ UNCHANGED <<fc, left, attempt>>
        /\ \/ attempt = F!maxRetry /\ phase' = "done" /\ answer' = [err |-> "retry"]
           \/ attempt # F!maxRetry /\ phase' = "backoff" /\ answer' = answer
    BY <1>6 DEF F!Unavailable, F!Asking, F!Failed, F!Done
  <2>2. FollowType'
    BY <1>0, <1>1, <1>2, <2>1 DEF FollowType
  <2>3. BudgetInv'
    <3>1. MaxFollow \notin {0, MaxUint} => fc <= MaxFollow + 1
      BY <1>0, <1>1, <2>1 DEF BudgetInv, FollowType
    <3> QED BY <2>1, <3>1 DEF BudgetInv
  <2>4. AnswerInv'
    BY <1>1, <2>1 DEF AnswerInv, Reasons, F!NoAnswer
  <2> QED BY <2>2, <2>3, <2>4 DEF FollowInv
<1>7. CASE F!Unusable
  <2>1. /\ phase' = "done" /\ answer' = [err |-> "status"] /\ UNCHANGED <<fc, left, attempt>>
    BY <1>7 DEF F!Unusable, F!Failed, F!Done
  <2>2. FollowType' /\ BudgetInv' /\ AnswerInv'
    BY <1>1, <1>2, <2>1 DEF FollowType, BudgetInv, AnswerInv, Reasons
  <2> QED BY <2>2 DEF FollowInv
<1>8. ASSUME NEW resource \in Resources, F!Found(resource) PROVE FollowInv'
  <2>1. /\ phase' = "done" /\ answer' = [err |-> "nil", resource |-> resource, headers |-> headers]
        /\ UNCHANGED <<fc, left, attempt>>
    BY <1>8 DEF F!Found, F!Done
  <2>2. FollowType' /\ BudgetInv' /\ AnswerInv'
    BY <1>1, <1>2, <2>1 DEF FollowType, BudgetInv, AnswerInv
  <2> QED BY <2>2 DEF FollowInv
<1>9. CASE F!Backoff
  <2>1. /\ phase = "backoff" /\ UNCHANGED <<fc, left>>
        /\ \/ phase' = "done" /\ answer' = [err |-> "canceled"] /\ attempt' = attempt
           \/ phase' = "try" /\ attempt' = attempt + 1 /\ answer' = answer
    BY <1>9 DEF F!Backoff, F!Failed, F!Done
  <2>2. FollowType'
    BY <1>0, <1>1, <1>2, <2>1 DEF FollowType
  <2>3. BudgetInv' /\ AnswerInv'
    BY <1>1, <2>1 DEF BudgetInv, AnswerInv, Reasons, F!NoAnswer
  <2> QED BY <2>2, <2>3 DEF FollowInv
<1> QED BY <1>3, <1>4, <1>5, <1>6, <1>7, <1>8, <1>9 DEF F!FollowNext

LEMMA FollowBudget == FollowInv => F!FollowTypeOK /\ F!RedirectBudget
<1> SUFFICES ASSUME FollowInv PROVE F!FollowTypeOK /\ F!RedirectBudget
  OBVIOUS
<1>1. F!FollowTypeOK
  BY DEF FollowInv, FollowType, F!FollowTypeOK
<1>2. F!RedirectBudget
  <2> SUFFICES ASSUME MaxFollow \notin {0, MaxUint}
               PROVE  /\ F!Asking => fc <= MaxFollow /\ fc + left = MaxFollow + 1
                      /\ answer.err = "redirect" => fc = MaxFollow + 1
    BY DEF F!RedirectBudget
  <2>1. MaxFollow \in Nat /\ fc \in Nat /\ left \in Nat
    BY GetStateAssumption DEF FollowInv, FollowType
  <2>2. F!Asking => fc + left = MaxFollow + 1 /\ left # 0
    BY DEF FollowInv, BudgetInv, F!Asking
  <2>3. answer.err = "redirect" => phase = "done"
    BY DEF FollowInv, AnswerInv, F!NoAnswer
  <2> QED BY <2>1, <2>2, <2>3 DEF FollowInv, BudgetInv
<1> QED BY <1>1, <1>2

-----------------------------------------------------------------------------
(* The session.                                                            *)

OwnType ==
  /\ gs \in {"switch", "loaded", "mirror", "follow", "refollow", "done"}
  /\ sessionName \in {"none", "named", "found"}
  /\ headers \in HeaderSets /\ optHeaders \in HeaderSets
  /\ saved.headers \in HeaderSets

Confirmed ==
  /\ returned.resource.id = answer.resource.id
  /\ returned.url = rawURL /\ returned.location = location
  /\ returned.headers = answer.headers /\ headers = answer.headers

\* The headers the next request will have are those of the parts; an answer to
\* be taken was asked for with them, and a session that goes round the loop once
\* more is that of the last answer.
SessionInv ==
  /\ gs # "done" => headers = optHeaders
  /\ gs # "done" /\ phase = "done" /\ answer.err = "nil" => answer.headers = headers
  /\ gs \in {"switch", "loaded"} /\ session # NoSession =>
       phase = "done" /\ answer.err = "nil" /\ session = Answered(FALSE)
  /\ gs = "done" /\ returned.err = "nil" => Confirmed

LEMMA OwnStep ==
  ASSUME FollowInv, OwnType, SessionInv, Own, verdict \in {"none", "ok", "empty", "error"}
  PROVE  FollowInv' /\ OwnType' /\ SessionInv'
<1>0. phase # "done" => answer.err # "nil"
  BY DEF FollowInv, AnswerInv, F!NoAnswer
<1>1. ASSUME UNCHANGED followVars PROVE FollowInv'
  BY <1>1 DEF followVars, FollowInv, FollowType, BudgetInv, AnswerInv, F!maxRetry, F!Or, F!NoAnswer
<1>2. CASE Load
  <2>1. FollowInv'
    BY <1>1, <1>2 DEF Load
  <2>2. OwnType'
    BY <1>2 DEF Load, OwnType, States, HeaderSets
  <2>3. SessionInv'
    BY <1>2 DEF Load, SessionInv, Answered, followVars, Confirmed
  <2> QED BY <2>1, <2>2, <2>3
<1>3. CASE LoadFails
  <2>1. FollowInv'
    BY <1>1, <1>3 DEF LoadFails
  <2>2. OwnType' /\ SessionInv'
    BY <1>3 DEF LoadFails, Refuse, OwnType, SessionInv
  <2> QED BY <2>1, <2>2
<1>4. CASE TakeFound
  <2>1. FollowInv'
    BY <1>1, <1>4 DEF TakeFound
  <2>2. gs' = "done" /\ OwnType'
    BY <1>4 DEF TakeFound, Accept, OwnType
  <2>3. /\ session = Answered(FALSE) /\ answer.headers = headers /\ headers = optHeaders
        /\ saved.headers = session.headers /\ headers' = saved.headers /\ RestoredUrl = session.url
        /\ UNCHANGED <<answer, rawURL, location>>
    BY <1>4 DEF TakeFound, SessionInv, RestoredUrl, followVars
  <2>4. /\ session.url = rawURL /\ session.location = location /\ session.headers = optHeaders
        /\ session.resource = answer.resource
    BY <2>3 DEF Answered
  <2>5. returned'.err = "nil" =>
          /\ returned'.resource = saved.resource /\ saved.resource.id = session.resource.id
          /\ returned'.url = RestoredUrl /\ returned'.location = session.location
          /\ returned'.headers = saved.headers
    BY <1>4 DEF TakeFound, Accept
  <2>6. SessionInv'
    BY <2>2, <2>3, <2>4, <2>5 DEF SessionInv, Confirmed
  <2> QED BY <2>1, <2>2, <2>6
<1>5. CASE Refollow
  <2>1. FollowInv' /\ phase' = "try"
    BY <1>5, FollowStart DEF Refollow, F!Call
  <2>2. OwnType' /\ SessionInv'
    BY <1>5, <2>1 DEF Refollow, RefollowHeaders, OwnType, SessionInv
  <2> QED BY <2>1, <2>2
<1>6. CASE StartMirrors
  <2>1. FollowInv'
    BY <1>1, <1>6 DEF StartMirrors
  <2>2. OwnType' /\ SessionInv'
    BY <1>6 DEF StartMirrors, OwnType, SessionInv, followVars
  <2> QED BY <2>1, <2>2
<1>7. CASE StartLocation
  <2>1. FollowInv' /\ phase' = "try"
    BY <1>7, FollowStart DEF StartLocation, F!Call
  <2>2. OwnType' /\ SessionInv'
    BY <1>7, <2>1 DEF StartLocation, OwnType, SessionInv
  <2> QED BY <2>1, <2>2
<1>8. CASE NothingGiven
  <2>1. FollowInv'
    BY <1>1, <1>8 DEF NothingGiven
  <2>2. OwnType' /\ SessionInv'
    BY <1>8 DEF NothingGiven, Refuse, OwnType, SessionInv
  <2> QED BY <2>1, <2>2
<1>9. CASE MirrorsEnd
  <2>1. FollowInv'
    BY <1>1, <1>9 DEF MirrorsEnd
  <2>2. returned'.err # "nil"
    BY <1>9 DEF MirrorsEnd, Refuse
  <2>3. OwnType' /\ SessionInv'
    BY <1>9, <2>2 DEF MirrorsEnd, Refuse, OwnType, SessionInv
  <2> QED BY <2>1, <2>3
<1>10. CASE FollowFastest
  <2>1. FollowInv' /\ phase' = "try"
    BY <1>10, FollowStart DEF FollowFastest, F!Call
  <2>2. OwnType' /\ SessionInv'
    BY <1>10, <2>1 DEF FollowFastest, OwnType, SessionInv
  <2> QED BY <2>1, <2>2
<1>11. CASE FollowFails
  <2>1. FollowInv'
    BY <1>1, <1>11 DEF FollowFails
  <2>2. OwnType' /\ SessionInv'
    BY <1>11 DEF FollowFails, Refuse, OwnType, SessionInv
  <2> QED BY <2>1, <2>2
<1>12. CASE FindState
  <2>1. FollowInv'
    BY <1>1, <1>12 DEF FindState
  <2>2. OwnType' /\ SessionInv'
    BY <1>12 DEF FindState, OwnType, SessionInv, Answered, followVars
  <2> QED BY <2>1, <2>2
<1>13. CASE NewSession
  <2>1. FollowInv'
    BY <1>1, <1>13 DEF NewSession
  <2>2. /\ gs' = "done" /\ OwnType'
        /\ answer.headers = headers /\ headers = optHeaders
        /\ UNCHANGED <<answer, rawURL, location, headers>>
    BY <1>13 DEF NewSession, OwnType, SessionInv, followVars
  <2>3. returned'.err = "nil" => returned' = Answered(FALSE)
    <3>1. /\ session' = Answered(FALSE)
          /\ returned' = session' \/ returned' = [err |-> "parts"] \/ returned' = [err |-> "output"]
      BY <1>13 DEF NewSession
    <3>2. [err |-> "parts"].err # "nil" /\ [err |-> "output"].err # "nil"
      OBVIOUS
    <3> QED BY <3>1, <3>2
  <2>4. SessionInv'
    BY <2>2, <2>3 DEF SessionInv, Answered, Confirmed
  <2> QED BY <2>1, <2>2, <2>4
<1>14. CASE Restore
  <2>1. FollowInv'
    BY <1>1, <1>14 DEF Restore
  <2>2. /\ gs' = "done" /\ OwnType'
        /\ answer.headers = headers /\ headers = optHeaders
        /\ UNCHANGED <<answer, rawURL, location, headers>>
    BY <1>14 DEF Restore, Accept, OwnType, SessionInv, followVars
  <2>3. returned'.err = "nil" => returned' = Answered(TRUE)
    BY <1>14 DEF Restore, Accept
  <2>4. SessionInv'
    BY <2>2, <2>3 DEF SessionInv, Answered, Confirmed
  <2> QED BY <2>1, <2>2, <2>4
<1> QED BY <1>2, <1>3, <1>4, <1>5, <1>6, <1>7, <1>8, <1>9, <1>10, <1>11, <1>12, <1>13, <1>14 DEF Own

-----------------------------------------------------------------------------
(* The mirrors.                                                            *)

Entries == [url : B!Mirrors, dur : Nat]

MirrorType ==
  /\ signal \in BOOLEAN /\ cause \in {"none", "scan", "request"}
  /\ reader \in {"scan", "send", "closed"} /\ at \in 1..(Len(Lines) + 1)
  /\ seen \subseteq B!Mirrors /\ answered \subseteq seen
  /\ worker \in [Workers -> {"recv", "query", "send", "end"}]
  /\ url \in [Workers -> B!Mirrors \cup {Junk}]
  /\ passes \in [Workers -> Nat] /\ sum \in [Workers -> Nat]
  /\ dst \in Seq(Entries) /\ Len(dst) <= Capacity /\ mirrors \in Seq(Entries)
  /\ verdict \in {"none", "ok", "empty", "error"}

\* The lines before the one the reader is at have been handed over, but for those
\* that are no mirrors; it closes its channel early only when all is canceled.
ReaderInv ==
  /\ reader = "send" => at <= Len(Lines) /\ Lines[at] \notin seen \cup {Junk}
  /\ \A i \in 1..(at - 1) : Lines[i] \in seen \cup {Junk}
  /\ reader = "closed" => B!Canceled \/ at > Len(Lines)

Busy(w) == worker[w] \in {"query", "send"}

\* No two workers have the same mirror, and none ends before the reader does.
WorkersInv ==
  /\ \A w \in Workers :
       /\ Busy(w) => url[w] \in seen
       /\ worker[w] = "query" => url[w] \notin answered
       /\ worker[w] = "send" => url[w] \in answered
       /\ worker[w] = "end" => reader = "closed" \/ B!Canceled
  /\ \A v, w \in Workers : Busy(v) /\ Busy(w) /\ url[v] = url[w] => v = w

\* A mirror that has answered is on its way to the caller or has arrived, once.
queue == mirrors \o dst

QueueInv ==
  /\ \A i \in 1..Len(queue) : queue[i].url \in answered
  /\ \A i, j \in 1..Len(queue) : queue[i].url = queue[j].url => i = j
  /\ \A i \in 1..Len(queue), w \in Workers : Busy(w) => url[w] # queue[i].url
  /\ ~B!Canceled => \A m \in answered :
       (\E i \in 1..Len(queue) : queue[i].url = m) \/ (\E w \in Workers : worker[w] = "send" /\ url[w] = m)

OkInv ==
  verdict = "ok" =>
    B!OkIsComplete /\ reader = "closed" /\ dst = <<>> /\ \A w \in Workers : worker[w] = "end"

MirrorInv == MirrorType /\ ReaderInv /\ WorkersInv /\ QueueInv /\ OkInv

IInv == FollowInv /\ OwnType /\ SessionInv /\ MirrorInv

LEMMA CollectQueue ==
  ASSUME NEW S, NEW m \in Seq(S), NEW d \in Seq(S), d # <<>>
  PROVE  Append(m, Head(d)) \o Tail(d) = m \o d
<1>1. Head(d) \in S /\ Tail(d) \in Seq(S)
  BY HeadTailProperties
<1> DEFINE one == <<Head(d)>>
<1>2. one \in Seq(S) /\ Append(m, Head(d)) = m \o one
  BY <1>1, AppendIsConcat
<1>3. one \o Tail(d) = d
  BY <1>1, <1>2, HeadTailProperties
<1> HIDE DEF one
<1>4. (m \o one) \o Tail(d) = m \o (one \o Tail(d))
  BY <1>1, <1>2, ConcatAssociative
<1> QED BY <1>2, <1>3, <1>4

LEMMA SendQueue ==
  ASSUME NEW S, NEW m \in Seq(S), NEW d \in Seq(S), NEW x \in S
  PROVE  m \o Append(d, x) = Append(m \o d, x)
<1> DEFINE one == <<x>>
<1>1. one \in Seq(S) /\ m \o d \in Seq(S)
  BY ConcatProperties
<1>2. Append(d, x) = d \o one /\ Append(m \o d, x) = (m \o d) \o one
  BY <1>1, AppendIsConcat
<1> HIDE DEF one
<1>3. (m \o d) \o one = m \o (d \o one)
  BY <1>1, ConcatAssociative
<1> QED BY <1>2, <1>3

LEMMA QueueType == MirrorType => queue \in Seq(Entries) /\ Len(queue) \in Nat
BY ConcatProperties, LenProperties DEF MirrorType, queue

LEMMA MirrorStart ==
  ASSUME cause' = "none",
         reader' = "scan" /\ at' = 1 /\ seen' = {},
         worker' = [w \in Workers |-> "recv"] /\ url' = [w \in Workers |-> Junk],
         passes' = [w \in Workers |-> 0] /\ sum' = [w \in Workers |-> 0],
         dst' = <<>> /\ mirrors' = <<>> /\ verdict' = "none" /\ answered' = {},
         signal' \in BOOLEAN
  PROVE  MirrorInv'
<1>0. Len(Lines) \in Nat /\ Capacity \in Nat \ {0}
  BY LenProperties, GetStateAssumption
<1>1. MirrorType'
  BY <1>0 DEF MirrorType
<1>2. ReaderInv'
  BY DEF ReaderInv
<1>3. WorkersInv'
  BY DEF WorkersInv, Busy
<1>4. queue' = <<>>
  BY DEF queue
<1>5. QueueInv'
  BY <1>4 DEF QueueInv
<1>6. OkInv'
  BY DEF OkInv
<1> QED BY <1>1, <1>2, <1>3, <1>5, <1>6 DEF MirrorInv

\* Nobody does anything once the mirrors are returned.
LEMMA MirrorsReturned == MirrorInv /\ B!MirrorNext => verdict # "ok"
<1> SUFFICES ASSUME MirrorInv, B!MirrorNext, verdict = "ok" PROVE FALSE
  OBVIOUS
<1>1. reader = "closed" /\ dst = <<>> /\ \A w \in Workers : worker[w] = "end"
  BY DEF MirrorInv, OkInv
<1>2. ~B!ReaderStep
  BY <1>1 DEF B!ReaderStep, B!Scan, B!ScanEnds, B!ScanFails, B!ReaderStops
<1>3. ~B!CallerStep
  BY DEF B!CallerStep, B!Collect, B!Return
<1>4. ASSUME NEW w \in Workers, B!WorkerStep(w) PROVE FALSE
  BY <1>1, <1>4 DEF B!WorkerStep, B!Take, B!NoMore, B!Refuse, B!Query, B!QueryFails, B!SendMirror,
                    B!SendStops
<1> QED BY <1>2, <1>3, <1>4 DEF B!MirrorNext

\* What is in the list.
LEMMA LineFacts ==
  /\ Len(Lines) \in Nat
  /\ \A i \in 1..Len(Lines) : Lines[i] # Junk => Lines[i] \in B!Mirrors
<1>1. Len(Lines) \in Nat /\ DOMAIN Lines = 1..Len(Lines)
  BY GetStateAssumption, LenProperties
<1> QED BY <1>1 DEF B!Mirrors

SafeParts == MirrorType /\ ReaderInv /\ WorkersInv /\ QueueInv

LEMMA CancelFacts ==
  ASSUME NEW why \in {"scan", "request"}, MirrorType, B!Cancel(why), signal' = signal
  PROVE  B!Canceled' /\ cause' \in {"none", "scan", "request"}
BY DEF B!Cancel, B!Canceled, MirrorType

LEMMA ReaderSteps == MirrorInv /\ B!ReaderStep => SafeParts'
<1> SUFFICES ASSUME MirrorInv, B!ReaderStep PROVE SafeParts'
  OBVIOUS
<1>1. MirrorType /\ ReaderInv /\ WorkersInv /\ QueueInv
  BY DEF MirrorInv
<1>2. /\ UNCHANGED <<signal, seen, worker, url, passes, sum, dst, mirrors, verdict, answered>>
  BY DEF B!ReaderStep, B!Scan, B!ScanEnds, B!ScanFails, B!ReaderStops, B!workerVars
<1>3. B!Canceled => B!Canceled'
  BY DEF B!ReaderStep, B!Scan, B!ScanEnds, B!ScanFails, B!ReaderStops, B!Canceled, B!Cancel
<1>4. QueueInv'
  <2>1. queue' = queue /\ \A w \in Workers : Busy(w)' <=> Busy(w)
    BY <1>2 DEF queue, Busy
  <2> QED BY <1>1, <1>2, <1>3, <2>1 DEF QueueInv
<1>5. reader # "closed"
  BY DEF B!ReaderStep, B!Scan, B!ScanEnds, B!ScanFails, B!ReaderStops
<1>6. WorkersInv'
  BY <1>1, <1>2, <1>3, <1>5 DEF WorkersInv, Busy
<1>7. ASSUME at' \in 1..(Len(Lines) + 1), reader' \in {"scan", "send", "closed"},
             cause' \in {"none", "scan", "request"}
      PROVE  MirrorType'
  BY <1>1, <1>2, <1>7 DEF MirrorType
<1>8. cause \in {"none", "scan", "request"} /\ at \in 1..(Len(Lines) + 1) /\ Len(Lines) \in Nat
  BY <1>1, LineFacts DEF MirrorType
<1>9. CASE B!Scan
  <2>1. cause' = cause /\ at <= Len(Lines)
        /\ IF Lines[at] \in seen \cup {Junk} THEN at' = at + 1 /\ reader' = "scan"
                                             ELSE reader' = "send" /\ at' = at
    BY <1>9 DEF B!Scan
  <2>2. MirrorType'
    BY <1>7, <1>8, <2>1
  <2>3. ReaderInv'
    <3>1. reader' = "send" => at' <= Len(Lines) /\ Lines[at'] \notin seen' \cup {Junk}
      BY <1>2, <2>1
    <3>2. ASSUME NEW i \in 1..(at' - 1) PROVE Lines[i] \in seen' \cup {Junk}
      <4>1. i \in 1..(at - 1) \/ (i = at /\ at' = at + 1)
        BY <1>8, <2>1, <3>2
      <4> QED BY <1>1, <1>2, <2>1, <4>1 DEF ReaderInv
    <3> QED BY <2>1, <3>1, <3>2 DEF ReaderInv
  <2> QED BY <1>4, <1>6, <2>2, <2>3 DEF SafeParts
<1>10. CASE B!ScanEnds \/ B!ReaderStops
  <2>1. cause' = cause /\ at' = at /\ reader' = "closed" /\ (B!Canceled \/ at > Len(Lines))
    BY <1>10 DEF B!ScanEnds, B!ReaderStops
  <2>2. MirrorType'
    BY <1>7, <1>8, <2>1
  <2>3. ReaderInv'
    BY <1>1, <1>2, <1>3, <2>1 DEF ReaderInv
  <2> QED BY <1>4, <1>6, <2>2, <2>3 DEF SafeParts
<1>11. CASE B!ScanFails
  <2>1. B!Canceled' /\ cause' \in {"none", "scan", "request"} /\ at' = at /\ reader' = "closed"
    BY <1>1, <1>2, <1>11, CancelFacts DEF B!ScanFails
  <2>2. MirrorType'
    BY <1>7, <1>8, <2>1
  <2>3. ReaderInv'
    BY <1>1, <1>2, <2>1 DEF ReaderInv
  <2> QED BY <1>4, <1>6, <2>2, <2>3 DEF SafeParts
<1> QED BY <1>9, <1>10, <1>11 DEF B!ReaderStep

\* A worker that gives its mirror up, or has none.
LEMMA WorkerQuits ==
  ASSUME MirrorInv, NEW w \in Workers,
         B!NoMore(w) \/ B!Refuse(w) \/ B!QueryFails(w) \/ B!SendStops(w)
  PROVE  SafeParts'
<1>1. MirrorType /\ ReaderInv /\ WorkersInv /\ QueueInv
  BY DEF MirrorInv
<1>2. UNCHANGED <<signal, reader, at, seen, url, passes, sum, dst, mirrors, verdict, answered>>
  BY DEF B!NoMore, B!Refuse, B!QueryFails, B!SendStops, B!readerVars
<1>3. (B!Canceled => B!Canceled') /\ cause' \in {"none", "scan", "request"}
  BY <1>1 DEF B!NoMore, B!Refuse, B!QueryFails, B!SendStops, B!Canceled, B!Cancel, MirrorType
<1>4. PICK x \in {"recv", "end"} : worker' = [worker EXCEPT ![w] = x]
  BY DEF B!NoMore, B!Refuse, B!QueryFails, B!SendStops
<1>5. /\ worker'[w] \in {"recv", "end"} /\ \A v \in Workers : v # w => worker'[v] = worker[v]
      /\ worker' \in [Workers -> {"recv", "query", "send", "end"}]
  BY <1>1, <1>4 DEF MirrorType
<1>6. /\ worker'[w] = "end" => reader = "closed" \/ B!Canceled'
      /\ worker[w] = "send" => B!Canceled'
  <2>1. CASE B!NoMore(w)
    BY <2>1 DEF B!NoMore
  <2>2. CASE B!Refuse(w)
    BY <1>1, <1>2, <2>2, CancelFacts DEF B!Refuse
  <2>3. CASE B!QueryFails(w)
    <3>1. worker[w] = "query" /\ (worker'[w] = "end" => B!Canceled)
      BY <1>1, <2>3 DEF B!QueryFails, MirrorType
    <3> QED BY <1>3, <3>1
  <2>4. CASE B!SendStops(w)
    BY <1>3, <2>4 DEF B!SendStops
  <2> QED BY <2>1, <2>2, <2>3, <2>4
<1>7. MirrorType'
  BY <1>1, <1>2, <1>3, <1>5 DEF MirrorType
<1>8. ReaderInv'
  BY <1>1, <1>2, <1>3 DEF ReaderInv
<1>9. \A v \in Workers : Busy(v)' => Busy(v) /\ v # w
  BY <1>5 DEF Busy
<1>10. WorkersInv'
  <2>1. ASSUME NEW v \in Workers
        PROVE  /\ Busy(v)' => url[v] \in seen
               /\ worker'[v] = "query" => url[v] \notin answered
               /\ worker'[v] = "send" => url[v] \in answered
               /\ worker'[v] = "end" => reader = "closed" \/ B!Canceled'
    BY <1>1, <1>3, <1>5, <1>6, <1>9 DEF WorkersInv
  <2> QED BY <1>1, <1>2, <1>9, <2>1 DEF WorkersInv
<1>11. QueueInv'
  <2>1. queue' = queue
    BY <1>2 DEF queue
  <2>2. ~B!Canceled' => ~B!Canceled /\ \A v \in Workers : worker[v] = "send" => worker'[v] = "send"
    BY <1>3, <1>5, <1>6
  <2> QED BY <1>1, <1>2, <1>9, <2>1, <2>2 DEF QueueInv
<1> QED BY <1>7, <1>8, <1>10, <1>11 DEF SafeParts

LEMMA WorkerTakes == ASSUME MirrorInv, NEW w \in Workers, B!Take(w) PROVE SafeParts'
<1>1. MirrorType /\ ReaderInv /\ WorkersInv /\ QueueInv
  BY DEF MirrorInv
<1> DEFINE m == Lines[at]
<1>2. /\ UNCHANGED <<signal, cause, dst, mirrors, verdict, answered>>
      /\ worker[w] = "recv" /\ reader = "send" /\ reader' = "scan" /\ at' = at + 1 /\ seen' = seen \cup {m}
      /\ url' = [url EXCEPT ![w] = m] /\ worker' = [worker EXCEPT ![w] = "query"]
      /\ passes' = [passes EXCEPT ![w] = 0] /\ sum' = [sum EXCEPT ![w] = 0]
  BY DEF B!Take
<1>3. m \in B!Mirrors /\ m \notin seen /\ at <= Len(Lines) /\ at \in 1..(Len(Lines) + 1) /\ Len(Lines) \in Nat
  <2>1. at <= Len(Lines) /\ m \notin seen \cup {Junk}
    BY <1>1, <1>2 DEF ReaderInv
  <2>2. at \in 1..(Len(Lines) + 1) /\ Len(Lines) \in Nat
    BY <1>1, LineFacts DEF MirrorType
  <2>3. at \in 1..Len(Lines)
    BY <2>1, <2>2
  <2> QED BY <2>1, <2>2, <2>3, LineFacts
<1>4. B!Canceled' <=> B!Canceled
  BY <1>2 DEF B!Canceled
<1> HIDE DEF m
<1>5. /\ worker'[w] = "query" /\ url'[w] = m
      /\ \A v \in Workers : v # w => worker'[v] = worker[v] /\ url'[v] = url[v]
  BY <1>1, <1>2 DEF MirrorType
<1>6. MirrorType'
  <2>1. at' \in 1..(Len(Lines) + 1)
    BY <1>2, <1>3
  <2>2. worker' \in [Workers -> {"recv", "query", "send", "end"}] /\ url' \in [Workers -> B!Mirrors \cup {Junk}]
    BY <1>1, <1>2, <1>3 DEF MirrorType
  <2>3. passes' \in [Workers -> Nat] /\ sum' \in [Workers -> Nat]
    BY <1>1, <1>2 DEF MirrorType
  <2>4. seen' \subseteq B!Mirrors /\ answered' \subseteq seen'
    BY <1>1, <1>2, <1>3 DEF MirrorType
  <2> QED BY <1>1, <1>2, <2>1, <2>2, <2>3, <2>4 DEF MirrorType
<1>7. ReaderInv'
  <2>1. ASSUME NEW i \in 1..(at' - 1) PROVE Lines[i] \in seen' \cup {Junk}
    <3>1. i \in 1..(at - 1) \/ i = at
      BY <1>2, <1>3
    <3> QED BY <1>1, <1>2, <3>1 DEF ReaderInv, m
  <2> QED BY <1>2, <2>1 DEF ReaderInv
<1>8. answered \subseteq seen
  BY <1>1 DEF MirrorType
<1>9. \A v \in Workers : v # w => (Busy(v)' <=> Busy(v)) /\ (Busy(v) => url[v] # m)
  BY <1>1, <1>3, <1>5 DEF WorkersInv, Busy
<1>10. WorkersInv'
  <2>1. ASSUME NEW v \in Workers
        PROVE  /\ Busy(v)' => url'[v] \in seen'
               /\ worker'[v] = "query" => url'[v] \notin answered'
               /\ worker'[v] = "send" => url'[v] \in answered'
               /\ worker'[v] = "end" => reader' = "closed" \/ B!Canceled'
    <3>1. CASE v = w
      BY <1>2, <1>3, <1>5, <1>8, <3>1
    <3>2. CASE v # w
      BY <1>1, <1>2, <1>4, <1>5, <1>9, <3>2 DEF WorkersInv
    <3> QED BY <3>1, <3>2
  <2>2. ASSUME NEW u \in Workers, NEW v \in Workers, Busy(u)', Busy(v)', url'[u] = url'[v] PROVE u = v
    BY <1>1, <1>5, <1>9, <2>2 DEF WorkersInv
  <2> QED BY <2>1, <2>2 DEF WorkersInv
<1>11. QueueInv'
  <2>1. queue' = queue
    BY <1>2 DEF queue
  <2>2. ASSUME NEW i \in 1..Len(queue), NEW v \in Workers, Busy(v)' PROVE url'[v] # queue[i].url
    <3>1. queue[i].url \in seen
      BY <1>1, <1>8 DEF QueueInv
    <3> QED BY <1>1, <1>3, <1>5, <1>9, <2>2, <3>1 DEF QueueInv
  <2>3. \A v \in Workers : worker[v] = "send" => worker'[v] = "send" /\ url'[v] = url[v]
    BY <1>2, <1>5
  <2> QED BY <1>1, <1>2, <1>4, <2>1, <2>2, <2>3 DEF QueueInv
<1> QED BY <1>6, <1>7, <1>10, <1>11 DEF SafeParts

LEMMA WorkerQueries ==
  ASSUME MirrorInv, NEW w \in Workers, NEW dur \in Durations, B!Query(w, dur) PROVE SafeParts'
<1>1. MirrorType /\ ReaderInv /\ WorkersInv /\ QueueInv
  BY DEF MirrorInv
<1>2. /\ UNCHANGED <<signal, cause, reader, at, seen, url, dst, mirrors, verdict>> /\ worker[w] = "query"
      /\ passes' = [passes EXCEPT ![w] = @ + 1] /\ sum' = [sum EXCEPT ![w] = @ + dur]
  BY DEF B!Query, B!readerVars
<1>3. passes' \in [Workers -> Nat] /\ sum' \in [Workers -> Nat]
  <2>1. passes[w] + 1 \in Nat /\ sum[w] + dur \in Nat
    BY <1>1, GetStateAssumption DEF MirrorType
  <2> QED BY <1>1, <1>2, <2>1 DEF MirrorType
<1>4. B!Canceled' <=> B!Canceled
  BY <1>2 DEF B!Canceled
<1>5. queue' = queue
  BY <1>2 DEF queue
<1>6. ReaderInv'
  BY <1>1, <1>2, <1>4 DEF ReaderInv
<1>7. CASE UNCHANGED <<worker, answered>>
  <2>1. MirrorType'
    BY <1>1, <1>2, <1>3, <1>7 DEF MirrorType
  <2>2. WorkersInv'
    BY <1>1, <1>2, <1>4, <1>7 DEF WorkersInv, Busy
  <2>3. QueueInv'
    BY <1>1, <1>2, <1>4, <1>5, <1>7 DEF QueueInv, Busy
  <2> QED BY <1>6, <2>1, <2>2, <2>3 DEF SafeParts
<1>8. CASE worker' = [worker EXCEPT ![w] = "send"] /\ answered' = answered \cup {url[w]}
  <2>1. /\ worker'[w] = "send" /\ \A v \in Workers : v # w => worker'[v] = worker[v]
        /\ worker' \in [Workers -> {"recv", "query", "send", "end"}]
    BY <1>1, <1>8 DEF MirrorType
  <2>2. \A v \in Workers : Busy(v)' <=> Busy(v)
    BY <1>2, <2>1 DEF Busy
  <2>3. url[w] \in seen /\ url[w] \notin answered /\ Busy(w)
    BY <1>1, <1>2 DEF WorkersInv, Busy
  <2>4. MirrorType'
    BY <1>1, <1>2, <1>3, <1>8, <2>1, <2>3 DEF MirrorType
  <2>5. WorkersInv'
    <3>1. ASSUME NEW v \in Workers
          PROVE  /\ Busy(v)' => url[v] \in seen
                 /\ worker'[v] = "query" => url[v] \notin answered'
                 /\ worker'[v] = "send" => url[v] \in answered'
                 /\ worker'[v] = "end" => reader = "closed" \/ B!Canceled'
      <4>1. CASE v = w
        BY <1>8, <2>1, <2>3, <4>1
      <4>2. CASE v # w
        <5>1. worker'[v] = "query" => url[v] # url[w]
          BY <1>1, <2>1, <2>3, <4>2 DEF WorkersInv, Busy
        <5> QED BY <1>1, <1>4, <1>8, <2>1, <2>2, <4>2, <5>1 DEF WorkersInv
      <4> QED BY <4>1, <4>2
    <3> QED BY <1>1, <1>2, <2>2, <3>1 DEF WorkersInv
  <2>6. QueueInv'
    <3>1. \A v \in Workers : worker[v] = "send" => worker'[v] = "send"
      BY <2>1
    <3>2. ~B!Canceled' => \A m \in answered' :
            (\E i \in 1..Len(queue) : queue[i].url = m) \/ (\E v \in Workers : worker'[v] = "send" /\ url[v] = m)
      BY <1>1, <1>4, <1>8, <2>1, <3>1 DEF QueueInv
    <3> QED BY <1>1, <1>2, <1>5, <1>8, <2>2, <3>2 DEF QueueInv
  <2> QED BY <1>6, <2>4, <2>5, <2>6 DEF SafeParts
<1> QED BY <1>7, <1>8 DEF B!Query

LEMMA WorkerSends == ASSUME MirrorInv, NEW w \in Workers, B!SendMirror(w) PROVE SafeParts'
<1>1. MirrorType /\ ReaderInv /\ WorkersInv /\ QueueInv
  BY DEF MirrorInv
<1> DEFINE e == [url |-> url[w], dur |-> sum[w] \div Pass]
<1>2. /\ UNCHANGED <<signal, cause, reader, at, seen, url, passes, sum, mirrors, verdict, answered>>
      /\ worker[w] = "send" /\ worker' = [worker EXCEPT ![w] = "recv"]
      /\ Len(dst) < Capacity /\ dst' = Append(dst, e)
  BY DEF B!SendMirror, B!readerVars
<1>3. e \in Entries /\ e.url = url[w]
  <2>1. sum[w] \div Pass \in Nat
    <3>1. sum[w] \in Nat /\ Pass \in Nat \ {0}
      BY <1>1, GetStateAssumption DEF MirrorType
    <3> QED BY <3>1, Z3
  <2>2. url[w] \in B!Mirrors
    BY <1>1, <1>2 DEF WorkersInv, Busy, MirrorType
  <2> QED BY <2>1, <2>2 DEF Entries
<1> HIDE DEF e
<1>4. B!Canceled' <=> B!Canceled
  BY <1>2 DEF B!Canceled
<1>5. /\ worker'[w] = "recv" /\ \A v \in Workers : v # w => worker'[v] = worker[v]
      /\ worker' \in [Workers -> {"recv", "query", "send", "end"}]
  BY <1>1, <1>2 DEF MirrorType
<1>6. \A v \in Workers : Busy(v)' => Busy(v) /\ v # w
  BY <1>5 DEF Busy
<1>7. dst \in Seq(Entries) /\ mirrors \in Seq(Entries) /\ Len(dst) \in Nat /\ Capacity \in Nat
  BY <1>1, LenProperties, GetStateAssumption DEF MirrorType
<1>8. queue' = Append(queue, e)
  <2>1. queue' = mirrors \o Append(dst, e)
    BY <1>2 DEF queue
  <2> QED BY <1>3, <1>7, <2>1, SendQueue DEF queue
<1>9. queue \in Seq(Entries) /\ Len(queue) \in Nat
  BY <1>1, QueueType
<1> DEFINE n == Len(queue)
<1>10. /\ Len(queue') = n + 1 /\ queue'[n + 1] = e
       /\ \A i \in 1..n : queue'[i] = queue[i]
  BY <1>3, <1>8, <1>9, AppendProperties
<1>11. \A i \in 1..(n + 1) : i \in 1..n \/ i = n + 1
  BY <1>9
<1>12. MirrorType'
  <2>1. dst' \in Seq(Entries) /\ Len(dst') = Len(dst) + 1
    BY <1>2, <1>3, <1>7, AppendProperties
  <2>2. Len(dst') <= Capacity
    BY <1>2, <1>7, <2>1
  <2> QED BY <1>1, <1>2, <1>5, <2>1, <2>2 DEF MirrorType
<1>13. ReaderInv'
  BY <1>1, <1>2, <1>4 DEF ReaderInv
<1>14. WorkersInv'
  <2>1. ASSUME NEW v \in Workers
        PROVE  /\ Busy(v)' => url[v] \in seen
               /\ worker'[v] = "query" => url[v] \notin answered
               /\ worker'[v] = "send" => url[v] \in answered
               /\ worker'[v] = "end" => reader = "closed" \/ B!Canceled'
    BY <1>1, <1>4, <1>5, <1>6 DEF WorkersInv
  <2> QED BY <1>1, <1>2, <1>6, <2>1 DEF WorkersInv
<1>15. QueueInv'
  <2>1. url[w] \in answered /\ Busy(w)
    BY <1>1, <1>2 DEF WorkersInv, Busy
  <2>2. \A i \in 1..n : queue[i].url # url[w]
    BY <1>1, <2>1 DEF QueueInv
  <2>3. \A i \in 1..(n + 1) : queue'[i].url \in answered
    BY <1>1, <1>3, <1>10, <1>11, <2>1 DEF QueueInv
  <2>4. \A i, j \in 1..(n + 1) : queue'[i].url = queue'[j].url => i = j
    <3> SUFFICES ASSUME NEW i \in 1..(n + 1), NEW j \in 1..(n + 1), queue'[i].url = queue'[j].url PROVE i = j
      OBVIOUS
    <3>1. CASE i \in 1..n /\ j \in 1..n
      BY <1>1, <1>10, <3>1 DEF QueueInv
    <3>2. CASE i \in 1..n /\ j = n + 1
      BY <1>3, <1>10, <2>2, <3>2
    <3>3. CASE i = n + 1 /\ j \in 1..n
      BY <1>3, <1>10, <2>2, <3>3
    <3> QED BY <1>11, <3>1, <3>2, <3>3
  <2>5. ASSUME NEW i \in 1..(n + 1), NEW v \in Workers, Busy(v)' PROVE url[v] # queue'[i].url
    <3>1. CASE i \in 1..n
      BY <1>1, <1>6, <1>10, <2>5, <3>1 DEF QueueInv
    <3>2. CASE i = n + 1
      BY <1>1, <1>3, <1>6, <1>10, <2>1, <2>5, <3>2 DEF WorkersInv
    <3> QED BY <1>11, <3>1, <3>2
  <2>6. ASSUME ~B!Canceled', NEW m \in answered
        PROVE  (\E i \in 1..(n + 1) : queue'[i].url = m) \/ (\E v \in Workers : worker'[v] = "send" /\ url[v] = m)
    <3>1. CASE \E i \in 1..n : queue[i].url = m
      <4>1. PICK i \in 1..n : queue[i].url = m
        BY <3>1
      <4>2. i \in 1..(n + 1) /\ queue'[i].url = m
        BY <1>9, <1>10, <4>1
      <4> QED BY <4>2
    <3>2. CASE \E v \in Workers : worker[v] = "send" /\ url[v] = m
      <4>1. PICK v \in Workers : worker[v] = "send" /\ url[v] = m
        BY <3>2
      <4>2. CASE v = w
        <5>1. n + 1 \in 1..(n + 1) /\ queue'[n + 1].url = m
          BY <1>3, <1>9, <1>10, <4>1, <4>2
        <5> QED BY <5>1
      <4>3. CASE v # w
        BY <1>5, <4>1, <4>3
      <4> QED BY <4>2, <4>3
    <3> QED BY <1>1, <1>4, <2>6, <3>1, <3>2 DEF QueueInv
  <2> QED BY <1>2, <1>10, <2>3, <2>4, <2>5, <2>6 DEF QueueInv
<1> QED BY <1>12, <1>13, <1>14, <1>15 DEF SafeParts

LEMMA CallerCollects == MirrorInv /\ B!Collect => SafeParts'
<1> SUFFICES ASSUME MirrorInv, B!Collect PROVE SafeParts'
  OBVIOUS
<1>1. MirrorType /\ ReaderInv /\ WorkersInv /\ QueueInv
  BY DEF MirrorInv
<1>2. /\ UNCHANGED <<signal, cause, reader, at, seen, worker, url, passes, sum, verdict, answered>>
      /\ dst # <<>> /\ mirrors' = Append(mirrors, Head(dst)) /\ dst' = Tail(dst)
  BY DEF B!Collect, B!readerVars, B!workerVars
<1>3. dst \in Seq(Entries) /\ mirrors \in Seq(Entries) /\ Len(dst) \in Nat /\ Len(dst) <= Capacity
      /\ Capacity \in Nat
  BY <1>1, LenProperties, GetStateAssumption DEF MirrorType
<1>4. Head(dst) \in Entries /\ dst' \in Seq(Entries) /\ Len(dst') = Len(dst) - 1
  BY <1>2, <1>3, HeadTailProperties
<1>5. mirrors' \in Seq(Entries) /\ Len(dst') <= Capacity
  BY <1>2, <1>3, <1>4, AppendProperties
<1>6. queue' = queue
  BY <1>2, <1>3, CollectQueue DEF queue
<1>7. MirrorType'
  BY <1>1, <1>2, <1>4, <1>5 DEF MirrorType
<1>8. ReaderInv' /\ WorkersInv'
  BY <1>1, <1>2 DEF ReaderInv, WorkersInv, Busy, B!Canceled
<1>9. QueueInv'
  BY <1>1, <1>2, <1>6 DEF QueueInv, Busy, B!Canceled
<1> QED BY <1>7, <1>8, <1>9 DEF SafeParts

\* A sequence of entries without a URL twice has as many entries as URLs.
LEMMA CountUrls ==
  ASSUME NEW s \in Seq(Entries), NEW T, T = {s[i].url : i \in 1..Len(s)},
         \A i, j \in 1..Len(s) : s[i].url = s[j].url => i = j
  PROVE  Cardinality(T) = Len(s)
<1> DEFINE f == [i \in 1..Len(s) |-> s[i].url]
<1>1. Len(s) \in Nat
  BY LenProperties
<1>2. f \in [1..Len(s) -> T] /\ \A i, j \in 1..Len(s) : f[i] = f[j] => i = j
  OBVIOUS
<1>3. \A t \in T : \E i \in 1..Len(s) : f[i] = t
  OBVIOUS
<1> HIDE DEF f
<1>4. f \in Bijection(1..Len(s), T)
  BY <1>2, <1>3, Fun_IsBij
<1>5. ExistsBijection(1..Len(s), T)
  BY <1>4 DEF ExistsBijection
<1> QED BY <1>1, <1>5, FS_CountingElements

\* The number of elements is the same in the module of the mirrors and here.
LEMMA SameCardinality == ASSUME NEW S PROVE B!Cardinality(S) = Cardinality(S)
BY DEF B!Cardinality, Cardinality

\* The caller returns: without an error the whole list has been read and all that
\* answered has arrived, and sorting it loses nothing.
LEMMA CallerReturns == MirrorInv /\ B!Return => SafeParts' /\ OkInv'
<1> SUFFICES ASSUME MirrorInv, B!Return PROVE SafeParts' /\ OkInv'
  OBVIOUS
<1>1. MirrorType /\ ReaderInv /\ WorkersInv /\ QueueInv
  BY DEF MirrorInv
<1>2. /\ UNCHANGED <<signal, cause, reader, at, seen, worker, url, passes, sum, dst, answered>>
      /\ dst = <<>> /\ \A w \in Workers : worker[w] = "end"
      /\ verdict' = IF mirrors = <<>> THEN "empty" ELSE IF B!Canceled THEN "error" ELSE "ok"
      /\ IF verdict' = "ok" THEN B!Sorted ELSE mirrors' = mirrors
  BY DEF B!Return, B!readerVars, B!workerVars
<1>3. ReaderInv' /\ WorkersInv'
  BY <1>1, <1>2 DEF ReaderInv, WorkersInv, Busy, B!Canceled
<1>4. CASE verdict' # "ok"
  <2>1. mirrors' = mirrors /\ verdict' \in {"empty", "error"}
    BY <1>2, <1>4
  <2>2. MirrorType'
    BY <1>1, <1>2, <2>1 DEF MirrorType
  <2>3. QueueInv'
    BY <1>1, <1>2, <2>1 DEF QueueInv, queue, Busy, B!Canceled
  <2>4. OkInv'
    BY <1>4 DEF OkInv
  <2> QED BY <1>3, <2>2, <2>3, <2>4 DEF SafeParts
<1>5. CASE verdict' = "ok"
  <2>1. mirrors # <<>> /\ ~B!Canceled /\ B!Sorted
    BY <1>2, <1>5
  <2>2. mirrors \in Seq(Entries) /\ queue = mirrors
    <3>1. mirrors \in Seq(Entries)
      BY <1>1 DEF MirrorType
    <3> QED BY <1>2, <3>1, ConcatEmptySeq DEF queue
  <2> DEFINE n == Len(mirrors)
  <2>3. n \in Nat /\ DOMAIN mirrors = 1..n /\ n # 0
    BY <2>1, <2>2, LenProperties, EmptySeq
  <2>4. PICK p \in B!Bijection(DOMAIN mirrors, DOMAIN mirrors) :
          /\ mirrors' = [i \in DOMAIN mirrors |-> mirrors[p[i]]]
          /\ \A i, j \in DOMAIN mirrors : i < j => mirrors'[i].dur <= mirrors'[j].dur
    BY <2>1 DEF B!Sorted
  <2>5. /\ p \in [1..n -> 1..n] /\ \A i, j \in 1..n : p[i] = p[j] => i = j
        /\ \A j \in 1..n : \E i \in 1..n : p[i] = j
    BY <2>3 DEF B!Bijection, B!Injection, B!Surjection, B!IsInjective
  <2>6. /\ mirrors' = [i \in 1..n |-> mirrors[p[i]]]
        /\ \A i \in 1..n : mirrors[p[i]] \in Entries
    BY <2>2, <2>3, <2>4, <2>5, ElementOfSeq
  <2>7. mirrors' \in Seq(Entries) /\ Len(mirrors') = n /\ \A i \in 1..n : mirrors'[i] = mirrors[p[i]]
    <3>1. mirrors' \in [1..n -> Entries]
      BY <2>6
    <3> QED BY <2>3, <2>6, <3>1, IsASeq, LenProperties
  <2>8. queue' = mirrors'
    BY <1>2, <2>7, ConcatEmptySeq DEF queue
  <2>9. mirrors' # <<>>
    BY <2>3, <2>7, EmptySeq
  <2>10. MirrorType'
    BY <1>1, <1>2, <1>5, <2>7 DEF MirrorType
  <2> HIDE DEF n
  <2>11. \A i \in 1..n : mirrors'[i].url \in answered
    BY <1>1, <2>2, <2>5, <2>7 DEF QueueInv, n
  <2>12. \A i, j \in 1..n : mirrors'[i].url = mirrors'[j].url => i = j
    <3>1. \A i, j \in 1..n : mirrors[i].url = mirrors[j].url => i = j
      BY <1>1, <2>2 DEF QueueInv, n
    <3> SUFFICES ASSUME NEW i \in 1..n, NEW j \in 1..n, mirrors'[i].url = mirrors'[j].url PROVE i = j
      OBVIOUS
    <3>2. p[i] \in 1..n /\ p[j] \in 1..n /\ mirrors[p[i]].url = mirrors[p[j]].url
      BY <2>5, <2>7
    <3>3. p[i] = p[j]
      BY <3>1, <3>2
    <3> QED BY <2>5, <3>3
  <2>13. \A m \in answered : \E i \in 1..n : mirrors'[i].url = m
    <3> SUFFICES ASSUME NEW m \in answered PROVE \E i \in 1..n : mirrors'[i].url = m
      OBVIOUS
    <3>1. \A w \in Workers : worker[w] # "send"
      BY <1>2
    <3>2. PICK j \in 1..n : mirrors[j].url = m
      BY <1>1, <2>1, <2>2, <3>1 DEF QueueInv, n
    <3>3. PICK i \in 1..n : p[i] = j
      BY <2>5
    <3> QED BY <2>7, <3>2, <3>3
  <2>14. \A w \in Workers : ~Busy(w)'
    BY <1>2 DEF Busy
  <2>15. QueueInv'
    BY <1>2, <2>7, <2>8, <2>11, <2>12, <2>13, <2>14 DEF QueueInv
  <2>16. reader = "closed" /\ seen = B!Mirrors
    <3>1. reader = "closed"
      BY <1>1, <1>2, <2>1, GetStateAssumption DEF WorkersInv
    <3>2. at > Len(Lines) /\ Len(Lines) \in Nat /\ at \in 1..(Len(Lines) + 1)
      BY <1>1, <2>1, <3>1, LineFacts DEF ReaderInv, MirrorType
    <3>3. \A i \in 1..Len(Lines) : i \in 1..(at - 1)
      BY <3>2
    <3>4. DOMAIN Lines = 1..Len(Lines)
      BY GetStateAssumption, LenProperties
    <3>5. B!Mirrors \subseteq seen
      BY <1>1, <3>3, <3>4 DEF ReaderInv, B!Mirrors
    <3> QED BY <1>1, <3>1, <3>5 DEF MirrorType
  <2>17. {mirrors'[i].url : i \in 1..n} = answered
    BY <2>11, <2>13
  <2>18. DOMAIN mirrors' = 1..n
    BY <2>6
  <2>19. Cardinality(answered) = n
    BY <2>7, <2>12, <2>17, CountUrls
  <2>20. B!OkIsComplete'
    <3>1. \A i, j \in DOMAIN mirrors' : i < j => mirrors'[i].dur <= mirrors'[j].dur
      BY <2>3, <2>4, <2>18 DEF n
    <3>2. B!Mirrors' = B!Mirrors
      BY DEF B!Mirrors
    <3>3. {mirrors'[i].url : i \in DOMAIN mirrors'} = answered'
      BY <1>2, <2>17, <2>18
    <3>4. Len(mirrors') = B!Cardinality(answered') /\ seen' = B!Mirrors
      <4>1. answered' = answered /\ seen' = seen
        BY <1>2
      <4> QED BY <2>7, <2>16, <2>19, <4>1, SameCardinality
    <3> QED BY <2>9, <3>1, <3>2, <3>3, <3>4 DEF B!OkIsComplete
  <2>21. OkInv'
    BY <1>2, <2>16, <2>20 DEF OkInv
  <2> QED BY <1>3, <2>10, <2>15, <2>21 DEF SafeParts
<1> QED BY <1>4, <1>5

LEMMA MirrorStep == MirrorInv /\ B!MirrorNext => MirrorInv'
<1> SUFFICES ASSUME MirrorInv, B!MirrorNext PROVE MirrorInv'
  OBVIOUS
<1>1. verdict # "ok"
  BY MirrorsReturned
<1>2. CASE B!Return
  BY <1>2, CallerReturns DEF SafeParts, MirrorInv
<1>3. CASE ~B!Return
  <2>1. verdict' = verdict
    BY <1>3 DEF B!MirrorNext, B!ReaderStep, B!Scan, B!ScanEnds, B!ScanFails, B!ReaderStops, B!CallerStep,
                B!Collect, B!WorkerStep, B!Take, B!NoMore, B!Refuse, B!Query, B!QueryFails, B!SendMirror,
                B!SendStops
  <2>2. OkInv'
    BY <1>1, <2>1 DEF OkInv
  <2>3. ASSUME NEW w \in Workers, B!WorkerStep(w) PROVE SafeParts'
    BY <2>3, WorkerQuits, WorkerTakes, WorkerQueries, WorkerSends DEF B!WorkerStep
  <2>4. SafeParts'
    BY <1>3, <2>3, ReaderSteps, CallerCollects DEF B!MirrorNext, B!CallerStep
  <2> QED BY <2>2, <2>4 DEF SafeParts, MirrorInv
<1> QED BY <1>2, <1>3

-----------------------------------------------------------------------------
(* All together.                                                           *)

LEMMA InitInv == Init => IInv
<1> SUFFICES ASSUME Init PROVE IInv
  OBVIOUS
<1>1. FollowInv
  <2>1. phase = "idle" /\ fc = 0 /\ left = 0 /\ attempt = 0 /\ answer = F!NoAnswer
    BY DEF Init, F!FollowInit
  <2>2. MaxUint \in Nat \ {0} /\ F!maxRetry \in Nat \ {0}
    BY GetStateAssumption, RetryLimit
  <2> QED BY <2>1, <2>2 DEF FollowInv, FollowType, BudgetInv, AnswerInv
<1>2. OwnType
  BY DEF Init, OwnType, HeaderSets, Nothing
<1>3. SessionInv
  BY DEF Init, SessionInv, F!FollowInit
<1>4. MirrorInv
  <2>1. Len(Lines) \in Nat /\ Capacity \in Nat \ {0}
    BY LenProperties, GetStateAssumption
  <2>2. MirrorType
    <3>1. /\ worker = [w \in Workers |-> "recv"] /\ url = [w \in Workers |-> Junk]
          /\ passes = [w \in Workers |-> 0] /\ sum = [w \in Workers |-> 0]
          /\ signal = FALSE /\ cause = "none" /\ reader = "scan" /\ at = 1 /\ seen = {}
          /\ dst = <<>> /\ mirrors = <<>> /\ verdict = "none" /\ answered = {}
      BY DEF Init, B!MirrorInit
    <3>2. at \in 1..(Len(Lines) + 1) /\ dst \in Seq(Entries) /\ mirrors \in Seq(Entries) /\ Len(dst) <= Capacity
      BY <2>1, <3>1
    <3> QED BY <3>1, <3>2 DEF MirrorType
  <2>3. ReaderInv /\ WorkersInv
    BY DEF Init, B!MirrorInit, ReaderInv, WorkersInv, Busy
  <2>4. queue = <<>>
    BY DEF Init, B!MirrorInit, queue
  <2>5. QueueInv /\ OkInv
    BY <2>4 DEF Init, B!MirrorInit, QueueInv, OkInv
  <2> QED BY <2>2, <2>3, <2>5 DEF MirrorInv
<1> QED BY <1>1, <1>2, <1>3, <1>4 DEF IInv

LEMMA MirrorFrame == ASSUME MirrorInv, UNCHANGED mirrorVars PROVE MirrorInv'
<1>1. UNCHANGED <<signal, cause, reader, at, seen, worker, url, passes, sum, dst, mirrors, verdict, answered>>
  BY DEF mirrorVars
<1>2. MirrorType'
  BY <1>1 DEF MirrorInv, MirrorType
<1>3. ReaderInv' /\ WorkersInv'
  BY <1>1 DEF MirrorInv, ReaderInv, WorkersInv, Busy, B!Canceled
<1>4. QueueInv'
  BY <1>1 DEF MirrorInv, QueueInv, queue, Busy, B!Canceled
<1>5. OkInv'
  BY <1>1 DEF MirrorInv, OkInv, B!OkIsComplete
<1> QED BY <1>2, <1>3, <1>4, <1>5 DEF MirrorInv

LEMMA StepInv == IInv /\ [Next]_vars => IInv'
<1> SUFFICES ASSUME IInv, [Next]_vars PROVE IInv'
  OBVIOUS
<1>1. FollowInv /\ OwnType /\ SessionInv /\ MirrorInv
  BY DEF IInv
<1>2. ASSUME UNCHANGED followVars PROVE FollowInv'
  BY <1>1, <1>2 DEF followVars, FollowInv, FollowType, BudgetInv, AnswerInv, F!maxRetry, F!Or, F!NoAnswer
<1>3. ASSUME UNCHANGED <<headers, followVars, ownVars>> PROVE OwnType' /\ SessionInv'
  BY <1>1, <1>3 DEF followVars, ownVars, OwnType, SessionInv, Confirmed, Answered
<1>4. CASE Own
  <2>1. verdict \in {"none", "ok", "empty", "error"}
    BY <1>1 DEF MirrorInv, MirrorType
  <2>2. FollowInv' /\ OwnType' /\ SessionInv'
    BY <1>1, <1>4, <2>1, OwnStep
  <2>3. MirrorInv'
    <3>1. CASE FollowFastest
      <4>1. signal' \in BOOLEAN
        BY <1>1, <3>1 DEF FollowFastest, MirrorInv, MirrorType
      <4> QED BY <3>1, <4>1, MirrorStart DEF FollowFastest, B!Forget
    <3>2. CASE ~FollowFastest
      <4>1. UNCHANGED mirrorVars
        BY <1>4, <3>2 DEF Own, Load, LoadFails, TakeFound, Refollow, StartMirrors, StartLocation,
                          NothingGiven, MirrorsEnd, FollowFails, FindState, NewSession, Restore
      <4> QED BY <1>1, <4>1, MirrorFrame
    <3> QED BY <3>1, <3>2
  <2> QED BY <2>2, <2>3 DEF IInv
<1>5. CASE Mirroring
  <2>1. B!MirrorNext /\ UNCHANGED <<headers, followVars, ownVars>>
    BY <1>5 DEF Mirroring
  <2>2. MirrorInv'
    BY <1>1, <2>1, MirrorStep
  <2> QED BY <1>2, <1>3, <2>1, <2>2 DEF IInv
<1>6. CASE Following
  <2>1. F!FollowNext /\ gs \in {"follow", "refollow"} /\ UNCHANGED <<mirrorVars, headers, ownVars>>
    BY <1>6 DEF Following
  <2>2. FollowInv'
    BY <1>1, <2>1, FollowStep DEF OwnType
  <2>3. MirrorInv'
    BY <1>1, <2>1, MirrorFrame
  <2>4. OwnType'
    BY <1>1, <2>1 DEF OwnType, ownVars
  <2>5. phase' = "done" /\ answer'.err = "nil" => answer'.headers = headers
    <3>1. F!FollowNext => F!Try \/ F!Exhausted \/ (\E where \in Locations : F!Redirect(where))
             \/ F!Unavailable \/ F!Unusable \/ (\E resource \in Resources : F!Found(resource)) \/ F!Backoff
      BY DEF F!FollowNext
    <3>2. phase # "done"
      BY <2>1, <3>1 DEF F!Try, F!Exhausted, F!Redirect, F!Unavailable, F!Unusable, F!Found, F!Backoff, F!Asking
    <3>3. CASE \E resource \in Resources : F!Found(resource)
      BY <3>3 DEF F!Found, F!Done
    <3>4. CASE ~\E resource \in Resources : F!Found(resource)
      BY <2>1, <3>1, <3>2, <3>4 DEF F!Try, F!Exhausted, F!Redirect, F!Unavailable, F!Unusable, F!Backoff,
                                  F!Failed, F!Done
    <3> QED BY <3>3, <3>4
  <2>6. SessionInv'
    BY <1>1, <2>1, <2>5 DEF SessionInv, ownVars
  <2> QED BY <2>2, <2>3, <2>4, <2>6 DEF IInv
<1>7. CASE Signal
  <2>1. signal' = TRUE /\ UNCHANGED <<cause, reader, at, seen, worker, url, passes, sum, dst, mirrors, verdict,
                                      answered, headers, followVars, ownVars>>
    BY <1>7 DEF Signal
  <2>2. B!Canceled'
    BY <2>1 DEF B!Canceled
  <2>3. MirrorType' /\ ReaderInv' /\ WorkersInv'
    BY <1>1, <2>1, <2>2 DEF MirrorInv, MirrorType, ReaderInv, WorkersInv, Busy
  <2>4. QueueInv' /\ OkInv'
    BY <1>1, <2>1, <2>2 DEF MirrorInv, QueueInv, queue, Busy, OkInv, B!OkIsComplete
  <2> QED BY <1>2, <1>3, <2>1, <2>3, <2>4 DEF IInv, MirrorInv
<1>8. CASE UNCHANGED vars
  <2>1. UNCHANGED mirrorVars /\ UNCHANGED <<headers, followVars, ownVars>>
    BY <1>8 DEF vars
  <2> QED BY <1>1, <1>2, <1>3, <2>1, MirrorFrame DEF IInv
<1> QED BY <1>4, <1>5, <1>6, <1>7, <1>8 DEF Next

\* What getState, follow and the mirror pool keep in every state; the theorems below
\* are its parts.
THEOREM Invariant == Spec => []IInv
<1> QED BY InitInv, StepInv, PTL DEF Spec

\* The values of the variables of getState and of the calls it makes.
THEOREM TypeCorrect == Spec => []TypeOK
<1>1. IInv => TypeOK
  <2> SUFFICES ASSUME IInv PROVE TypeOK
    OBVIOUS
  <2>1. B!MirrorTypeOK
    BY DEF IInv, MirrorInv, MirrorType, B!MirrorTypeOK
  <2>2. F!FollowTypeOK
    BY FollowBudget DEF IInv
  <2> QED BY <2>1, <2>2 DEF IInv, OwnType, HeaderSets, TypeOK
<1> QED BY <1>1, Invariant, PTL

\* No request is sent after more redirects than --max-follow allows, whatever the
\* retries in between, and the unsigned difference (getparty.go:718) does not wrap.
THEOREM RedirectsBounded == Spec => []RedirectBudget
<1>1. IInv => RedirectBudget
  BY FollowBudget DEF IInv, RedirectBudget
<1> QED BY <1>1, Invariant, PTL

\* Mirrors returned without an error are all that answered, each once, the fastest
\* first (best_mirror.go:150), for any list, any workers and any capacity.
THEOREM MirrorsAreAll == Spec => []MirrorsComplete
<1>1. IInv => MirrorsComplete
  <2> SUFFICES ASSUME IInv, verdict # "ok" PROVE B!OkIsComplete
    BY DEF IInv, MirrorInv, OkInv, MirrorsComplete
  <2> QED BY DEF B!OkIsComplete
<1> QED BY <1>1, Invariant, PTL

\* A session returned is the one the server confirmed last, with the headers it
\* was asked with, whichever way round the loop (getparty.go:554) it came.
THEOREM SessionIsConfirmed == Spec => []SessionConfirmed
<1>1. IInv => SessionConfirmed
  BY DEF IInv, SessionInv, Confirmed, SessionConfirmed
<1> QED BY <1>1, Invariant, PTL
=============================================================================
