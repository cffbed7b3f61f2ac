---------------------------- MODULE FetchProofs ----------------------------
(***************************************************************************)
(* Theorems of Fetch: what the caller of request() is told of what the     *)
(* server has done, when it is retried and when it is not.                 *)
(***************************************************************************)
EXTENDS Fetch, TLAPS

RetryCount == Setting("retryCount")

(* Where the attempt stands, and what bounds the retries. *)
Stages ==
  /\ stage = "called" => attempt = 0 /\ error = PlainError
  /\ stage = "delay" => attempt < RetryCount
  /\ stage \in {"sent", "responding", "reading", "done"} => attempt \in sent

(* The response at hand is the server's answer to this attempt. *)
Answered ==
  /\ stage \in {"responding", "reading", "done"} => <<attempt, response>> \in answers
  /\ stage = "done" => Ok(response)
  /\ stage = "failed" /\ error.status # 0 => <<attempt, error.status>> \in answers

(* A refusal is being read, or has been thrown. *)
Refused == \A a \in refused :
  /\ a = attempt
  /\ \/ stage = "reading" /\ response \in 400..499
     \/ stage = "failed" /\ (error.status # 0 \/ Config.fallback)

FetchInv == asked \in Invocations /\ TypeOK /\ Stages /\ Answered /\ Refused

(* What the call is does not change; its retry count is a number, and 0    *)
(* with the fallback fetcher.                                              *)
LEMMA AskedFacts ==
  ASSUME asked \in Invocations
  PROVE  /\ DOMAIN asked = {"fetch", "path", "options", "target"}
         /\ RetryCount \in Int /\ Config.fallback \in BOOLEAN
         /\ Config.fallback => RetryCount = 0
BY FetchAssumption DEF RetryCount, Setting, Option, Has, Config

LEMMA AskedKept ==
  ASSUME UNCHANGED asked
  PROVE  /\ RetryCount' = RetryCount /\ (Setting("timeoutMs") = 0)' = (Setting("timeoutMs") = 0)
         /\ Config' = Config /\ HasSignal' = HasSignal
BY DEF RetryCount, Setting, Option, Has, Config, HasSignal

LEMMA StatusFacts ==
  /\ 0 \notin Statuses /\ Statuses \subseteq Nat
  /\ \A s \in 400..499 : ~Ok(s) /\ s # 0 /\ ~(s >= 500)
BY FetchAssumption DEF Ok

LEMMA InitInv == Init => FetchInv
<1> SUFFICES ASSUME Init PROVE FetchInv
  OBVIOUS
<1>1. asked \in Invocations /\ DOMAIN asked = {"fetch", "path", "options", "target"}
  BY AskedFacts DEF Init
<1>2. TypeOK
  <2>1. 0 \in Nat /\ ~(attempt > 0) /\ sent \subseteq 0..attempt
    BY DEF Init
  <2>2. error \in [known : BOOLEAN, status : Statuses \cup {0}]
    BY DEF Init, PlainError
  <2> QED BY <1>1, <2>1, <2>2 DEF Init, TypeOK
<1>3. Stages /\ Answered /\ Refused
  BY DEF Init, Stages, Answered, Refused
<1> QED BY <1>1, <1>2, <1>3 DEF FetchInv

(* A refusal stands only in the two stages that follow its acceptance. *)
LEMMA NoRefusal ==
  ASSUME FetchInv, stage \notin {"reading", "failed"} \/ (stage = "reading" /\ Ok(response))
  PROVE  refused = {}
BY StatusFacts DEF FetchInv, Refused

(* A step that throws. *)
LEMMA ThrowsInv ==
  ASSUME FetchInv, NEW e \in [known : BOOLEAN, status : Statuses \cup {0}], Throws(e),
         UNCHANGED <<asked, attempt, aborted, network, refused>>, timer' = timer \/ Armed,
         e.status # 0 => <<attempt, e.status>> \in answers,
         refused = {} \/ (~IsRetryable(e) /\ e.status # 0) \/ Config.fallback
  PROVE  FetchInv'
<1> USE DEF FetchInv, network
<1>1. /\ error' = e /\ response' = 0 /\ stage' \in {"delay", "failed"}
      /\ stage' = "delay" => attempt < RetryCount /\ IsRetryable(e)
  BY DEF Throws, RetryCount
<1>2. /\ RetryCount' = RetryCount /\ (Setting("timeoutMs") = 0)' = (Setting("timeoutMs") = 0)
      /\ Config' = Config /\ HasSignal' = HasSignal /\ RetryCount \in Int
      /\ Config.fallback => RetryCount = 0
  BY AskedFacts, AskedKept
<1>3. TypeOK'
  <2>1. timer' \in {"off", "armed", "fired"} /\ (timer' # "off" => ~(Setting("timeoutMs") = 0))
    BY DEF TypeOK, Armed
  <2>2. attempt' \in Nat /\ (attempt' > 0 => attempt' <= RetryCount')
    BY <1>2 DEF TypeOK, RetryCount
  <2> QED BY <1>1, <1>2, <2>1, <2>2, StatusFacts DEF TypeOK, RetryCount
<1>4. Stages'
  BY <1>1, <1>2 DEF Stages
<1>5. Answered'
  BY <1>1 DEF Answered
<1>6. Refused'
  <2> SUFFICES ASSUME NEW a \in refused
               PROVE  a = attempt /\ stage' = "failed" /\ (e.status # 0 \/ Config.fallback)
    BY <1>1, <1>2 DEF Refused
  <2>1. a = attempt /\ attempt \in Nat
    BY DEF Refused, TypeOK
  <2>2. stage' # "delay"
    BY <1>1, <1>2, <2>1
  <2> QED BY <1>1, <2>1, <2>2
<1> QED BY <1>3, <1>4, <1>5, <1>6

LEMMA ErrorFacts ==
  /\ PlainError \in [known : BOOLEAN, status : Statuses \cup {0}] /\ PlainError.status = 0
  /\ \A s \in Statuses \cup {0} :
       FetchException(s) \in [known : BOOLEAN, status : Statuses \cup {0}]
  /\ FetchException(0).status = 0
  /\ \A s \in Statuses : FetchException(s).status \in {0, s}
  /\ \A s \in 400..499 : Config.fallback
       \/ (~IsRetryable(FetchException(s)) /\ FetchException(s).status # 0)
<1>1. PlainError \in [known : BOOLEAN, status : Statuses \cup {0}] /\ PlainError.status = 0
  BY DEF PlainError
<1>2. \A s \in Statuses \cup {0} :
        /\ FetchException(s) \in [known : BOOLEAN, status : Statuses \cup {0}]
        /\ FetchException(s).status \in {0, s}
  BY DEF FetchException, PlainError
<1>3. ASSUME NEW s \in 400..499, ~Config.fallback
      PROVE  ~IsRetryable(FetchException(s)) /\ FetchException(s).status # 0
  <2>1. FetchException(s) = [known |-> TRUE, status |-> s]
    BY <1>3 DEF FetchException
  <2> QED BY <2>1 DEF IsRetryable
<1> QED BY <1>1, <1>2, <1>3

LEMMA ThrowInv ==
  ASSUME FetchInv,
         BuildUrlThrows \/ RequestThrows \/ InterceptorThrows \/ Abort \/ NetworkFails \/ Unparsable
  PROVE  FetchInv'
<1>1. refused = {}
  BY NoRefusal DEF BuildUrlThrows, RequestThrows, InterceptorThrows, Abort, NetworkFails, Unparsable,
     MayBegin
<1>2. PICK e \in {PlainError, FetchException(0)} : Throws(e)
  BY DEF BuildUrlThrows, RequestThrows, InterceptorThrows, Abort, NetworkFails, Unparsable
<1>3. UNCHANGED <<asked, attempt, aborted, network, refused>> /\ (timer' = timer \/ Armed)
  BY DEF BuildUrlThrows, RequestThrows, InterceptorThrows, Abort, NetworkFails, Unparsable
<1>4. e \in [known : BOOLEAN, status : Statuses \cup {0}] /\ e.status = 0
  BY ErrorFacts
<1> QED BY <1>1, <1>2, <1>3, <1>4, ThrowsInv

LEMMA HttpErrorInv ==
  ASSUME FetchInv, HttpError
  PROVE  FetchInv'
<1>1. stage = "reading" /\ response \in Statuses /\ <<attempt, response>> \in answers
  BY DEF HttpError, FetchInv, TypeOK, Answered
<1>2. FetchException(response) \in [known : BOOLEAN, status : Statuses \cup {0}]
      /\ FetchException(response).status \in {0, response}
  BY <1>1, ErrorFacts
<1>3. refused = {} \/ response \in 400..499
  BY <1>1 DEF FetchInv, Refused
<1>4. \/ refused = {} \/ Config.fallback
      \/ ~IsRetryable(FetchException(response)) /\ FetchException(response).status # 0
  BY <1>3, ErrorFacts
<1> QED BY <1>1, <1>2, <1>4, ThrowsInv DEF HttpError

(* The other steps *)
LEMMA OtherInv ==
  ASSUME FetchInv,
         \/ NoAttempt \/ Begin \/ Send \/ Accept \/ Delayed \/ ReadBody
         \/ \E status \in Statuses : Respond(status)
         \/ TimerFires \/ CallerAborts
         \/ \E a \in sent, status \in Statuses : Serve(a, status)
         \/ UNCHANGED vars
  PROVE  FetchInv'
<1> USE DEF FetchInv, network
<1>0. UNCHANGED asked
  BY DEF NoAttempt, Begin, Send, Accept, Delayed, ReadBody, Respond, TimerFires, CallerAborts,
     Serve, vars
<1>1. /\ RetryCount' = RetryCount /\ (Setting("timeoutMs") = 0)' = (Setting("timeoutMs") = 0)
      /\ Config' = Config /\ HasSignal' = HasSignal /\ RetryCount \in Int
      /\ asked' \in Invocations /\ DOMAIN asked' = {"fetch", "path", "options", "target"}
  BY <1>0, AskedFacts, AskedKept
<1> USE <1>1, StatusFacts DEF TypeOK, Stages, Answered, Refused, RetryCount
<1>2. CASE NoAttempt
  BY <1>2 DEF NoAttempt, PlainError
<1>3. CASE Begin
  BY <1>3, NoRefusal DEF Begin, Armed, MayBegin
<1>4. CASE Send
  BY <1>4, NoRefusal DEF Send
<1>5. CASE Accept
  BY <1>5, NoRefusal DEF Accept
<1>6. CASE Delayed
  BY <1>6, NoRefusal DEF Delayed
<1>7. CASE ReadBody
  BY <1>7, NoRefusal DEF ReadBody
<1>8. ASSUME NEW status \in Statuses, Respond(status)
      PROVE  FetchInv'
  BY <1>8, NoRefusal DEF Respond
<1>9. CASE TimerFires
  BY <1>9 DEF TimerFires
<1>10. CASE CallerAborts
  BY <1>10 DEF CallerAborts
<1>11. ASSUME NEW a \in sent, NEW status \in Statuses, Serve(a, status)
       PROVE  FetchInv'
  BY <1>11 DEF Serve
<1>12. CASE UNCHANGED vars
  BY <1>12 DEF vars
<1> QED BY <1>2, <1>3, <1>4, <1>5, <1>6, <1>7, <1>8, <1>9, <1>10, <1>11, <1>12

LEMMA NextInv == FetchInv /\ [Next]_vars => FetchInv'
BY ThrowInv, HttpErrorInv, OtherInv DEF Next, Runs

LEMMA FetchInvHolds == Spec => []FetchInv
BY InitInv, NextInv, PTL DEF Spec

(* The locals of request() keep their types, and there are never more      *)
(* attempts than the retries allow.                                        *)
THEOREM FetchTypes == Spec => []TypeOK
<1>1. FetchInv => TypeOK
  BY DEF FetchInv
<1> QED BY <1>1, FetchInvHolds, PTL

(* A success, or the status of an error, is what the server did for the    *)
(* last attempt, whatever it did late for the attempts before.             *)
THEOREM OutcomeHolds == Spec => []OutcomeKnown
<1>1. FetchInv => OutcomeKnown
  BY DEF FetchInv, TypeOK, Answered, OutcomeKnown
<1> QED BY <1>1, FetchInvHolds, PTL

(* A 4xx that has passed the interceptors is never followed by another     *)
(* attempt or by a success, whatever the options of the call.              *)
THEOREM RefusalHolds == Spec => []RefusalIsFinal
<1>1. FetchInv => RefusalIsFinal
  BY DEF FetchInv, Refused, RefusalIsFinal
<1> QED BY <1>1, FetchInvHolds, PTL
=============================================================================
