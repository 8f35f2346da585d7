------------------------- MODULE GithubAccessProofs -------------------------
(***************************************************************************)
(* Proofs about GithubAccess, for any number of concurrent requests, any   *)
(* endpoints, and any lifetimes, margins and delays that satisfy           *)
(* TimesAssumption.                                                        *)
(***************************************************************************)
EXTENDS GithubAccess, TLAPS

LEMMA Times ==
    /\ Margin \in Nat /\ JwtLife \in Nat /\ TokenLife \in Nat
    /\ SendTime \in Nat /\ ReadTime \in Nat
    /\ Backoffs \subseteq Nat /\ Resets \subseteq Nat \ {0}
    /\ Margin + ReadTime < TokenLife
  BY TimesAssumption

USE MaxAttemptsAssumption, Times, ScenariosAssumption, NoneAssumption

(* An answer on its way back names the reset of the rate limit that is     *)
(* used up, and a new token is as old as the answer at most.               *)
AnswerOK(r) ==
    /\ answer[r] # None => pc[r] = "in_flight"
    /\ answer[r] # None => timer[r] <= ReadTime
    /\ pc[r] = "sleeping" => attempt[r] < MaxAttempts
    /\ answer[r] # None /\ answer[r].kind = "limited" /\ answer[r].left > 0 =>
          window[Limit(r)] = answer[r].left
    /\ answer[r] # None /\ answer[r].kind = "ok" /\ Call(r) = "token" =>
          answer[r].left + ReadTime >= TokenLife + timer[r]

AnswerInv == \A r \in Requests : AnswerOK(r)

(* A request that was told of a rate limit sleeps at least until it resets.*)
WaitOK(r) ==
    told[r] = "limited" =>
        /\ pc[r] = "sleeping"
        /\ window[Limit(r)] > 0
        /\ timer[r] >= window[Limit(r)]

WaitInv == \A r \in Requests : WaitOK(r)

IInv == TypeOK /\ AnswerInv /\ WaitInv

-----------------------------------------------------------------------------
LEMMA Endpoints ==
    ASSUME endpoint \in Scenarios, NEW r \in Requests
    PROVE  /\ endpoint[r] \in {"pulls", "current", "review"}
           /\ Len(Calls(endpoint[r])) \in Nat
           /\ DOMAIN Calls(endpoint[r]) = 1..Len(Calls(endpoint[r]))
           /\ Len(Calls(endpoint[r])) >= 1
<1>1. endpoint[r] \in {"pulls", "current", "review"}
  OBVIOUS
<1>2. CASE endpoint[r] = "pulls"
  BY <1>2 DEF Calls
<1>3. CASE endpoint[r] = "current"
  BY <1>3 DEF Calls
<1>4. CASE endpoint[r] = "review"
  BY <1>4 DEF Calls
<1>5. QED
  BY <1>1, <1>2, <1>3, <1>4

LEMMA CountingDown ==
    /\ \A left \in Nat \cup {None} : CountDown(left) \in Nat \cup {None}
    /\ \A left \in Nat : /\ CountDown(left) \in Nat
                         /\ left > 0 => CountDown(left) = left - 1
                         /\ left = 0 => CountDown(left) = 0
  BY DEF CountDown

LEMMA AnswerFacts ==
    \A kind \in Kinds, left \in Nat :
        /\ Answer(kind, left) \in Answers /\ Answer(kind, left) # None
        /\ Answer(kind, left).kind = kind /\ Answer(kind, left).left = left
  BY DEF Answer, Answers

LEMMA LimitType == \A r \in Requests : Limit(r) \in Limits
  BY DEF Limit, Limits

LEMMA InitInv == Init => IInv
<1> SUFFICES ASSUME Init PROVE IInv
  OBVIOUS
<1>1. \A r \in Requests : step[r] \in DOMAIN Calls(endpoint[r])
  BY Endpoints DEF Init
<1>2. TypeOK
  BY <1>1 DEF Init, TypeOK, Limits
<1>3. AnswerInv /\ WaitInv
  BY DEF Init, AnswerInv, AnswerOK, WaitInv, WaitOK
<1>4. QED
  BY <1>2, <1>3 DEF IInv

(* What going on to the next call, or answering, does.                     *)
LEMMA AdvanceFacts ==
    ASSUME TypeOK, NEW r \in Requests, Advance(r), UNCHANGED endpoint
    PROVE  /\ pc' \in [Requests -> {"idle", "ready", "in_flight", "sleeping", "done"}]
           /\ pc'[r] \in {"ready", "done"}
           /\ \A q \in Requests \ {r} : pc'[q] = pc[q] /\ step'[q] = step[q]
           /\ step' \in [Requests -> Nat]
           /\ \A q \in Requests : step'[q] \in DOMAIN Calls(endpoint'[q])
           /\ status' \in [Requests -> {None, 200, 404, 500, 502}]
  <1>1. endpoint \in Scenarios /\ step[r] \in 1..Len(Calls(endpoint[r]))
    BY Endpoints DEF TypeOK
  <1>2. CASE step[r] < Len(Calls(endpoint[r])) /\ step' = [step EXCEPT ![r] = @ + 1]
             /\ pc' = [pc EXCEPT ![r] = "ready"] /\ UNCHANGED status
    <2>1. step[r] + 1 \in DOMAIN Calls(endpoint[r])
      BY <1>1, <1>2, Endpoints
    <2>2. QED
      BY <1>2, <2>1 DEF TypeOK
  <1>3. CASE Respond(r, 200)
    BY <1>3 DEF Respond, TypeOK
  <1>4. QED
    BY <1>2, <1>3 DEF Advance

LEMMA RaiseFacts ==
    ASSUME TypeOK, NEW r \in Requests, NEW error, Raise(r, error), UNCHANGED endpoint
    PROVE  /\ pc' \in [Requests -> {"idle", "ready", "in_flight", "sleeping", "done"}]
           /\ pc'[r] \in {"ready", "done"}
           /\ \A q \in Requests \ {r} : pc'[q] = pc[q] /\ step'[q] = step[q]
           /\ step' \in [Requests -> Nat]
           /\ \A q \in Requests : step'[q] \in DOMAIN Calls(endpoint'[q])
           /\ status' \in [Requests -> {None, 200, 404, 500, 502}]
  <1>1. CASE Advance(r)
    BY <1>1, AdvanceFacts
  <1>2. CASE Respond(r, StatusFor(r, error))
    <2>1. StatusFor(r, error) \in {404, 500, 502}
      BY DEF StatusFor
    <2>2. QED
      BY <1>2, <2>1 DEF Respond, TypeOK
  <1>3. QED
    BY <1>1, <1>2 DEF Raise, ToolReportsError, EndpointFails

(* A step of one request leaves the others' calls as they are.             *)
LEMMA OtherRequests ==
    ASSUME NEW r \in Requests, UNCHANGED endpoint,
           \A q \in Requests \ {r} : step'[q] = step[q]
    PROVE  \A q \in Requests \ {r} : Call(q)' = Call(q) /\ Limit(q)' = Limit(q)
  BY DEF Call, Limit, AsApp

(* The end of a call: nothing is on its way, and nobody is told anything.  *)
LEMMA EndCallStep ==
    ASSUME IInv, NEW r \in Requests, pc[r] = "in_flight", EndCall(r),
           /\ pc' \in [Requests -> {"idle", "ready", "in_flight", "sleeping", "done"}]
           /\ pc'[r] \in {"ready", "done"}
           /\ \A q \in Requests \ {r} : pc'[q] = pc[q] /\ step'[q] = step[q]
           /\ step' \in [Requests -> Nat]
           /\ \A q \in Requests : step'[q] \in DOMAIN Calls(endpoint'[q])
           /\ status' \in [Requests -> {None, 200, 404, 500, 502}],
           cached' \in Nat \cup {None}, token' \in [Requests -> Nat \cup {None}],
           UNCHANGED <<window, endpoint, told>>
    PROVE  IInv'
  <1>1. TypeOK'
    <2>1. TypeOK
      BY DEF IInv
    <2>2. answer' \in [Requests -> Answers \cup {None}]
      BY <2>1 DEF TypeOK, EndCall
    <2>3. attempt' \in [Requests -> 0..MaxAttempts] /\ timer' \in [Requests -> Nat]
      BY <2>1 DEF TypeOK, EndCall
    <2>4. jwt' \in [Requests -> Nat \cup {None}]
      BY <2>1 DEF TypeOK, EndCall
    <2>5. QED
      BY <2>1, <2>2, <2>3, <2>4 DEF TypeOK
  <1>2. told[r] # "limited"
    BY DEF IInv, WaitInv, WaitOK
  <1>3. \A q \in Requests \ {r} : Call(q)' = Call(q) /\ Limit(q)' = Limit(q)
    BY OtherRequests
  <1>4. \A q \in Requests \ {r} : /\ answer'[q] = answer[q] /\ timer'[q] = timer[q]
                                   /\ attempt'[q] = attempt[q]
    BY DEF EndCall, IInv, TypeOK
  <1>5. answer'[r] = None
    BY DEF EndCall, IInv, TypeOK
  <1>6. AnswerInv'
    BY <1>3, <1>4, <1>5 DEF IInv, AnswerInv, AnswerOK
  <1>7. WaitInv'
    BY <1>2, <1>3, <1>4 DEF IInv, WaitInv, WaitOK
  <1>8. QED
    BY <1>1, <1>6, <1>7 DEF IInv

-----------------------------------------------------------------------------
LEMMA ArriveStep ==
    ASSUME IInv, NEW r \in Requests, Arrive(r)
    PROVE  IInv'
  <1>1. TypeOK'
    BY DEF IInv, TypeOK, Arrive, perCall
  <1>2. AnswerInv'
    BY DEF IInv, TypeOK, AnswerInv, AnswerOK, Arrive, perCall, Call, Limit, AsApp
  <1>3. WaitInv'
    BY DEF IInv, TypeOK, WaitInv, WaitOK, Arrive, perCall, Call, Limit, AsApp
  <1>4. QED
    BY <1>1, <1>2, <1>3 DEF IInv

LEMMA UseCachedTokenStep ==
    ASSUME IInv, NEW r \in Requests, UseCachedToken(r)
    PROVE  IInv' /\ token'[r] > Margin
  <1>1. /\ pc' \in [Requests -> {"idle", "ready", "in_flight", "sleeping", "done"}]
        /\ pc'[r] \in {"ready", "done"}
        /\ \A q \in Requests \ {r} : pc'[q] = pc[q] /\ step'[q] = step[q]
        /\ step' \in [Requests -> Nat]
        /\ \A q \in Requests : step'[q] \in DOMAIN Calls(endpoint'[q])
        /\ status' \in [Requests -> {None, 200, 404, 500, 502}]
    BY AdvanceFacts DEF UseCachedToken, IInv
  <1>2. TypeOK' /\ token'[r] > Margin
    <2>1. /\ cached \in Nat \cup {None} /\ token \in [Requests -> Nat \cup {None}]
          /\ token' = [token EXCEPT ![r] = cached] /\ cached # None /\ cached > Margin
      BY DEF IInv, TypeOK, UseCachedToken, IsFresh
    <2>2. token' \in [Requests -> Nat \cup {None}] /\ token'[r] > Margin
      BY <2>1
    <2>3. UNCHANGED <<cached, window, endpoint, jwt, attempt, timer, answer, told>>
      BY DEF UseCachedToken, perCall
    <2>4. TypeOK'
      BY <1>1, <2>2, <2>3 DEF IInv, TypeOK
    <2>5. QED
      BY <2>2, <2>4
  <1>3. \A q \in Requests \ {r} : Call(q)' = Call(q) /\ Limit(q)' = Limit(q)
    BY <1>1, OtherRequests DEF UseCachedToken
  <1>4. answer[r] = None /\ told[r] # "limited"
    BY DEF IInv, AnswerInv, AnswerOK, WaitInv, WaitOK, UseCachedToken
  <1>5. AnswerInv'
    BY <1>1, <1>3, <1>4 DEF IInv, AnswerInv, AnswerOK, UseCachedToken, perCall
  <1>6. WaitInv'
    BY <1>1, <1>3, <1>4 DEF IInv, WaitInv, WaitOK, UseCachedToken, perCall
  <1>7. QED
    BY <1>2, <1>5, <1>6 DEF IInv

LEMMA FirstAttemptStep ==
    ASSUME IInv, NEW r \in Requests, CallAsApp(r) \/ CallAsInstallation(r)
    PROVE  IInv'
  <1>1. FirstAttempt(r) /\ pc[r] = "ready" /\ UNCHANGED <<cached, window, endpoint, step, token, status>>
    BY DEF CallAsApp, CallAsInstallation
  <1>2. jwt' \in [Requests -> Nat \cup {None}]
    BY DEF CallAsApp, CallAsInstallation, IInv, TypeOK
  <1>3. TypeOK'
    <2>1. TypeOK
      BY DEF IInv
    <2>2. attempt' \in [Requests -> 0..MaxAttempts] /\ timer' \in [Requests -> Nat]
      BY <1>1, <2>1 DEF TypeOK, FirstAttempt
    <2>3. /\ pc' \in [Requests -> {"idle", "ready", "in_flight", "sleeping", "done"}]
          /\ told' \in [Requests -> {"nothing", "limited", "reset"}]
      BY <1>1, <2>1 DEF TypeOK, FirstAttempt
    <2>4. QED
      BY <1>1, <1>2, <2>1, <2>2, <2>3 DEF TypeOK, FirstAttempt
  <1>4. answer[r] = None
    BY <1>1 DEF IInv, AnswerInv, AnswerOK
  <1>5. \A q \in Requests : Call(q)' = Call(q) /\ Limit(q)' = Limit(q)
    BY <1>1 DEF Call, Limit, AsApp
  <1>6. AnswerInv'
    <2> SUFFICES ASSUME NEW q \in Requests
                 PROVE  AnswerOK(q)'
      BY DEF AnswerInv
    <2>1. CASE q = r
      <3>1. answer'[r] = None /\ pc'[r] = "in_flight"
        BY <1>1, <1>4 DEF IInv, TypeOK, FirstAttempt
      <3>2. QED
        BY <2>1, <3>1 DEF AnswerOK
    <2>2. CASE q # r
      BY <1>1, <1>5, <2>2 DEF IInv, TypeOK, AnswerInv, AnswerOK, FirstAttempt
    <2>3. QED
      BY <2>1, <2>2
  <1>7. WaitInv'
    <2> SUFFICES ASSUME NEW q \in Requests
                 PROVE  WaitOK(q)'
      BY DEF WaitInv
    <2>1. CASE q = r
      BY <1>1, <2>1 DEF IInv, TypeOK, FirstAttempt, WaitOK
    <2>2. CASE q # r
      BY <1>1, <1>5, <2>2 DEF IInv, TypeOK, WaitInv, WaitOK, FirstAttempt
    <2>3. QED
      BY <2>1, <2>2
  <1>8. QED
    BY <1>3, <1>6, <1>7 DEF IInv

(* An answer only opens the window of a rate limit that was not used up,   *)
(* so nobody is waiting for that limit yet.                                *)
LEMMA GithubAnswersStep ==
    ASSUME IInv, NEW r \in Requests, GithubAnswers(r)
    PROVE  IInv'
<1>1. /\ pc[r] = "in_flight" /\ answer[r] = None
      /\ UNCHANGED <<cached, endpoint, pc, step, jwt, token, status, attempt, told>>
      /\ timer' = [timer EXCEPT ![r] = ReadTime]
  BY DEF GithubAnswers
<1>2. TypeOK /\ Limit(r) \in Limits
  BY LimitType DEF IInv
<1> DEFINE Fits(reply) ==
        /\ answer' = [answer EXCEPT ![r] = reply]
        /\ window' \in [Limits -> Nat]
        /\ \A k \in Limits : window[k] > 0 => window'[k] = window[k]
        /\ reply.kind = "limited" => window'[Limit(r)] = reply.left
        /\ reply.kind = "ok" /\ Call(r) = "token" => reply.left = TokenLife
<1>3. PICK reply \in Answers : Fits(reply)
  <2>1. CASE answer' = [answer EXCEPT ![r] = Answer("unauthorized", 0)] /\ UNCHANGED window
    <3>1. Fits(Answer("unauthorized", 0))
      BY <1>2, <2>1, AnswerFacts DEF TypeOK, Kinds
    <3>2. QED
      BY <3>1, AnswerFacts DEF Kinds
  <2>2. CASE /\ answer' = [answer EXCEPT ![r] = Answer("limited", window[Limit(r)])]
             /\ UNCHANGED window
    <3>1. window[Limit(r)] \in Nat
      BY <1>2 DEF TypeOK
    <3>2. Fits(Answer("limited", window[Limit(r)]))
      BY <1>2, <2>2, <3>1, AnswerFacts DEF TypeOK, Kinds
    <3>3. QED
      BY <3>1, <3>2, AnswerFacts DEF Kinds
  <2>3. ASSUME window[Limit(r)] = 0, NEW reset \in Resets,
               answer' = [answer EXCEPT ![r] = Answer("limited", reset)],
               window' = [window EXCEPT ![Limit(r)] = reset]
        PROVE  \E reply \in Answers : Fits(reply)
    <3>1. reset \in Nat
      OBVIOUS
    <3>2. /\ window' \in [Limits -> Nat] /\ window'[Limit(r)] = reset
          /\ \A k \in Limits : window[k] > 0 => window'[k] = window[k]
      BY <1>2, <2>3, <3>1 DEF TypeOK
    <3>3. Fits(Answer("limited", reset))
      BY <2>3, <3>1, <3>2, AnswerFacts DEF Kinds
    <3>4. QED
      BY <3>1, <3>3, AnswerFacts DEF Kinds
  <2>4. ASSUME NEW kind \in {"server_error", "not_found", "forbidden"},
               answer' = [answer EXCEPT ![r] = Answer(kind, 0)], UNCHANGED window
        PROVE  \E reply \in Answers : Fits(reply)
    <3>1. Fits(Answer(kind, 0))
      BY <1>2, <2>4, AnswerFacts DEF TypeOK, Kinds
    <3>2. QED
      BY <3>1, AnswerFacts DEF Kinds
  <2>5. ASSUME NEW left \in Nat, Call(r) = "token" => left = TokenLife,
               answer' = [answer EXCEPT ![r] = Answer("ok", left)], UNCHANGED window
        PROVE  \E reply \in Answers : Fits(reply)
    <3>1. Fits(Answer("ok", left))
      BY <1>2, <2>5, AnswerFacts DEF TypeOK, Kinds
    <3>2. QED
      BY <3>1, AnswerFacts DEF Kinds
  <2>6. (IF Call(r) = "token" THEN TokenLife ELSE 0) \in Nat
    OBVIOUS
  <2>7. QED
    BY <2>1, <2>2, <2>3, <2>4, <2>5, <2>6 DEF GithubAnswers
<1>4. TypeOK'
  BY <1>1, <1>2, <1>3 DEF TypeOK
<1>5. \A q \in Requests : Call(q)' = Call(q) /\ Limit(q)' = Limit(q)
  BY <1>1 DEF Call, Limit, AsApp
<1>6. AnswerInv'
  <2> SUFFICES ASSUME NEW q \in Requests
               PROVE  AnswerOK(q)'
    BY DEF AnswerInv
  <2>1. AnswerOK(q) /\ Limit(q) \in Limits
    BY LimitType DEF IInv, AnswerInv
  <2>2. CASE q = r
    <3>1. answer'[r] = reply
      BY <1>2, <1>3 DEF TypeOK
    <3>2. timer'[r] = ReadTime /\ ReadTime <= ReadTime
      BY <1>1, <1>2 DEF TypeOK
    <3>3. QED
      BY <1>1, <1>3, <1>5, <2>2, <3>1, <3>2 DEF AnswerOK
  <2>3. CASE q # r
    <3>1. answer'[q] = answer[q] /\ timer'[q] = timer[q]
      BY <1>1, <1>2, <1>3, <2>3 DEF TypeOK
    <3>2. QED
      BY <1>1, <1>2, <1>3, <1>5, <2>1, <3>1 DEF AnswerOK, TypeOK
  <2>4. QED
    BY <2>2, <2>3
<1>7. WaitInv'
  <2> SUFFICES ASSUME NEW q \in Requests
               PROVE  WaitOK(q)'
    BY DEF WaitInv
  <2>1. WaitOK(q) /\ Limit(q) \in Limits
    BY LimitType DEF IInv, WaitInv
  <2>2. pc[q] = "sleeping" => timer'[q] = timer[q]
    BY <1>1, <1>2 DEF TypeOK
  <2>3. QED
    BY <1>1, <1>3, <1>5, <2>1, <2>2 DEF WaitOK
<1>8. QED
  BY <1>4, <1>6, <1>7 DEF IInv

(* A minted token has lost at most the reading of the answer on its way.   *)
LEMMA SucceedsStep ==
    ASSUME IInv, NEW r \in Requests, Succeeds(r)
    PROVE  IInv' /\ (Call(r) = "token" => token'[r] > Margin)
<1>1. TypeOK /\ AnswerOK(r) /\ UNCHANGED endpoint
  BY DEF IInv, AnswerInv, Succeeds
<1>2. /\ pc[r] = "in_flight" /\ answer[r] # None /\ answer[r] \in Answers
      /\ answer[r].kind = "ok" /\ timer[r] \in Nat
  BY <1>1 DEF Succeeds, Answered, TypeOK
<1>3. Call(r) = "token" => answer[r].left > Margin
  <2>1. Call(r) = "token" => answer[r].left + ReadTime >= TokenLife + timer[r]
    BY <1>1, <1>2 DEF AnswerOK
  <2>2. answer[r].left \in Nat
    BY <1>2 DEF Answers
  <2>3. QED
    BY <1>2, <2>1, <2>2
<1>4. cached' \in Nat \cup {None} /\ token' \in [Requests -> Nat \cup {None}]
  BY <1>1, <1>2 DEF Succeeds, TypeOK, Answers
<1>5. Call(r) = "token" => token'[r] = answer[r].left
  BY <1>1 DEF Succeeds, TypeOK
<1>6. IInv'
  BY <1>1, <1>2, <1>4, AdvanceFacts, EndCallStep DEF Succeeds
<1>7. QED
  BY <1>3, <1>5, <1>6

LEMMA FailureStep ==
    ASSUME IInv, NEW r \in Requests, GivesUp(r) \/ TransportFails(r)
    PROVE  IInv'
<1>1. PICK error : Raise(r, error)
  BY DEF GivesUp, TransportFails
<1>2. /\ pc[r] = "in_flight" /\ EndCall(r)
      /\ UNCHANGED <<cached, window, endpoint, token, told>>
  BY DEF GivesUp, TransportFails, Answered
<1>3. TypeOK
  BY DEF IInv
<1>4. cached' \in Nat \cup {None} /\ token' \in [Requests -> Nat \cup {None}]
  BY <1>2, <1>3 DEF TypeOK
<1>5. QED
  BY <1>1, <1>2, <1>3, <1>4, RaiseFacts, EndCallStep

(* The sleep is set to what is left until the reset, at that moment.       *)
LEMMA SleepStep ==
    ASSUME IInv, NEW r \in Requests, SleepsBeforeRetry(r)
    PROVE  IInv'
<1>1. TypeOK /\ AnswerOK(r) /\ WaitOK(r)
  BY DEF IInv, AnswerInv, WaitInv
<1>2. /\ pc[r] = "in_flight" /\ answer[r] # None /\ answer[r] \in Answers
      /\ pc' = [pc EXCEPT ![r] = "sleeping"]
      /\ answer' = [answer EXCEPT ![r] = None]
      /\ UNCHANGED <<cached, window, endpoint, step, jwt, token, status, attempt>>
  BY <1>1 DEF SleepsBeforeRetry, Answered, TypeOK
<1>3. PICK delay \in Delays(answer[r]) : timer' = [timer EXCEPT ![r] = delay]
  BY DEF SleepsBeforeRetry
<1>4. delay \in Nat /\ (answer[r].kind = "limited" => delay = answer[r].left)
  BY <1>2, <1>3 DEF Delays, Answers
<1>5. told' \in [Requests -> {"nothing", "limited", "reset"}]
  BY <1>1 DEF SleepsBeforeRetry, TypeOK
<1>6. TypeOK'
  BY <1>1, <1>2, <1>3, <1>4, <1>5 DEF TypeOK
<1>7. \A q \in Requests : Call(q)' = Call(q) /\ Limit(q)' = Limit(q)
  BY <1>2 DEF Call, Limit, AsApp
<1>8. \A q \in Requests \ {r} : /\ pc'[q] = pc[q] /\ answer'[q] = answer[q]
                                /\ timer'[q] = timer[q] /\ told'[q] = told[q]
  BY <1>1, <1>2, <1>3 DEF SleepsBeforeRetry, TypeOK
<1>9. /\ pc'[r] = "sleeping" /\ answer'[r] = None /\ timer'[r] = delay
      /\ told'[r] = "limited" => answer[r].kind = "limited" /\ answer[r].left > 0
  BY <1>1, <1>2, <1>3 DEF SleepsBeforeRetry, TypeOK, WaitOK
<1>10. AnswerInv'
  <2>1. attempt[r] < MaxAttempts
    BY DEF SleepsBeforeRetry, Retries
  <2>2. QED
    BY <1>2, <1>7, <1>8, <1>9, <2>1 DEF IInv, AnswerInv, AnswerOK
<1>11. WaitOK(r)'
  BY <1>1, <1>2, <1>4, <1>7, <1>9 DEF WaitOK, AnswerOK
<1>12. WaitInv'
  BY <1>2, <1>7, <1>8, <1>11 DEF IInv, WaitInv, WaitOK
<1>13. QED
  BY <1>6, <1>10, <1>12 DEF IInv

(* A request whose sleep is over is told of no rate limit any more.        *)
LEMMA RetryStep ==
    ASSUME IInv, NEW r \in Requests, Retry(r)
    PROVE  IInv'
<1>1. TypeOK /\ AnswerOK(r) /\ WaitOK(r) /\ Limit(r) \in Limits
  BY LimitType DEF IInv, AnswerInv, WaitInv
<1>2. told[r] # "limited" /\ answer[r] = None
  BY <1>1 DEF Retry, WaitOK, AnswerOK, TypeOK
<1>3. \A q \in Requests : Call(q)' = Call(q) /\ Limit(q)' = Limit(q)
  BY DEF Retry, Call, Limit, AsApp
<1>4. TypeOK'
  BY <1>1 DEF Retry, TypeOK, AnswerOK
<1>5. \A q \in Requests \ {r} : pc'[q] = pc[q] /\ timer'[q] = timer[q] /\ attempt'[q] = attempt[q]
  BY <1>1 DEF Retry, TypeOK
<1>6. pc'[r] = "in_flight" /\ UNCHANGED <<window, answer>>
  BY <1>1 DEF Retry, TypeOK
<1>7. AnswerInv'
  <2>1. AnswerOK(r)'
    BY <1>2, <1>6 DEF AnswerOK
  <2>2. ASSUME NEW q \in Requests \ {r} PROVE AnswerOK(q)'
    BY <1>3, <1>5, <1>6 DEF IInv, AnswerInv, AnswerOK
  <2>3. QED
    BY <2>1, <2>2 DEF AnswerInv
<1>8. WaitInv'
  BY <1>2, <1>3, <1>5 DEF Retry, IInv, WaitInv, WaitOK
<1>9. QED
  BY <1>4, <1>7, <1>8 DEF IInv

(* Time passes: what expires and what waits for it count down together,    *)
(* since no timer that is running has reached 0.                           *)
LEMMA TickStep ==
    ASSUME IInv, Tick
    PROVE  IInv'
<1>1. TypeOK
  BY DEF IInv
<1>2. TypeOK'
  <2>1. cached' \in Nat \cup {None} /\ window' \in [Limits -> Nat]
    BY <1>1, CountingDown DEF Tick, TypeOK
  <2>2. jwt' \in [Requests -> Nat \cup {None}] /\ token' \in [Requests -> Nat \cup {None}]
    <3>1. jwt' \in [Requests -> Nat \cup {None}]
      BY <1>1, CountingDown DEF Tick, TypeOK
    <3>2. token' \in [Requests -> Nat \cup {None}]
      BY <1>1, CountingDown DEF Tick, TypeOK
    <3>3. QED
      BY <3>1, <3>2
  <2>3. timer' \in [Requests -> Nat]
    BY <1>1, CountingDown DEF Tick, TypeOK
  <2>4. answer' \in [Requests -> Answers \cup {None}]
    <3>1. ASSUME NEW r \in Requests, answer[r] # None
          PROVE  answer[r].kind \in Kinds /\ CountDown(answer[r].left) \in Nat
      BY <1>1, <3>1, CountingDown DEF TypeOK, Answers
    <3>2. QED
      BY <3>1, AnswerFacts DEF Tick
  <2>5. told' \in [Requests -> {"nothing", "limited", "reset"}]
    BY <1>1 DEF Tick, TypeOK
  <2>6. QED
    BY <1>1, <2>1, <2>2, <2>3, <2>4, <2>5 DEF Tick, TypeOK
<1>3. \A r \in Requests : Call(r)' = Call(r) /\ Limit(r)' = Limit(r)
  BY DEF Tick, Call, Limit, AsApp
<1>4. ASSUME NEW r \in Requests
      PROVE  AnswerOK(r)' /\ WaitOK(r)'
  <2>1. AnswerOK(r) /\ WaitOK(r) /\ Limit(r) \in Limits
    BY LimitType DEF IInv, AnswerInv, WaitInv
  <2>2. /\ timer[r] \in Nat /\ timer'[r] = CountDown(timer[r])
        /\ window[Limit(r)] \in Nat /\ window'[Limit(r)] = CountDown(window[Limit(r)])
        /\ pc'[r] = pc[r] /\ attempt'[r] = attempt[r]
    BY <1>1, <2>1 DEF Tick, TypeOK
  <2>3. pc[r] \in {"in_flight", "sleeping"} => timer[r] > 0 /\ timer'[r] = timer[r] - 1
    BY <2>2, CountingDown DEF Tick, Due
  <2>4. timer'[r] <= timer[r] /\ timer'[r] \in Nat
    BY <2>2, CountingDown
  <2>5. pc'[r] = "sleeping" => attempt'[r] < MaxAttempts
    BY <2>1, <2>2 DEF AnswerOK
  <2>6. ASSUME answer[r] = None PROVE AnswerOK(r)'
    <3>1. answer'[r] = None
      BY <2>6 DEF Tick
    <3>2. QED
      BY <2>5, <3>1 DEF AnswerOK
  <2>7. ASSUME answer[r] # None PROVE AnswerOK(r)'
    <3>1. answer[r].kind \in Kinds /\ answer[r].left \in Nat
      BY <1>1, <2>7 DEF TypeOK, Answers
    <3>2. /\ answer'[r] = Answer(answer[r].kind, CountDown(answer[r].left))
          /\ CountDown(answer[r].left) \in Nat
      BY <2>7, <3>1, CountingDown DEF Tick
    <3>3. answer'[r].kind = answer[r].kind /\ answer'[r].left = CountDown(answer[r].left)
      BY <3>1, <3>2, AnswerFacts
    <3>4. pc[r] = "in_flight" /\ timer[r] <= ReadTime /\ timer[r] > 0 /\ timer'[r] = timer[r] - 1
      BY <2>1, <2>3, <2>7 DEF AnswerOK
    <3>5. answer[r].kind = "limited" /\ answer'[r].left > 0 =>
             window'[Limit(r)] = answer'[r].left
      BY <2>1, <2>2, <2>7, <3>1, <3>3, CountingDown DEF AnswerOK
    <3>6. answer[r].kind = "ok" /\ Call(r) = "token" =>
             answer'[r].left + ReadTime >= TokenLife + timer'[r]
      <4>1. SUFFICES ASSUME answer[r].kind = "ok", Call(r) = "token"
                     PROVE  answer'[r].left + ReadTime >= TokenLife + timer'[r]
        OBVIOUS
      <4>2. answer[r].left + ReadTime >= TokenLife + timer[r]
        BY <2>1, <2>7, <4>1 DEF AnswerOK
      <4>3. answer[r].left > 0
        BY <2>2, <3>1, <3>4, <4>2
      <4>4. QED
        BY <2>2, <3>1, <3>3, <3>4, <4>2, <4>3, CountingDown
    <3>7. QED
      BY <1>3, <2>2, <2>5, <3>3, <3>4, <3>5, <3>6 DEF AnswerOK
  <2>8. AnswerOK(r)'
    BY <2>6, <2>7
  <2>9. WaitOK(r)'
    <3>1. SUFFICES ASSUME told'[r] = "limited"
                   PROVE  /\ pc'[r] = "sleeping" /\ window'[Limit(r)] > 0
                          /\ timer'[r] >= window'[Limit(r)]
      BY <1>3 DEF WaitOK
    <3>2. told[r] = "limited" /\ window'[Limit(r)] # 0
      BY <3>1 DEF Tick
    <3>3. pc[r] = "sleeping" /\ window[Limit(r)] > 0 /\ timer[r] >= window[Limit(r)]
      BY <2>1, <3>2 DEF WaitOK
    <3>4. window'[Limit(r)] = window[Limit(r)] - 1
      BY <2>2, <3>3, CountingDown
    <3>5. QED
      BY <2>2, <2>3, <3>2, <3>3, <3>4
  <2>10. QED
    BY <2>8, <2>9
<1>5. QED
  BY <1>2, <1>4 DEF IInv, AnswerInv, WaitInv

LEMMA StutterStep == IInv /\ UNCHANGED vars => IInv'
<1> SUFFICES ASSUME IInv, UNCHANGED vars PROVE IInv'
  OBVIOUS
<1>1. TypeOK'
  BY DEF IInv, TypeOK, vars, perCall
<1>2. AnswerInv' /\ WaitInv'
  BY DEF IInv, AnswerInv, AnswerOK, WaitInv, WaitOK, vars, perCall, Call, Limit, AsApp
<1>3. QED
  BY <1>1, <1>2 DEF IInv

LEMMA NextInv == IInv /\ [Next]_vars => IInv'
<1> SUFFICES ASSUME IInv, [Next]_vars PROVE IInv'
  OBVIOUS
<1>1. ASSUME NEW r \in Requests, Arrive(r) \/ Handler(r)
      PROVE  IInv'
  BY <1>1, ArriveStep, UseCachedTokenStep, FirstAttemptStep, GithubAnswersStep, SucceedsStep,
     SleepStep, RetryStep, FailureStep DEF Handler
<1>2. QED
  BY <1>1, TickStep, StutterStep DEF Next

-----------------------------------------------------------------------------
(* The variables keep their types; in particular no call makes more than   *)
(* MaxAttempts attempts.                                                   *)
THEOREM AccessTypeCorrect == SafetySpec => []TypeOK
<1>1. IInv => TypeOK
  BY DEF IInv
<1>2. QED
  BY <1>1, InitInv, NextInv, PTL DEF SafetySpec

(* No request retries against a rate limit it was told of before that has  *)
(* reset, however its answer was delayed and whoever else uses it up.      *)
THEOREM NoRetryBeforeReset == SafetySpec => []RetriesAfterReset
<1>1. IInv => RetriesAfterReset
  BY DEF IInv, WaitInv, WaitOK, RetriesAfterReset
<1>2. QED
  BY <1>1, InitInv, NextInv, PTL DEF SafetySpec

(* A token that is handed out has more than the margin left, whether it    *)
(* was cached by another request or has just been minted.                  *)
LEMMA HandingOut ==
    ASSUME IInv, [Next]_vars, NEW r \in Requests, HandsOut(r)
    PROVE  token'[r] > Margin
<1> USE DEF HandsOut
<1>1. CASE Tick \/ UNCHANGED vars
  BY <1>1 DEF Tick, vars
<1>2. ASSUME NEW q \in Requests, Arrive(q) \/ Handler(q)
      PROVE  token'[r] > Margin
  <2>1. CASE UseCachedToken(q) \/ Succeeds(q)
    <3>1. Advance(q) /\ UNCHANGED endpoint /\ TypeOK
      BY <2>1 DEF UseCachedToken, Succeeds, IInv
    <3>2. q = r
      BY <3>1, AdvanceFacts
    <3>3. QED
      BY <2>1, <3>2, UseCachedTokenStep, SucceedsStep
  <2>2. CASE GivesUp(q) \/ TransportFails(q)
    <3>1. PICK error : Raise(q, error)
      BY <2>2 DEF GivesUp, TransportFails
    <3>2. UNCHANGED endpoint /\ TypeOK
      BY <2>2 DEF GivesUp, TransportFails, IInv
    <3>3. q = r
      BY <3>1, <3>2, RaiseFacts
    <3>4. QED
      BY <3>1, <3>3 DEF Raise, ToolReportsError, EndpointFails, Respond
  <2>3. CASE Arrive(q) \/ CallAsApp(q) \/ CallAsInstallation(q) \/ GithubAnswers(q)
             \/ SleepsBeforeRetry(q) \/ Retry(q)
    BY <2>3 DEF Arrive, CallAsApp, CallAsInstallation, GithubAnswers, SleepsBeforeRetry, Retry
  <2>4. QED
    BY <1>2, <2>1, <2>2, <2>3 DEF Handler
<1>3. QED
  BY <1>1, <1>2 DEF Next

THEOREM TokensAreFreshWhenHandedOut == SafetySpec => HandedOutFresh
<1>1. IInv /\ [Next]_vars => [\A r \in Requests : HandsOut(r) => token'[r] > Margin]_vars
  BY HandingOut
<1>2. QED
  BY <1>1, InitInv, NextInv, PTL DEF SafetySpec, HandedOutFresh

-----------------------------------------------------------------------------
(* Until GitHub answers the first attempt of a call, the credential that   *)
(* was just obtained for it has more life left than the attempt has time.  *)
FreshOK(r) ==
    /\ pc[r] = "idle" => step[r] = 1
    /\ JustObtained(r) =>
        /\ pc[r] = "ready" /\ ~AsApp(r) => token[r] # None /\ token[r] > Margin
        /\ pc[r] \in {"in_flight", "sleeping"} => attempt[r] >= 1
        /\ pc[r] = "in_flight" /\ attempt[r] = 1 =>
              IF answer[r] = None THEN Bearer(r) \in Nat /\ Bearer(r) > timer[r]
                                  ELSE answer[r].kind # "unauthorized"

FreshInv == \A r \in Requests : FreshOK(r)

(* A step of one request changes nothing of another's call.                *)
LEMMA OneRequestActs ==
    ASSUME IInv, NEW r \in Requests, Arrive(r) \/ Handler(r), NEW q \in Requests \ {r}
    PROVE  /\ pc'[q] = pc[q] /\ step'[q] = step[q] /\ endpoint'[q] = endpoint[q]
           /\ attempt'[q] = attempt[q] /\ timer'[q] = timer[q] /\ told'[q] = told[q]
           /\ jwt'[q] = jwt[q] /\ token'[q] = token[q] /\ answer'[q] = answer[q]
<1>1. TypeOK
  BY DEF IInv
<1>2. CASE Arrive(r)
  BY <1>1, <1>2 DEF Arrive, perCall, TypeOK
<1>3. CASE UseCachedToken(r)
  BY <1>1, <1>3, AdvanceFacts DEF UseCachedToken, perCall, TypeOK
<1>4. CASE CallAsApp(r) \/ CallAsInstallation(r)
  BY <1>1, <1>4 DEF CallAsApp, CallAsInstallation, FirstAttempt, TypeOK
<1>5. CASE GithubAnswers(r)
  BY <1>1, <1>5 DEF GithubAnswers, TypeOK
<1>6. CASE Succeeds(r)
  <2>1. Advance(r) /\ EndCall(r) /\ UNCHANGED <<endpoint, told>>
    BY <1>6 DEF Succeeds
  <2>2. token'[q] = token[q]
    BY <1>1, <1>6 DEF Succeeds, TypeOK
  <2>3. QED
    BY <1>1, <2>1, <2>2, AdvanceFacts DEF EndCall, TypeOK
<1>7. CASE SleepsBeforeRetry(r)
  BY <1>1, <1>7 DEF SleepsBeforeRetry, TypeOK
<1>8. CASE Retry(r)
  BY <1>1, <1>8 DEF Retry, TypeOK
<1>9. CASE GivesUp(r) \/ TransportFails(r)
  <2>1. PICK error : Raise(r, error)
    BY <1>9 DEF GivesUp, TransportFails
  <2>2. EndCall(r) /\ UNCHANGED <<endpoint, token, told>>
    BY <1>9 DEF GivesUp, TransportFails
  <2>3. QED
    BY <1>1, <2>1, <2>2, RaiseFacts DEF EndCall, TypeOK
<1>10. QED
  BY <1>2, <1>3, <1>4, <1>5, <1>6, <1>7, <1>8, <1>9 DEF Handler

(* The call after "token" is made by the handler or the engine itself, and *)
(* only a call of the installation follows another.                        *)
LEMMA CallsFacts ==
    ASSUME endpoint \in Scenarios, NEW r \in Requests, step[r] \in DOMAIN Calls(endpoint[r])
    PROVE  /\ Call(r) \in {"app", "token", "call", "tool"}
           /\ Call(r) = "tool" => ~JustObtained(r)
           /\ step[r] = 1 => AsApp(r)
<1>1. endpoint[r] \in {"pulls", "current", "review"}
  OBVIOUS
<1>2. CASE endpoint[r] = "pulls"
  BY <1>2 DEF Calls, Call, JustObtained, AsApp
<1>3. CASE endpoint[r] = "current"
  BY <1>3 DEF Calls, Call, JustObtained, AsApp
<1>4. CASE endpoint[r] = "review"
  BY <1>4 DEF Calls, Call, JustObtained, AsApp
<1>5. QED
  BY <1>1, <1>2, <1>3, <1>4

LEMMA FreshInit == Init => FreshInv
<1> SUFFICES ASSUME Init, NEW r \in Requests PROVE FreshOK(r)
  BY DEF FreshInv
<1>1. QED
  BY DEF Init, FreshOK

(* The handler's next call finds the token it was just handed.             *)
LEMMA FreshAfterAdvance ==
    ASSUME TypeOK, NEW r \in Requests, Advance(r), UNCHANGED endpoint,
           token' \in [Requests -> Nat \cup {None}],
           Call(r) = "token" => token'[r] # None /\ token'[r] > Margin
    PROVE  FreshOK(r)'
<1>1. CASE Respond(r, 200)
  <2>1. pc'[r] = "done"
    BY <1>1 DEF Respond, TypeOK
  <2>2. QED
    BY <2>1 DEF FreshOK
<1>2. CASE step' = [step EXCEPT ![r] = @ + 1] /\ pc' = [pc EXCEPT ![r] = "ready"]
  <2>1. pc'[r] = "ready" /\ step'[r] = step[r] + 1 /\ step[r] \in Nat
    BY <1>2 DEF TypeOK
  <2>2. step'[r] - 1 = step[r]
    BY <2>1
  <2>3. JustObtained(r)' /\ ~AsApp(r)' => Call(r) = "token"
    BY <2>2 DEF JustObtained, Call
  <2>4. QED
    BY <2>1, <2>3 DEF FreshOK
<1>3. QED
  BY <1>1, <1>2 DEF Advance

LEMMA FreshFirstAttempt ==
    ASSUME IInv, NEW r \in Requests, FreshOK(r), CallAsApp(r) \/ CallAsInstallation(r)
    PROVE  FreshOK(r)'
<1>1. TypeOK /\ endpoint \in Scenarios /\ step[r] \in DOMAIN Calls(endpoint[r])
  BY DEF IInv, TypeOK
<1>2. /\ FirstAttempt(r) /\ pc[r] = "ready"
      /\ UNCHANGED <<endpoint, step, token>>
  BY DEF CallAsApp, CallAsInstallation
<1>3. /\ pc'[r] = "in_flight" /\ attempt'[r] = 1 /\ timer'[r] = SendTime
      /\ answer'[r] = None
  BY <1>1, <1>2 DEF FirstAttempt, IInv, TypeOK, AnswerInv, AnswerOK
<1>4. AsApp(r)' = AsApp(r) /\ JustObtained(r)' = JustObtained(r)
  BY <1>2 DEF AsApp, JustObtained, Call
<1>5. ASSUME JustObtained(r) PROVE Bearer(r)' \in Nat /\ Bearer(r)' > Margin
  <2>1. CASE AsApp(r)
    <3>1. CallAsApp(r)
      BY <2>1 DEF AsApp, CallAsInstallation
    <3>2. jwt'[r] = JwtLife
      BY <1>1, <3>1 DEF CallAsApp, TypeOK
    <3>3. Margin < JwtLife
      BY TimesAssumption
    <3>4. QED
      BY <1>4, <2>1, <3>2, <3>3 DEF Bearer
  <2>2. CASE ~AsApp(r)
    <3>1. token[r] # None /\ token[r] > Margin /\ token[r] \in Nat \cup {None}
      BY <1>1, <1>2, <1>5, <2>2 DEF FreshOK, TypeOK
    <3>2. QED
      BY <1>2, <1>4, <2>2, <3>1 DEF Bearer
  <2>3. QED
    BY <2>1, <2>2
<1>6. JustObtained(r) => Bearer(r)' \in Nat /\ Bearer(r)' > timer'[r]
  <2>1. SendTime <= Margin
    BY TimesAssumption
  <2>2. QED
    BY <1>3, <1>5, <2>1
<1>7. QED
  BY <1>3, <1>4, <1>6 DEF FreshOK

(* GitHub only refuses a credential that has no life left.                 *)
LEMMA FreshGithubAnswers ==
    ASSUME IInv, NEW r \in Requests, FreshOK(r), GithubAnswers(r)
    PROVE  FreshOK(r)'
<1>1. TypeOK
  BY DEF IInv
<1>2. /\ pc[r] = "in_flight" /\ answer[r] = None
      /\ UNCHANGED <<endpoint, pc, step, jwt, token, attempt, told>>
  BY DEF GithubAnswers
<1>3. JustObtained(r)' = JustObtained(r) /\ AsApp(r)' = AsApp(r)
  BY <1>2 DEF AsApp, JustObtained, Call
<1>4. JustObtained(r) /\ attempt[r] = 1 => Bearer(r) # 0
  BY <1>1, <1>2 DEF FreshOK, TypeOK
<1>5. Bearer(r) # 0 => answer'[r] # None /\ answer'[r].kind # "unauthorized"
  <2>1. SUFFICES ASSUME Bearer(r) # 0
                 PROVE  answer'[r] # None /\ answer'[r].kind # "unauthorized"
    OBVIOUS
  <2>2. window[Limit(r)] \in Nat
    BY <1>1, LimitType DEF TypeOK
  <2>3. PICK kind \in Kinds, left \in Nat :
            answer' = [answer EXCEPT ![r] = Answer(kind, left)] /\ kind # "unauthorized"
    BY <2>1, <2>2 DEF GithubAnswers, Kinds
  <2>4. answer'[r] = Answer(kind, left)
    BY <1>1, <2>3 DEF TypeOK
  <2>5. QED
    BY <2>3, <2>4, AnswerFacts
<1>6. QED
  BY <1>2, <1>3, <1>4, <1>5 DEF FreshOK

LEMMA FreshSleep ==
    ASSUME IInv, NEW r \in Requests, FreshOK(r), SleepsBeforeRetry(r)
    PROVE  FreshOK(r)'
<1>1. TypeOK
  BY DEF IInv
<1>2. /\ pc[r] = "in_flight" /\ pc'[r] = "sleeping"
      /\ UNCHANGED <<endpoint, step, attempt>>
  BY <1>1 DEF SleepsBeforeRetry, Answered, TypeOK
<1>3. JustObtained(r)' = JustObtained(r)
  BY <1>2 DEF AsApp, JustObtained, Call
<1>4. QED
  BY <1>2, <1>3 DEF FreshOK

(* An attempt after a sleep is not the first.                              *)
LEMMA FreshRetry ==
    ASSUME IInv, NEW r \in Requests, FreshOK(r), Retry(r)
    PROVE  FreshOK(r)'
<1>1. TypeOK
  BY DEF IInv
<1>2. /\ pc[r] = "sleeping" /\ pc'[r] = "in_flight" /\ attempt'[r] = attempt[r] + 1
      /\ UNCHANGED <<endpoint, step>> /\ attempt[r] \in Nat
  BY <1>1 DEF Retry, TypeOK
<1>3. JustObtained(r)' = JustObtained(r)
  BY <1>2 DEF AsApp, JustObtained, Call
<1>4. QED
  BY <1>2, <1>3 DEF FreshOK

(* A credential ages with the timer of the attempt that carries it.        *)
LEMMA FreshTick ==
    ASSUME IInv, NEW r \in Requests, FreshOK(r), Tick
    PROVE  FreshOK(r)'
<1>1. TypeOK /\ endpoint \in Scenarios /\ step[r] \in DOMAIN Calls(endpoint[r])
  BY DEF IInv, TypeOK
<1>2. /\ UNCHANGED <<endpoint, pc, step, attempt>> /\ ~Due(r)
      /\ jwt'[r] = CountDown(jwt[r]) /\ token'[r] = CountDown(token[r])
      /\ timer'[r] = CountDown(timer[r])
  BY DEF Tick
<1>3. JustObtained(r)' = JustObtained(r) /\ AsApp(r)' = AsApp(r)
  BY <1>2 DEF AsApp, JustObtained, Call
<1>4. ~(pc[r] = "ready" /\ JustObtained(r))
  BY <1>1, <1>2, CallsFacts DEF Due
<1>5. ASSUME pc[r] = "in_flight", Bearer(r) \in Nat, Bearer(r) > timer[r]
      PROVE  Bearer(r)' \in Nat /\ Bearer(r)' > timer'[r]
  <2>1. timer[r] \in Nat /\ timer[r] # 0
    BY <1>1, <1>2, <1>5 DEF Due, TypeOK
  <2>2. timer'[r] = timer[r] - 1
    BY <1>2, <2>1, CountingDown
  <2>3. Bearer(r)' = CountDown(Bearer(r))
    BY <1>2, <1>3 DEF Bearer
  <2>4. QED
    BY <1>5, <2>1, <2>2, <2>3, CountingDown
<1>6. /\ answer[r] = None => answer'[r] = None
      /\ answer[r] # None => answer'[r] # None /\ answer'[r].kind = answer[r].kind
  <2>1. SUFFICES ASSUME answer[r] # None
                 PROVE  answer'[r] # None /\ answer'[r].kind = answer[r].kind
    BY DEF Tick
  <2>2. answer[r].kind \in Kinds /\ answer[r].left \in Nat
    BY <1>1, <2>1 DEF TypeOK, Answers
  <2>3. answer'[r] = Answer(answer[r].kind, CountDown(answer[r].left))
    BY <2>1 DEF Tick
  <2>4. QED
    BY <2>2, <2>3, AnswerFacts, CountingDown
<1>7. QED
  BY <1>2, <1>3, <1>4, <1>5, <1>6 DEF FreshOK

LEMMA FreshOther ==
    ASSUME NEW q \in Requests, FreshOK(q),
           /\ pc'[q] = pc[q] /\ step'[q] = step[q] /\ endpoint'[q] = endpoint[q]
           /\ attempt'[q] = attempt[q] /\ timer'[q] = timer[q] /\ told'[q] = told[q]
           /\ jwt'[q] = jwt[q] /\ token'[q] = token[q] /\ answer'[q] = answer[q]
    PROVE  FreshOK(q)'
<1>1. /\ Bearer(q)' = Bearer(q) /\ JustObtained(q)' = JustObtained(q)
      /\ AsApp(q)' = AsApp(q)
  BY DEF Bearer, AsApp, JustObtained, Call
<1>2. QED
  BY <1>1 DEF FreshOK

LEMMA FreshActs ==
    ASSUME IInv, NEW r \in Requests, FreshOK(r), Arrive(r) \/ Handler(r)
    PROVE  FreshOK(r)'
<1>1. TypeOK /\ TypeOK' /\ endpoint \in Scenarios /\ step[r] \in DOMAIN Calls(endpoint[r])
  BY NextInv DEF IInv, TypeOK, Next
<1>2. CASE Arrive(r)
  <2>1. /\ pc[r] = "idle" /\ pc'[r] = "ready"
        /\ UNCHANGED <<endpoint, step, attempt, timer, told, jwt, token, answer>>
    BY <1>1, <1>2 DEF Arrive, perCall, TypeOK
  <2>2. AsApp(r) /\ AsApp(r)'
    BY <1>1, <2>1, CallsFacts DEF FreshOK, AsApp, Call
  <2>3. QED
    BY <2>1, <2>2 DEF FreshOK
<1>3. CASE UseCachedToken(r)
  <2>1. token'[r] # None /\ token'[r] > Margin
    BY <1>1, <1>3 DEF UseCachedToken, IsFresh, TypeOK
  <2>2. Advance(r) /\ UNCHANGED endpoint /\ token' \in [Requests -> Nat \cup {None}]
    BY <1>1, <1>3 DEF UseCachedToken, TypeOK
  <2>3. QED
    BY <1>1, <2>1, <2>2, FreshAfterAdvance
<1>4. CASE Succeeds(r)
  <2>1. Call(r) = "token" => token'[r] > Margin
    BY <1>4, SucceedsStep
  <2>2. Call(r) = "token" => token'[r] \in Nat
    <3>1. answer[r] \in Answers
      BY <1>1, <1>4 DEF Succeeds, Answered, TypeOK
    <3>2. QED
      BY <1>1, <1>4, <3>1 DEF Succeeds, TypeOK, Answers
  <2>3. Advance(r) /\ UNCHANGED endpoint /\ token' \in [Requests -> Nat \cup {None}]
    BY <1>1, <1>4 DEF Succeeds, TypeOK
  <2>4. QED
    BY <1>1, <2>1, <2>2, <2>3, FreshAfterAdvance
<1>5. CASE GivesUp(r) \/ TransportFails(r)
  <2>1. PICK error : Raise(r, error)
    BY <1>5 DEF GivesUp, TransportFails
  <2>2. UNCHANGED <<endpoint, token>> /\ token' \in [Requests -> Nat \cup {None}]
    BY <1>1, <1>5 DEF GivesUp, TransportFails, TypeOK
  <2>3. CASE Call(r) = "tool" /\ Advance(r)
    BY <1>1, <2>2, <2>3, FreshAfterAdvance
  <2>4. CASE Respond(r, StatusFor(r, error))
    <3>1. pc'[r] = "done"
      BY <1>1, <2>4 DEF Respond, TypeOK
    <3>2. QED
      BY <3>1 DEF FreshOK
  <2>5. QED
    BY <2>1, <2>3, <2>4 DEF Raise, ToolReportsError, EndpointFails
<1>6. QED
  BY <1>2, <1>3, <1>4, <1>5, FreshFirstAttempt, FreshGithubAnswers, FreshSleep, FreshRetry
     DEF Handler

LEMMA FreshNext == IInv /\ FreshInv /\ [Next]_vars => FreshInv'
<1> SUFFICES ASSUME IInv, FreshInv, [Next]_vars, NEW q \in Requests PROVE FreshOK(q)'
  BY DEF FreshInv
<1>1. FreshOK(q)
  BY DEF FreshInv
<1>2. CASE Tick
  BY <1>1, <1>2, FreshTick
<1>3. ASSUME NEW r \in Requests, Arrive(r) \/ Handler(r) PROVE FreshOK(q)'
  <2>1. CASE q = r
    BY <1>1, <1>3, <2>1, FreshActs
  <2>2. CASE q # r
    BY <1>1, <1>3, <2>2, OneRequestActs, FreshOther
  <2>3. QED
    BY <2>1, <2>2
<1>4. CASE UNCHANGED vars
  BY <1>1, <1>4, FreshOther DEF vars, perCall
<1>5. QED
  BY <1>2, <1>3, <1>4 DEF Next

(* The first attempt of a call made right after its credential was         *)
(* obtained never meets an expired one: the margin covers an attempt's way *)
(* to GitHub, whatever its waits, and the App JWT outlasts the margin.     *)
THEOREM FirstAttemptsAreAuthorized == SafetySpec => []FirstAttemptIsAuthorized
<1>1. FreshInv => FirstAttemptIsAuthorized
  BY DEF FreshInv, FreshOK, FirstAttemptIsAuthorized, Answered
<1>2. QED
  BY <1>1, InitInv, NextInv, FreshInit, FreshNext, PTL DEF SafetySpec
=============================================================================
