---------------------------- MODULE GithubAccess ----------------------------
(***************************************************************************)
(* How concurrent HTTP requests reach GitHub: the cache of installation    *)
(* tokens they share (services/installation_token_cache.py), the App JWT   *)
(* that mints them (github_app_auth.py), the retry policy every call goes  *)
(* through (github_retry.py), and the status each endpoint answers with    *)
(* (routers/).  One installation: the cache's entries are independent.     *)
(*                                                                         *)
(* Time is discrete.  Everything that expires is a count of the ticks it   *)
(* has left, 0 once it has expired, so that no clock grows.                *)
(***************************************************************************)
EXTENDS Integers, Sequences

CONSTANTS
    None,
    Requests,       \* the HTTP requests being served
    Scenarios,      \* which endpoint each request is for
    MaxAttempts,    \* _MAX_ATTEMPTS
    Margin,         \* _REFRESH_MARGIN
    JwtLife,        \* _JWT_EXPIRY_SECONDS
    TokenLife,      \* how long an installation token lives (GitHub: one hour)
    Timeout,        \* httpx.AsyncClient's timeout, which bounds each wait of an attempt
    Waits,          \* the waits until an answer begins: for a connection of the pool,
                    \* TCP, TLS, the write and the first read
    Reads,          \* the reads that a small answer arrives in
    Backoffs,       \* the values _backoff_delay may take
    Resets          \* how far away GitHub's X-RateLimit-Reset may be

ASSUME MaxAttemptsAssumption == MaxAttempts \in Nat \ {0}

(* httpx bounds no attempt, only its waits: one attempt may take this long *)
(* to reach GitHub, and its answer this long to come back.                 *)
SendTime == Waits * Timeout
ReadTime == Reads * Timeout

(* The margin covers the sending of one attempt (5 waits of 10 s, 60 s),   *)
(* not a whole call: attempts and backoffs may outlast it.                 *)
ASSUME TimesAssumption ==
    /\ {Margin, JwtLife, TokenLife, SendTime, ReadTime} \cup Backoffs \subseteq Nat
    /\ Resets \subseteq Nat \ {0}
    /\ SendTime <= Margin /\ Margin < JwtLife
    /\ Margin + ReadTime < TokenLife
ASSUME ScenariosAssumption == Scenarios \subseteq [Requests -> {"pulls", "current", "review"}]

(* GitHub's answers: success, the 403 of a rate limit, a 5xx, a 401, a 404 *)
(* and any other 4xx; with what is left until the reset, or of the token.  *)
Kinds == {"ok", "limited", "server_error", "unauthorized", "not_found", "forbidden"}
Answer(kind, left) == [kind |-> kind, left |-> left]
Answers == [kind : Kinds, left : Nat]

ASSUME NoneAssumption == None \notin Int \cup Answers

(* The GitHub calls of an endpoint, in order.  "app" is made with a JWT,   *)
(* "token" is get_installation_token, "call" is made by the handler or the *)
(* engine itself, and "tool" by a tool of the review, any time later.      *)
Calls(endpoint) ==
    CASE endpoint = "pulls"   -> <<"token", "call">>
      [] endpoint = "current" -> <<"app", "token", "call">>
      [] endpoint = "review"  -> <<"token", "call", "call", "tool">>

VARIABLES
    cached,      \* _tokens: ticks left of the cached token, None if there is none
    window,      \* GitHub: ticks until each rate limit resets, 0 if it is not used up
    \* each request
    endpoint,
    pc,          \* "idle" before it arrives, "ready", "in_flight", "sleeping", "done"
    step,        \* the call of Calls(endpoint) it is at
    attempt,     \* call_with_retry's attempt
    timer,       \* ticks until its sleep ends, or until the waits of its attempt are over
    jwt, token,  \* ticks left of the JWT and of the installation token it holds
    answer,      \* GitHub's answer on its way back, None before
    status,      \* the HTTP status it is answered with, None before
    told         \* history: what the current call was told of rate limits: "nothing",
                 \* "limited" until the one it was told of resets, then "reset"

perCall == <<attempt, timer, answer, told>>
vars == <<cached, window, endpoint, pc, step, jwt, token, status, perCall>>

Limits == {"app", "installation"}

Call(r) == Calls(endpoint[r])[step[r]]
AsApp(r) == Call(r) \in {"app", "token"}

(* The credential and the rate limit of the call a request is making.      *)
Bearer(r) == IF AsApp(r) THEN jwt[r] ELSE token[r]
Limit(r)  == IF AsApp(r) THEN "app" ELSE "installation"

-----------------------------------------------------------------------------
Init ==
    /\ cached = None
    /\ window = [k \in Limits |-> 0]
    /\ endpoint \in Scenarios
    /\ pc = [r \in Requests |-> "idle"]
    /\ step = [r \in Requests |-> 1]
    /\ attempt = [r \in Requests |-> 0]
    /\ timer = [r \in Requests |-> 0]
    /\ jwt = [r \in Requests |-> None]
    /\ token = [r \in Requests |-> None]
    /\ answer = [r \in Requests |-> None]
    /\ status = [r \in Requests |-> None]
    /\ told = [r \in Requests |-> "nothing"]

Arrive(r) ==
    /\ pc[r] = "idle"
    /\ pc' = [pc EXCEPT ![r] = "ready"]
    /\ UNCHANGED <<cached, window, endpoint, step, jwt, token, status, perCall>>

(* The handler goes on with its next call, or answers when it has made     *)
(* them all.  (How a review's conversation ends, and with what status, is  *)
(* the engines' modules' matter.)                                          *)
Respond(r, code) ==
    /\ pc' = [pc EXCEPT ![r] = "done"]
    /\ status' = [status EXCEPT ![r] = code]
    /\ UNCHANGED step

Advance(r) ==
    \/ /\ step[r] < Len(Calls(endpoint[r]))
       /\ step' = [step EXCEPT ![r] = @ + 1]
       /\ pc' = [pc EXCEPT ![r] = "ready"]
       /\ UNCHANGED status
    \/ /\ step[r] = Len(Calls(endpoint[r]))
       /\ Respond(r, 200)

(* Entering call_with_retry.                                               *)
FirstAttempt(r) ==
    /\ pc' = [pc EXCEPT ![r] = "in_flight"]
    /\ attempt' = [attempt EXCEPT ![r] = 1]
    /\ timer' = [timer EXCEPT ![r] = SendTime]
    /\ told' = [told EXCEPT ![r] = "nothing"]
    /\ UNCHANGED answer

(* _is_fresh, and a mutant: no margin.                                     *)
IsFresh_NoMargin(left) == left # None /\ left > 0

IsFresh(left) == left # None /\ left > Margin

(* get_installation_token: the cache hit, which awaits nothing ...         *)
UseCachedToken(r) ==
    /\ pc[r] = "ready" /\ Call(r) = "token" /\ IsFresh(cached)
    /\ token' = [token EXCEPT ![r] = cached]
    /\ Advance(r)
    /\ UNCHANGED <<cached, window, endpoint, jwt, perCall>>

(* ... and the miss: a JWT is built once, before the first attempt.        *)
CallAsApp(r) ==
    /\ pc[r] = "ready"
    /\ \/ Call(r) = "app"
       \/ Call(r) = "token" /\ ~IsFresh(cached)
    /\ jwt' = [jwt EXCEPT ![r] = JwtLife]
    /\ FirstAttempt(r)
    /\ UNCHANGED <<cached, window, endpoint, step, token, status>>

(* Every other call carries the token the request was handed.              *)
CallAsInstallation(r) ==
    /\ pc[r] = "ready" /\ Call(r) \in {"call", "tool"}
    /\ FirstAttempt(r)
    /\ UNCHANGED <<cached, window, endpoint, step, jwt, token, status>>

-----------------------------------------------------------------------------
(* GitHub processes the request: it refuses an expired credential, answers *)
(* 403 until a used-up rate limit resets, and may fail in other ways.  Its *)
(* answer is then read, wait by wait.                                      *)
GithubAnswers(r) ==
    /\ pc[r] = "in_flight" /\ answer[r] = None
    /\ \/ /\ Bearer(r) = 0
          /\ answer' = [answer EXCEPT ![r] = Answer("unauthorized", 0)]
          /\ UNCHANGED window
       \/ /\ Bearer(r) > 0 /\ window[Limit(r)] > 0
          /\ answer' = [answer EXCEPT ![r] = Answer("limited", window[Limit(r)])]
          /\ UNCHANGED window
       \/ /\ Bearer(r) > 0 /\ window[Limit(r)] = 0
          /\ \E reset \in Resets :
                /\ answer' = [answer EXCEPT ![r] = Answer("limited", reset)]
                /\ window' = [window EXCEPT ![Limit(r)] = reset]
       \/ /\ Bearer(r) > 0 /\ window[Limit(r)] = 0
          /\ \E kind \in {"server_error", "not_found", "forbidden"} :
                answer' = [answer EXCEPT ![r] = Answer(kind, 0)]
          /\ UNCHANGED window
       \/ /\ Bearer(r) > 0 /\ window[Limit(r)] = 0
          /\ answer' = [answer EXCEPT
                ![r] = Answer("ok", IF Call(r) = "token" THEN TokenLife ELSE 0)]
          /\ UNCHANGED window
    /\ timer' = [timer EXCEPT ![r] = ReadTime]
    /\ UNCHANGED <<cached, endpoint, pc, step, jwt, token, status, attempt, told>>

(* The answer arrives.                                                     *)
Answered(r) == pc[r] = "in_flight" /\ answer[r] # None

(* Leaving call_with_retry, whose locals and whose JWT are gone with it.   *)
EndCall(r) ==
    /\ answer' = [answer EXCEPT ![r] = None]
    /\ attempt' = [attempt EXCEPT ![r] = 0]
    /\ timer' = [timer EXCEPT ![r] = 0]
    /\ jwt' = [jwt EXCEPT ![r] = None]

Succeeds(r) ==
    /\ Answered(r) /\ answer[r].kind = "ok"
    /\ EndCall(r)
    /\ Advance(r)
    /\ IF Call(r) = "token"
       THEN /\ cached' = answer[r].left
            /\ token' = [token EXCEPT ![r] = answer[r].left]
       ELSE UNCHANGED <<cached, token>>
    /\ UNCHANGED <<window, endpoint, told>>

(* _is_rate_limited and _is_transient_server_error with attempts left, and *)
(* mutants: one attempt too many, and GitHub's reset ignored.              *)
Retries_OffByOne(kind, n) == kind \in {"limited", "server_error"} /\ n <= MaxAttempts

Retries(kind, n) == kind \in {"limited", "server_error"} /\ n < MaxAttempts

Delays_Backoff(reply) == Backoffs

(* _seconds_until_reset, or _backoff_delay.                                *)
Delays(reply) == IF reply.kind = "limited" THEN {reply.left} ELSE Backoffs

SleepsBeforeRetry(r) ==
    /\ Answered(r) /\ Retries(answer[r].kind, attempt[r])
    /\ \E delay \in Delays(answer[r]) : timer' = [timer EXCEPT ![r] = delay]
    /\ pc' = [pc EXCEPT ![r] = "sleeping"]
    /\ told' = [told EXCEPT ![r] = IF answer[r].kind # "limited" THEN @
                                   ELSE IF answer[r].left > 0 THEN "limited" ELSE "reset"]
    /\ answer' = [answer EXCEPT ![r] = None]
    /\ UNCHANGED <<cached, window, endpoint, step, jwt, token, status, attempt>>

(* Mutant: the attempts are not counted.                                   *)
Retry_Uncounted(r) ==
    /\ pc[r] = "sleeping" /\ timer[r] = 0
    /\ pc' = [pc EXCEPT ![r] = "in_flight"]
    /\ timer' = [timer EXCEPT ![r] = SendTime]
    /\ UNCHANGED <<cached, window, endpoint, step, jwt, token, status, attempt, answer, told>>

(* The next attempt calls the same request_fn: the same credential.        *)
Retry(r) ==
    /\ pc[r] = "sleeping" /\ timer[r] = 0
    /\ pc' = [pc EXCEPT ![r] = "in_flight"]
    /\ attempt' = [attempt EXCEPT ![r] = @ + 1]
    /\ timer' = [timer EXCEPT ![r] = SendTime]
    /\ UNCHANGED <<cached, window, endpoint, step, jwt, token, status, answer, told>>

(* _translate_github_error, where a router calls it: around the call of    *)
(* the pulls endpoints.  Any other exception is FastAPI's 500.             *)
StatusFor(r, error) ==
    IF endpoint[r] = "pulls" /\ Call(r) = "call" /\ error \in Kinds
    THEN IF error = "not_found" THEN 404 ELSE 502
    ELSE 500

(* A tool's exception becomes a tool result and the review goes on;        *)
(* elsewhere it ends the request.                                          *)
ToolReportsError(r) == Call(r) = "tool" /\ Advance(r)

EndpointFails(r, error) == Call(r) # "tool" /\ Respond(r, StatusFor(r, error))

(* call_with_retry raises.                                                 *)
Raise(r, error) == ToolReportsError(r) \/ EndpointFails(r, error)

GivesUp(r) ==
    /\ Answered(r) /\ answer[r].kind # "ok" /\ ~Retries(answer[r].kind, attempt[r])
    /\ EndCall(r)
    /\ Raise(r, answer[r].kind)
    /\ UNCHANGED <<cached, window, endpoint, token, told>>

(* A wait that is over its timeout or a lost connection, before or after   *)
(* GitHub has processed the request, at any time: a single wait may fail   *)
(* early in the attempt.  Not an HTTPStatusError, and not retried.         *)
TransportFails(r) ==
    /\ pc[r] = "in_flight"
    /\ EndCall(r)
    /\ Raise(r, "transport_error")
    /\ UNCHANGED <<cached, window, endpoint, token, told>>

-----------------------------------------------------------------------------
(* Time passes for everything that expires, unless something is due: a     *)
(* sleep that is over, an attempt whose waits are used up, or code that    *)
(* reaches its next await without waiting.                                 *)
CountDown(left) == IF left = None \/ left = 0 THEN left ELSE left - 1

Due(r) ==
    \/ pc[r] \in {"in_flight", "sleeping"} /\ timer[r] = 0
    \/ pc[r] = "ready" /\ Call(r) # "tool"

Tick ==
    /\ \A r \in Requests : ~Due(r)
    /\ cached' = CountDown(cached)
    /\ window' = [k \in Limits |-> CountDown(window[k])]
    /\ jwt' = [r \in Requests |-> CountDown(jwt[r])]
    /\ token' = [r \in Requests |-> CountDown(token[r])]
    /\ timer' = [r \in Requests |-> CountDown(timer[r])]
    /\ answer' = [r \in Requests |->
          IF answer[r] = None THEN None ELSE Answer(answer[r].kind, CountDown(answer[r].left))]
    /\ told' = [r \in Requests |->
          IF told[r] = "limited" /\ window'[Limit(r)] = 0 THEN "reset" ELSE told[r]]
    /\ UNCHANGED <<endpoint, pc, step, attempt, status>>

Handler(r) ==
    \/ UseCachedToken(r) \/ CallAsApp(r) \/ CallAsInstallation(r)
    \/ GithubAnswers(r) \/ Succeeds(r) \/ SleepsBeforeRetry(r) \/ Retry(r)
    \/ GivesUp(r) \/ TransportFails(r)

Next == Tick \/ \E r \in Requests : Arrive(r) \/ Handler(r)

(* Time passes, the event loop runs what is ready, httpx bounds each of an *)
(* attempt's waits, which are finitely many, and the model eventually asks *)
(* for the review's next tool.                                             *)
Fairness == WF_vars(Tick) /\ \A r \in Requests : WF_vars(Handler(r))

SafetySpec == Init /\ [][Next]_vars

Spec == SafetySpec /\ Fairness

-----------------------------------------------------------------------------
TypeOK ==
    /\ cached \in Nat \cup {None}
    /\ window \in [Limits -> Nat]
    /\ endpoint \in Scenarios
    /\ pc \in [Requests -> {"idle", "ready", "in_flight", "sleeping", "done"}]
    /\ step \in [Requests -> Nat]
    /\ \A r \in Requests : step[r] \in DOMAIN Calls(endpoint[r])
    /\ attempt \in [Requests -> 0..MaxAttempts]
    /\ timer \in [Requests -> Nat]
    /\ jwt \in [Requests -> Nat \cup {None}] /\ token \in [Requests -> Nat \cup {None}]
    /\ answer \in [Requests -> Answers \cup {None}]
    /\ status \in [Requests -> {None, 200, 404, 500, 502}]
    /\ told \in [Requests -> {"nothing", "limited", "reset"}]

(* "Never handing out one that's about to die": whether it comes from the  *)
(* cache, filled by another request, or from an answer that was slow to    *)
(* arrive, a token that is handed out has more than the margin left.       *)
HandsOut(r) == Call(r) = "token" /\ step'[r] # step[r]

HandedOutFresh == [][\A r \in Requests : HandsOut(r) => token'[r] > Margin]_vars

(* What the margins are for: the first attempt of a call made right after  *)
(* its credential was obtained never meets an expired one, however slowly  *)
(* it reaches GitHub and however long the token had been in the cache.     *)
(* (Its retries and later calls can: nothing renews a credential.)         *)
JustObtained(r) == AsApp(r) \/ Calls(endpoint[r])[step[r] - 1] = "token"

FirstAttemptIsAuthorized ==
    \A r \in Requests :
        Answered(r) /\ JustObtained(r) /\ attempt[r] = 1 =>
            answer[r].kind # "unauthorized"

(* A request that was told of a used-up rate limit sends nothing more      *)
(* against it before it resets.                                            *)
RetriesAfterReset == \A r \in Requests : pc[r] = "in_flight" => told[r] # "limited"

(* Every request is answered: a permanent outage or rate limit becomes "a  *)
(* clear failure", not "a hang".                                           *)
EveryRequestEnds == \A r \in Requests : pc[r] # "idle" ~> pc[r] = "done"

(* "Rate-limited (403)" is returned as a typed error response, not as an   *)
(* "unhandled exception" that bubbles up "as a generic 500": the plan of   *)
(* the pulls endpoints (docs/week-1/week-1-plan.md, line 68).              *)
RateLimitsAreTyped ==
    [][\A r \in Requests :
          endpoint[r] = "pulls" /\ GivesUp(r) /\ answer[r].kind = "limited" =>
              status'[r] # 500]_vars
=============================================================================
