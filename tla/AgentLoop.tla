----------------------------- MODULE AgentLoop ------------------------------
(***************************************************************************)
(* The "Week 2" engine: run_review_agent (services/review_agent.py), a     *)
(* for-loop that asks the model, executes the tools it asks for, and goes  *)
(* on until a submit_review validates or the iterations run out.           *)
(*                                                                         *)
(* One action per await: the two GitHub fetches, a model call with the     *)
(* synchronous code after it, and each tool call of a turn (ToolTurn).     *)
(* Input and output tokens are accumulated side by side by the code; one   *)
(* figure stands for both.                                                 *)
(***************************************************************************)
EXTENDS ToolTurn

CONSTANTS
    MaxIterations,   \* MAX_ITERATIONS
    Costs            \* tokens one answered model call bills

ASSUME MaxIterationsAssumption == MaxIterations \in Nat \ {0}
ASSUME CostsAssumption == Costs \subseteq Nat

VARIABLES
    pc,             \* the await the engine is at, "returned" at the end
    iteration,      \* the latest iteration whose model call was answered
    messages,       \* the conversation sent to the model
    total_tokens,   \* the engine's own running total
    verdict,        \* None, or how the engine ended
    findings,       \* ReviewResult.findings, None unless submitted
    usage,          \* the ReviewUsage on the result or the exception
    billed          \* history: what the API has billed

reportVars == <<verdict, findings, usage>>
vars == <<pc, iteration, messages, total_tokens, reportVars, billed, turnVars>>

-----------------------------------------------------------------------------
Return(how, result, reported) ==
    /\ pc' = "returned"
    /\ verdict' = how
    /\ findings' = result
    /\ usage' = reported

-----------------------------------------------------------------------------
Init ==
    /\ pc = "metadata"
    /\ iteration = 0
    /\ messages = <<>>
    /\ total_tokens = 0
    /\ verdict = None /\ findings = None /\ usage = None
    /\ billed = 0
    /\ NoTurn

(* The two fetches that precede the loop; an httpx error of either escapes.*)
FetchMetadata ==
    /\ pc = "metadata"
    /\ pc' = "diff"
    /\ UNCHANGED <<iteration, messages, total_tokens, reportVars, billed, turnVars>>

FetchDiff ==
    /\ pc = "diff"
    /\ pc' = "model"
    /\ messages' = <<PullRequestMessage>>
    /\ UNCHANGED <<iteration, total_tokens, reportVars, billed, turnVars>>

(* Mutant: a failing fetch is retried without end.                         *)
GithubFails_Retries ==
    /\ pc \in {"metadata", "diff"}
    /\ pc' = "metadata"
    /\ UNCHANGED <<iteration, messages, total_tokens, reportVars, billed, turnVars>>

GithubFails ==
    /\ pc \in {"metadata", "diff"}
    /\ Return("github_error", None, None)
    /\ UNCHANGED <<iteration, messages, total_tokens, billed, turnVars>>

(* A model call is answered: the tokens are added whatever it says.        *)
ModelAnswers ==
    /\ pc = "model"
    /\ iteration' = iteration + 1
    /\ \E c \in Costs : total_tokens' = total_tokens + c /\ billed' = billed + c

(* stop_reason == "tool_use": the assistant turn joins the conversation.   *)
CallModel ==
    /\ ModelAnswers
    /\ \E turn \in ModelTurns(tool_choice_for(iteration + 1, MaxIterations)) :
          /\ messages' = Append(messages, AssistantMessage(turn))
          /\ StartTurn(turn)
    /\ pc' = "tools"
    /\ UNCHANGED reportVars

(* Mutant: the usage is computed before the answer's tokens are added.     *)
ModelStops_StaleUsage ==
    /\ ModelAnswers
    /\ Return("no_submit", None, total_tokens)
    /\ UNCHANGED <<messages, turnVars>>

(* Any other stop_reason raises AgentDidNotSubmitReviewError.              *)
ModelStops ==
    /\ ModelAnswers
    /\ Return("no_submit", None, total_tokens')
    /\ UNCHANGED <<messages, turnVars>>

(* anthropic.APIError, after the SDK's own retries, escapes.               *)
ApiFails ==
    /\ pc = "model"
    /\ Return("api_error", None, None)
    /\ UNCHANGED <<iteration, messages, total_tokens, billed, turnVars>>

ExecuteTool ==
    /\ pc = "tools"
    /\ ExecuteCall(None)
    /\ UNCHANGED <<pc, iteration, messages, total_tokens, reportVars, billed>>

TurnDone == pc = "tools" /\ ~TurnRunning

Submit ==
    /\ TurnDone
    /\ submitted_findings # None
    /\ Return("submitted", submitted_findings, total_tokens)
    /\ ClearTurn
    /\ UNCHANGED <<iteration, messages, total_tokens, billed>>

(* Mutant: one iteration more than the budget.                             *)
NextIteration_OffByOne ==
    /\ TurnDone
    /\ submitted_findings = None
    /\ iteration <= MaxIterations
    /\ messages' = Append(messages, UserMessage(tool_results))
    /\ pc' = "model"
    /\ ClearTurn
    /\ UNCHANGED <<iteration, total_tokens, reportVars, billed>>

(* Mutant: calls that were refused are not answered.                       *)
NextIteration_DropsErrors ==
    /\ TurnDone
    /\ submitted_findings = None
    /\ iteration < MaxIterations
    /\ messages' = Append(messages,
                          UserMessage(SelectSeq(tool_results, LAMBDA r : ~r.is_error)))
    /\ pc' = "model"
    /\ ClearTurn
    /\ UNCHANGED <<iteration, total_tokens, reportVars, billed>>

NextIteration ==
    /\ TurnDone
    /\ submitted_findings = None
    /\ iteration < MaxIterations
    /\ messages' = Append(messages, UserMessage(tool_results))
    /\ pc' = "model"
    /\ ClearTurn
    /\ UNCHANGED <<iteration, total_tokens, reportVars, billed>>

(* The for-loop runs out: AgentExceededMaxIterationsError.                 *)
Exceed ==
    /\ TurnDone
    /\ submitted_findings = None
    /\ iteration >= MaxIterations
    /\ messages' = Append(messages, UserMessage(tool_results))
    /\ Return("exceeded", None, total_tokens)
    /\ ClearTurn
    /\ UNCHANGED <<iteration, total_tokens, billed>>

Terminated == pc = "returned" /\ UNCHANGED vars

Next ==
    \/ FetchMetadata \/ FetchDiff \/ GithubFails
    \/ CallModel \/ ModelStops \/ ApiFails
    \/ ExecuteTool \/ Submit \/ NextIteration \/ Exceed
    \/ Terminated

(* Every await of the engine has a bound of its own (httpx and the         *)
(* Anthropic SDK time out) but one: run_linter waits for a subprocess for  *)
(* as long as it runs.  So a step is only promised outside a linter call.  *)
LinterRunning ==
    /\ pc = "tools" /\ TurnRunning
    /\ CurrentCall.name = "run_linter"

Fairness == WF_vars(~LinterRunning /\ Next)

SafetySpec == Init /\ [][Next]_vars

Spec == SafetySpec /\ Fairness

-----------------------------------------------------------------------------
TypeOK ==
    /\ TurnTypeOK
    /\ pc \in {"metadata", "diff", "model", "tools", "returned"}
    /\ iteration \in 0..MaxIterations
    /\ messages \in Seq(Message)
    /\ total_tokens \in Nat /\ billed \in Nat
    /\ verdict \in {None, "submitted", "no_submit", "exceeded", "api_error", "github_error"}
    /\ findings \in FindingLists \cup {None}
    /\ usage \in Nat \cup {None}

(* Every tool_use block is answered by exactly one tool_result with its    *)
(* id, in order, in the very next message, and every request to the model  *)
(* ends with a user message: what the Messages API requires, and what the  *)
(* comment in execute_tool_turn ("dropping one would leave the next        *)
(* request malformed") is about.                                           *)
Answers(results, turn) ==
    /\ Len(results) = Len(turn)
    /\ \A i \in DOMAIN turn : results[i].tool_use_id = turn[i].id

ConversationWellFormed ==
    /\ \A i \in DOMAIN messages : messages[i].role = IF i % 2 = 1 THEN "user" ELSE "assistant"
    /\ \A i \in DOMAIN messages :
          i % 2 = 0 /\ i < Len(messages) => Answers(messages[i + 1].content, messages[i].content)
    /\ pc = "model" => Len(messages) = 2 * iteration + 1

(* A submission the code accepted is never followed by more work: no turn  *)
(* of the conversation but the last holds a valid submit_review, and once  *)
(* that turn's tools have run the review is submitted.                     *)
HoldsSubmission(turn) == \E i \in DOMAIN turn : ValidSubmission(turn[i])

NoSubmissionIgnored ==
    \A i \in DOMAIN messages :
        messages[i].role = "assistant" /\ HoldsSubmission(messages[i].content)
            => i = Len(messages) /\ (pc = "tools" \/ verdict = "submitted")

(* A submitted review returns the findings of the last valid submission of *)
(* the last turn, whatever invalid ones surround it; findings are returned *)
(* on no other verdict.                                                    *)
LastSubmission(turn, result) ==
    \E i \in DOMAIN turn :
        /\ ValidSubmission(turn[i])
        /\ turn[i].input = result
        /\ \A j \in DOMAIN turn : j > i => ~ValidSubmission(turn[j])

ReturnsLastSubmission ==
    /\ verdict = "submitted" => LastSubmission(messages[Len(messages)].content, findings)
    /\ (findings # None) = (verdict = "submitted")

(* The budget can only be exceeded by malformed output: the forced final   *)
(* turn was a submission that did not validate (the comment on             *)
(* tool_choice_for), and the review never just "ran out of time".          *)
ExceededOnlyByMalformedSubmission ==
    verdict = "exceeded" =>
        /\ iteration = MaxIterations
        /\ LET last == messages[Len(messages) - 1].content
           IN  \A i \in DOMAIN last : last[i].name = "submit_review" /\ last[i].input = Malformed

(* README: "In every engine, the last allowed iteration forces             *)
(* `submit_review`, so a run that uses its whole budget still returns a    *)
(* review instead of an error."                                            *)
WholeBudgetReturnsReview ==
    pc = "returned" /\ iteration = MaxIterations => verdict # "exceeded"

(* README: "Cost on every run, including failures.  Usage is attached to   *)
(* the error responses too".                                               *)
CostOnEveryRun == pc = "returned" /\ billed > 0 => usage # None

(* A review ends, unless it waits forever for a linter subprocess.         *)
ReviewEnds == <>(pc = "returned") \/ <>[]LinterRunning

(* The loop keeps the contract of every engine.                            *)
Contract == INSTANCE AgentContract WITH
    Budget <- MaxIterations, turns <- iteration, spent <- billed

ImplementsContract == Contract!Spec
=============================================================================
