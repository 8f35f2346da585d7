----------------------------- MODULE LoopGraph ------------------------------
(***************************************************************************)
(* The LangGraph engine: build_agent_graph and run_review_graph            *)
(* (services/review_graph/loop_graph.py) over LoopState (state.py).  The   *)
(* same agent as AgentLoop, cut into two nodes, call_model and run_tools,  *)
(* that LangGraph runs one super-step at a time: the node runs, its        *)
(* partial update goes through the reducers, and a routing function of the *)
(* resulting state names the next node.                                    *)
(*                                                                         *)
(* The agent's configuration is a parameter: ToolNames and MaxIterations   *)
(* are AgentConfig's tool_names and max_iterations, so that one module     *)
(* covers GENERALIST and every specialist.                                 *)
(***************************************************************************)
EXTENDS ToolTurn

CONSTANTS
    MaxIterations,   \* AgentConfig.max_iterations
    ToolNames,       \* AgentConfig.tool_names: the data tools of this agent
    Costs            \* tokens one answered model call bills

ASSUME MaxIterationsAssumption == MaxIterations \in Nat \ {0}
ASSUME ToolNamesAssumption == ToolNames \subseteq TOOL_EXECUTORS /\ ToolNames # None
ASSUME CostsAssumption == Costs \subseteq Nat

VARIABLES
    \* LoopState; stop_reason, which only words the error, is left out
    messages, iteration, tokens, outcome, findings,
    \* the LangGraph run
    next,      \* the fetch or node to run next, END when ainvoke has returned
    steps,     \* super-steps completed
    \* what run_review_graph returns or raises
    verdict, result, usage,
    billed     \* history: what the API has billed

END == "END"

loopState  == <<messages, iteration, tokens, outcome, findings>>
reportVars == <<verdict, result, usage>>
vars == <<loopState, next, steps, reportVars, billed, turnVars>>

-----------------------------------------------------------------------------
(* Mutant: an iteration counted as one super-step.                         *)
recursion_limit_for_OneStep(max_iterations) == max_iterations + 5

recursion_limit_for(max_iterations) == 2 * max_iterations + 5

(* Mutant: a field without its reducer, which is replaced.                 *)
AddMessages_Replaces(update) == messages' = update

(* The reducers of LoopState: messages and tokens add up, the rest is      *)
(* replaced.                                                               *)
AddMessages(update) == messages' = messages \o update
AddTokens(update)   == tokens' = tokens + update

(* Mutant: a plain edge instead of a conditional one.                      *)
route_after_model_Always(how) == "run_tools"

(* Mutant: the outcome itself is returned as the edge to take.             *)
route_after_tools_NoEdge(how) == IF how # None THEN how ELSE "call_model"

route_after_model(how) == IF how # None THEN END ELSE "run_tools"
route_after_tools(how) == IF how # None THEN END ELSE "call_model"

(* The runner's match on the final outcome: everything that is neither     *)
(* "submitted" nor "no_submit" raises AgentExceededMaxIterationsError.     *)
VerdictFor(how) == IF how \in {"submitted", "no_submit"} THEN how ELSE "exceeded"

Raise(how) ==
    /\ next' = END
    /\ verdict' = how
    /\ UNCHANGED <<result, usage>>

(* ainvoke has returned: run_review_graph turns the final state into its   *)
(* result or exception, without an await.                                  *)
Finish ==
    /\ next' = END
    /\ verdict' = VerdictFor(outcome')
    /\ result' = IF outcome' = "submitted" THEN findings' ELSE None
    /\ usage' = tokens'

(* The end of a super-step: the reduced state has been routed.  LangGraph  *)
(* raises GraphRecursionError if nodes are left to run at the limit.       *)
EndSuperStep(to) ==
    /\ steps' = steps + 1
    /\ \/ /\ to = END
          /\ Finish
       \/ /\ to # END /\ steps' < recursion_limit_for(MaxIterations)
          /\ next' = to /\ UNCHANGED reportVars
       \/ /\ to # END /\ steps' >= recursion_limit_for(MaxIterations)
          /\ Raise("recursion_error")

-----------------------------------------------------------------------------
Init ==
    /\ messages = <<>> /\ iteration = 0 /\ tokens = 0
    /\ outcome = None /\ findings = None
    /\ next = "metadata" /\ steps = 0
    /\ verdict = None /\ result = None /\ usage = None
    /\ billed = 0
    /\ NoTurn

FetchMetadata ==
    /\ next = "metadata"
    /\ next' = "diff"
    /\ UNCHANGED <<loopState, steps, reportVars, billed, turnVars>>

(* The second fetch, and the initial state handed to ainvoke.              *)
FetchDiff ==
    /\ next = "diff"
    /\ next' = "call_model"
    /\ messages' = <<PullRequestMessage>>
    /\ UNCHANGED <<iteration, tokens, outcome, findings, steps, reportVars, billed, turnVars>>

(* Mutant: a failing fetch is retried without end.                         *)
GithubFails_Retries ==
    /\ next \in {"metadata", "diff"}
    /\ next' = "metadata"
    /\ UNCHANGED <<loopState, steps, reportVars, billed, turnVars>>

GithubFails ==
    /\ next \in {"metadata", "diff"}
    /\ Raise("github_error")
    /\ UNCHANGED <<loopState, steps, billed, turnVars>>

(* _call_model with its update, up to where the answer's kind matters.     *)
ModelAnswers ==
    /\ next = "call_model"
    /\ iteration' = iteration + 1
    /\ \E c \in Costs : AddTokens(c) /\ billed' = billed + c
    /\ UNCHANGED findings

CallModel ==
    /\ ModelAnswers
    /\ \E turn \in ModelTurns(tool_choice_for(iteration + 1, MaxIterations)) :
          /\ AddMessages(<<AssistantMessage(turn)>>)
          /\ StartTurn(turn)
    /\ UNCHANGED outcome
    /\ EndSuperStep(route_after_model(outcome'))

ModelStops ==
    /\ ModelAnswers
    /\ outcome' = "no_submit"
    /\ AddMessages(<<>>)
    /\ UNCHANGED turnVars
    /\ EndSuperStep(route_after_model(outcome'))

(* An exception in a node escapes ainvoke, and its update is lost.         *)
ApiFails ==
    /\ next = "call_model"
    /\ Raise("api_error")
    /\ UNCHANGED <<loopState, steps, billed, turnVars>>

(* _run_tools: the calls of the last message, then one update.             *)
ExecuteTool ==
    /\ next = "run_tools"
    /\ ExecuteCall(ToolNames)
    /\ UNCHANGED <<loopState, next, steps, reportVars, billed>>

TurnDone == next = "run_tools" /\ ~TurnRunning

Submit ==
    /\ TurnDone
    /\ submitted_findings # None
    /\ findings' = submitted_findings
    /\ outcome' = "submitted"
    /\ AddMessages(<<>>)
    /\ ClearTurn
    /\ UNCHANGED <<iteration, tokens, billed>>
    /\ EndSuperStep(route_after_tools(outcome'))

(* Mutant: one iteration more than the budget.                             *)
KeepGoing_OffByOne ==
    /\ TurnDone
    /\ submitted_findings = None
    /\ AddMessages(<<UserMessage(tool_results)>>)
    /\ outcome' = IF iteration > MaxIterations THEN "exceeded" ELSE outcome
    /\ ClearTurn
    /\ UNCHANGED <<iteration, tokens, findings, billed>>
    /\ EndSuperStep(route_after_tools(outcome'))

KeepGoing ==
    /\ TurnDone
    /\ submitted_findings = None
    /\ AddMessages(<<UserMessage(tool_results)>>)
    /\ outcome' = IF iteration >= MaxIterations THEN "exceeded" ELSE outcome
    /\ ClearTurn
    /\ UNCHANGED <<iteration, tokens, findings, billed>>
    /\ EndSuperStep(route_after_tools(outcome'))

Terminated == next = END /\ UNCHANGED vars

Next ==
    \/ FetchMetadata \/ FetchDiff \/ GithubFails
    \/ CallModel \/ ModelStops \/ ApiFails
    \/ ExecuteTool \/ Submit \/ KeepGoing
    \/ Terminated

(* As in AgentLoop, every await is bounded but that of a linter.           *)
LinterRunning ==
    /\ next = "run_tools" /\ TurnRunning
    /\ CurrentCall.name = "run_linter"

Fairness == WF_vars(~LinterRunning /\ Next)

SafetySpec == Init /\ [][Next]_vars

Spec == SafetySpec /\ Fairness

-----------------------------------------------------------------------------
TypeOK ==
    /\ TurnTypeOK
    /\ messages \in Seq(Message)
    /\ iteration \in Nat /\ tokens \in Nat /\ billed \in Nat /\ steps \in Nat
    /\ outcome \in {None, "submitted", "no_submit", "exceeded"}
    /\ findings \in FindingLists \cup {None}
    /\ next \in {"metadata", "diff", "call_model", "run_tools", END}
    /\ verdict \in {None, "submitted", "no_submit", "exceeded", "api_error", "github_error",
                    "recursion_error"}
    /\ result \in FindingLists \cup {None}
    /\ usage \in Nat \cup {None}

(* "The framework's cap stays as a safety net that should never fire": the *)
(* agent's own budget always ends the run first.                           *)
RecursionLimitNeverFires == verdict # "recursion_error"

(* The run ends in the very step that sets an outcome, so no node ever     *)
(* runs on a state that already has one ("Set exactly once, by whichever   *)
(* node detects the end").                                                 *)
OutcomeEndsRun == outcome # None => next = END /\ verdict = outcome

(* The conversation only ever shows the output of tools that belong to     *)
(* this agent, called with the arguments they declare; every other call    *)
(* was answered with an error and not executed.                            *)
Executed(answer) == answer.content \in {"tool output", "tool failed"}

OnlyOwnToolsRun ==
    \A i \in DOMAIN messages :
        i % 2 = 0 /\ i < Len(messages) =>
            \A j \in DOMAIN messages[i].content :
                LET call   == messages[i].content[j]
                    answer == messages[i + 1].content[j]
                IN  Executed(answer) => /\ call.name \in ToolNames
                                        /\ call.input = ToolArguments[call.name]

(* The Day 1 port is faithful: with GENERALIST's tools, every run of the   *)
(* graph is a run of the loop, with the same conversation, the same        *)
(* iterations, and the same result or exception with the same usage.       *)
LoopPc ==
    CASE next = "call_model" -> "model"
      [] next = "run_tools"  -> "tools"
      [] next = END          -> "returned"
      [] OTHER               -> next

Loop == INSTANCE AgentLoop WITH
    pc <- LoopPc, total_tokens <- tokens, findings <- result

ImplementsLoop == Loop!SafetySpec

(* The graph ends too, unless it waits forever for a linter subprocess:    *)
(* routing always reaches END.                                             *)
ReviewEnds == <>(next = END) \/ <>[]LinterRunning

(* Whatever its tools, the agent keeps the contract of every engine.       *)
Contract == INSTANCE AgentContract WITH
    Budget <- MaxIterations, turns <- iteration, spent <- billed

ImplementsContract == Contract!Spec
=============================================================================
