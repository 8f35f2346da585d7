------------------------------ MODULE ToolTurn ------------------------------
(***************************************************************************)
(* services/review_tools.py, what every engine shares.  Its core is        *)
(* execute_tool_turn: the tool calls of ONE assistant turn are executed    *)
(* one after the other, and each is answered by exactly one tool_result.   *)
(* Both engines, the hand-written loop (AgentLoop) and the LangGraph agent *)
(* (LoopGraph), extend this module.                                        *)
(*                                                                         *)
(* A call's `input' is abstracted to what the code looks at: for a data    *)
(* tool the set of its argument names, for submit_review the list of       *)
(* findings it carries, or Malformed if SubmitReviewArgs rejects it.       *)
(***************************************************************************)
EXTENDS Integers, Sequences

CONSTANTS
    None,           \* Python's None
    Malformed,      \* a submit_review input that SubmitReviewArgs rejects
    FindingLists,   \* the findings lists a valid submit_review can carry
    Calls,          \* the tool_use blocks the model may emit
    Turns           \* the tool_use turns the model may answer with

(* The data tools, and the argument names each of them accepts.  For all   *)
(* four the accepted arguments are also the required ones.                 *)
TOOL_EXECUTORS ==
    {"get_file_content", "search_codebase", "check_dependency_versions", "run_linter"}

ToolArguments ==
    [tool \in TOOL_EXECUTORS |->
        CASE tool \in {"get_file_content", "run_linter"} -> {"path"}
          [] tool = "search_codebase"                    -> {"query"}
          [] tool = "check_dependency_versions"          -> {}]

(* What the model can learn from a tool_result, by is_error.               *)
GoodAnswers == {"review submitted", "tool output"}
ErrorAnswers ==
    {"invalid submission", "unknown tool", "not available", "invalid arguments", "tool failed"}

ToolResult ==
    [tool_use_id: {c.id : c \in Calls}, content: GoodAnswers \cup ErrorAnswers, is_error: BOOLEAN]

(* No findings list is None: an empty list is a submission, None is not.   *)
ASSUME FindingListsAssumption == None \notin FindingLists /\ Malformed \notin FindingLists

(* Nor is None one of the ways an engine's run ends.                       *)
ASSUME NoneAssumption ==
    None \notin {"submitted", "no_submit", "exceeded", "api_error", "github_error",
                 "recursion_error"}

ASSUME CallsAssumption ==
    \A c \in Calls :
        /\ DOMAIN c = {"id", "name", "input"}
        /\ c.name = "submit_review" => c.input \in FindingLists \cup {Malformed}

ASSUME TurnsAssumption == Turns \subseteq Seq(Calls) \ {<<>>}

VARIABLES
    calls,               \* the tool_use blocks of the turn being executed
    tool_results,        \* the tool_result blocks built so far
    submitted_findings   \* of the last submit_review that validated, or None

turnVars == <<calls, tool_results, submitted_findings>>

TurnTypeOK ==
    /\ calls \in Seq(Calls)
    /\ tool_results \in Seq(ToolResult)
    /\ submitted_findings \in FindingLists \cup {None}

-----------------------------------------------------------------------------
(* What both engines share of a conversation.  The first message holds the *)
(* PR's title and diff, which nothing looks at: its content is left empty. *)
UserMessage(content) == [role |-> "user", content |-> content]
AssistantMessage(content) == [role |-> "assistant", content |-> content]
PullRequestMessage == UserMessage(<<>>)

Message ==
    [role: {"user"}, content: Seq(ToolResult)] \cup [role: {"assistant"}, content: Seq(Calls)]

(* Mutant: the last turn is forced one iteration too late.                 *)
tool_choice_for_TooLate(iteration, max_iterations) ==
    IF iteration > max_iterations THEN "submit_review" ELSE "auto"

tool_choice_for(iteration, max_iterations) ==
    IF iteration >= max_iterations THEN "submit_review" ELSE "auto"

(* The model API: a forced tool_choice leaves the model no other tool.     *)
ModelTurns(tool_choice) ==
    IF tool_choice = "auto"
    THEN Turns
    ELSE {t \in Turns : \A i \in DOMAIN t : t[i].name = tool_choice}

-----------------------------------------------------------------------------
ValidSubmission(call) == call.name = "submit_review" /\ call.input # Malformed

(* _argument_problem: only argument names are checked, never types.        *)
ArgumentProblem(call) ==
    LET accepted == ToolArguments[call.name]
        unknown  == call.input \ accepted
        missing  == accepted \ call.input
    IN  unknown # {} \/ missing # {}

TurnRunning == Len(tool_results) < Len(calls)
CurrentCall == calls[Len(tool_results) + 1]

Answer(content) ==
    tool_results' = Append(tool_results, [tool_use_id |-> CurrentCall.id,
                                          content     |-> content,
                                          is_error    |-> content \in ErrorAnswers])

NoTurn == calls = <<>> /\ tool_results = <<>> /\ submitted_findings = None

StartTurn(turn) ==
    /\ calls' = turn
    /\ tool_results' = <<>>
    /\ submitted_findings' = None

ClearTurn == StartTurn(<<>>)

-----------------------------------------------------------------------------
(* Mutant: the first valid submission of a turn wins.                      *)
AcceptSubmission_KeepsFirst ==
    /\ ValidSubmission(CurrentCall)
    /\ submitted_findings' =
          IF submitted_findings = None THEN CurrentCall.input ELSE submitted_findings
    /\ Answer("review submitted")

(* Mutant: an invalid submission forgets an earlier valid one.             *)
RejectSubmission_Forgets ==
    /\ CurrentCall.name = "submit_review"
    /\ ~ValidSubmission(CurrentCall)
    /\ Answer("invalid submission")
    /\ submitted_findings' = None

(* A submission that validates is kept, and replaces an earlier one of the *)
(* same turn; one that does not is handed back to the model as an error.   *)
AcceptSubmission ==
    /\ ValidSubmission(CurrentCall)
    /\ submitted_findings' = CurrentCall.input
    /\ Answer("review submitted")

RejectSubmission ==
    /\ CurrentCall.name = "submit_review"
    /\ ~ValidSubmission(CurrentCall)
    /\ Answer("invalid submission")
    /\ UNCHANGED submitted_findings

RejectUnknownTool ==
    /\ CurrentCall.name \notin TOOL_EXECUTORS \cup {"submit_review"}
    /\ Answer("unknown tool")
    /\ UNCHANGED submitted_findings

(* Mutant: the agent's tool subset only limits what the model is offered.  *)
Allowed_Anything(call, allowed_tools) == TRUE

Allowed(call, allowed_tools) == allowed_tools # None => call.name \in allowed_tools

RejectForeignTool(allowed_tools) ==
    /\ CurrentCall.name \in TOOL_EXECUTORS
    /\ ~Allowed(CurrentCall, allowed_tools)
    /\ Answer("not available")
    /\ UNCHANGED submitted_findings

RejectArguments(allowed_tools) ==
    /\ CurrentCall.name \in TOOL_EXECUTORS
    /\ Allowed(CurrentCall, allowed_tools)
    /\ ArgumentProblem(CurrentCall)
    /\ Answer("invalid arguments")
    /\ UNCHANGED submitted_findings

(* The executor runs.  Whatever it raises becomes an error the model sees. *)
RunTool(allowed_tools) ==
    /\ CurrentCall.name \in TOOL_EXECUTORS
    /\ Allowed(CurrentCall, allowed_tools)
    /\ ~ArgumentProblem(CurrentCall)
    /\ \E content \in {"tool output", "tool failed"} : Answer(content)
    /\ UNCHANGED submitted_findings

ExecuteCall(allowed_tools) ==
    /\ TurnRunning
    /\ \/ AcceptSubmission
       \/ RejectSubmission
       \/ RejectUnknownTool
       \/ RejectForeignTool(allowed_tools)
       \/ RejectArguments(allowed_tools)
       \/ RunTool(allowed_tools)
    /\ UNCHANGED calls
=============================================================================
