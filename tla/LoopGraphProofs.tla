--------------------------- MODULE LoopGraphProofs --------------------------
(***************************************************************************)
(* Proofs about LoopGraph, for every budget, every tool subset and every   *)
(* turn the model may take.  The inductive invariant counts super-steps    *)
(* against iterations, which is why LangGraph's limit is out of reach, and *)
(* says that nothing of the result exists before the run has ended.        *)
(***************************************************************************)
EXTENDS LoopGraph, ToolTurnProofs

(* Where the run is, how many super-steps it took, and how long the        *)
(* conversation is.                                                        *)
PlaceInv ==
    /\ next \in {"metadata", "diff"} => /\ iteration = 0 /\ steps = 0
                                        /\ messages = <<>>
    /\ next = "call_model" => /\ iteration < MaxIterations
                              /\ steps = 2 * iteration
                              /\ Len(messages) = 2 * iteration + 1
    /\ next = "run_tools" => /\ iteration \in 1..MaxIterations
                             /\ steps = 2 * iteration - 1
                             /\ Len(messages) = 2 * iteration
                             /\ messages[Len(messages)] = AssistantMessage(calls)
    /\ iteration <= MaxIterations

(* What the run reports, before and after it has ended.                    *)
ReportInv ==
    /\ (verdict = None) = (next # END)
    /\ next # END => outcome = None /\ findings = None /\ result = None /\ usage = None
    /\ outcome # None => verdict = outcome
    /\ verdict # "recursion_error"
    /\ tokens = billed

(* An executed call, of the turn being executed, is one of the agent's own.*)
OwnCall(call) == call.name \in ToolNames /\ call.input = ToolArguments[call.name]

OwnTurnInv ==
    \A i \in DOMAIN tool_results : Executed(tool_results[i]) => OwnCall(calls[i])

GraphInv == TypeOK /\ TurnInv /\ PlaceInv /\ ReportInv

-----------------------------------------------------------------------------
LEMMA InitInv == Init => GraphInv
<1> SUFFICES ASSUME Init PROVE GraphInv
  OBVIOUS
<1>1. TypeOK
  BY MaxIterationsAssumption, NoneAssumption DEF Init, TypeOK, TurnTypeOK, NoTurn, END
<1>2. TurnInv
  BY <1>1 DEF Init, TypeOK, TurnInv, NoTurn, NoneValid
<1>3. PlaceInv /\ ReportInv
  BY MaxIterationsAssumption, NoneAssumption DEF Init, PlaceInv, ReportInv, END
<1>4. QED
  BY <1>1, <1>2, <1>3 DEF GraphInv

LEMMA SameTurn == TurnInv /\ UNCHANGED turnVars => TurnInv'
  BY DEF TurnInv, TurnTypeOK, turnVars

LEMMA ClearTurnInv == ClearTurn => TurnInv' /\ TurnTypeOK'
<1>1. <<>> \in Seq(Calls)
  OBVIOUS
<1>2. QED
  BY <1>1, StartTurnInv DEF ClearTurn, TurnInv

(* The update of a node that adds one message, and of one that adds none.  *)
LEMMA AddOneMessage ==
    ASSUME messages \in Seq(Message), NEW m \in Message, AddMessages(<<m>>)
    PROVE  /\ messages' = Append(messages, m)
           /\ messages' \in Seq(Message)
           /\ Len(messages') = Len(messages) + 1
           /\ Len(messages) \in Nat
           /\ \A i \in 1..Len(messages) : messages'[i] = messages[i]
           /\ messages'[Len(messages) + 1] = m
  BY DEF AddMessages

LEMMA AddNoMessage ==
    ASSUME messages \in Seq(Message), AddMessages(<<>>)
    PROVE  UNCHANGED messages
  BY DEF AddMessages

LEMMA MessageTypes ==
    /\ \A turn \in Seq(Calls) : AssistantMessage(turn) \in Message
    /\ \A results \in Seq(ToolResult) : UserMessage(results) \in Message
  BY DEF AssistantMessage, UserMessage, Message

(* The fetches, and the errors that escape before the model has answered.  *)
LEMMA OutsideStep == GraphInv /\ (FetchMetadata \/ FetchDiff \/ GithubFails \/ ApiFails) => GraphInv'
<1> SUFFICES ASSUME GraphInv, FetchMetadata \/ FetchDiff \/ GithubFails \/ ApiFails
             PROVE  GraphInv'
  OBVIOUS
<1> USE NoneAssumption, MaxIterationsAssumption DEF reportVars, loopState, END
<1>1. TypeOK /\ TurnInv /\ PlaceInv /\ ReportInv
  BY DEF GraphInv
<1>2. TurnInv' /\ TurnTypeOK'
  BY <1>1, SameTurn DEF FetchMetadata, FetchDiff, GithubFails, ApiFails, TurnInv
<1>3. CASE FetchMetadata
  BY <1>1, <1>2, <1>3 DEF FetchMetadata, GraphInv, TypeOK, PlaceInv, ReportInv
<1>4. CASE FetchDiff
  <2>1. /\ messages' = <<PullRequestMessage>> /\ messages' \in Seq(Message)
        /\ Len(messages') = 1
    BY <1>4 DEF FetchDiff, PullRequestMessage, UserMessage, Message
  <2>2. TypeOK' /\ PlaceInv' /\ ReportInv'
    BY <1>1, <1>2, <1>4, <2>1 DEF FetchDiff, TypeOK, PlaceInv, ReportInv
  <2>3. QED
    BY <1>2, <2>2 DEF GraphInv
<1>5. CASE GithubFails \/ ApiFails
  BY <1>1, <1>2, <1>5 DEF GithubFails, ApiFails, Raise, GraphInv, TypeOK, PlaceInv, ReportInv
<1>6. QED
  BY <1>3, <1>4, <1>5

(* What an answered model call means, whatever it says.                    *)
LEMMA ModelAnswersFacts ==
    ASSUME GraphInv, ModelAnswers
    PROVE  /\ next = "call_model" /\ verdict = None /\ outcome = None
           /\ result = None /\ usage = None /\ findings = None /\ findings' = None
           /\ messages \in Seq(Message) /\ Len(messages) = 2 * iteration + 1
           /\ iteration \in Nat /\ iteration < MaxIterations /\ iteration' = iteration + 1
           /\ steps = 2 * iteration
           /\ tokens' \in Nat /\ billed' \in Nat /\ tokens' = billed'
BY CostsAssumption, NoneAssumption
   DEF GraphInv, TypeOK, PlaceInv, ReportInv, ModelAnswers, AddTokens, END

LEMMA CallModelStep ==
    ASSUME GraphInv, CallModel
    PROVE  GraphInv' /\ next' = "run_tools" /\ UNCHANGED reportVars
<1> USE NoneAssumption, MaxIterationsAssumption
<1> DEFINE n == Len(messages)
<1>1. /\ next = "call_model" /\ verdict = None /\ outcome = None /\ result = None
      /\ usage = None /\ findings' = None
      /\ messages \in Seq(Message) /\ n = 2 * iteration + 1
      /\ iteration \in Nat /\ iteration < MaxIterations /\ iteration' = iteration + 1
      /\ steps = 2 * iteration
      /\ tokens' \in Nat /\ billed' \in Nat /\ tokens' = billed'
  BY ModelAnswersFacts DEF CallModel
<1>2. PICK turn \in ModelTurns(tool_choice_for(iteration + 1, MaxIterations)) :
        AddMessages(<<AssistantMessage(turn)>>) /\ StartTurn(turn)
  BY DEF CallModel
<1>3. turn \in Seq(Calls)
  BY <1>2, TurnsAssumption DEF ModelTurns
<1>4. /\ messages' \in Seq(Message) /\ Len(messages') = n + 1
      /\ messages'[Len(messages')] = AssistantMessage(turn)
  BY <1>1, <1>2, <1>3, AddOneMessage, MessageTypes
<1>5. TurnInv' /\ TurnTypeOK' /\ calls' = turn
  BY <1>2, <1>3, StartTurnInv DEF TurnInv, StartTurn
<1>6. outcome' = None /\ next' = "run_tools" /\ steps' = steps + 1 /\ UNCHANGED reportVars
  <2>1. route_after_model(outcome') = "run_tools" /\ outcome' = None
    BY <1>1 DEF CallModel, route_after_model
  <2>2. EndSuperStep("run_tools") /\ "run_tools" # END
    BY <2>1 DEF CallModel, END
  <2>3. steps' = steps + 1 /\ steps' < recursion_limit_for(MaxIterations)
    BY <1>1, <2>2 DEF EndSuperStep, recursion_limit_for
  <2>4. QED
    BY <1>1, <2>1, <2>2, <2>3 DEF EndSuperStep, recursion_limit_for
<1>7. TypeOK'
  BY <1>1, <1>4, <1>5, <1>6 DEF TypeOK, reportVars
<1>8. PlaceInv'
  <2>1. Len(messages') = 2 * iteration' /\ steps' = 2 * iteration' - 1
        /\ iteration' \in 1..MaxIterations
    BY <1>1, <1>4, <1>6
  <2>2. messages'[Len(messages')] = AssistantMessage(calls')
    BY <1>4, <1>5
  <2>3. iteration' <= MaxIterations
    BY <2>1
  <2>4. QED
    BY <1>6, <2>1, <2>2, <2>3 DEF PlaceInv
<1>9. ReportInv'
  BY <1>1, <1>6 DEF ReportInv, reportVars, END
<1>10. QED
  BY <1>5, <1>6, <1>7, <1>8, <1>9 DEF GraphInv

LEMMA ModelStopsStep ==
    ASSUME GraphInv, ModelStops
    PROVE  /\ GraphInv' /\ next' = END /\ UNCHANGED messages
           /\ verdict' = "no_submit" /\ result' = None /\ usage' = tokens'
<1> USE NoneAssumption, MaxIterationsAssumption
<1>1. /\ messages \in Seq(Message) /\ findings' = None /\ result = None /\ steps \in Nat
      /\ iteration' \in Nat /\ iteration' <= MaxIterations
      /\ tokens' \in Nat /\ billed' \in Nat /\ tokens' = billed'
  BY ModelAnswersFacts DEF ModelStops, GraphInv, TypeOK
<1>2. outcome' = "no_submit" /\ UNCHANGED messages /\ UNCHANGED turnVars
  BY <1>1, AddNoMessage DEF ModelStops
<1>3. route_after_model(outcome') = END
  BY <1>2 DEF route_after_model
<1>4. steps' = steps + 1 /\ Finish
  BY <1>3 DEF ModelStops, EndSuperStep
<1>5. /\ next' = END /\ verdict' = "no_submit" /\ result' = None /\ usage' = tokens'
  BY <1>2, <1>4 DEF Finish, VerdictFor
<1>6. TurnInv' /\ TurnTypeOK'
  BY <1>2, SameTurn DEF GraphInv, TurnInv
<1>7. TypeOK' /\ PlaceInv' /\ ReportInv'
  BY <1>1, <1>2, <1>4, <1>5, <1>6 DEF TypeOK, PlaceInv, ReportInv, END
<1>8. QED
  BY <1>2, <1>5, <1>6, <1>7 DEF GraphInv

LEMMA ExecuteToolStep == GraphInv /\ ExecuteTool => GraphInv'
<1> SUFFICES ASSUME GraphInv, ExecuteTool PROVE GraphInv'
  OBVIOUS
<1>1. TurnInv' /\ UNCHANGED calls
  BY ExecuteCallInv DEF GraphInv, ExecuteTool, ExecuteCall
<1>2. TypeOK' /\ PlaceInv' /\ ReportInv'
  BY <1>1 DEF ExecuteTool, GraphInv, TypeOK, TurnInv, PlaceInv, ReportInv, reportVars, loopState
<1>3. QED
  BY <1>1, <1>2 DEF GraphInv

(* What holds when _run_tools returns.                                     *)
LEMMA TurnDoneFacts ==
    ASSUME GraphInv, TurnDone
    PROVE  /\ next = "run_tools" /\ verdict = None /\ outcome = None
           /\ result = None /\ usage = None /\ findings = None
           /\ messages \in Seq(Message) /\ Len(messages) = 2 * iteration
           /\ messages[Len(messages)] = AssistantMessage(calls)
           /\ iteration \in 1..MaxIterations /\ iteration \in Nat
           /\ steps = 2 * iteration - 1 /\ steps \in Nat
           /\ tokens \in Nat /\ tokens = billed
           /\ tool_results \in Seq(ToolResult)
BY NoneAssumption, MaxIterationsAssumption
   DEF GraphInv, TypeOK, TurnTypeOK, PlaceInv, ReportInv, TurnDone, END

LEMMA SubmitStep ==
    ASSUME GraphInv, Submit
    PROVE  /\ GraphInv' /\ next' = END /\ UNCHANGED messages
           /\ verdict' = "submitted" /\ result' = submitted_findings /\ usage' = tokens
<1> USE NoneAssumption, MaxIterationsAssumption
<1>1. /\ messages \in Seq(Message) /\ steps \in Nat
      /\ iteration \in Nat /\ iteration <= MaxIterations
      /\ tokens \in Nat /\ tokens = billed
      /\ submitted_findings \in FindingLists
  BY TurnDoneFacts DEF Submit, GraphInv, TypeOK, TurnTypeOK
<1>2. /\ outcome' = "submitted" /\ findings' = submitted_findings
      /\ UNCHANGED messages /\ UNCHANGED <<iteration, tokens, billed>>
  BY <1>1, AddNoMessage DEF Submit
<1>3. route_after_tools(outcome') = END
  BY <1>2 DEF route_after_tools
<1>4. steps' = steps + 1 /\ Finish
  BY <1>3 DEF Submit, EndSuperStep
<1>5. /\ next' = END /\ verdict' = "submitted" /\ result' = submitted_findings
      /\ usage' = tokens
  BY <1>2, <1>4 DEF Finish, VerdictFor
<1>6. TurnInv' /\ TurnTypeOK'
  BY ClearTurnInv DEF Submit
<1>7. TypeOK' /\ PlaceInv' /\ ReportInv'
  BY <1>1, <1>2, <1>4, <1>5, <1>6 DEF TypeOK, PlaceInv, ReportInv, END
<1>8. QED
  BY <1>2, <1>5, <1>6, <1>7 DEF GraphInv

(* Without a submission the run goes back to the model, or ends at the     *)
(* agent's own budget.                                                     *)
LEMMA KeepGoingStep ==
    ASSUME GraphInv, KeepGoing
    PROVE  /\ GraphInv'
           /\ messages' = Append(messages, UserMessage(tool_results))
           /\ iteration < MaxIterations => next' = "call_model" /\ UNCHANGED reportVars
           /\ iteration = MaxIterations => /\ next' = END /\ verdict' = "exceeded"
                                           /\ result' = None /\ usage' = tokens
<1> USE NoneAssumption, MaxIterationsAssumption
<1>1. /\ messages \in Seq(Message) /\ Len(messages) = 2 * iteration
      /\ iteration \in Nat /\ iteration \in 1..MaxIterations
      /\ steps = 2 * iteration - 1 /\ steps \in Nat
      /\ tokens \in Nat /\ tokens = billed
      /\ tool_results \in Seq(ToolResult) /\ outcome = None /\ findings = None
      /\ result = None /\ usage = None /\ verdict = None
  BY TurnDoneFacts DEF KeepGoing
<1>2. /\ messages' = Append(messages, UserMessage(tool_results))
      /\ messages' \in Seq(Message) /\ Len(messages') = 2 * iteration + 1
      /\ UNCHANGED <<iteration, tokens, findings, billed>>
  BY <1>1, AddOneMessage, MessageTypes DEF KeepGoing
<1>3. TurnInv' /\ TurnTypeOK'
  BY ClearTurnInv DEF KeepGoing
<1>4. CASE iteration < MaxIterations
  <2>1. outcome' = None /\ route_after_tools(outcome') = "call_model"
    BY <1>1, <1>4 DEF KeepGoing, route_after_tools
  <2>2. EndSuperStep("call_model") /\ "call_model" # END
    BY <2>1 DEF KeepGoing, END
  <2>3. steps' = steps + 1 /\ steps' < recursion_limit_for(MaxIterations)
    BY <1>1, <2>2 DEF EndSuperStep, recursion_limit_for
  <2>4. next' = "call_model" /\ UNCHANGED reportVars
    BY <1>1, <2>2, <2>3 DEF EndSuperStep, recursion_limit_for
  <2>5. TypeOK' /\ PlaceInv'
    BY <1>1, <1>2, <1>3, <1>4, <2>1, <2>3, <2>4 DEF GraphInv, TypeOK, PlaceInv, reportVars
  <2>6. ReportInv'
    BY <1>1, <1>2, <2>1, <2>4 DEF ReportInv, reportVars, END
  <2>7. QED
    BY <1>2, <1>3, <1>4, <2>4, <2>5, <2>6 DEF GraphInv
<1>5. CASE iteration = MaxIterations
  <2>1. outcome' = "exceeded" /\ route_after_tools(outcome') = END
    BY <1>1, <1>5 DEF KeepGoing, route_after_tools
  <2>2. steps' = steps + 1 /\ Finish
    BY <2>1 DEF KeepGoing, EndSuperStep
  <2>3. next' = END /\ verdict' = "exceeded" /\ result' = None /\ usage' = tokens
    BY <1>2, <2>1, <2>2 DEF Finish, VerdictFor
  <2>4. TypeOK' /\ PlaceInv' /\ ReportInv'
    BY <1>1, <1>2, <1>3, <1>5, <2>1, <2>2, <2>3 DEF TypeOK, PlaceInv, ReportInv, END
  <2>5. QED
    BY <1>2, <1>3, <1>5, <2>3, <2>4 DEF GraphInv
<1>6. QED
  BY <1>1, <1>4, <1>5

LEMMA StutterStep == GraphInv /\ UNCHANGED vars => GraphInv'
<1> SUFFICES ASSUME GraphInv, UNCHANGED vars PROVE GraphInv'
  OBVIOUS
<1>1. TurnInv'
  BY SameTurn DEF GraphInv, vars
<1>2. TypeOK' /\ PlaceInv' /\ ReportInv'
  BY <1>1 DEF GraphInv, TypeOK, TurnInv, PlaceInv, ReportInv, vars, loopState, reportVars,
              turnVars
<1>3. QED
  BY <1>1, <1>2 DEF GraphInv

LEMMA StepInv == GraphInv /\ [Next]_vars => GraphInv'
BY OutsideStep, CallModelStep, ModelStopsStep, ExecuteToolStep, SubmitStep, KeepGoingStep,
   StutterStep DEF Next, Terminated

(* The inductive invariant holds in every reachable state.                 *)
THEOREM GraphInvariant == SafetySpec => []GraphInv
BY InitInv, StepInv, PTL DEF SafetySpec

-----------------------------------------------------------------------------
(* Every variable of the graph keeps its type.                             *)
THEOREM GraphTypeCorrect == SafetySpec => []TypeOK
<1>1. GraphInv => TypeOK
  BY DEF GraphInv
<1>2. QED
  BY <1>1, GraphInvariant, PTL

(* LangGraph's recursion limit never ends a run, whatever the budget.      *)
THEOREM RecursionLimitIsNeverReached == SafetySpec => []RecursionLimitNeverFires
<1>1. GraphInv => RecursionLimitNeverFires
  BY DEF GraphInv, ReportInv, RecursionLimitNeverFires
<1>2. QED
  BY <1>1, GraphInvariant, PTL

(* No node runs on a state that already has an outcome.                    *)
THEOREM OutcomeEndsTheRun == SafetySpec => []OutcomeEndsRun
<1>1. GraphInv => OutcomeEndsRun
  BY DEF GraphInv, ReportInv, OutcomeEndsRun
<1>2. QED
  BY <1>1, GraphInvariant, PTL

-----------------------------------------------------------------------------
(* Every step of the graph, with its routing, is a step of the contract.   *)
LEMMA StepImplementsContract == GraphInv /\ [Next]_vars => [Contract!Next]_Contract!vars
<1> SUFFICES ASSUME GraphInv, [Next]_vars PROVE [Contract!Next]_Contract!vars
  OBVIOUS
<1> USE NoneAssumption, MaxIterationsAssumption
<1>1. TypeOK /\ PlaceInv /\ ReportInv
  BY DEF GraphInv
<1>2. CASE FetchMetadata \/ FetchDiff \/ ExecuteTool \/ UNCHANGED vars
  BY <1>2 DEF FetchMetadata, FetchDiff, ExecuteTool, vars, loopState, reportVars, Contract!vars
<1>3. CASE GithubFails \/ ApiFails
  <2>1. /\ verdict = None /\ UNCHANGED <<iteration, billed, usage>>
        /\ \/ iteration = 0 /\ verdict' = "github_error"
           \/ iteration < MaxIterations /\ verdict' = "api_error"
    BY <1>1, <1>3 DEF GithubFails, ApiFails, Raise, loopState, PlaceInv, ReportInv, END
  <2>2. Contract!Outage
    BY <2>1 DEF Contract!Outage
  <2>3. QED
    BY <2>2 DEF Contract!Next
<1>4. CASE CallModel \/ ModelStops
  <2>1. Contract!Answered
    <3>1. verdict = None /\ iteration < MaxIterations /\ iteration' = iteration + 1
      BY <1>4, ModelAnswersFacts DEF CallModel, ModelStops
    <3>2. \E c \in Costs : billed' = billed + c
      BY <1>4 DEF CallModel, ModelStops, ModelAnswers
    <3>3. QED
      BY <3>1, <3>2 DEF Contract!Answered
  <2>2. CallModel => Contract!Investigate
    BY <2>1, CallModelStep DEF Contract!Investigate, reportVars
  <2>3. ModelStops => Contract!GiveUp
    BY <2>1, ModelStopsStep DEF GraphInv, ReportInv, Contract!GiveUp
  <2>4. QED
    BY <1>4, <2>2, <2>3 DEF Contract!Next
<1>5. CASE Submit
  <2>1. /\ verdict = None /\ iteration > 0 /\ tokens = billed /\ verdict' = "submitted"
        /\ usage' = tokens /\ UNCHANGED <<iteration, billed>>
    BY <1>5, TurnDoneFacts, SubmitStep DEF Submit
  <2>2. Contract!Conclude
    BY <2>1 DEF Contract!Conclude
  <2>3. QED
    BY <2>2 DEF Contract!Next
<1>6. CASE KeepGoing
  <2>1. /\ verdict = None /\ iteration \in 1..MaxIterations /\ tokens = billed
        /\ UNCHANGED <<iteration, billed>>
    BY <1>6, TurnDoneFacts DEF KeepGoing
  <2>2. CASE iteration < MaxIterations
    BY <1>6, <2>1, <2>2, KeepGoingStep DEF reportVars, Contract!vars
  <2>3. CASE iteration = MaxIterations
    <3>1. verdict' = "exceeded" /\ usage' = tokens
      BY <1>6, <2>3, KeepGoingStep
    <3>2. Contract!Conclude
      BY <2>1, <2>3, <3>1 DEF Contract!Conclude
    <3>3. QED
      BY <3>2 DEF Contract!Next
  <2>4. QED
    BY <2>1, <2>2, <2>3
<1>7. QED
  BY <1>2, <1>3, <1>4, <1>5, <1>6 DEF Next, Terminated

(* Whatever its tools and its budget, an agent of the graph implements the *)
(* contract of every engine.                                               *)
THEOREM GraphImplementsContract == SafetySpec => ImplementsContract
<1>1. Init => Contract!Init
  BY DEF Init, Contract!Init
<1>2. QED
  BY <1>1, StepImplementsContract, GraphInvariant, PTL
     DEF SafetySpec, ImplementsContract, Contract!Spec

-----------------------------------------------------------------------------
(* With all the tools, a call is executed by the graph as by the loop,     *)
(* which restricts no tool.                                                *)
LEMMA SameExecution ==
    ASSUME ToolNames = TOOL_EXECUTORS
    PROVE  ExecuteCall(ToolNames) => Loop!ExecuteCall(None)
BY NoneAssumption, ToolNamesAssumption
   DEF ExecuteCall, AcceptSubmission, RejectSubmission, RejectUnknownTool, RejectForeignTool,
       RejectArguments, RunTool, Allowed, TurnRunning, CurrentCall, Answer, ValidSubmission,
       ArgumentProblem, ToolArguments, TOOL_EXECUTORS, ErrorAnswers, GoodAnswers,
       Loop!ExecuteCall, Loop!AcceptSubmission, Loop!RejectSubmission, Loop!RejectUnknownTool,
       Loop!RejectForeignTool, Loop!RejectArguments, Loop!RunTool, Loop!Allowed,
       Loop!TurnRunning, Loop!CurrentCall, Loop!Answer, Loop!ValidSubmission,
       Loop!ArgumentProblem, Loop!ToolArguments, Loop!TOOL_EXECUTORS, Loop!ErrorAnswers,
       Loop!GoodAnswers

LEMMA SameTurns ==
    /\ \A turn : StartTurn(turn) = Loop!StartTurn(turn)
    /\ ClearTurn = Loop!ClearTurn
    /\ TurnRunning = Loop!TurnRunning
    /\ \A i, max : ModelTurns(tool_choice_for(i, max)) = Loop!ModelTurns(Loop!tool_choice_for(i, max))
BY DEF StartTurn, ClearTurn, TurnRunning, ModelTurns, tool_choice_for,
       Loop!StartTurn, Loop!ClearTurn, Loop!TurnRunning, Loop!ModelTurns,
       Loop!tool_choice_for

LEMMA SameMessages ==
    /\ \A content : UserMessage(content) = Loop!UserMessage(content)
    /\ \A content : AssistantMessage(content) = Loop!AssistantMessage(content)
    /\ PullRequestMessage = Loop!PullRequestMessage
BY DEF UserMessage, AssistantMessage, PullRequestMessage, Loop!UserMessage,
       Loop!AssistantMessage, Loop!PullRequestMessage

(* Where the loop is when the graph is at each of its nodes.               *)
LEMMA LoopPcValues ==
    /\ next = "metadata" => LoopPc = "metadata"
    /\ next = "diff" => LoopPc = "diff"
    /\ next = "call_model" => LoopPc = "model"
    /\ next = "run_tools" => LoopPc = "tools"
    /\ next = END => LoopPc = "returned"
BY DEF LoopPc, END

LEMMA LoopPcNextValues ==
    /\ next' = "diff" => LoopPc' = "diff"
    /\ next' = "call_model" => LoopPc' = "model"
    /\ next' = "run_tools" => LoopPc' = "tools"
    /\ next' = END => LoopPc' = "returned"
BY DEF LoopPc, END

LEMMA StepImplementsLoop ==
    ASSUME ToolNames = TOOL_EXECUTORS
    PROVE  GraphInv /\ [Next]_vars => [Loop!Next]_Loop!vars
<1> SUFFICES ASSUME GraphInv, [Next]_vars PROVE [Loop!Next]_Loop!vars
  OBVIOUS
<1> USE NoneAssumption, MaxIterationsAssumption
        DEF loopState, reportVars, Loop!reportVars, turnVars, Loop!turnVars
<1>1. TypeOK /\ PlaceInv /\ ReportInv
  BY DEF GraphInv
<1>2. CASE FetchMetadata
  <2>1. Loop!FetchMetadata
    BY <1>2, LoopPcValues, LoopPcNextValues, SameTurns DEF FetchMetadata, Loop!FetchMetadata
  <2>2. QED
    BY <2>1 DEF Loop!Next
<1>3. CASE FetchDiff
  <2>1. Loop!FetchDiff
    BY <1>3, LoopPcValues, LoopPcNextValues, SameTurns, SameMessages DEF FetchDiff, Loop!FetchDiff
  <2>2. QED
    BY <2>1 DEF Loop!Next
<1>4. CASE GithubFails
  <2>1. Loop!GithubFails
    BY <1>1, <1>4, LoopPcValues, LoopPcNextValues, SameTurns
       DEF GithubFails, Raise, ReportInv, END, Loop!GithubFails, Loop!Return
  <2>2. QED
    BY <2>1 DEF Loop!Next
<1>5. CASE ApiFails
  <2>1. Loop!ApiFails
    BY <1>1, <1>5, LoopPcValues, LoopPcNextValues, SameTurns
       DEF ApiFails, Raise, ReportInv, END, Loop!ApiFails, Loop!Return
  <2>2. QED
    BY <2>1 DEF Loop!Next
<1>6. ModelAnswers => Loop!ModelAnswers
  BY LoopPcValues DEF ModelAnswers, AddTokens, Loop!ModelAnswers
<1>7. CASE CallModel
  <2>1. next = "call_model" /\ next' = "run_tools" /\ UNCHANGED reportVars
    BY <1>7, CallModelStep DEF CallModel, ModelAnswers
  <2>2. PICK turn \in ModelTurns(tool_choice_for(iteration + 1, MaxIterations)) :
          AddMessages(<<AssistantMessage(turn)>>) /\ StartTurn(turn)
    BY <1>7 DEF CallModel
  <2>3. turn \in Seq(Calls) /\ messages \in Seq(Message)
    BY <1>1, <2>2, TurnsAssumption DEF ModelTurns, TypeOK
  <2>4. messages' = Append(messages, AssistantMessage(turn))
    BY <2>2, <2>3, AddOneMessage, MessageTypes
  <2>5. Loop!CallModel
    BY <1>6, <1>7, <2>1, <2>2, <2>4, LoopPcNextValues, SameTurns, SameMessages
       DEF CallModel, Loop!CallModel
  <2>6. QED
    BY <2>5 DEF Loop!Next
<1>8. CASE ModelStops
  <2>1. /\ next' = END /\ UNCHANGED messages
        /\ verdict' = "no_submit" /\ result' = None /\ usage' = tokens'
    BY <1>8, ModelStopsStep
  <2>2. Loop!ModelStops
    BY <1>6, <1>8, <2>1, LoopPcNextValues, SameTurns DEF ModelStops, Loop!ModelStops, Loop!Return
  <2>3. QED
    BY <2>2 DEF Loop!Next
<1>9. CASE ExecuteTool
  <2>1. Loop!ExecuteTool
    BY <1>9, LoopPcValues, LoopPcNextValues, SameExecution
       DEF ExecuteTool, Loop!ExecuteTool, LoopPc
  <2>2. QED
    BY <2>1 DEF Loop!Next
<1>10. CASE Submit
  <2>1. /\ next' = END /\ UNCHANGED messages
        /\ verdict' = "submitted" /\ result' = submitted_findings /\ usage' = tokens
    BY <1>10, SubmitStep
  <2>2. Loop!TurnDone /\ submitted_findings # None
    BY <1>10, LoopPcValues, SameTurns DEF Submit, TurnDone, Loop!TurnDone
  <2>3. Loop!ClearTurn /\ UNCHANGED <<iteration, messages, tokens, billed>>
    BY <1>10, <2>1, SameTurns DEF Submit
  <2>4. Loop!Submit
    BY <2>1, <2>2, <2>3, LoopPcNextValues DEF Loop!Submit, Loop!Return
  <2>5. QED
    BY <2>4 DEF Loop!Next
<1>11. CASE KeepGoing
  <2>1. Loop!TurnDone /\ submitted_findings = None
    BY <1>11, LoopPcValues, SameTurns DEF KeepGoing, TurnDone, Loop!TurnDone
  <2>2. /\ Loop!ClearTurn /\ UNCHANGED <<iteration, tokens, billed>>
        /\ messages' = Append(messages, Loop!UserMessage(tool_results))
    BY <1>11, KeepGoingStep, SameTurns, SameMessages DEF KeepGoing
  <2>3. iteration \in 1..MaxIterations
    BY <1>11, TurnDoneFacts DEF KeepGoing
  <2>4. CASE iteration < MaxIterations
    <3>1. next' = "call_model" /\ UNCHANGED reportVars
      BY <1>11, <2>4, KeepGoingStep
    <3>2. Loop!NextIteration
      BY <2>1, <2>2, <2>4, <3>1, LoopPcNextValues DEF Loop!NextIteration
    <3>3. QED
      BY <3>2 DEF Loop!Next
  <2>5. CASE iteration = MaxIterations
    <3>1. next' = END /\ verdict' = "exceeded" /\ result' = None /\ usage' = tokens
      BY <1>11, <2>5, KeepGoingStep
    <3>2. Loop!Exceed
      BY <2>1, <2>2, <2>3, <2>5, <3>1, LoopPcNextValues DEF Loop!Exceed, Loop!Return
    <3>3. QED
      BY <3>2 DEF Loop!Next
  <2>6. QED
    BY <2>3, <2>4, <2>5
<1>12. CASE UNCHANGED vars
  BY <1>12 DEF vars, LoopPc, Loop!vars
<1>13. QED
  BY <1>2, <1>3, <1>4, <1>5, <1>7, <1>8, <1>9, <1>10, <1>11, <1>12 DEF Next, Terminated

(* The Day 1 port is faithful, for every budget and whatever the model     *)
(* does: with all the tools, a run of the graph is a run of the loop.      *)
THEOREM GraphImplementsLoop ==
    ASSUME ToolNames = TOOL_EXECUTORS
    PROVE  SafetySpec => ImplementsLoop
<1>1. Init => Loop!Init
  BY DEF Init, NoTurn, LoopPc, END, Loop!Init, Loop!NoTurn
<1>2. GraphInv /\ [Next]_vars => [Loop!Next]_Loop!vars
  BY StepImplementsLoop
<1>3. QED
  BY <1>1, <1>2, GraphInvariant, PTL DEF SafetySpec, ImplementsLoop, Loop!SafetySpec

-----------------------------------------------------------------------------
(* Only a call that is the agent's own is answered by executing it.        *)
LEMMA ExecutedCallIsOwn ==
    ASSUME TurnInv, ExecuteCall(ToolNames),
           Executed(tool_results'[Len(tool_results) + 1])
    PROVE  OwnCall(CurrentCall)
<1> DEFINE Refusals == {"review submitted", "invalid submission", "unknown tool",
                        "not available", "invalid arguments"}
<1>1. RunTool(ToolNames) \/ \E content \in Refusals : Answer(content)
  BY DEF ExecuteCall, AcceptSubmission, RejectSubmission, RejectUnknownTool, RejectForeignTool,
         RejectArguments
<1>2. ASSUME NEW content \in Refusals, Answer(content) PROVE FALSE
  <2>1. content \in GoodAnswers \cup ErrorAnswers
    BY DEF GoodAnswers, ErrorAnswers
  <2>2. tool_results'[Len(tool_results) + 1].content = content
    BY <1>2, <2>1, AnswerAppends DEF ExecuteCall
  <2>3. QED
    BY <2>2 DEF Executed
<1>3. RunTool(ToolNames)
  BY <1>1, <1>2
<1>4. CurrentCall.name \in ToolNames
  BY <1>3, ToolNamesAssumption DEF RunTool, Allowed
<1>5. CurrentCall.input = ToolArguments[CurrentCall.name]
  BY <1>3 DEF RunTool, ArgumentProblem
<1>6. QED
  BY <1>4, <1>5 DEF OwnCall

LEMMA OwnTurnStep ==
    ASSUME TurnInv, OwnTurnInv, ExecuteCall(ToolNames)
    PROVE  OwnTurnInv'
<1> DEFINE n == Len(tool_results)
<1>1. PICK content \in GoodAnswers \cup ErrorAnswers : Answer(content)
  BY DEF ExecuteCall, AcceptSubmission, RejectSubmission, RejectUnknownTool, RejectForeignTool,
         RejectArguments, RunTool, GoodAnswers, ErrorAnswers
<1>2. /\ n \in Nat /\ DOMAIN tool_results = 1..n /\ DOMAIN tool_results' = 1..(n + 1)
      /\ \A i \in 1..n : tool_results'[i] = tool_results[i]
      /\ UNCHANGED calls
  BY <1>1, AnswerAppends DEF TurnInv, TurnTypeOK, ExecuteCall
<1>3. ASSUME NEW i \in 1..n, Executed(tool_results'[i]) PROVE OwnCall(calls'[i])
  BY <1>2, <1>3 DEF OwnTurnInv
<1>4. Executed(tool_results'[n + 1]) => OwnCall(calls'[n + 1])
  BY <1>2, ExecutedCallIsOwn DEF CurrentCall
<1>5. \A i \in DOMAIN tool_results' : i \in 1..n \/ i = n + 1
  BY <1>2
<1>6. QED
  BY <1>3, <1>4, <1>5 DEF OwnTurnInv

(* Answering the turn extends the conversation with executed calls of the  *)
(* agent's own, and a new turn extends it with no answer.                  *)
LEMMA OwnConversationStep ==
    ASSUME GraphInv, OwnTurnInv, OnlyOwnToolsRun, [Next]_vars
    PROVE  OnlyOwnToolsRun'
<1> DEFINE n == Len(messages)
           Own(turn, results) == \A j \in DOMAIN turn : Executed(results[j]) => OwnCall(turn[j])
<1>1. messages \in Seq(Message) /\ n \in Nat
  BY DEF GraphInv, TypeOK
<1>2. \A i \in DOMAIN messages :
          i % 2 = 0 /\ i < n => Own(messages[i].content, messages[i + 1].content)
  BY DEF OnlyOwnToolsRun, OwnCall
<1>3. SUFFICES \A i \in DOMAIN messages' :
          i % 2 = 0 /\ i < Len(messages') => Own(messages'[i].content, messages'[i + 1].content)
  BY DEF OnlyOwnToolsRun, OwnCall, Executed
<1>4. CASE FetchDiff
  <2>1. Len(messages') = 1 /\ DOMAIN messages' = {1}
    BY <1>4 DEF FetchDiff
  <2>2. QED
    BY <2>1
<1>5. CASE CallModel
  <2>1. n % 2 = 1
    BY <1>5, ModelAnswersFacts DEF CallModel
  <2>2. /\ Len(messages') = n + 1 /\ DOMAIN messages' = 1..(n + 1)
        /\ \A i \in 1..n : messages'[i] = messages[i]
    BY <1>1, <1>5, TurnsAssumption, AddOneMessage, MessageTypes DEF CallModel, ModelTurns
  <2>3. QED
    BY <1>1, <1>2, <2>1, <2>2
<1>6. CASE KeepGoing
  <2>1. messages[n].content = calls /\ n \in 1..n /\ tool_results \in Seq(ToolResult)
    BY <1>6, TurnDoneFacts DEF KeepGoing, AssistantMessage
  <2>2. /\ Len(messages') = n + 1 /\ DOMAIN messages' = 1..(n + 1)
        /\ \A i \in 1..n : messages'[i] = messages[i]
        /\ messages'[n + 1].content = tool_results
    BY <1>1, <1>6, <2>1, AddOneMessage, MessageTypes DEF KeepGoing, UserMessage
  <2>3. DOMAIN calls = DOMAIN tool_results
    BY <1>6 DEF KeepGoing, TurnDone, TurnRunning, GraphInv, TurnInv, TurnTypeOK
  <2>4. Own(messages'[n].content, messages'[n + 1].content)
    BY <2>1, <2>2, <2>3 DEF OwnTurnInv
  <2>5. ASSUME NEW i \in DOMAIN messages', i % 2 = 0, i < Len(messages'), i # n
        PROVE  Own(messages'[i].content, messages'[i + 1].content)
    <3>1. i \in 1..n /\ i < n /\ i + 1 \in 1..n
      BY <1>1, <2>2, <2>5
    <3>2. messages'[i] = messages[i] /\ messages'[i + 1] = messages[i + 1]
      BY <2>2, <3>1
    <3>3. QED
      BY <1>1, <1>2, <2>5, <3>1, <3>2
  <2>6. QED
    BY <2>4, <2>5
<1>7. CASE UNCHANGED messages
  BY <1>2, <1>7
<1>8. QED
  <2>1. ModelStops \/ Submit => UNCHANGED messages
    BY ModelStopsStep, SubmitStep
  <2>2. FetchMetadata \/ GithubFails \/ ApiFails \/ ExecuteTool \/ UNCHANGED vars
            => UNCHANGED messages
    BY DEF FetchMetadata, GithubFails, ApiFails, ExecuteTool, vars, loopState
  <2>3. QED
    BY <1>4, <1>5, <1>6, <1>7, <2>1, <2>2 DEF Next, Terminated

LEMMA OwnTurnInvStep == GraphInv /\ OwnTurnInv /\ [Next]_vars => OwnTurnInv'
<1> SUFFICES ASSUME GraphInv, OwnTurnInv, [Next]_vars PROVE OwnTurnInv'
  OBVIOUS
<1>1. CASE UNCHANGED turnVars
  BY <1>1 DEF OwnTurnInv, turnVars
<1>2. CASE tool_results' = <<>>
  BY <1>2 DEF OwnTurnInv
<1>3. CASE ExecuteTool
  BY <1>3, OwnTurnStep DEF ExecuteTool, GraphInv
<1>4. QED
  BY <1>1, <1>2, <1>3
     DEF Next, Terminated, FetchMetadata, FetchDiff, GithubFails, ApiFails, CallModel,
         ModelStops, Submit, KeepGoing, ClearTurn, StartTurn, vars, turnVars

(* An agent never executes a tool that is not its own, nor one with other  *)
(* arguments than it declares, whatever the model asks for.                *)
THEOREM OwnToolsOnly == SafetySpec => []OnlyOwnToolsRun
<1>1. Init => OwnTurnInv /\ OnlyOwnToolsRun
  BY DEF Init, NoTurn, OwnTurnInv, OnlyOwnToolsRun
<1>2. GraphInv /\ OwnTurnInv /\ OnlyOwnToolsRun /\ [Next]_vars => OwnTurnInv' /\ OnlyOwnToolsRun'
  BY OwnConversationStep, OwnTurnInvStep
<1>3. QED
  BY <1>1, <1>2, GraphInvariant, PTL DEF SafetySpec
-----------------------------------------------------------------------------
(* How far the graph is from its end: the nodes it may still run, and,     *)
(* within run_tools, the calls it has still to execute.                    *)
NodesLeft ==
    CASE next = "metadata"   -> 2 * MaxIterations + 3
      [] next = "diff"       -> 2 * MaxIterations + 2
      [] next = "call_model" -> 2 * (MaxIterations - iteration) + 1
      [] next = "run_tools"  -> 2 * (MaxIterations - iteration) + 2
      [] OTHER               -> 0

Closer ==
    \/ NodesLeft' < NodesLeft
    \/ NodesLeft' = NodesLeft /\ CallsLeft' < CallsLeft

(* Neither measure is ever negative, so they cannot fall for ever.         *)
LEMMA MeasuresAreNat == GraphInv => NodesLeft \in Nat /\ CallsLeft \in Nat
<1> SUFFICES ASSUME GraphInv PROVE NodesLeft \in Nat /\ CallsLeft \in Nat
  OBVIOUS
<1>1. iteration \in Nat /\ MaxIterations \in Nat /\ iteration <= MaxIterations
  BY MaxIterationsAssumption DEF GraphInv, TypeOK, PlaceInv
<1>2. NodesLeft \in Nat
  BY <1>1 DEF NodesLeft
<1>3. QED
  BY <1>2, CallsLeftIsNat DEF GraphInv

(* The run is over from wherever it may end.                               *)
LEMMA EndIsCloser == ASSUME GraphInv, next # END, next' = END PROVE Closer
<1>1. NodesLeft' = 0
  BY DEF NodesLeft, END
<1>2. NodesLeft > 0
  BY MaxIterationsAssumption DEF GraphInv, TypeOK, PlaceInv, NodesLeft, END
<1>3. QED
  BY <1>1, <1>2 DEF Closer

(* Routing always leads to a node nearer the end; a tool call leaves the   *)
(* graph at run_tools, with one call less to execute.                      *)
LEMMA StepIsCloser == GraphInv /\ [Next]_vars => [Closer]_vars
<1> SUFFICES ASSUME GraphInv, Next, ~UNCHANGED vars PROVE Closer
  OBVIOUS
<1> USE MaxIterationsAssumption
<1>1. TypeOK /\ PlaceInv /\ TurnInv
  BY DEF GraphInv
<1>2. CASE FetchMetadata \/ FetchDiff
  BY <1>1, <1>2 DEF FetchMetadata, FetchDiff, loopState, PlaceInv, NodesLeft, Closer
<1>3. CASE GithubFails \/ ApiFails
  BY <1>3, EndIsCloser DEF GithubFails, ApiFails, Raise, END
<1>4. CASE ModelStops
  <2>1. next = "call_model" /\ next' = END
    BY <1>4, ModelStopsStep DEF ModelStops, ModelAnswers
  <2>2. QED
    BY <2>1, EndIsCloser DEF END
<1>5. CASE CallModel
  <2>1. /\ next = "call_model" /\ iteration \in Nat /\ iteration < MaxIterations
        /\ iteration' = iteration + 1 /\ next' = "run_tools"
    BY <1>5, ModelAnswersFacts, CallModelStep DEF CallModel
  <2>2. QED
    BY <2>1 DEF NodesLeft, Closer
<1>6. CASE Submit
  <2>1. next = "run_tools" /\ next' = END
    BY <1>6, SubmitStep DEF Submit, TurnDone
  <2>2. QED
    BY <2>1, EndIsCloser DEF END
<1>7. CASE KeepGoing
  <2>1. next = "run_tools" /\ iteration \in 1..MaxIterations /\ iteration' = iteration
    BY <1>1, <1>7 DEF KeepGoing, TurnDone, PlaceInv
  <2>2. CASE iteration < MaxIterations
    <3>1. next' = "call_model"
      BY <1>7, <2>2, KeepGoingStep
    <3>2. QED
      BY <2>1, <3>1 DEF NodesLeft, Closer
  <2>3. CASE iteration = MaxIterations
    <3>1. next' = END
      BY <1>7, <2>3, KeepGoingStep
    <3>2. QED
      BY <2>1, <3>1, EndIsCloser DEF END
  <2>4. QED
    BY <2>1, <2>2, <2>3
<1>8. CASE ExecuteTool
  <2>1. NodesLeft' = NodesLeft
    BY <1>8 DEF ExecuteTool, loopState, NodesLeft
  <2>2. CallsLeft' < CallsLeft
    BY <1>1, <1>8, ExecuteCallAdvances, CallsLeftIsNat DEF ExecuteTool
  <2>3. QED
    BY <2>1, <2>2 DEF Closer
<1>9. QED
  BY <1>2, <1>3, <1>4, <1>5, <1>6, <1>7, <1>8 DEF Next, Terminated

(* The graph cannot go on for ever, whatever its tools and its budget:     *)
(* every step it takes brings it closer to END, by a measure that cannot   *)
(* fall for ever.  What ReviewEnds adds is that it takes its steps.        *)
THEOREM GraphAlwaysProgresses ==
    SafetySpec => [](NodesLeft \in Nat /\ CallsLeft \in Nat) /\ [][Closer]_vars
<1>1. QED
  BY MeasuresAreNat, StepIsCloser, GraphInvariant, PTL DEF SafetySpec
=============================================================================
