-------------------------- MODULE AgentLoopProofs ---------------------------
(***************************************************************************)
(* Proofs about AgentLoop, for every budget, every set of turns and every  *)
(* cost.  The inductive invariant relates the conversation to the control  *)
(* state: how long it is at each await, which of its turns may still hold  *)
(* a valid submission, and that the turn being executed is its last one.   *)
(***************************************************************************)
EXTENDS AgentLoop, ToolTurnProofs

(* Where the engine is and how far the conversation has come.              *)
ControlInv ==
    /\ pc \in {"metadata", "diff"} => iteration = 0 /\ messages = <<>> /\ billed = 0
    /\ pc = "model" => iteration < MaxIterations /\ Len(messages) = 2 * iteration + 1
    /\ pc = "tools" => /\ iteration >= 1
                       /\ Len(messages) = 2 * iteration
                       /\ messages[Len(messages)] = AssistantMessage(calls)
                       /\ calls \in Turns
                       /\ iteration = MaxIterations =>
                            \A i \in DOMAIN calls : calls[i].name = "submit_review"
    /\ (verdict = None) = (pc # "returned")
    /\ verdict = None => usage = None /\ findings = None
    /\ total_tokens = billed

(* Odd messages are the user's, even ones the assistant's, and every       *)
(* assistant turn but the last is answered and holds no valid submission.  *)
ConversationInv ==
    /\ \A i \in DOMAIN messages : messages[i].role = IF i % 2 = 1 THEN "user" ELSE "assistant"
    /\ \A i \in DOMAIN messages :
          i % 2 = 0 /\ i < Len(messages) => /\ Answers(messages[i + 1].content, messages[i].content)
                                            /\ ~HoldsSubmission(messages[i].content)

(* What a verdict says about the conversation it ended.                    *)
VerdictInv ==
    /\ pc = "returned" /\ messages # <<>> /\ messages[Len(messages)].role = "assistant" =>
          verdict = "submitted"
    /\ verdict = "submitted" =>
          /\ messages # <<>>
          /\ LastSubmission(messages[Len(messages)].content, findings)
    /\ (findings # None) = (verdict = "submitted")
    /\ ExceededOnlyByMalformedSubmission
    /\ verdict = "exceeded" => Len(messages) > 1

IInv == TypeOK /\ TurnInv /\ ControlInv /\ ConversationInv /\ VerdictInv

-----------------------------------------------------------------------------
(* What appending a message does to a conversation.                        *)
LEMMA AppendMessage ==
    ASSUME messages \in Seq(Message), NEW m \in Message, messages' = Append(messages, m)
    PROVE  /\ messages' \in Seq(Message)
           /\ Len(messages') = Len(messages) + 1
           /\ Len(messages) \in Nat
           /\ \A i \in 1..Len(messages) : messages'[i] = messages[i]
           /\ messages'[Len(messages) + 1] = m
  OBVIOUS

LEMMA RoleOfMessages ==
    /\ \A turn \in Seq(Calls) : AssistantMessage(turn) \in Message
    /\ \A results \in Seq(ToolResult) : UserMessage(results) \in Message
  BY DEF AssistantMessage, UserMessage, Message

(* The model only answers with turns of Turns, and at the last iteration   *)
(* only with turns of submissions.                                         *)
LEMMA ModelTurnsAreTurns ==
    ASSUME NEW i \in Nat, NEW turn \in ModelTurns(tool_choice_for(i, MaxIterations))
    PROVE  /\ turn \in Turns
           /\ turn \in Seq(Calls)
           /\ i = MaxIterations => \A j \in DOMAIN turn : turn[j].name = "submit_review"
  BY TurnsAssumption, MaxIterationsAssumption DEF ModelTurns, tool_choice_for

LEMMA InitInv == Init => IInv
<1> SUFFICES ASSUME Init PROVE IInv
  OBVIOUS
<1>1. TypeOK
  BY MaxIterationsAssumption, NoneAssumption DEF Init, TypeOK, TurnTypeOK, NoTurn
<1>2. TurnInv
  BY <1>1 DEF Init, TypeOK, TurnInv, NoTurn, NoneValid
<1>3. ControlInv
  BY DEF Init, ControlInv
<1>4. ConversationInv
  BY DEF Init, ConversationInv
<1>5. VerdictInv
  BY NoneAssumption DEF Init, VerdictInv, ExceededOnlyByMalformedSubmission
<1>6. QED
  BY <1>1, <1>2, <1>3, <1>4, <1>5 DEF IInv

-----------------------------------------------------------------------------
(* The steps that leave the conversation and the turn alone preserve their *)
(* parts of the invariant.                                                 *)
LEMMA SameTurn == TurnInv /\ UNCHANGED turnVars => TurnInv'
  BY DEF TurnInv, TurnTypeOK, turnVars

LEMMA SameConversation == ConversationInv /\ UNCHANGED messages => ConversationInv'
  BY DEF ConversationInv

(* A user message extends a conversation that ends with a turn it answers  *)
(* and that holds no valid submission.                                     *)
LEMMA ExtendWithAnswers ==
    ASSUME messages \in Seq(Message), ConversationInv,
           Len(messages) > 0, Len(messages) % 2 = 0,
           NEW results \in Seq(ToolResult),
           Answers(results, messages[Len(messages)].content),
           ~HoldsSubmission(messages[Len(messages)].content),
           messages' = Append(messages, UserMessage(results))
    PROVE  ConversationInv'
<1> DEFINE n == Len(messages)
<1>1. /\ UserMessage(results) \in Message
      /\ UserMessage(results).role = "user" /\ UserMessage(results).content = results
  BY RoleOfMessages DEF UserMessage
<1>2. /\ messages' \in Seq(Message) /\ Len(messages') = n + 1 /\ n \in Nat
      /\ \A i \in 1..n : messages'[i] = messages[i]
      /\ messages'[n + 1] = UserMessage(results)
  BY <1>1, AppendMessage
<1>3. \A i \in DOMAIN messages' :
          messages'[i].role = IF i % 2 = 1 THEN "user" ELSE "assistant"
  <2>1. (n + 1) % 2 = 1
    BY <1>2
  <2>2. messages'[n + 1].role = IF (n + 1) % 2 = 1 THEN "user" ELSE "assistant"
    BY <1>1, <1>2, <2>1
  <2>3. \A i \in 1..n : messages'[i].role = IF i % 2 = 1 THEN "user" ELSE "assistant"
    BY <1>2 DEF ConversationInv
  <2>4. \A i \in DOMAIN messages' : i \in 1..n \/ i = n + 1
    BY <1>2
  <2>5. QED
    BY <2>2, <2>3, <2>4, Zenon
<1>4. ASSUME NEW i \in DOMAIN messages', i % 2 = 0, i < Len(messages')
      PROVE  /\ Answers(messages'[i + 1].content, messages'[i].content)
             /\ ~HoldsSubmission(messages'[i].content)
  <2>1. i \in 1..n /\ messages'[i] = messages[i]
    BY <1>2, <1>4
  <2>2. CASE i = n
    <3>1. messages'[i + 1] = UserMessage(results) /\ messages'[i] = messages[n]
      BY <1>2, <2>1, <2>2
    <3>2. QED
      BY <1>1, <3>1
  <2>3. CASE i < n
    <3>1. messages'[i + 1] = messages[i + 1]
      BY <1>2, <2>1, <2>3
    <3>2. QED
      BY <1>2, <1>4, <2>1, <2>3, <3>1 DEF ConversationInv
  <2>4. QED
    BY <1>2, <2>1, <2>2, <2>3
<1>5. QED
  BY <1>3, <1>4 DEF ConversationInv

(* An assistant message extends a conversation that ends with the user's.  *)
LEMMA ExtendWithTurn ==
    ASSUME messages \in Seq(Message), ConversationInv, Len(messages) % 2 = 1,
           NEW turn \in Seq(Calls),
           messages' = Append(messages, AssistantMessage(turn))
    PROVE  ConversationInv'
<1> DEFINE n == Len(messages)
<1>1. /\ AssistantMessage(turn) \in Message
      /\ AssistantMessage(turn).role = "assistant" /\ AssistantMessage(turn).content = turn
  BY RoleOfMessages DEF AssistantMessage
<1>2. /\ messages' \in Seq(Message) /\ Len(messages') = n + 1 /\ n \in Nat
      /\ \A i \in 1..n : messages'[i] = messages[i]
      /\ messages'[n + 1] = AssistantMessage(turn)
  BY <1>1, AppendMessage
<1>3. \A i \in DOMAIN messages' :
          messages'[i].role = IF i % 2 = 1 THEN "user" ELSE "assistant"
  <2>1. (n + 1) % 2 = 0
    <3>1. \A k \in Nat : k % 2 = 1 => (k + 1) % 2 = 0
      OBVIOUS
    <3>2. n \in Nat /\ n % 2 = 1
      BY <1>2
    <3>3. QED
      BY <3>1, <3>2
  <2>2. messages'[n + 1].role = IF (n + 1) % 2 = 1 THEN "user" ELSE "assistant"
    BY <1>1, <1>2, <2>1
  <2>3. \A i \in 1..n : messages'[i].role = IF i % 2 = 1 THEN "user" ELSE "assistant"
    BY <1>2 DEF ConversationInv
  <2>4. \A i \in DOMAIN messages' : i \in 1..n \/ i = n + 1
    BY <1>2
  <2>5. QED
    BY <2>2, <2>3, <2>4, Zenon
<1>4. ASSUME NEW i \in DOMAIN messages', i % 2 = 0, i < Len(messages')
      PROVE  /\ Answers(messages'[i + 1].content, messages'[i].content)
             /\ ~HoldsSubmission(messages'[i].content)
  <2>1. i \in 1..n /\ i < n /\ messages'[i] = messages[i] /\ messages'[i + 1] = messages[i + 1]
    BY <1>2, <1>4
  <2>2. QED
    BY <1>2, <1>4, <2>1 DEF ConversationInv
<1>5. QED
  BY <1>3, <1>4 DEF ConversationInv

(* A fully executed turn is answered; without an accepted submission it    *)
(* holds no valid one, and otherwise the accepted one is its last.         *)
LEMMA ExecutedTurn ==
    ASSUME TurnInv, ~TurnRunning
    PROVE  /\ Answers(tool_results, calls)
           /\ submitted_findings = None => ~HoldsSubmission(calls)
           /\ submitted_findings # None => LastSubmission(calls, submitted_findings)
<1>1. /\ calls \in Seq(Calls) /\ tool_results \in Seq(ToolResult)
      /\ Len(tool_results) = Len(calls) /\ Len(calls) \in Nat
      /\ DOMAIN calls = 1..Len(calls) /\ DOMAIN tool_results = 1..Len(calls)
  BY DEF TurnInv, TurnTypeOK, TurnRunning
<1>2. Answers(tool_results, calls)
  BY <1>1 DEF TurnInv, Answers
<1>3. submitted_findings = None => ~HoldsSubmission(calls)
  BY <1>1 DEF TurnInv, NoneValid, HoldsSubmission
<1>4. submitted_findings # None => LastSubmission(calls, submitted_findings)
  BY <1>1 DEF TurnInv, LastValid, LastSubmission
<1>5. QED
  BY <1>2, <1>3, <1>4

-----------------------------------------------------------------------------
(* One lemma per action.  Before the first model call nothing is known but *)
(* that the conversation is empty.                                         *)
LEMMA FetchStep == IInv /\ (FetchMetadata \/ FetchDiff \/ GithubFails) => IInv'
<1> SUFFICES ASSUME IInv, FetchMetadata \/ FetchDiff \/ GithubFails PROVE IInv'
  OBVIOUS
<1> USE NoneAssumption, MaxIterationsAssumption DEF reportVars
<1>1. TypeOK /\ TurnInv /\ ControlInv /\ ConversationInv /\ VerdictInv
  BY DEF IInv
<1>2. /\ UNCHANGED turnVars /\ UNCHANGED <<iteration, total_tokens, billed>>
      /\ pc \in {"metadata", "diff"}
  BY DEF FetchMetadata, FetchDiff, GithubFails, Return
<1>3. TurnInv'
  BY <1>1, <1>2, SameTurn
<1>4. TurnTypeOK'
  BY <1>3 DEF TurnInv
<1>5. CASE FetchMetadata
  <2>1. TypeOK' /\ ControlInv'
    BY <1>1, <1>4, <1>5 DEF FetchMetadata, TypeOK, ControlInv
  <2>2. ConversationInv' /\ VerdictInv'
    BY <1>1, <1>5, SameConversation
       DEF FetchMetadata, ControlInv, VerdictInv, ExceededOnlyByMalformedSubmission
  <2>3. QED
    BY <1>3, <2>1, <2>2 DEF IInv
<1>6. CASE FetchDiff
  <2>1. /\ PullRequestMessage \in Message /\ PullRequestMessage.role = "user"
        /\ messages' = <<PullRequestMessage>> /\ messages' \in Seq(Message)
        /\ Len(messages') = 1 /\ messages'[1] = PullRequestMessage
    BY <1>6 DEF FetchDiff, PullRequestMessage, UserMessage, Message
  <2>2. TypeOK'
    BY <1>1, <1>4, <1>6, <2>1 DEF FetchDiff, TypeOK
  <2>3. ControlInv'
    BY <1>1, <1>6, <2>1 DEF FetchDiff, ControlInv
  <2>4. ConversationInv'
    BY <2>1 DEF ConversationInv
  <2>5. VerdictInv'
    BY <1>1, <1>6 DEF FetchDiff, ControlInv, VerdictInv, ExceededOnlyByMalformedSubmission
  <2>6. QED
    BY <1>3, <2>2, <2>3, <2>4, <2>5 DEF IInv
<1>7. CASE GithubFails
  <2>1. TypeOK' /\ ControlInv'
    BY <1>1, <1>4, <1>7 DEF GithubFails, Return, TypeOK, ControlInv
  <2>2. ConversationInv' /\ VerdictInv'
    BY <1>1, <1>7, SameConversation
       DEF GithubFails, Return, ControlInv, VerdictInv, ExceededOnlyByMalformedSubmission
  <2>3. QED
    BY <1>3, <2>1, <2>2 DEF IInv
<1>8. QED
  BY <1>5, <1>6, <1>7

(* Calling the model appends a turn and starts its execution.              *)
LEMMA CallModelStep == IInv /\ CallModel => IInv'
<1> SUFFICES ASSUME IInv, CallModel PROVE IInv'
  OBVIOUS
<1> USE NoneAssumption, MaxIterationsAssumption, CostsAssumption DEF reportVars
<1>1. TypeOK /\ TurnInv /\ ControlInv /\ ConversationInv /\ VerdictInv
  BY DEF IInv
<1>2. /\ pc = "model" /\ pc' = "tools" /\ UNCHANGED <<verdict, findings, usage>>
      /\ iteration \in Nat /\ iteration' = iteration + 1 /\ iteration < MaxIterations
      /\ messages \in Seq(Message) /\ Len(messages) = 2 * iteration + 1
  BY <1>1 DEF CallModel, ModelAnswers, TypeOK, ControlInv
<1>3. total_tokens' \in Nat /\ billed' \in Nat /\ total_tokens' = billed'
  BY <1>1 DEF CallModel, ModelAnswers, TypeOK, ControlInv
<1>4. PICK turn \in ModelTurns(tool_choice_for(iteration + 1, MaxIterations)) :
        messages' = Append(messages, AssistantMessage(turn)) /\ StartTurn(turn)
  BY DEF CallModel
<1>5. /\ turn \in Turns /\ turn \in Seq(Calls)
      /\ iteration + 1 = MaxIterations => \A j \in DOMAIN turn : turn[j].name = "submit_review"
  BY <1>2, <1>4, ModelTurnsAreTurns
<1>6. /\ messages' \in Seq(Message) /\ Len(messages') = Len(messages) + 1
      /\ messages'[Len(messages')] = AssistantMessage(turn)
  BY <1>2, <1>4, <1>5, AppendMessage, RoleOfMessages
<1>7. TurnInv' /\ TurnTypeOK' /\ calls' = turn
  BY <1>4, <1>5, StartTurnInv DEF TurnInv, StartTurn
<1>8. TypeOK'
  BY <1>1, <1>2, <1>3, <1>6, <1>7 DEF TypeOK
<1>9. ControlInv'
  <2>1. messages'[Len(messages')] = AssistantMessage(calls')
    BY <1>6, <1>7
  <2>2. Len(messages') = 2 * iteration' /\ iteration' >= 1
    BY <1>2, <1>6
  <2>3. calls' \in Turns /\ (iteration' = MaxIterations =>
                                \A i \in DOMAIN calls' : calls'[i].name = "submit_review")
    BY <1>2, <1>5, <1>7
  <2>4. QED
    BY <1>1, <1>2, <1>3, <2>1, <2>2, <2>3 DEF ControlInv
<1>10. ConversationInv'
  BY <1>1, <1>2, <1>4, <1>5, ExtendWithTurn
<1>11. VerdictInv'
  BY <1>1, <1>2 DEF ControlInv, VerdictInv, ExceededOnlyByMalformedSubmission
<1>12. QED
  BY <1>7, <1>8, <1>9, <1>10, <1>11 DEF IInv

(* A model that stops, or an API that fails, ends the review with the      *)
(* conversation as it was.                                                 *)
LEMMA EndedByModelStep == IInv /\ (ModelStops \/ ApiFails) => IInv'
<1> SUFFICES ASSUME IInv, ModelStops \/ ApiFails PROVE IInv'
  OBVIOUS
<1> USE NoneAssumption, MaxIterationsAssumption, CostsAssumption DEF reportVars
<1>1. TypeOK /\ TurnInv /\ ControlInv /\ ConversationInv /\ VerdictInv
  BY DEF IInv
<1>2. /\ pc = "model" /\ pc' = "returned" /\ findings' = None
      /\ verdict' \in {"no_submit", "api_error"}
      /\ UNCHANGED turnVars /\ UNCHANGED messages
      /\ iteration < MaxIterations
      /\ messages \in Seq(Message) /\ Len(messages) = 2 * iteration + 1 /\ iteration \in Nat
  BY <1>1 DEF ModelStops, ApiFails, ModelAnswers, Return, TypeOK, ControlInv
<1>3. /\ iteration' \in 0..MaxIterations
      /\ total_tokens' \in Nat /\ billed' \in Nat /\ total_tokens' = billed'
      /\ usage' \in Nat \cup {None}
  BY <1>1, <1>2 DEF ModelStops, ApiFails, ModelAnswers, Return, TypeOK, ControlInv
<1>4. TurnInv' /\ TurnTypeOK'
  BY <1>1, <1>2, SameTurn DEF TurnInv
<1>5. TypeOK' /\ ControlInv'
  BY <1>1, <1>2, <1>3, <1>4 DEF TypeOK, ControlInv
<1>6. ConversationInv'
  BY <1>1, <1>2, SameConversation
<1>7. messages[Len(messages)].role = "user"
  <2>1. Len(messages) \in DOMAIN messages /\ Len(messages) % 2 = 1
    BY <1>2
  <2>2. QED
    BY <1>1, <2>1 DEF ConversationInv
<1>8. VerdictInv'
  BY <1>2, <1>7 DEF VerdictInv, ExceededOnlyByMalformedSubmission
<1>9. QED
  BY <1>4, <1>5, <1>6, <1>8 DEF IInv

(* A tool's answer changes nothing but the turn.                           *)
LEMMA ExecuteToolStep == IInv /\ ExecuteTool => IInv'
<1> SUFFICES ASSUME IInv, ExecuteTool PROVE IInv'
  OBVIOUS
<1>1. TypeOK /\ TurnInv /\ ControlInv /\ ConversationInv /\ VerdictInv
  BY DEF IInv
<1>2. TurnInv' /\ UNCHANGED calls
  BY <1>1, ExecuteCallInv DEF ExecuteTool, ExecuteCall
<1>3. TypeOK' /\ ControlInv' /\ VerdictInv'
  BY <1>1, <1>2 DEF ExecuteTool, TypeOK, TurnInv, ControlInv, VerdictInv, reportVars,
                    ExceededOnlyByMalformedSubmission
<1>4. ConversationInv'
  BY <1>1, SameConversation DEF ExecuteTool
<1>5. QED
  BY <1>1, <1>2, <1>3, <1>4 DEF IInv

(* Once the turn's tools have run, the engine submits, goes on or gives up.*)
LEMMA TurnDoneFacts ==
    ASSUME IInv, TurnDone
    PROVE  /\ messages \in Seq(Message) /\ Len(messages) > 0 /\ Len(messages) % 2 = 0
           /\ Len(messages) = 2 * iteration /\ iteration \in Nat
           /\ messages[Len(messages)] = AssistantMessage(calls)
           /\ messages[Len(messages)].content = calls
           /\ calls \in Seq(Calls) /\ tool_results \in Seq(ToolResult)
           /\ Answers(tool_results, calls)
           /\ submitted_findings = None => ~HoldsSubmission(calls)
           /\ submitted_findings # None => LastSubmission(calls, submitted_findings)
<1>1. TypeOK /\ TurnInv /\ ControlInv /\ pc = "tools" /\ ~TurnRunning
  BY DEF IInv, TurnDone
<1>2. /\ messages \in Seq(Message) /\ iteration \in Nat /\ Len(messages) = 2 * iteration
      /\ iteration >= 1 /\ messages[Len(messages)] = AssistantMessage(calls)
  BY <1>1, MaxIterationsAssumption DEF TypeOK, ControlInv
<1>3. Len(messages) > 0 /\ Len(messages) % 2 = 0
  BY <1>2
<1>4. messages[Len(messages)].content = calls
  BY <1>2 DEF AssistantMessage
<1>5. calls \in Seq(Calls) /\ tool_results \in Seq(ToolResult)
  BY <1>1 DEF TurnInv, TurnTypeOK
<1>6. QED
  BY <1>1, <1>2, <1>3, <1>4, <1>5, ExecutedTurn

LEMMA ClearTurnInv == ClearTurn => TurnInv' /\ TurnTypeOK'
<1>1. <<>> \in Seq(Calls)
  OBVIOUS
<1>2. QED
  BY <1>1, StartTurnInv DEF ClearTurn, TurnInv

LEMMA SubmitStep == IInv /\ Submit => IInv'
<1> SUFFICES ASSUME IInv, Submit PROVE IInv'
  OBVIOUS
<1> USE NoneAssumption, MaxIterationsAssumption DEF reportVars
<1>1. TypeOK /\ TurnInv /\ ControlInv /\ ConversationInv /\ VerdictInv
  BY DEF IInv
<1>2. TurnInv' /\ TurnTypeOK'
  BY ClearTurnInv DEF Submit
<1>3. /\ pc' = "returned" /\ verdict' = "submitted" /\ findings' = submitted_findings
      /\ findings' \in FindingLists /\ findings' # None /\ usage' = total_tokens
      /\ UNCHANGED <<iteration, messages, total_tokens, billed>>
  BY <1>1 DEF Submit, Return, TypeOK, TurnTypeOK
<1>4. TypeOK' /\ ControlInv'
  BY <1>1, <1>2, <1>3 DEF TypeOK, ControlInv
<1>5. ConversationInv'
  BY <1>1, <1>3, SameConversation
<1>6. LastSubmission(messages'[Len(messages')].content, findings') /\ messages' # <<>>
  BY <1>3, TurnDoneFacts DEF Submit
<1>7. VerdictInv'
  BY <1>3, <1>6 DEF VerdictInv, ExceededOnlyByMalformedSubmission
<1>8. QED
  BY <1>2, <1>4, <1>5, <1>7 DEF IInv

(* Going on and giving up both append the answers to the conversation.     *)
LEMMA AnswersAppended ==
    ASSUME IInv, TurnDone, submitted_findings = None,
           messages' = Append(messages, UserMessage(tool_results))
    PROVE  /\ messages' \in Seq(Message)
           /\ Len(messages') = 2 * iteration + 1 /\ iteration \in Nat
           /\ messages'[Len(messages')].role = "user"
           /\ messages'[Len(messages') - 1].content = calls
           /\ ConversationInv'
<1>1. /\ messages \in Seq(Message) /\ Len(messages) > 0 /\ Len(messages) % 2 = 0
      /\ Len(messages) = 2 * iteration /\ iteration \in Nat
      /\ messages[Len(messages)].content = calls
      /\ tool_results \in Seq(ToolResult) /\ Answers(tool_results, calls)
      /\ ~HoldsSubmission(calls)
  BY TurnDoneFacts
<1>2. /\ messages' \in Seq(Message) /\ Len(messages') = Len(messages) + 1
      /\ messages'[Len(messages)] = messages[Len(messages)]
      /\ messages'[Len(messages) + 1] = UserMessage(tool_results)
  BY <1>1, AppendMessage, RoleOfMessages
<1>3. messages'[Len(messages')].role = "user"
  BY <1>1, <1>2 DEF UserMessage
<1>4. messages'[Len(messages') - 1].content = calls
  <2>1. Len(messages') - 1 = Len(messages)
    BY <1>1, <1>2
  <2>2. QED
    BY <1>1, <1>2, <2>1
<1>5. ConversationInv'
  BY <1>1, ExtendWithAnswers DEF IInv
<1>6. QED
  BY <1>1, <1>2, <1>3, <1>4, <1>5

LEMMA NextIterationStep == IInv /\ NextIteration => IInv'
<1> SUFFICES ASSUME IInv, NextIteration PROVE IInv'
  OBVIOUS
<1> USE NoneAssumption, MaxIterationsAssumption DEF reportVars
<1>1. TypeOK /\ ControlInv /\ VerdictInv
  BY DEF IInv
<1>2. TurnInv' /\ TurnTypeOK'
  BY ClearTurnInv DEF NextIteration
<1>3. /\ messages' \in Seq(Message) /\ Len(messages') = 2 * iteration + 1 /\ ConversationInv'
  BY AnswersAppended DEF NextIteration
<1>4. /\ pc = "tools" /\ pc' = "model" /\ iteration < MaxIterations
      /\ UNCHANGED <<iteration, total_tokens, billed, verdict, findings, usage>>
  BY DEF NextIteration, TurnDone
<1>5. TypeOK' /\ ControlInv' /\ VerdictInv'
  BY <1>1, <1>2, <1>3, <1>4
     DEF TypeOK, ControlInv, VerdictInv, ExceededOnlyByMalformedSubmission
<1>6. QED
  BY <1>2, <1>3, <1>5 DEF IInv

(* The forced last turn is made of submissions, none of them valid.        *)
LEMMA ExceedStep == IInv /\ Exceed => IInv'
<1> SUFFICES ASSUME IInv, Exceed PROVE IInv'
  OBVIOUS
<1> USE NoneAssumption, MaxIterationsAssumption DEF reportVars
<1>1. TypeOK /\ ControlInv /\ VerdictInv
  BY DEF IInv
<1>2. TurnInv' /\ TurnTypeOK'
  BY ClearTurnInv DEF Exceed
<1>3. /\ messages' \in Seq(Message) /\ Len(messages') = 2 * iteration + 1 /\ ConversationInv'
      /\ messages'[Len(messages')].role = "user"
      /\ messages'[Len(messages') - 1].content = calls
  BY AnswersAppended DEF Exceed
<1>4. /\ pc = "tools" /\ pc' = "returned" /\ iteration = MaxIterations
      /\ verdict' = "exceeded" /\ findings' = None /\ usage' = total_tokens
      /\ UNCHANGED <<iteration, total_tokens, billed>>
  BY <1>1 DEF Exceed, TurnDone, Return, TypeOK
<1>5. TypeOK' /\ ControlInv'
  BY <1>1, <1>2, <1>3, <1>4 DEF TypeOK, ControlInv
<1>6. \A i \in DOMAIN calls : calls[i].name = "submit_review" /\ calls[i].input = Malformed
  <2>1. \A i \in DOMAIN calls : calls[i].name = "submit_review"
    BY <1>1, <1>4 DEF ControlInv
  <2>2. ~HoldsSubmission(calls)
    BY TurnDoneFacts DEF Exceed
  <2>3. QED
    BY <2>1, <2>2 DEF HoldsSubmission, ValidSubmission
<1>7. VerdictInv'
  <2>1. Len(messages') > 1
    BY <1>3, <1>4
  <2>2. ExceededOnlyByMalformedSubmission'
    BY <1>3, <1>4, <1>6 DEF ExceededOnlyByMalformedSubmission
  <2>3. QED
    BY <1>3, <1>4, <2>1, <2>2 DEF VerdictInv
<1>8. QED
  BY <1>2, <1>3, <1>5, <1>7 DEF IInv

LEMMA StutterStep == IInv /\ UNCHANGED vars => IInv'
<1> SUFFICES ASSUME IInv, UNCHANGED vars PROVE IInv'
  OBVIOUS
<1>1. TurnInv' /\ ConversationInv'
  BY SameTurn, SameConversation DEF IInv, vars
<1>2. TypeOK' /\ ControlInv' /\ VerdictInv'
  BY <1>1 DEF IInv, TypeOK, TurnInv, ControlInv, VerdictInv, ExceededOnlyByMalformedSubmission,
              vars, reportVars, turnVars
<1>3. QED
  BY <1>1, <1>2 DEF IInv

LEMMA StepInv == IInv /\ [Next]_vars => IInv'
BY FetchStep, CallModelStep, EndedByModelStep, ExecuteToolStep, SubmitStep, NextIterationStep,
   ExceedStep, StutterStep DEF Next, Terminated

(* The inductive invariant holds in every reachable state.                 *)
THEOREM Invariant == SafetySpec => []IInv
BY InitInv, StepInv, PTL DEF SafetySpec

-----------------------------------------------------------------------------
(* Every variable keeps its type; in particular the loop never makes more  *)
(* than MaxIterations model calls.                                         *)
THEOREM TypeCorrect == SafetySpec => []TypeOK
<1>1. IInv => TypeOK
  BY DEF IInv
<1>2. QED
  BY <1>1, Invariant, PTL

(* Every tool_use the engine ever sends back to the model is answered by   *)
(* one tool_result with its id, in order, in the next message.             *)
THEOREM ConversationsAreWellFormed == SafetySpec => []ConversationWellFormed
<1>1. IInv => ConversationWellFormed
  BY DEF IInv, ControlInv, ConversationInv, ConversationWellFormed
<1>2. QED
  BY <1>1, Invariant, PTL

(* A valid submission is in the last turn, and ends the review.            *)
THEOREM SubmissionsAreNotIgnored == SafetySpec => []NoSubmissionIgnored
<1>1. ASSUME IInv, NEW i \in DOMAIN messages,
             messages[i].role = "assistant", HoldsSubmission(messages[i].content)
      PROVE  i = Len(messages) /\ (pc = "tools" \/ verdict = "submitted")
  <2>1. messages \in Seq(Message) /\ iteration \in Nat
    BY <1>1, MaxIterationsAssumption DEF IInv, TypeOK
  <2>2. i \in 1..Len(messages) /\ i % 2 = 0 /\ Len(messages) \in Nat
    BY <1>1, <2>1 DEF IInv, ConversationInv
  <2>3. i = Len(messages)
    BY <1>1, <2>2 DEF IInv, ConversationInv
  <2>4. pc \in {"tools", "returned"}
    BY <1>1, <2>1, <2>2, <2>3 DEF IInv, ControlInv, TypeOK
  <2>5. pc = "returned" => verdict = "submitted"
    BY <1>1, <2>1, <2>2, <2>3 DEF IInv, VerdictInv
  <2>6. QED
    BY <2>3, <2>4, <2>5
<1>2. IInv => NoSubmissionIgnored
  BY <1>1 DEF NoSubmissionIgnored
<1>3. QED
  BY <1>2, Invariant, PTL

(* The findings returned are those of the turn's last valid submission.    *)
THEOREM LastSubmissionIsReturned == SafetySpec => []ReturnsLastSubmission
<1>1. IInv => ReturnsLastSubmission
  BY DEF IInv, VerdictInv, ReturnsLastSubmission
<1>2. QED
  BY <1>1, Invariant, PTL

(* A budget is only exceeded by a last turn of malformed submissions.      *)
THEOREM OnlyMalformedSubmissionsExceed == SafetySpec => []ExceededOnlyByMalformedSubmission
<1>1. IInv => ExceededOnlyByMalformedSubmission
  BY DEF IInv, VerdictInv
<1>2. QED
  BY <1>1, Invariant, PTL

-----------------------------------------------------------------------------
(* Every step of the loop is a step of the contract, or changes nothing    *)
(* the contract speaks of.                                                 *)
LEMMA StepImplementsContract == IInv /\ [Next]_vars => [Contract!Next]_Contract!vars
<1> SUFFICES ASSUME IInv, [Next]_vars PROVE [Contract!Next]_Contract!vars
  OBVIOUS
<1> USE DEF reportVars
<1>1. TypeOK /\ ControlInv
  BY DEF IInv
<1>2. CASE FetchMetadata \/ FetchDiff \/ ExecuteTool \/ NextIteration \/ UNCHANGED vars
  BY <1>2 DEF FetchMetadata, FetchDiff, ExecuteTool, NextIteration, vars, Contract!vars
<1>3. CASE GithubFails
  <2>1. verdict = None /\ iteration = 0 /\ verdict' = "github_error"
        /\ usage = None /\ UNCHANGED <<iteration, billed, usage>>
    BY <1>1, <1>3, NoneAssumption DEF GithubFails, Return, ControlInv
  <2>2. Contract!Outage
    BY <2>1 DEF Contract!Outage
  <2>3. QED
    BY <2>2 DEF Contract!Next
<1>4. CASE ApiFails
  <2>1. verdict = None /\ iteration < MaxIterations /\ verdict' = "api_error"
        /\ usage = None /\ UNCHANGED <<iteration, billed, usage>>
    BY <1>1, <1>4, NoneAssumption DEF ApiFails, Return, ControlInv
  <2>2. Contract!Outage
    BY <2>1 DEF Contract!Outage
  <2>3. QED
    BY <2>2 DEF Contract!Next
<1>5. CASE CallModel \/ ModelStops
  <2>1. Contract!Answered
    BY <1>1, <1>5, NoneAssumption
       DEF CallModel, ModelStops, ModelAnswers, ControlInv, Contract!Answered
  <2>2. CallModel => Contract!Investigate
    BY <2>1 DEF CallModel, Contract!Investigate
  <2>3. ModelStops => Contract!GiveUp
    BY <1>1, <2>1 DEF ModelStops, ModelAnswers, Return, ControlInv, Contract!GiveUp
  <2>4. QED
    BY <1>5, <2>2, <2>3 DEF Contract!Next
<1>6. CASE Submit \/ Exceed
  <2>1. pc = "tools" /\ verdict = None /\ iteration > 0 /\ total_tokens = billed
    BY <1>1, <1>6, MaxIterationsAssumption DEF Submit, Exceed, TurnDone, ControlInv, TypeOK
  <2>2. usage' = billed /\ UNCHANGED <<iteration, billed>>
    BY <1>6, <2>1 DEF Submit, Exceed, Return
  <2>3. \/ verdict' = "submitted"
        \/ iteration = MaxIterations /\ verdict' = "exceeded"
    BY <1>1, <1>6, MaxIterationsAssumption DEF Submit, Exceed, Return, TypeOK
  <2>4. Contract!Conclude
    BY <2>1, <2>2, <2>3 DEF Contract!Conclude
  <2>5. QED
    BY <2>4 DEF Contract!Next
<1>7. QED
  BY <1>2, <1>3, <1>4, <1>5, <1>6 DEF Next, Terminated

(* The loop implements the contract: at most MaxIterations model calls, and*)
(* a usage equal to what was billed on every verdict but an outage.        *)
THEOREM LoopImplementsContract == SafetySpec => ImplementsContract
<1>1. Init => Contract!Init
  BY DEF Init, Contract!Init
<1>2. QED
  BY <1>1, StepImplementsContract, Invariant, PTL
     DEF SafetySpec, ImplementsContract, Contract!Spec
-----------------------------------------------------------------------------
(* How far the loop is from its end: the awaits it may still reach, and,   *)
(* within a turn, the calls it has still to execute.                       *)
StagesLeft ==
    CASE pc = "metadata" -> 2 * MaxIterations + 3
      [] pc = "diff"     -> 2 * MaxIterations + 2
      [] pc = "model"    -> 2 * (MaxIterations - iteration) + 1
      [] pc = "tools"    -> 2 * (MaxIterations - iteration) + 2
      [] OTHER           -> 0

Closer ==
    \/ StagesLeft' < StagesLeft
    \/ StagesLeft' = StagesLeft /\ CallsLeft' < CallsLeft

(* Neither measure is ever negative, so they cannot fall for ever.         *)
LEMMA MeasuresAreNat == IInv => StagesLeft \in Nat /\ CallsLeft \in Nat
  BY MaxIterationsAssumption, CallsLeftIsNat DEF IInv, TypeOK, StagesLeft

(* A step between awaits leads to a later one; a tool call leaves the loop *)
(* where it is, with one call less to execute.                             *)
LEMMA StepIsCloser == IInv /\ [Next]_vars => [Closer]_vars
<1> SUFFICES ASSUME IInv, Next, ~UNCHANGED vars PROVE Closer
  OBVIOUS
<1> USE MaxIterationsAssumption
<1>1. TypeOK /\ ControlInv /\ TurnInv
  BY DEF IInv
<1>2. CASE FetchMetadata \/ FetchDiff
  BY <1>1, <1>2 DEF FetchMetadata, FetchDiff, ControlInv, StagesLeft, Closer
<1>3. CASE GithubFails \/ ApiFails \/ ModelStops \/ Submit \/ Exceed
  <2>1. pc \in {"metadata", "diff", "model", "tools"} /\ pc' = "returned"
    BY <1>3 DEF GithubFails, ApiFails, ModelStops, ModelAnswers, Submit, Exceed, TurnDone, Return
  <2>2. StagesLeft' = 0 /\ StagesLeft > 0
    BY <1>1, <2>1 DEF TypeOK, StagesLeft
  <2>3. QED
    BY <2>2 DEF Closer
<1>4. CASE CallModel
  BY <1>1, <1>4 DEF CallModel, ModelAnswers, TypeOK, StagesLeft, Closer
<1>5. CASE NextIteration
  BY <1>1, <1>5 DEF NextIteration, TurnDone, TypeOK, StagesLeft, Closer
<1>6. CASE ExecuteTool
  <2>1. StagesLeft' = StagesLeft
    BY <1>6 DEF ExecuteTool, StagesLeft
  <2>2. CallsLeft' < CallsLeft
    BY <1>1, <1>6, ExecuteCallAdvances, CallsLeftIsNat DEF ExecuteTool
  <2>3. QED
    BY <2>1, <2>2 DEF Closer
<1>7. QED
  BY <1>2, <1>3, <1>4, <1>5, <1>6 DEF Next, Terminated

(* The loop cannot go on for ever, whatever the model and GitHub answer:   *)
(* every step it takes brings it closer to its end, by a measure that      *)
(* cannot fall for ever.  What ReviewEnds adds is that it takes its steps. *)
THEOREM LoopAlwaysProgresses ==
    SafetySpec => [](StagesLeft \in Nat /\ CallsLeft \in Nat) /\ [][Closer]_vars
<1>1. QED
  BY MeasuresAreNat, StepIsCloser, Invariant, PTL DEF SafetySpec
=============================================================================
