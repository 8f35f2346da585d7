--------------------------- MODULE ToolTurnProofs ---------------------------
(***************************************************************************)
(* The invariant of a turn's execution, and its lemmas: what both engines' *)
(* proofs need to know of ToolTurn.                                        *)
(***************************************************************************)
EXTENDS ToolTurn, TLAPS

(* The first n calls of a turn hold no valid submission.                   *)
NoneValid(turn, n) == \A i \in DOMAIN turn : i <= n => ~ValidSubmission(turn[i])

(* `found' is the last valid submission among the first n calls.           *)
LastValid(turn, n, found) ==
    \E i \in DOMAIN turn :
        /\ i <= n
        /\ ValidSubmission(turn[i])
        /\ turn[i].input = found
        /\ \A j \in DOMAIN turn : j > i /\ j <= n => ~ValidSubmission(turn[j])

TurnInv ==
    /\ TurnTypeOK
    /\ Len(tool_results) <= Len(calls)
    /\ \A i \in DOMAIN tool_results : tool_results[i].tool_use_id = calls[i].id
    /\ submitted_findings = None => NoneValid(calls, Len(tool_results))
    /\ submitted_findings # None => LastValid(calls, Len(tool_results), submitted_findings)

(* Starting a turn, or clearing it, establishes the invariant.             *)
LEMMA StartTurnInv ==
    ASSUME NEW turn \in Seq(Calls), StartTurn(turn)
    PROVE  TurnInv'
BY DEF StartTurn, TurnInv, TurnTypeOK, NoneValid

(* A valid submission carries a findings list.                             *)
LEMMA ValidInput ==
    ASSUME NEW c \in Calls, ValidSubmission(c)
    PROVE  c.input \in FindingLists
BY CallsAssumption DEF ValidSubmission

(* Every answer to a call is a well-typed tool_result with the call's id,  *)
(* appended to the results.                                                *)
LEMMA AnswerAppends ==
    ASSUME TurnInv, TurnRunning, NEW content \in GoodAnswers \cup ErrorAnswers, Answer(content)
    PROVE  /\ CurrentCall \in Calls
           /\ Len(tool_results) + 1 \in DOMAIN calls
           /\ tool_results' \in Seq(ToolResult)
           /\ Len(tool_results') = Len(tool_results) + 1
           /\ \A i \in 1..Len(tool_results) : tool_results'[i] = tool_results[i]
           /\ tool_results'[Len(tool_results) + 1].tool_use_id = CurrentCall.id
           /\ tool_results'[Len(tool_results) + 1].content = content
<1>1. /\ calls \in Seq(Calls) /\ tool_results \in Seq(ToolResult)
      /\ Len(tool_results) \in Nat /\ Len(calls) \in Nat
      /\ Len(tool_results) < Len(calls)
  BY DEF TurnInv, TurnTypeOK, TurnRunning
<1>2. Len(tool_results) + 1 \in DOMAIN calls /\ CurrentCall \in Calls
  BY <1>1 DEF CurrentCall
<1>3. PICK r : /\ r = [tool_use_id |-> CurrentCall.id, content |-> content,
                       is_error |-> content \in ErrorAnswers]
               /\ tool_results' = Append(tool_results, r)
  BY DEF Answer
<1>4. r \in ToolResult /\ r.tool_use_id = CurrentCall.id /\ r.content = content
  BY <1>2, <1>3 DEF ToolResult
<1>5. QED
  BY <1>1, <1>2, <1>3, <1>4

(* Executing one call preserves the invariant.                             *)
LEMMA ExecuteCallInv ==
    ASSUME TurnInv, NEW allowed, ExecuteCall(allowed)
    PROVE  TurnInv'
<1> DEFINE n == Len(tool_results)
<1>1. TurnRunning /\ UNCHANGED calls /\ n \in Nat /\ calls \in Seq(Calls)
  BY DEF ExecuteCall, TurnInv, TurnTypeOK
<1>2. PICK content \in GoodAnswers \cup ErrorAnswers :
        /\ Answer(content)
        /\ \/ ValidSubmission(CurrentCall) /\ submitted_findings' = CurrentCall.input
           \/ ~ValidSubmission(CurrentCall) /\ UNCHANGED submitted_findings
  BY DEF ExecuteCall, AcceptSubmission, RejectSubmission, RejectUnknownTool, RejectForeignTool,
         RejectArguments, RunTool, GoodAnswers, ErrorAnswers, ValidSubmission, TOOL_EXECUTORS
<1>3. /\ CurrentCall \in Calls
      /\ n + 1 \in DOMAIN calls
      /\ tool_results' \in Seq(ToolResult)
      /\ Len(tool_results') = n + 1
      /\ \A i \in 1..n : tool_results'[i] = tool_results[i]
      /\ tool_results'[n + 1].tool_use_id = CurrentCall.id
  BY <1>1, <1>2, AnswerAppends
<1>4. Len(tool_results') <= Len(calls')
  BY <1>1, <1>3
<1>5. \A i \in DOMAIN tool_results' : tool_results'[i].tool_use_id = calls'[i].id
  BY <1>1, <1>3 DEF TurnInv, TurnTypeOK, CurrentCall
<1>6. CASE ValidSubmission(CurrentCall) /\ submitted_findings' = CurrentCall.input
  <2>1. submitted_findings' \in FindingLists /\ submitted_findings' # None
    BY <1>3, <1>6, ValidInput, FindingListsAssumption
  <2>2. LastValid(calls, n + 1, CurrentCall.input)
    BY <1>1, <1>3, <1>6 DEF LastValid, CurrentCall
  <2>3. QED
    BY <1>1, <1>3, <1>4, <1>5, <1>6, <2>1, <2>2 DEF TurnInv, TurnTypeOK
<1>7. CASE ~ValidSubmission(CurrentCall) /\ UNCHANGED submitted_findings
  <2>1. ~ValidSubmission(calls[n + 1])
    BY <1>7 DEF CurrentCall
  <2>2. submitted_findings = None => NoneValid(calls, n + 1)
    BY <1>1, <2>1 DEF TurnInv, NoneValid
  <2>3. submitted_findings # None => LastValid(calls, n + 1, submitted_findings)
    BY <1>1, <2>1 DEF TurnInv, LastValid
  <2>4. QED
    BY <1>1, <1>3, <1>4, <1>5, <1>7, <2>2, <2>3 DEF TurnInv, TurnTypeOK
<1>8. QED
  BY <1>2, <1>6, <1>7
-----------------------------------------------------------------------------
(* The calls of a turn still to be executed: a count, and one less after   *)
(* each execution, whatever becomes of the call.                           *)
CallsLeft == Len(calls) - Len(tool_results)

LEMMA CallsLeftIsNat == TurnInv => CallsLeft \in Nat
  BY DEF TurnInv, TurnTypeOK, CallsLeft

LEMMA ExecuteCallAdvances ==
    ASSUME TurnInv, NEW allowed, ExecuteCall(allowed)
    PROVE  CallsLeft' = CallsLeft - 1
<1>1. calls' = calls /\ calls \in Seq(Calls) /\ tool_results \in Seq(ToolResult)
  BY DEF ExecuteCall, TurnInv, TurnTypeOK
<1>2. \E content \in GoodAnswers \cup ErrorAnswers : Answer(content)
  BY DEF ExecuteCall, AcceptSubmission, RejectSubmission, RejectUnknownTool, RejectForeignTool,
         RejectArguments, RunTool, GoodAnswers, ErrorAnswers
<1>3. Len(tool_results') = Len(tool_results) + 1
  BY <1>2, AnswerAppends DEF ExecuteCall
<1>4. QED
  BY <1>1, <1>3 DEF CallsLeft
=============================================================================
