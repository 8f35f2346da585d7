------------------------ MODULE ReviewRequestProofs -------------------------
(***************************************************************************)
(* Proofs about ReviewRequest, for any number of requests, engines,        *)
(* budgets, costs and pushes.                                              *)
(***************************************************************************)
EXTENDS ReviewRequest, TLAPS

USE EnginesAssumption, CostsAssumption

LEMMA NoneFacts ==
    None \notin Nat /\ None \notin {"loop", "graph", "workflow"} /\ None \notin Errors
  BY NoneAssumption
LEMMA NoneIsNoResponse == None \notin Response
  BY NoneAssumption

USE NoneFacts

InConversation == {"model", "tools"}
Preparing      == {"received", "token", "metadata", "diff"}

LEMMA BudgetIsPositive == \A e \in Engines : MaxIterations[e] \in Nat /\ MaxIterations[e] > 0
  BY MaxIterationsAssumption

(* A request has its two commits once it converses, the diff's no earlier  *)
(* than the other, and what its tools have read is of the latter.          *)
ContextOK(r) ==
    /\ pc[r] = "diff" => ref[r] # None
    /\ pc[r] \in InConversation => ref[r] # None /\ diff[r] # None /\ ref[r] <= diff[r]
    /\ \A result \in Reads(r) : pc[r] \in InConversation /\ result.of = ref[r]

(* What a request may still spend, and what its answer tells of it.        *)
BudgetOK(r) ==
    /\ pc[r] = "received" => engine[r] = None
    /\ pc[r] \notin {"received", "answered"} => engine[r] \in Engines
    /\ pc[r] \in Preparing => turns[r] = 0 /\ spent[r] = 0
    /\ pc[r] = "model" => turns[r] < CallsAllowed(r)
    /\ pc[r] = "tools" => turns[r] > 0 /\ turns[r] <= CallsAllowed(r)

CostOK(r) ==
    /\ response[r] = None => untold[r] = 0
    /\ response[r] # None =>
        /\ response[r].usage # None =>
              /\ response[r].usage + untold[r] = spent[r]
              /\ SingleAgent(r) => untold[r] = 0
        /\ response[r].usage = None /\ spent[r] > 0 =>
              \/ response[r].error = "api_error"
              \/ engine[r] = "workflow" /\ response[r].status = 500

RequestOK(r) == ContextOK(r) /\ BudgetOK(r) /\ CostOK(r)

Inv == TypeOK /\ \A r \in Requests : RequestOK(r)

-----------------------------------------------------------------------------
(* The step of one request leaves every other as it is.                    *)
Others(r) ==
    \A q \in Requests \ {r} :
        /\ pc'[q] = pc[q] /\ engine'[q] = engine[q]
        /\ ref'[q] = ref[q] /\ diff'[q] = diff[q] /\ shown'[q] = shown[q]
        /\ turns'[q] = turns[q] /\ spent'[q] = spent[q] /\ untold'[q] = untold[q]
        /\ response'[q] = response[q]

LEMMA OthersOK ==
    ASSUME Inv, NEW r \in Requests, Others(r)
    PROVE  \A q \in Requests \ {r} : RequestOK(q)'
  BY DEF Inv, Others, RequestOK, ContextOK, BudgetOK, CostOK, Reads, CallsAllowed, SingleAgent

(* What a step of a request has to establish.                              *)
Kept(r) == TypeOK' /\ Others(r) /\ RequestOK(r)'

LEMMA KeptInv ==
    ASSUME Inv, NEW r \in Requests, Kept(r)
    PROVE  Inv'
  BY OthersOK DEF Kept, Inv

(* What answering does to the answered request and to the others.          *)
Answers(r, status, error, usage) ==
    /\ pc' \in [Requests ->
          {"received", "token", "metadata", "diff", "model", "tools", "answered"}]
    /\ ref' \in [Requests -> 0..head \cup {None}]
    /\ diff' \in [Requests -> 0..head \cup {None}]
    /\ shown' \in [Requests -> SUBSET ToolResult]
    /\ response' \in [Requests -> Response \cup {None}]
    /\ \A q \in Requests : (response'[q] # None) = (pc'[q] = "answered")
    /\ pc'[r] = "answered" /\ shown'[r] = {}
    /\ response'[r] = [status |-> status, error |-> error, usage |-> usage]
    /\ \A q \in Requests \ {r} :
          /\ pc'[q] = pc[q] /\ ref'[q] = ref[q] /\ diff'[q] = diff[q]
          /\ shown'[q] = shown[q] /\ response'[q] = response[q]

LEMMA RespondFacts ==
    ASSUME TypeOK, NEW r \in Requests, NEW status \in Statuses, NEW error \in Errors \cup {None},
           NEW usage \in Nat \cup {None}, Respond(r, status, error, usage)
    PROVE  Answers(r, status, error, usage)
<1> DEFINE answer == [status |-> status, error |-> error, usage |-> usage]
<1>1. answer \in Response /\ answer # None
  BY NoneIsNoResponse DEF Response
<1>2. response' = [response EXCEPT ![r] = answer]
  BY DEF Respond
<1> HIDE DEF answer
<1>3. /\ response' \in [Requests -> Response \cup {None}] /\ response'[r] = answer
      /\ \A q \in Requests \ {r} : response'[q] = response[q]
  BY <1>1, <1>2 DEF TypeOK, Response
<1>4. /\ pc' \in [Requests ->
            {"received", "token", "metadata", "diff", "model", "tools", "answered"}]
      /\ pc'[r] = "answered"
      /\ \A q \in Requests \ {r} : pc'[q] = pc[q]
  BY DEF TypeOK, Respond
<1>5. /\ ref' \in [Requests -> 0..head \cup {None}]
      /\ diff' \in [Requests -> 0..head \cup {None}]
      /\ shown' \in [Requests -> SUBSET ToolResult] /\ shown'[r] = {}
      /\ \A q \in Requests \ {r} :
            ref'[q] = ref[q] /\ diff'[q] = diff[q] /\ shown'[q] = shown[q]
  BY DEF TypeOK, Respond
<1>6. \A q \in Requests : (response'[q] # None) = (pc'[q] = "answered")
  BY <1>1, <1>3, <1>4 DEF TypeOK
<1> QED  BY <1>3, <1>4, <1>5, <1>6 DEF answer, Answers
(* An answer that tells the right cost ends the request properly.          *)
LEMMA RespondKeeps ==
    ASSUME Inv, NEW r \in Requests, NEW status \in Statuses, NEW error \in Errors \cup {None},
           NEW usage \in Nat \cup {None}, Respond(r, status, error, usage),
           head' = head, engine' = engine,
           turns' \in [Requests -> Nat], spent' \in [Requests -> Nat],
           untold' \in [Requests -> Nat],
           \A q \in Requests \ {r} :
              turns'[q] = turns[q] /\ spent'[q] = spent[q] /\ untold'[q] = untold[q],
           usage # None => usage + untold'[r] = spent'[r] /\ (SingleAgent(r) => untold'[r] = 0),
           usage = None /\ spent'[r] > 0 =>
              error = "api_error" \/ (engine[r] = "workflow" /\ status = 500)
    PROVE  Kept(r)
<1>1. TypeOK /\ Answers(r, status, error, usage)
  BY RespondFacts DEF Inv
<1>2. TypeOK'
  BY <1>1 DEF TypeOK, ToolResult, Answers
<1>3. Others(r)
  BY <1>1 DEF Others, Answers
<1>4. ContextOK(r)' /\ BudgetOK(r)'
  BY <1>1 DEF ContextOK, BudgetOK, Reads, InConversation, Preparing, Answers
<1>5. CostOK(r)'
  <2>1. /\ response'[r].status = status /\ response'[r].error = error
        /\ response'[r].usage = usage /\ response'[r] # None
    BY <1>1 DEF Answers, TypeOK
  <2> QED  BY <2>1 DEF CostOK, SingleAgent
<1> QED  BY <1>2, <1>3, <1>4, <1>5 DEF Kept, RequestOK

(* Whatever the engine's end, the router passes its usage on or has none;  *)
(* one that is dropped was no more than an outage's, or an escape's.       *)
LEMMA TranslateFacts ==
    ASSUME NEW r \in Requests, NEW usage \in Nat \cup {None},
           NEW end \in {"submitted", "no_submit", "exceeded", "all_failed", "api_error",
                        "github_error", "internal_error"},
           Translate(r, end, usage)
    PROVE  \E status \in Statuses : \E error \in Errors \cup {None} : \E told \in {usage, None} :
              /\ Respond(r, status, error, told)
              /\ end \in {"submitted", "no_submit", "exceeded", "all_failed"} => told = usage
              /\ end = "submitted" => status = 200
              /\ end # "submitted" => error = end /\ status # 200
              /\ end \in {"github_error", "internal_error"} => status = 500
              /\ end \in {"api_error", "github_error", "internal_error"} => told = None
<1>1. CASE end = "submitted"
  BY <1>1 DEF Translate, Statuses
<1>2. CASE end \in {"no_submit", "exceeded", "all_failed"}
  BY <1>2 DEF Translate, Statuses, Errors
<1>3. CASE end = "api_error"
  BY <1>3 DEF Translate, Statuses, Errors
<1>4. CASE end \in {"github_error", "internal_error"}
  BY <1>4 DEF Translate, Statuses, Errors
<1> QED  BY <1>1, <1>2, <1>3, <1>4

-----------------------------------------------------------------------------
LEMMA InitInv == Init => Inv
<1> SUFFICES ASSUME Init PROVE Inv
  OBVIOUS
<1>1. TypeOK
  BY DEF Init, TypeOK, ToolResult
<1>2. \A r \in Requests : RequestOK(r)
  BY DEF Init, RequestOK, ContextOK, BudgetOK, CostOK, Reads, InConversation, Preparing
<1> QED  BY <1>1, <1>2 DEF Inv

LEMMA PushInv ==
    ASSUME Inv, Push
    PROVE  Inv'
<1>1. TypeOK /\ head' \in Nat /\ head < head'
  BY DEF Inv, TypeOK, Push
<1>2. 0..head \subseteq 0..head'
  BY <1>1 DEF TypeOK
<1>3. ToolResult \subseteq ToolResult'
  BY <1>2 DEF ToolResult
<1>4. TypeOK'
  <2>1. shown' \in [Requests -> SUBSET ToolResult']
    BY <1>1, <1>3 DEF TypeOK, Push, context
  <2>2. ref' \in [Requests -> 0..head' \cup {None}] /\ diff' \in [Requests -> 0..head' \cup {None}]
    BY <1>1, <1>2 DEF TypeOK, Push, context
  <2> QED  BY <1>1, <2>1, <2>2 DEF TypeOK, Push, context
<1>5. \A r \in Requests : RequestOK(r)'
  BY DEF Inv, Push, context, RequestOK, ContextOK, BudgetOK, CostOK, Reads, CallsAllowed,
         SingleAgent
<1> QED  BY <1>4, <1>5 DEF Inv

(* A request that goes on: nothing is answered, nothing lost.              *)
LEMMA RejectsKeeps ==
    ASSUME Inv, NEW r \in Requests, Rejects(r)
    PROVE  Kept(r)
<1>1. /\ turns[r] = 0 /\ spent[r] = 0
      /\ turns' = turns /\ spent' = spent /\ untold' = untold /\ head' = head /\ engine' = engine
      /\ TypeOK
  BY DEF Inv, RequestOK, BudgetOK, Preparing, Rejects
<1>2. \E status \in Statuses : \E error \in Errors : Respond(r, status, error, None)
  BY DEF Rejects, Statuses, Errors
<1>3. /\ turns' \in [Requests -> Nat] /\ spent' \in [Requests -> Nat]
      /\ untold' \in [Requests -> Nat]
  BY <1>1 DEF TypeOK
<1> QED  BY <1>1, <1>2, <1>3, RespondKeeps

LEMMA AcceptsKeeps ==
    ASSUME Inv, NEW r \in Requests, Accepts(r)
    PROVE  Kept(r)
<1>1. TypeOK /\ RequestOK(r)
  BY DEF Inv
<1>2. TypeOK'
  BY <1>1 DEF TypeOK, Accepts, context, ToolResult
<1>3. Others(r)
  BY <1>1 DEF TypeOK, Accepts, context, Others
<1>4. RequestOK(r)'
  BY <1>1 DEF TypeOK, Accepts, context, RequestOK, ContextOK, BudgetOK, CostOK, Reads,
             InConversation, Preparing
<1> QED  BY <1>2, <1>3, <1>4 DEF Kept

LEMMA GetsTokenKeeps ==
    ASSUME Inv, NEW r \in Requests, GetsToken(r)
    PROVE  Kept(r)
<1>1. TypeOK /\ RequestOK(r)
  BY DEF Inv
<1>2. TypeOK'
  BY <1>1 DEF TypeOK, GetsToken, context, ToolResult
<1>3. Others(r)
  BY <1>1 DEF TypeOK, GetsToken, context, Others
<1>4. RequestOK(r)'
  BY <1>1 DEF TypeOK, GetsToken, context, RequestOK, ContextOK, BudgetOK, CostOK, Reads,
             InConversation, Preparing
<1> QED  BY <1>2, <1>3, <1>4 DEF Kept

LEMMA FetchesMetadataKeeps ==
    ASSUME Inv, NEW r \in Requests, FetchesMetadata(r)
    PROVE  Kept(r)
<1>1. TypeOK /\ RequestOK(r)
  BY DEF Inv
<1>2. TypeOK'
  BY <1>1 DEF TypeOK, FetchesMetadata, ToolResult
<1>3. Others(r)
  BY <1>1 DEF TypeOK, FetchesMetadata, Others
<1>4. RequestOK(r)'
  BY <1>1 DEF TypeOK, FetchesMetadata, RequestOK, ContextOK, BudgetOK, CostOK, Reads,
             InConversation, Preparing
<1> QED  BY <1>2, <1>3, <1>4 DEF Kept

(* The diff is fetched second, and commits are only added.                 *)
LEMMA FetchesDiffKeeps ==
    ASSUME Inv, NEW r \in Requests, FetchesDiff(r)
    PROVE  Kept(r)
<1>1. TypeOK /\ RequestOK(r)
  BY DEF Inv
<1>2. TypeOK'
  BY <1>1 DEF TypeOK, FetchesDiff, ToolResult
<1>3. Others(r)
  BY <1>1 DEF TypeOK, FetchesDiff, Others
<1>4. ref[r] # None /\ ref[r] <= head /\ turns[r] = 0 /\ engine[r] \in Engines
  BY <1>1 DEF TypeOK, FetchesDiff, RequestOK, ContextOK, BudgetOK, Preparing
<1>5. pc'[r] = "model" /\ diff'[r] = head
  BY <1>1 DEF TypeOK, FetchesDiff
<1>6. CallsAllowed(r) > 0
  BY <1>4, BudgetIsPositive DEF CallsAllowed
<1>7. RequestOK(r)'
  BY <1>1, <1>4, <1>5, <1>6 DEF TypeOK, FetchesDiff, RequestOK, ContextOK, BudgetOK, CostOK, Reads,
             CallsAllowed, SingleAgent, InConversation, Preparing
<1> QED  BY <1>2, <1>3, <1>7 DEF Kept
(* The three calls before the conversation bill nothing.                   *)
LEMMA GithubFailsKeeps ==
    ASSUME Inv, NEW r \in Requests, GithubFails(r)
    PROVE  Kept(r)
<1>1. /\ TypeOK /\ RequestOK(r) /\ pc[r] \in {"token", "metadata", "diff"}
      /\ turns' = turns /\ spent' = spent /\ untold' = untold /\ head' = head /\ engine' = engine
  BY DEF Inv, GithubFails
<1>2. ~(spent'[r] > 0)
  BY <1>1 DEF RequestOK, BudgetOK, Preparing
<1>3. Respond(r, 500, "github_error", None)
  BY DEF GithubFails, Translate
<1>4. 500 \in Statuses /\ "github_error" \in Errors \cup {None}
  BY DEF Statuses, Errors
<1>5. /\ turns' \in [Requests -> Nat] /\ spent' \in [Requests -> Nat]
      /\ untold' \in [Requests -> Nat]
  BY <1>1 DEF TypeOK
<1> QED  BY <1>1, <1>2, <1>3, <1>4, <1>5, RespondKeeps

LEMMA ModelAnswersFacts ==
    ASSUME TypeOK, NEW r \in Requests, ModelAnswers(r)
    PROVE  /\ turns' \in [Requests -> Nat] /\ turns'[r] = turns[r] + 1
           /\ spent' \in [Requests -> Nat] /\ spent'[r] \in Nat
           /\ \E c \in Costs : spent'[r] = spent[r] + c
           /\ \A q \in Requests \ {r} : turns'[q] = turns[q] /\ spent'[q] = spent[q]
<1>1. PICK c \in Costs : spent' = [spent EXCEPT ![r] = @ + c]
  BY DEF ModelAnswers
<1>2. c \in Nat /\ turns[r] \in Nat /\ spent[r] \in Nat
  BY DEF TypeOK
<1>3. /\ spent' \in [Requests -> Nat] /\ spent'[r] = spent[r] + c
      /\ \A q \in Requests \ {r} : spent'[q] = spent[q]
  BY <1>1, <1>2 DEF TypeOK
<1>4. /\ turns' \in [Requests -> Nat] /\ turns'[r] = turns[r] + 1
      /\ \A q \in Requests \ {r} : turns'[q] = turns[q]
  BY <1>2 DEF TypeOK, ModelAnswers
<1> QED  BY <1>2, <1>3, <1>4

LEMMA AsksForToolsKeeps ==
    ASSUME Inv, NEW r \in Requests, AsksForTools(r)
    PROVE  Kept(r)
<1>1. TypeOK /\ RequestOK(r) /\ pc[r] = "model"
  BY DEF Inv, AsksForTools, ModelAnswers
<1>2. /\ turns' \in [Requests -> Nat] /\ turns'[r] = turns[r] + 1
      /\ spent' \in [Requests -> Nat]
      /\ \A q \in Requests \ {r} : turns'[q] = turns[q] /\ spent'[q] = spent[q]
  BY <1>1, ModelAnswersFacts DEF AsksForTools
<1>3. /\ pc' = [pc EXCEPT ![r] = "tools"]
      /\ UNCHANGED <<head, engine, ref, diff, shown, response, untold>>
  BY DEF AsksForTools, context
<1>4. TypeOK'
  BY <1>1, <1>2, <1>3 DEF TypeOK, ToolResult
<1>5. Others(r)
  BY <1>1, <1>2, <1>3 DEF TypeOK, Others
<1>6. engine[r] \in Engines /\ turns[r] < CallsAllowed(r) /\ CallsAllowed(r) \in Nat
      /\ turns[r] \in Nat
  BY <1>1, BudgetIsPositive DEF RequestOK, BudgetOK, CallsAllowed, TypeOK
<1>7. pc'[r] = "tools" /\ response[r] = None
  BY <1>1, <1>3 DEF TypeOK
<1>8. BudgetOK(r)'
  BY <1>2, <1>3, <1>6, <1>7 DEF BudgetOK, CallsAllowed, Preparing
<1>9. ContextOK(r)' /\ CostOK(r)'
  BY <1>1, <1>3, <1>7 DEF RequestOK, ContextOK, CostOK, Reads, InConversation
<1> QED  BY <1>4, <1>5, <1>8, <1>9 DEF Kept, RequestOK

(* A tool reads at the commit that the request was told of.                *)
LEMMA ShowsKeeps ==
    ASSUME Inv, NEW r \in Requests, pc[r] = "tools",
           NEW result \in {[tool |-> "read", of |-> ref[r]], [tool |-> "search", of |-> None]},
           Shows(r, result)
    PROVE  Kept(r)
<1>1. TypeOK /\ RequestOK(r)
  BY DEF Inv
<1>2. ref[r] \in 0..head /\ result \in ToolResult
  BY <1>1 DEF TypeOK, RequestOK, ContextOK, InConversation, ToolResult
<1>3. result.tool = "read" => result.of = ref[r]
  OBVIOUS
<1> HIDE DEF ToolResult
<1>4. /\ shown' \in [Requests -> SUBSET ToolResult]
      /\ shown'[r] = shown[r] \cup {result}
      /\ \A q \in Requests \ {r} : shown'[q] = shown[q]
  BY <1>1, <1>2 DEF TypeOK, Shows
<1>5. UNCHANGED <<head, pc, engine, ref, diff, turns, response, spent, untold>>
  BY DEF Shows
<1>6. TypeOK'
  BY <1>1, <1>4, <1>5 DEF TypeOK, ToolResult
<1>7. Others(r)
  BY <1>4, <1>5 DEF Others
<1>8. ContextOK(r)'
  BY <1>1, <1>3, <1>4, <1>5 DEF RequestOK, ContextOK, Reads, InConversation
<1>9. BudgetOK(r)' /\ CostOK(r)'
  BY <1>1, <1>5 DEF RequestOK, BudgetOK, CostOK, CallsAllowed, SingleAgent
<1> QED  BY <1>6, <1>7, <1>8, <1>9 DEF Kept, RequestOK

LEMMA NextIterationKeeps ==
    ASSUME Inv, NEW r \in Requests, NextIteration(r)
    PROVE  Kept(r)
<1>1. TypeOK /\ RequestOK(r)
  BY DEF Inv
<1>2. /\ pc' = [pc EXCEPT ![r] = "model"] /\ pc[r] = "tools" /\ turns[r] < CallsAllowed(r)
      /\ UNCHANGED <<head, engine, ref, diff, shown, turns, response, spent, untold>>
  BY DEF NextIteration, context
<1>3. TypeOK'
  BY <1>1, <1>2 DEF TypeOK, ToolResult
<1>4. Others(r)
  BY <1>1, <1>2 DEF TypeOK, Others
<1>5. pc'[r] = "model"
  BY <1>1, <1>2 DEF TypeOK
<1>6. RequestOK(r)'
  BY <1>1, <1>2, <1>5 DEF RequestOK, ContextOK, BudgetOK, CostOK, Reads, CallsAllowed,
             SingleAgent, InConversation, Preparing
<1> QED  BY <1>3, <1>4, <1>6 DEF Kept

(* A single agent's ends all tell what was spent, but for an API failure.  *)
LEMMA StopsTalkingKeeps ==
    ASSUME Inv, NEW r \in Requests, StopsTalking(r)
    PROVE  Kept(r)
<1>1. TypeOK /\ RequestOK(r) /\ pc[r] = "model" /\ head' = head /\ engine' = engine
      /\ untold' = untold
  BY DEF Inv, StopsTalking, ModelAnswers
<1>2. /\ turns' \in [Requests -> Nat] /\ spent' \in [Requests -> Nat] /\ spent'[r] \in Nat
      /\ \A q \in Requests \ {r} : turns'[q] = turns[q] /\ spent'[q] = spent[q]
  BY <1>1, ModelAnswersFacts DEF StopsTalking
<1>3. PICK status \in Statuses, error \in Errors \cup {None} :
          Respond(r, status, error, spent'[r])
  <2>1. Translate(r, "no_submit", spent'[r])
    BY DEF StopsTalking
  <2> QED  BY <1>2, <2>1, TranslateFacts
<1>4. untold'[r] = 0 /\ untold' \in [Requests -> Nat]
  BY <1>1 DEF TypeOK, RequestOK, CostOK
<1> QED  BY <1>1, <1>2, <1>3, <1>4, RespondKeeps

LEMMA ConcludesKeeps ==
    ASSUME Inv, NEW r \in Requests, Concludes(r)
    PROVE  Kept(r)
<1>1. TypeOK /\ RequestOK(r) /\ pc[r] = "tools"
      /\ head' = head /\ engine' = engine /\ turns' = turns /\ spent' = spent /\ untold' = untold
  BY DEF Inv, Concludes
<1>2. /\ turns' \in [Requests -> Nat] /\ spent' \in [Requests -> Nat] /\ spent[r] \in Nat
      /\ untold' \in [Requests -> Nat] /\ untold'[r] = 0
  BY <1>1 DEF TypeOK, RequestOK, CostOK
<1>3. PICK status \in Statuses, error \in Errors \cup {None} :
          Respond(r, status, error, spent[r])
  <2>1. Translate(r, "submitted", spent[r]) \/ Translate(r, "exceeded", spent[r])
    BY DEF Concludes
  <2> QED  BY <1>2, <2>1, TranslateFacts
<1> QED  BY <1>1, <1>2, <1>3, RespondKeeps

LEMMA ApiFailsKeeps ==
    ASSUME Inv, NEW r \in Requests, ApiFails(r)
    PROVE  Kept(r)
<1>1. TypeOK /\ head' = head /\ engine' = engine /\ turns' = turns /\ spent' = spent
      /\ untold' = untold
  BY DEF Inv, ApiFails
<1>2. /\ turns' \in [Requests -> Nat] /\ spent' \in [Requests -> Nat]
      /\ untold' \in [Requests -> Nat]
  BY <1>1 DEF TypeOK
<1>3. Respond(r, 502, "api_error", None)
  BY DEF ApiFails, Translate
<1>4. 502 \in Statuses /\ "api_error" \in Errors \cup {None}
  BY DEF Statuses, Errors
<1> QED  BY <1>1, <1>2, <1>3, <1>4, RespondKeeps

LEMMA WorkflowConcludesKeeps ==
    ASSUME Inv, NEW r \in Requests, WorkflowConcludes(r)
    PROVE  Kept(r)
<1>1. TypeOK /\ head' = head /\ engine' = engine /\ turns' = turns /\ spent' = spent
      /\ engine[r] = "workflow" /\ spent[r] \in Nat
  BY DEF Inv, TypeOK, WorkflowConcludes
<1>2. PICK lost \in 0..spent[r], end \in {"submitted", "all_failed"} :
          /\ untold' = [untold EXCEPT ![r] = lost]
          /\ Translate(r, end, spent[r] - lost)
  BY DEF WorkflowConcludes
<1>3. spent[r] - lost \in Nat /\ lost \in Nat
  BY <1>1
<1>4. /\ turns' \in [Requests -> Nat] /\ spent' \in [Requests -> Nat]
      /\ untold' \in [Requests -> Nat] /\ untold'[r] = lost
      /\ \A q \in Requests \ {r} : untold'[q] = untold[q]
  BY <1>1, <1>2, <1>3 DEF TypeOK
<1>5. PICK status \in Statuses, error \in Errors \cup {None} :
          Respond(r, status, error, spent[r] - lost)
  BY <1>2, <1>3, TranslateFacts
<1> QED  BY <1>1, <1>3, <1>4, <1>5, RespondKeeps DEF SingleAgent

LEMMA WorkflowEscapesKeeps ==
    ASSUME Inv, NEW r \in Requests, WorkflowEscapes(r)
    PROVE  Kept(r)
<1>1. TypeOK /\ head' = head /\ engine' = engine /\ turns' = turns /\ spent' = spent
      /\ untold' = untold /\ engine[r] = "workflow"
  BY DEF Inv, WorkflowEscapes
<1>2. /\ turns' \in [Requests -> Nat] /\ spent' \in [Requests -> Nat]
      /\ untold' \in [Requests -> Nat]
  BY <1>1 DEF TypeOK
<1>3. Respond(r, 500, "internal_error", None)
  BY DEF WorkflowEscapes, Translate
<1>4. 500 \in Statuses /\ "internal_error" \in Errors \cup {None}
  BY DEF Statuses, Errors
<1> QED  BY <1>1, <1>2, <1>3, <1>4, RespondKeeps
-----------------------------------------------------------------------------
(* One lemma above for each action, and one step here.                     *)
LEMMA HandlerKeeps ==
    ASSUME Inv, NEW r \in Requests, Handler(r)
    PROVE  Kept(r)
<1>1. CASE Prepares(r)
  BY <1>1, RejectsKeeps, AcceptsKeeps, GetsTokenKeeps, FetchesMetadataKeeps, FetchesDiffKeeps,
     GithubFailsKeeps DEF Prepares
<1>2. CASE Reviews(r)
  <2>1. CASE ReadsRepository(r) \/ SearchesCode(r)
    BY <2>1, ShowsKeeps DEF ReadsRepository, SearchesCode
  <2>2. CASE AsksForTools(r) \/ NextIteration(r)
    BY <2>2, AsksForToolsKeeps, NextIterationKeeps
  <2>3. CASE StopsTalking(r) \/ Concludes(r) \/ ApiFails(r)
    BY <2>3, StopsTalkingKeeps, ConcludesKeeps, ApiFailsKeeps
  <2>4. CASE WorkflowConcludes(r) \/ WorkflowEscapes(r)
    BY <2>4, WorkflowConcludesKeeps, WorkflowEscapesKeeps
  <2> QED  BY <1>2, <2>1, <2>2, <2>3, <2>4 DEF Reviews
<1> QED  BY <1>1, <1>2 DEF Handler

LEMMA StutterInv == Inv /\ UNCHANGED vars => Inv'
<1> SUFFICES ASSUME Inv, UNCHANGED vars PROVE Inv'
  OBVIOUS
<1>1. TypeOK'
  BY DEF Inv, vars, context, TypeOK, ToolResult
<1>2. \A r \in Requests : RequestOK(r)'
  BY DEF Inv, vars, context, RequestOK, ContextOK, BudgetOK, CostOK, Reads, CallsAllowed,
         SingleAgent
<1> QED  BY <1>1, <1>2 DEF Inv

THEOREM Invariance == Spec => []Inv
<1>1. Inv /\ [Next]_vars => Inv'
  BY HandlerKeeps, KeptInv, PushInv, StutterInv DEF Next, Terminated
<1> QED  BY InitInv, <1>1, PTL DEF Spec

(* Every variable stays within its type, and exactly the answered requests *)
(* have a response.                                                        *)
THEOREM TypeCorrect == Spec => []TypeOK
<1>1. Inv => TypeOK
  BY DEF Inv
<1> QED  BY Invariance, <1>1, PTL

(* Whatever is pushed and whoever else is reviewed, a request's tools read *)
(* one commit, and none that is later than the diff it reviews.            *)
THEOREM ToolsReadOneCommit == Spec => []ReadsOneCommit
<1>1. Inv => ReadsOneCommit
  BY DEF Inv, RequestOK, ContextOK, ReadsOneCommit, InConversation
<1> QED  BY Invariance, <1>1, PTL

(* Every answer tells what its own review was billed, but for the failures *)
(* of the Claude API and for what the workflow engine itself does not know.*)
THEOREM AnswersTellTheCost == Spec => []CostIsTold
<1>1. Inv => CostIsTold
  BY DEF Inv, RequestOK, CostOK, CostIsTold
<1> QED  BY Invariance, <1>1, PTL

-----------------------------------------------------------------------------
(* What a caller sees of a request by a single-agent engine.               *)
SingleAgents == Engines \ {"workflow"}

ContractStep(r) ==
    \A e \in SingleAgents :
        engine[r] = e => Engine(r, e)!Next \/ UNCHANGED Engine(r, e)!vars

LEMMA UnseenStep ==
    ASSUME NEW r, engine'[r] = engine[r], turns'[r] = turns[r], spent'[r] = spent[r],
           response'[r] = response[r]
    PROVE  ContractStep(r)
  BY DEF ContractStep, Engine!vars, RequestVerdict, RequestUsage, Seen, SingleAgent

(* Before its answer a caller has seen nothing; its answer is what it sees.*)
LEMMA Running ==
    ASSUME TypeOK, NEW r \in Requests, pc[r] # "answered"
    PROVE  RequestVerdict(r) = None /\ RequestUsage(r) = None
  BY DEF TypeOK, RequestVerdict, RequestUsage, Seen

LEMMA Answering ==
    ASSUME TypeOK, NEW r \in Requests, engine' = engine, engine[r] \in SingleAgents,
           NEW status \in Statuses, NEW error \in Errors \cup {None}, NEW usage \in Nat \cup {None},
           Respond(r, status, error, usage)
    PROVE  /\ RequestVerdict(r)' = IF status = 200 THEN "submitted" ELSE error
           /\ RequestUsage(r)' = usage
<1>1. Answers(r, status, error, usage)
  BY RespondFacts
<1>2. /\ response'[r].status = status /\ response'[r].error = error
      /\ response'[r].usage = usage /\ response'[r] # None
  BY <1>1 DEF Answers, TypeOK
<1>3. SingleAgent(r)'
  BY DEF SingleAgent, SingleAgents
<1> QED  BY <1>2, <1>3 DEF RequestVerdict, RequestUsage, Seen

(* How the end of a single agent's review is answered.                     *)
LEMMA EndIsSeen ==
    ASSUME TypeOK, NEW r \in Requests, engine' = engine, engine[r] \in SingleAgents,
           NEW usage \in Nat \cup {None},
           NEW end \in {"submitted", "no_submit", "exceeded", "api_error", "github_error"},
           Translate(r, end, usage)
    PROVE  /\ RequestVerdict(r)' = end
           /\ RequestUsage(r)' = IF end \in {"api_error", "github_error"} THEN None ELSE usage
<1>1. PICK status \in Statuses, error \in Errors \cup {None}, told \in {usage, None} :
          /\ Respond(r, status, error, told)
          /\ end \in {"submitted", "no_submit", "exceeded", "all_failed"} => told = usage
          /\ end = "submitted" => status = 200
          /\ end # "submitted" => error = end /\ status # 200
          /\ end \in {"api_error", "github_error", "internal_error"} => told = None
  BY TranslateFacts
<1>2. /\ RequestVerdict(r)' = IF status = 200 THEN "submitted" ELSE error
      /\ RequestUsage(r)' = told
  BY <1>1, Answering
<1> QED  BY <1>1, <1>2

(* Each end of a single agent's review is a step of its contract.          *)
LEMMA HandlerContract ==
    ASSUME Inv, NEW r \in Requests, Handler(r)
    PROVE  ContractStep(r)
<1> SUFFICES ASSUME NEW e \in SingleAgents, engine[r] = e
             PROVE  Engine(r, e)!Next \/ UNCHANGED Engine(r, e)!vars
  BY DEF ContractStep
<1>0. /\ TypeOK /\ RequestOK(r) /\ MaxIterations[e] = CallsAllowed(r)
      /\ turns[r] \in Nat /\ spent[r] \in Nat
  BY DEF Inv, TypeOK, CallsAllowed
<1>1. CASE AsksForTools(r)
  <2>1. Engine(r, e)!Answered
    <3>1. turns'[r] = turns[r] + 1 /\ \E c \in Costs : spent'[r] = spent[r] + c
      BY <1>0, <1>1, ModelAnswersFacts DEF AsksForTools
    <3>2. pc[r] = "model" /\ turns[r] < MaxIterations[e]
      BY <1>0, <1>1 DEF AsksForTools, ModelAnswers, RequestOK, BudgetOK
    <3> QED  BY <1>0, <3>1, <3>2, Running DEF Engine!Answered
  <2>2. UNCHANGED <<RequestVerdict(r), RequestUsage(r)>>
    BY <1>1 DEF AsksForTools, RequestVerdict, RequestUsage, Seen, SingleAgent
  <2> QED  BY <2>1, <2>2 DEF Engine!Next, Engine!Investigate
<1>2. CASE StopsTalking(r)
  <2>1. Engine(r, e)!Answered
    <3>1. turns'[r] = turns[r] + 1 /\ \E c \in Costs : spent'[r] = spent[r] + c
      BY <1>0, <1>2, ModelAnswersFacts DEF StopsTalking
    <3>2. pc[r] = "model" /\ turns[r] < MaxIterations[e]
      BY <1>0, <1>2 DEF StopsTalking, ModelAnswers, RequestOK, BudgetOK
    <3> QED  BY <1>0, <3>1, <3>2, Running DEF Engine!Answered
  <2>2. spent'[r] \in Nat
    BY <1>0, <1>2, ModelAnswersFacts DEF StopsTalking
  <2>3. RequestVerdict(r)' = "no_submit" /\ RequestUsage(r)' = spent'[r]
    BY <1>0, <1>2, <2>2, EndIsSeen DEF StopsTalking
  <2> QED  BY <2>1, <2>3 DEF Engine!Next, Engine!GiveUp
<1>3. CASE Concludes(r)
  <2>1. /\ pc[r] = "tools" /\ turns[r] > 0 /\ turns' = turns /\ spent' = spent
        /\ \/ Translate(r, "submitted", spent[r])
           \/ turns[r] = MaxIterations[e] /\ Translate(r, "exceeded", spent[r])
    BY <1>0, <1>3 DEF Concludes, RequestOK, BudgetOK
  <2>2. /\ RequestUsage(r)' = spent[r]
        /\ \/ RequestVerdict(r)' = "submitted"
           \/ turns[r] = MaxIterations[e] /\ RequestVerdict(r)' = "exceeded"
    BY <1>0, <1>3, <2>1, EndIsSeen DEF Concludes
  <2> QED  BY <1>0, <2>1, <2>2, Running DEF Engine!Next, Engine!Conclude
<1>4. CASE ApiFails(r)
  <2>1. /\ pc[r] = "model" /\ turns[r] < MaxIterations[e] /\ turns' = turns /\ spent' = spent
    BY <1>0, <1>4 DEF ApiFails, RequestOK, BudgetOK
  <2>2. RequestVerdict(r)' = "api_error" /\ RequestUsage(r)' = None
    BY <1>0, <1>4, EndIsSeen DEF ApiFails
  <2> QED  BY <1>0, <2>1, <2>2, Running DEF Engine!Next, Engine!Outage
<1>5. CASE GithubFails(r)
  <2>1. /\ pc[r] # "answered" /\ turns[r] = 0 /\ turns' = turns /\ spent' = spent
    BY <1>0, <1>5 DEF GithubFails, RequestOK, BudgetOK, Preparing
  <2>2. RequestVerdict(r)' = "github_error" /\ RequestUsage(r)' = None
    BY <1>0, <1>5, EndIsSeen DEF GithubFails
  <2> QED  BY <1>0, <2>1, <2>2, Running DEF Engine!Next, Engine!Outage
<1>6. CASE Rejects(r) \/ Accepts(r) \/ WorkflowConcludes(r) \/ WorkflowEscapes(r)
  BY <1>0, <1>6 DEF Rejects, Accepts, WorkflowConcludes, WorkflowEscapes, RequestOK, BudgetOK,
                    SingleAgents
<1>7. CASE \/ GetsToken(r) \/ FetchesMetadata(r) \/ FetchesDiff(r)
           \/ ReadsRepository(r) \/ SearchesCode(r) \/ NextIteration(r)
  <2>1. ContractStep(r)
    BY <1>7, UnseenStep DEF GetsToken, FetchesMetadata, FetchesDiff, ReadsRepository, SearchesCode,
                            Shows, NextIteration
  <2> QED  BY <2>1 DEF ContractStep
<1> QED  BY <1>1, <1>2, <1>3, <1>4, <1>5, <1>6, <1>7 DEF Handler, Prepares, Reviews

(* A request by a single-agent engine keeps that engine's contract, within *)
(* its own budget: neither the router nor another request changes it.      *)
THEOREM RequestsKeepTheContract == Spec => RequestsKeepContract
<1>1. Inv /\ [Next]_vars => [\A r \in Requests : ContractStep(r)]_vars
  <2> SUFFICES ASSUME Inv, Next, NEW r \in Requests PROVE ContractStep(r)
    OBVIOUS
  <2>1. CASE Push \/ UNCHANGED vars
    BY <2>1, UnseenStep DEF Push, vars
  <2>2. ASSUME NEW q \in Requests, Handler(q) PROVE ContractStep(r)
    <3>1. CASE q = r
      BY <2>2, <3>1, HandlerContract
    <3>2. CASE q # r
      BY <2>2, <3>2, HandlerKeeps, UnseenStep DEF Kept, Others
    <3> QED  BY <3>1, <3>2
  <2> QED  BY <2>1, <2>2 DEF Next, Terminated
<1> QED  BY <1>1, Invariance, PTL DEF Spec, RequestsKeepContract, ContractStep, SingleAgents
=============================================================================
