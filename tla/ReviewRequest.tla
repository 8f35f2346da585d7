---------------------------- MODULE ReviewRequest ----------------------------
(***************************************************************************)
(* Concurrent POST .../review requests (routers/review.py), from the       *)
(* cookie to the answer, while commits are pushed to the pull request.     *)
(*                                                                         *)
(* The engines appear by what AgentLoop, LoopGraph and Workflow show of    *)
(* them: a budget of model calls, tools run between two calls, a cost, and *)
(* a way to end.  Here they meet the rest of a request: its head commit    *)
(* and its diff are two answers of GitHub, its tools read the repository   *)
(* at that commit, and the router turns its end into an HTTP answer.       *)
(* Commits are numbered in the order they are pushed.                      *)
(***************************************************************************)
EXTENDS Integers

CONSTANTS
    None,
    Requests,
    Engines,         \* the engines asked for: some of "loop", "graph", "workflow"
    MaxIterations,   \* the model calls a review by each engine may make
    Costs,           \* tokens one answered model call bills
    MaxPushes        \* bound: commits pushed while requests are served

ASSUME EnginesAssumption == Engines \subseteq {"loop", "graph", "workflow"}
ASSUME MaxIterationsAssumption == MaxIterations \in [Engines -> Nat \ {0}]
ASSUME CostsAssumption == Costs \subseteq Nat

(* What a request is answered: ReviewResponse, or an error and its detail. *)
Statuses == {200, 401, 422, 500, 502}
Errors ==
    {"no_installation", "unknown_engine", "github_error", "no_submit", "exceeded", "all_failed",
     "api_error", "internal_error"}
Response == [status : Statuses, error : Errors \cup {None}, usage : Nat \cup {None}]

ASSUME NoneAssumption ==
    None \notin Nat \cup {"loop", "graph", "workflow"} \cup Errors \cup Response

VARIABLES
    head,         \* GitHub: the pull request's newest commit
    \* each request
    pc,           \* what it waits for
    engine,
    ref, diff,    \* the commits of the metadata and of the diff it was sent
    shown,        \* what its tools have shown the model
    turns,        \* model calls answered
    response,     \* its HTTP answer
    spent,        \* history: tokens the API has billed for it
    untold        \* history: those of specialists that ended without a count

context == <<ref, diff, shown>>
vars == <<head, pc, engine, context, turns, response, spent, untold>>

CallsAllowed(r) == MaxIterations[engine[r]]

-----------------------------------------------------------------------------
Init ==
    /\ head = 0
    /\ pc = [r \in Requests |-> "received"]
    /\ engine = [r \in Requests |-> None]
    /\ ref = [r \in Requests |-> None] /\ diff = [r \in Requests |-> None]
    /\ shown = [r \in Requests |-> {}]
    /\ turns = [r \in Requests |-> 0]
    /\ response = [r \in Requests |-> None]
    /\ spent = [r \in Requests |-> 0] /\ untold = [r \in Requests |-> 0]

Push ==
    /\ head < MaxPushes
    /\ head' = head + 1
    /\ UNCHANGED <<pc, engine, context, turns, response, spent, untold>>

(* The handler returns: its locals are gone.                               *)
Respond(r, status, error, usage) ==
    /\ pc' = [pc EXCEPT ![r] = "answered"]
    /\ response' = [response EXCEPT ![r] = [status |-> status, error |-> error, usage |-> usage]]
    /\ ref' = [ref EXCEPT ![r] = None] /\ diff' = [diff EXCEPT ![r] = None]
    /\ shown' = [shown EXCEPT ![r] = {}]

(* Mutant: the tuple of exceptions leaves one out.                         *)
Translate_NotExceeded(r, end, usage) ==
    CASE end = "submitted"                 -> Respond(r, 200, None, usage)
      [] end \in {"no_submit", "all_failed"} -> Respond(r, 502, end, usage)
      [] end = "api_error"                 -> Respond(r, 502, end, None)
      [] OTHER                             -> Respond(r, 500, end, None)

(* What review_pull_request makes of an engine's end: a result, one of the *)
(* three exceptions that carry a usage, an anthropic.APIError, or any      *)
(* other exception, which is FastAPI's 500.                                *)
Translate(r, end, usage) ==
    CASE end = "submitted"                             -> Respond(r, 200, None, usage)
      [] end \in {"no_submit", "exceeded", "all_failed"} -> Respond(r, 502, end, usage)
      [] end = "api_error"                             -> Respond(r, 502, end, None)
      [] OTHER                                         -> Respond(r, 500, end, None)

(* Mutant: the HTTPException is made, and not raised.                      *)
Rejects_NotRaised(r) ==
    /\ pc[r] = "received"
    /\ pc' = [pc EXCEPT ![r] = "token"]
    /\ response' = [response EXCEPT ![r] =
          [status |-> 401, error |-> "no_installation", usage |-> None]]
    /\ UNCHANGED <<head, engine, context, turns, spent, untold>>

(* No cookie, or one that is not valid: 401; an unknown engine: 422.       *)
Rejects(r) ==
    /\ pc[r] = "received"
    /\ \/ Respond(r, 401, "no_installation", None)
       \/ Respond(r, 422, "unknown_engine", None)
    /\ UNCHANGED <<head, engine, turns, spent, untold>>

Accepts(r) ==
    /\ pc[r] = "received"
    /\ \E e \in Engines : engine' = [engine EXCEPT ![r] = e]
    /\ pc' = [pc EXCEPT ![r] = "token"]
    /\ UNCHANGED <<head, context, turns, response, spent, untold>>

GetsToken(r) ==
    /\ pc[r] = "token"
    /\ pc' = [pc EXCEPT ![r] = "metadata"]
    /\ UNCHANGED <<head, engine, context, turns, response, spent, untold>>

(* Mutant: the diff is fetched before the metadata.                        *)
FetchesMetadata_DiffFirst(r) ==
    /\ pc[r] = "metadata"
    /\ ref' = [ref EXCEPT ![r] = IF diff[r] = None THEN None ELSE head]
    /\ diff' = [diff EXCEPT ![r] = IF diff[r] = None THEN head ELSE @]
    /\ pc' = [pc EXCEPT ![r] = IF diff[r] = None THEN "metadata" ELSE "model"]
    /\ UNCHANGED <<head, engine, shown, turns, response, spent, untold>>

(* Each is what GitHub holds when it answers.                              *)
FetchesMetadata(r) ==
    /\ pc[r] = "metadata"
    /\ ref' = [ref EXCEPT ![r] = head]
    /\ pc' = [pc EXCEPT ![r] = "diff"]
    /\ UNCHANGED <<head, engine, diff, shown, turns, response, spent, untold>>

FetchesDiff(r) ==
    /\ pc[r] = "diff"
    /\ diff' = [diff EXCEPT ![r] = head]
    /\ pc' = [pc EXCEPT ![r] = "model"]
    /\ UNCHANGED <<head, engine, ref, shown, turns, response, spent, untold>>

(* One of the three calls before the conversation fails.                   *)
GithubFails(r) ==
    /\ pc[r] \in {"token", "metadata", "diff"}
    /\ Translate(r, "github_error", None)
    /\ UNCHANGED <<head, engine, turns, spent, untold>>

-----------------------------------------------------------------------------
ModelAnswers(r) ==
    /\ pc[r] = "model"
    /\ turns' = [turns EXCEPT ![r] = @ + 1]
    /\ \E c \in Costs : spent' = [spent EXCEPT ![r] = @ + c]

AsksForTools(r) ==
    /\ ModelAnswers(r)
    /\ pc' = [pc EXCEPT ![r] = "tools"]
    /\ UNCHANGED <<head, engine, context, response, untold>>

Shows(r, result) ==
    /\ shown' = [shown EXCEPT ![r] = @ \cup {result}]
    /\ UNCHANGED <<head, pc, engine, ref, diff, turns, response, spent, untold>>

(* get_file_content, check_dependency_versions and run_linter read at ref. *)
ReadsRepository(r) ==
    /\ pc[r] = "tools"
    /\ Shows(r, [tool |-> "read", of |-> ref[r]])

(* search_codebase asks GitHub's index, which is at no ref.                *)
SearchesCode(r) ==
    /\ pc[r] = "tools"
    /\ Shows(r, [tool |-> "search", of |-> None])

(* Mutant: one iteration more than the budget.                             *)
NextIteration_OffByOne(r) ==
    /\ pc[r] = "tools" /\ turns[r] <= CallsAllowed(r)
    /\ pc' = [pc EXCEPT ![r] = "model"]
    /\ UNCHANGED <<head, engine, context, turns, response, spent, untold>>

(* A tool's failure is an answer to the model, and shows nothing.          *)
NextIteration(r) ==
    /\ pc[r] = "tools" /\ turns[r] < CallsAllowed(r)
    /\ pc' = [pc EXCEPT ![r] = "model"]
    /\ UNCHANGED <<head, engine, context, turns, response, spent, untold>>

-----------------------------------------------------------------------------
(* The single-agent engines.                                               *)
SingleAgent(r) == engine[r] \in {"loop", "graph"}

StopsTalking(r) ==
    /\ SingleAgent(r)
    /\ ModelAnswers(r)
    /\ Translate(r, "no_submit", spent'[r])
    /\ UNCHANGED <<head, engine, untold>>

Concludes(r) ==
    /\ SingleAgent(r) /\ pc[r] = "tools"
    /\ \/ Translate(r, "submitted", spent[r])
       \/ turns[r] = CallsAllowed(r) /\ Translate(r, "exceeded", spent[r])
    /\ UNCHANGED <<head, engine, turns, spent, untold>>

ApiFails(r) ==
    /\ SingleAgent(r) /\ pc[r] = "model"
    /\ Translate(r, "api_error", None)
    /\ UNCHANGED <<head, engine, turns, spent, untold>>

(* The workflow engine makes no model call if there is nothing to read,    *)
(* ends when its specialists have, and does not know what those that timed *)
(* out or met an API error had spent (Workflow, UsageAccountsForBilling).  *)
WorkflowConcludes(r) ==
    /\ engine[r] = "workflow" /\ pc[r] \in {"model", "tools"}
    /\ \E lost \in 0..spent[r] :
          /\ untold' = [untold EXCEPT ![r] = lost]
          /\ \E end \in {"submitted", "all_failed"} : Translate(r, end, spent[r] - lost)
    /\ UNCHANGED <<head, engine, turns, spent>>

(* A node of the graph that raises takes the run down (Workflow, Escapes). *)
WorkflowEscapes(r) ==
    /\ engine[r] = "workflow" /\ pc[r] \in {"model", "tools"}
    /\ Translate(r, "internal_error", None)
    /\ UNCHANGED <<head, engine, turns, spent, untold>>

Prepares(r) ==
    \/ Rejects(r) \/ Accepts(r) \/ GetsToken(r)
    \/ FetchesMetadata(r) \/ FetchesDiff(r) \/ GithubFails(r)

Reviews(r) ==
    \/ AsksForTools(r) \/ ReadsRepository(r) \/ SearchesCode(r) \/ NextIteration(r)
    \/ StopsTalking(r) \/ Concludes(r) \/ ApiFails(r)
    \/ WorkflowConcludes(r) \/ WorkflowEscapes(r)

(* Mutant: a tool waits for its subprocess without yielding to the event   *)
(* loop.                                                                   *)
Handler_BlockingTools(r) ==
    /\ \A q \in Requests \ {r} : pc[q] # "tools"
    /\ Prepares(r) \/ Reviews(r)

Handler(r) == Prepares(r) \/ Reviews(r)

Terminated == (\A r \in Requests : pc[r] = "answered") /\ UNCHANGED vars

Next == Push \/ (\E r \in Requests : Handler(r)) \/ Terminated

(* Every await before the tools has a bound of its own; a linter has none. *)
Fairness == \A r \in Requests : WF_vars(pc[r] # "tools" /\ Handler(r))

Spec == Init /\ [][Next]_vars /\ Fairness

-----------------------------------------------------------------------------
ToolResult == [tool : {"read"}, of : 0..head] \cup [tool : {"search"}, of : {None}]

TypeOK ==
    /\ head \in Nat
    /\ pc \in [Requests ->
          {"received", "token", "metadata", "diff", "model", "tools", "answered"}]
    /\ engine \in [Requests -> Engines \cup {None}]
    /\ ref \in [Requests -> 0..head \cup {None}] /\ diff \in [Requests -> 0..head \cup {None}]
    /\ shown \in [Requests -> SUBSET ToolResult]
    /\ turns \in [Requests -> Nat] /\ spent \in [Requests -> Nat] /\ untold \in [Requests -> Nat]
    /\ response \in [Requests -> Response \cup {None}]
    /\ \A r \in Requests : (response[r] # None) = (pc[r] = "answered")

(* Whatever is pushed, and whoever else is being reviewed, all that a      *)
(* request's tools read is of one commit, and the diff under review is of  *)
(* that commit or of a later one: the model is never shown code that the   *)
(* diff does not account for yet.                                          *)
Reads(r) == {result \in shown[r] : result.tool = "read"}

ReadsOneCommit ==
    \A r \in Requests : \A first, second \in Reads(r) :
        first.of = second.of /\ first.of <= diff[r]

(* "A failed review still spent real, billed tokens": every answer of a    *)
(* review that cost something tells its cost, its own and nobody else's,   *)
(* to the token with a single agent, but for a Claude API failure and for  *)
(* an exception out of the workflow's graph.                               *)
CostIsTold ==
    \A r \in Requests : response[r] # None =>
        /\ response[r].usage # None =>
              /\ response[r].usage + untold[r] = spent[r]
              /\ SingleAgent(r) => untold[r] = 0
        /\ response[r].usage = None /\ spent[r] > 0 =>
              \/ response[r].error = "api_error"
              \/ engine[r] = "workflow" /\ response[r].status = 500

(* Seen from outside, a request to a single-agent engine keeps that        *)
(* engine's contract: the router adds no verdict and loses no usage.       *)
Seen(r) == SingleAgent(r) /\ response[r] # None

RequestVerdict(r) ==
    IF ~Seen(r) THEN None
    ELSE IF response[r].status = 200 THEN "submitted" ELSE response[r].error

RequestUsage(r) == IF Seen(r) THEN response[r].usage ELSE None

Engine(r, e) == INSTANCE AgentContract WITH
    Budget <- MaxIterations[e], turns <- turns[r], spent <- spent[r],
    verdict <- RequestVerdict(r), usage <- RequestUsage(r)

RequestsKeepContract ==
    [][\A r \in Requests : \A e \in Engines \ {"workflow"} :
          engine[r] = e => Engine(r, e)!Next \/ UNCHANGED Engine(r, e)!vars]_vars

(* A request is answered, or waits for a tool of its own forever: another  *)
(* request that hangs in a linter does not hold it.                        *)
AnsweredDespiteOthers ==
    \A r \in Requests : <>(pc[r] = "answered") \/ <>[](pc[r] = "tools")
=============================================================================
