# Verification of codereview-agent

TLA+ models of the review engines of this repository, of the tools they run and
of the endpoint that serves them, TLC runs that check them
on small instances, and TLAPS proofs of the most important results for every
value of the parameters. Paths below are relative to the repository root.

## The system

The service reviews GitHub pull requests. One HTTP request runs one review:
the router gets an installation token, picks an *engine* and awaits it; the
engine fetches the pull request, converses with the Anthropic API, executes the
tools the model asks for, and returns findings or raises. Everything runs on
one asyncio event loop: state changes only between awaits, and what can
interleave are concurrent requests and, in the workflow engine, parallel
specialists.

| component | source (under `src/`) | state | operations | what makes it correct |
|---|---|---|---|---|
| Tool turn | `services/review_tools.py` | the results and the accepted submission of one turn | `execute_tool_turn`, `tool_choice_for`, `_argument_problem` | one answer per call, in order; the last valid submission wins; only allowed tools run |
| Loop engine | `services/review_agent.py` | conversation, iteration, token totals | `run_review_agent` | never ignores a submission; bounded calls; usage on every agent failure; ends |
| Graph engine | `services/review_graph/loop_graph.py`, `state.py` | `LoopState` with its reducers | `_call_model`, `_run_tools`, routing, `run_review_graph` | the same behaviours as the loop; LangGraph's own limit never fires |
| Workflow engine | `services/review_graph/workflow_graph.py`, `specialists.py`, `state.py` | `WorkflowState`, one subgraph per specialist | `fetch_context`, `triage`, `route_to_specialists`, `run_specialist`, `synthesize_node`, `run_review_workflow` | a partial review is marked partial; what succeeded is kept; costs add up; ends |
| Triage | `services/review_graph/triage.py` | none (pure) | `triage_diff` | every file is read by a specialist or skipped for a stated reason |
| Synthesis | `services/review_graph/synthesize.py` | none (pure) | `synthesize` | duplicates merge without losing severity or sources; the cap keeps the most severe |
| Token cache, App JWT | `services/installation_token_cache.py`, `github_app_auth.py` | `_tokens`, shared by all requests | `get_installation_token`, `build_app_jwt` | a token handed out is usable |
| Retry policy | `services/github_retry.py` | attempt counter of one call | `call_with_retry` | bounded attempts; waits as GitHub says |
| Review endpoint | `routers/review.py`, `services/review_engines.py` | a request's locals: installation, token, engine | `review_pull_request` | every failure is answered, with its cost; requests do not disturb each other |
| Dependency check | `services/dependency_check.py` | manifests and dependencies still to check, findings | `check_dependency_versions` | a returned list shows every plain pin; each pin meets its own registry; no false "outdated" |
| Linters | `services/linters/` | temporary directories, subprocesses | `run_linter` | "clean" is only said of a file that was checked; nothing is left behind; the turn ends |
| Fetches | `services/pull_requests.py`, `github_content.py`, `code_search.py` | none | GETs | diff, metadata and files belong together |
| Other endpoints, cookie | `routers/pull_requests.py`, `routers/github_app.py`, `dependencies/installation.py` | signed cookie | four handlers | errors translated |
| Pricing (not modelled) | `services/model_pricing.py` | the price table | `estimate_cost_usd` | a review is priced as its own model |
| Settings, schemas, start-up | `config/`, `schemas/`, `dependencies/`, `main.py` | process-wide clients | lookups | - |

What is hard to test here: the order and the mixture of tool calls within a
turn; the boundary at which the final turn is forced; two implementations of
one agent that must not drift apart; parallel specialists that finish, fail,
time out and ignore cancellation in any order while their results are merged by
reducers; costs that must add up when some of them are unknown; two fetches with a push
between them; linter processes that outlive the call that started them; a tool
that fails in the middle of its manifests; waiting that nothing bounds. `PROJECT.json` lists each hazard at its line, with the
properties that cover it or the reason none does yet.

## Modules

    ToolTurn ----------- AgentLoop ---(implements)---> AgentContract
        |                    ^                              ^
        |              (implements)                         |
        +--------------- LoopGraph ------(implements)-------+
                                                            |
    Triage, Synthesize --- Workflow ---(each specialist)----+

    ReviewRequest --(each single-agent request)--> AgentContract
    GithubAccess   (the awaits on GitHub that a request sees succeed or fail)

    the tools that RunTool executes:      Versions --- DependencyCheck
                                                       Linters

* **ToolTurn** models `execute_tool_turn`. A turn (`calls`) is executed one call
  at a time, `ExecuteCall` being one round of the `for` loop: `AcceptSubmission`,
  `RejectSubmission`, `RejectUnknownTool`, `RejectForeignTool`,
  `RejectArguments` and `RunTool` are its branches in the code's order. A call's
  input is what the code looks at: for a data tool its set of argument names,
  for `submit_review` its findings or `Malformed`. `tool_choice_for` and
  `ModelTurns` (the API honours a forced tool choice) are here too, since every
  engine uses them.
* **AgentLoop** models `run_review_agent`, one action per await with the
  synchronous code that follows it. `iteration` counts answered model calls,
  `verdict`, `findings` and `usage` are what the caller gets as a
  `ReviewResult` or on the exception, and `billed` is a history variable: what
  the API charged, whether or not the code still knows.
* **LoopGraph** models `build_agent_graph` and `run_review_graph`. A node's
  action ends its super-step (`EndSuperStep`): the update goes through the
  reducers (`AddMessages`, `AddTokens`), the routing function sees the new state,
  and either the runner returns (`Finish`), or the next node is scheduled, or
  LangGraph's recursion limit is met. `ToolNames` and `MaxIterations` are
  `AgentConfig`'s fields, so the module stands for the generalist and for every
  specialist.
* **AgentContract** is the abstract specification: at most `Budget` model
  calls, a verdict, and a usage that equals what was billed on every verdict
  except an outage of GitHub or of the API.
* **Triage** and **Synthesize** are the pure functions of the workflow as
  operators. A changed file is the set of facts the triage rules ask for; the
  dict of merged findings is the sequence of its values in insertion order, and the
  stable sort puts each finding at the place after those that come before it. `ReferenceMerge`
  says on sets what the merge should keep; `Workflow`'s properties compare the two.
* **Workflow** models `run_review_workflow`: the five super-steps, and in the
  fan-out one sub-state per specialist. A specialist's agent is not repeated:
  its actions (`AsksForTools`, `KeepsGoing`, `Submits`, `Exceeds`,
  `StopsWithoutSubmitting`, `ApiFails`) are the contract that LoopGraph
  implements, and `SpecialistsKeepContract` checks that they are. Around them
  are `TimeExpires` (asyncio.timeout cancels), `TimesOut` (the cancellation has
  unwound), `CancellationLost` (an `OSError` of the tool that is running takes its place
  and is answered as the tool's failure, so that the agent goes on past its time: its
  calls are billed, and it may still submit), `BackstopFires` (the node's timeout finds a
  task that did not unwind, or went on) and `Crashes` (an exception `run_specialist` does
  not isolate). `expired` says that a running specialist's time is over; there is no second
  timeout before the node's.
* **GithubAccess** models what concurrent requests share on their way to GitHub.
  A request makes the calls of its endpoint (`Calls`) one after the other; each is
  a `call_with_retry`: `FirstAttempt`, `GithubAnswers` (external), then `Succeeds`,
  `SleepsBeforeRetry` and `Retry`, `GivesUp`, or `TransportFails`; what `call_with_retry`
  raises is reported to the model in a tool (`ToolReportsError`) and ends the request elsewhere
  (`EndpointFails`). A `"token"` call is
  `get_installation_token`: `UseCachedToken` on a hit, otherwise a JWT and a call
  whose answer refills the cache. `cached` is `_tokens`, `window` GitHub's rate
  limits (one of the App, one of the installation). Time is discrete: tokens, JWTs,
  windows, sleeps and the waits of an attempt are counts of ticks left, all decremented
  by `Tick`, which waits while a timer is due or code is ready to run. httpx's timeout bounds
  each wait of an attempt and not the attempt: `SendTime` is `Waits` such waits, until an answer
  begins (for a connection of the pool, TCP, TLS, the write, the first read), and `ReadTime` the
  `Reads` further ones in which a small answer arrives; either can fail at any time. `told` is a
  history variable: what the current call knows of the rate limit it uses.
* **ReviewRequest** models concurrent `POST .../review` requests from the cookie to
  the HTTP answer, while commits are pushed to the pull request. `ref` and `diff` are
  the commits of the two answers of GitHub a review starts from, `shown` what its tools
  have shown the model, `response` what the caller gets. The engines appear by what the
  other modules establish of them: a budget of model calls, tools between two calls, a
  cost, a way to end (`Concludes`, `StopsTalking`, `ApiFails`; `WorkflowConcludes` and
  `WorkflowEscapes` for the workflow, whose cost may be partly unknown); `Translate` is
  the router's `except` clauses. `Engine(r, e)` maps each single-agent request
  back to `AgentContract`.
* **DependencyCheck** models `check_dependency_versions`, one action per await: `ListRoot`,
  `FetchManifest` (fetch and parse), `LookUp` (one registry call), `NextManifest`, `Return`,
  and the exceptions that end it. A declaration is a package, a version and the *form*
  in which the manifest writes it, `"hidden"` being one version where no parser looks
  (`uvicorn[standard]==0.30.0`, a nested `<Version>`, optional dependencies); `FormsRead` says
  which forms each of the four parsers lets through and `TextOf` what is left of the version:
  the Python parsers' expression cuts `2.0.0+cu118` to `2.0.0` and `1!2.0` to `1` (`Cut`). **Versions** is `_is_outdated` with
  versions as integer sequences and a tag for all else their text holds; `OutdatedIsWorthLess`
  compares its answers with the order of the numbers (`Worth`) that the sequences are the
  digits of.
* **Linters** models `run_linter` as concurrent agents call it, one action per await of a
  lint call: `WriteFile`, `StartLinter` or `LinterMissing`, `ReadReport`, with
  `ProcessEnds` as the external process. `Cancelled` is a cancellation that leaves the
  `with` block and the turn; `CancellationLost` one whose `TemporaryDirectory.__exit__` fails
  because the process, which nothing stops, still writes there: an `OSError` replaces the
  `CancelledError` and `execute_tool_turn` answers it like any tool error. A `dotnet format`
  that outlives an honoured cancellation may create its report directory again, and with it
  the temporary directory that was removed (`ProcessEnds`).
* **ToolTurnProofs**, **AgentLoopProofs**, **LoopGraphProofs**, **GithubAccessProofs**,
  **WorkflowProofs**, **ReviewRequestProofs**, **DependencyCheckProofs**, **LintersProofs** hold the
  theorems; **MC\*** modules and their `.cfg` files the small instances.

Operators whose name carries a suffix (`NextIteration_OffByOne`) and whose
comment starts with "Mutant" are wrong variants of the definition that follows
them. They are used by nothing: substituting one must make the property named
in `PROJECT.json` fail, which shows that the property can.

## Runs

| run | instance | checks |
|---|---|---|
| `agent_loop` (5 401 states) | budget 3, costs 1 or 2, nine turns | `ConversationWellFormed`, `NoSubmissionIgnored`, `ReturnsLastSubmission`, `ExceededOnlyByMalformedSubmission`, `ImplementsContract`, `ReviewEnds` |
| `loop_graph_generalist` (5 401) | all tools, the same turns | `OutcomeEndsRun`, `ImplementsLoop`, `ReviewEnds` |
| `loop_graph_specialist` (13 993) | the performance specialist's two tools, budget 6 | `RecursionLimitNeverFires`, `OnlyOwnToolsRun`, `ImplementsContract` |
| `synthesize` (391 811) | one pull request of a code file, so three specialists, submissions of up to two findings that duplicate one another within and across specialists, cap 2 | `MergeMeetsReference`, `CapKeepsMostSevere` |
| `workflow` (857 010) | four pull requests, budgets 2 and 1, costs 1 or 2 | `UsageAccountsForBilling`, `SurvivorsAreReported`, `CleanReviewIsEarned`, `NothingToReadCostsNothing`, `SpecialistsKeepContract`, `ReviewEnds` |
| `github_access` (620 227) | two requests, a review or `/installations/current` beside a pulls endpoint; `MaxAttempts` 2, two waits of 1 to send and one to read, margin 2, JWT 3, token 4, backoffs 0 or 1, resets in 1 or 4 ticks | `HandedOutFresh`, `FirstAttemptIsAuthorized`, `RetriesAfterReset`, `EveryRequestEnds` |
| `review_request` (53 499) | two requests, loop or workflow, budget 2, two pushes | `ReadsOneCommit`, `CostIsTold`, `RequestsKeepContract`, `AnsweredDespiteOthers` |
| `dependency_check` (7 705) | roots of up to two of sixteen entries: four kinds of manifest, malformed or with declarations of every form, another file, a directory; one package name in three registries, and one whose pin and latest version are any two of the samples | `PlainPinsAreReported`, `RightRegistry`, `OutdatedIsWorthLess` |
| `linters` (13 122) | two agents, turns of three and two files, two of them of one name, one without a linter | `AnswersAreAboutTheFile`, `NothingLeftBehind`, `TurnsEnd` |
| `typed_github_errors` | as `github_access` | a documented claim, which the code does not keep |
| `whole_budget`, `cost_on_every_run` | as `agent_loop` | one documented claim each, which the code does not keep |

**Why the bounds are enough.** The nine turns of `MCAgentLoop` hold every branch
of `execute_tool_turn`, each kind of mixture whose order matters (a valid
submission before, between and after others), and an empty review. A budget of
three has a first, a middle and a forced last iteration; nothing in the code
distinguishes more. Two costs make a usage that forgets or repeats one call
differ from what was billed. A budget of six is the smallest real one at which
counting an iteration as one super-step would exceed the limit's headroom.
Findings for `synthesize` hold exact and normalised duplicates, different
severities, a finding without a line, and more of them than the cap. The pull
requests of `MCWorkflow` start all four specialists, three, only `dependencies`,
and none; one budget of two and three of one give every specialist a forced
turn, and one of them a turn before it. In `github_access` the times stand in
the code's order: the sending of one attempt within the margin (5 waits of at most 10 s
against 60 s), the margin below a JWT's life (600 s) and a token's (an hour), and one reset
before and one after both credentials may expire. A second attempt after a slow first one can
meet an expired credential without any rate limit, as in the code, where attempts and backoffs
may outlast the margin. Two attempts have a first and a last. Two requests are enough
for a cache filled by another request, for two mints in flight, and for a rate limit
used up by another request. Two pushes put a
commit before, between and after a review's two fetches; two requests let one hang in
its tools while the other must go on, and a budget of two has a first and a last call.
Two manifests are enough for a finding to be lost or attributed across a manifest
boundary, and an entry that fails to parse to come before or after one that does not; skipped
and cut pins stand before and between plain ones.
Versions of one to three segments hold paddings on either side, equal prefixes and a
larger first segment with a smaller second. Two agents with files of one name and
different contents are what a shared directory would mix up. The inductive invariants show that the results of the
engines, of the synthesis, of the token cache, of the dependency check and of the linters
depend on none of these bounds.

**The claims that fail.** The plan of the pulls endpoints
(`docs/week-1/week-1-plan.md`, line 68) promises a typed answer to a rate limit;
minting the token happens outside the handlers' `try`, and a rate limit there becomes
a 500 (what holds: one met by the fetch itself is a 502). README.md line 55 promises that a run that uses its
whole budget returns a review; the forced submission can fail validation and
then the run raises (what does hold is `ExceededOnlyByMalformedSubmission`).
README.md line 91 promises a cost on every run; an Anthropic API error after
billed calls is answered without one (what holds is `AgentContract`).

Elsewhere a comment says more than the code does, and the models follow the code; no run
is spent on these, and each names what does hold. Paths are below `src/src/`.

* `services/review_graph/synthesize.py:48` says the dedupe key never loses information; two
  differently worded findings with one key keep one summary (line 63). No severity and no
  source is lost: `MergeMeetsReference`, `SurvivorsAreReported`.
* `services/review_tools.py:118` says there is exactly one ref for a review; the diff is a
  second request (`services/review_agent.py:54-55`) and may be of a later commit. The tools
  read one commit, never a later one than the diff's: `ReadsOneCommit`.
* `schemas/code_search.py:22` says incomplete results are surfaced; the tool returns the items
  alone (`services/code_search.py:55`).
* `routers/review.py:85-87` counts GitHub failures among those translated; this handler
  catches none, and line 59 awaits outside its `try`.
* `services/dependency_check.py:23` says only exact pins are compared; `^` and `~` in
  package.json and everything in a .csproj are compared too. Nor are all exact pins:
  `uvicorn[standard]==0.30.0`, a nested `<Version>`, optional dependencies and npm versions that
  are not dotted integers are skipped, and a Python pin with a local part or an epoch is cut
  at it and compared, and reported, as what precedes. The plain pins, all others, are all shown
  as they are declared: `PlainPinsAreReported`.
* `schemas/dependency_check.py:25-27` says a failed lookup is a finding without a latest version;
  only an HTTP status is (`services/dependency_check.py:145`), and any other failure ends the tool. It
  never returns a partial list as a whole one.

## Fairness

`AgentLoop` and `LoopGraph` assume weak fairness of the whole engine outside a
linter call: httpx and the Anthropic SDK bound every other await, and the
event loop resumes what is ready. `run_linter` awaits a subprocess without a
timeout, so nothing is promised while one runs, and `ReviewEnds` says that a
review ends *or* waits for a linter forever. `Workflow` assumes nothing of a
specialist's agent at all: only that the loop runs what is ready (`FetchContext`
or its failure, `TriageAndRoute`, `EndFanOut`, the synthesis) and that its
two timers fire, the specialist's with or without effect. That each review ends then rests on the node's own timeout
alone, which one of the mutants removes. The fairness of the synthesis is
written over `node` because TLC evaluates ENABLED of the condition much faster
than that of the whole action; both are enabled in the same states.
`GithubAccess` assumes that time passes and that each request's handler runs what
is ready, which includes a timer that has ended (asyncio's sleep, the last wait of an attempt),
and that a review's model asks for its next tool: whether a conversation ends is
the engines' `ReviewEnds`. `ReviewRequest` assumes that a request's handler goes on outside its tools (its GitHub and
Anthropic calls are bounded by their clients) and nothing inside them: `AnsweredDespiteOthers`
says that a request is answered unless it stays in its own tools forever. `DependencyCheck`
assumes nothing: its properties are of what it returns, and that it can always go on is the
absence of a deadlock. `Linters` assumes that GitHub calls and the start of a process end,
which the clients' timeouts and the retry policy guarantee, but not that
a linter ends, which is `TurnsEnd`'s hypothesis, nor that a cancellation comes.
In `GithubAccess`, GitHub need not ever answer (httpx's timeout then ends
the wait, and the attempt with it): the answer is a step of the handler like the timeout, so
fairness never forces it rather than `TransportFails`.

## Proofs

Checked by `tlapm` for every budget, every set of calls and turns, every tool
subset and every cost; the assumptions are the `ASSUME`s of the modules: types of
the constants, that `None` and `Malformed` are none of the values they stand beside, and in
`GithubAccess` that the waits of sending one attempt fit into the cache's margin (5 waits of 10 s
into 60 s), the margin into a JWT's life, and the margin and the reading of an answer into a
token's. Nothing is assumed of how long a whole call takes.

* **ToolTurnProofs.** `TurnInv`: the results answer a prefix of the calls, and
  `submitted_findings` is the last valid submission of that prefix. It is
  established by starting a turn and preserved by every branch
  (`ExecuteCallInv`). Both engines' proofs rest on it.
* **AgentLoopProofs.** The properties are not inductive alone: that the budget is
  exceeded only by malformed submissions needs to know that the turn being
  executed is the last message and, at the last iteration, consists of
  submissions. `IInv` adds `ControlInv` (how long the conversation is at each
  await, and which turn is being executed), `ConversationInv` (roles alternate;
  every assistant turn but the last is answered and holds no valid submission)
  and `VerdictInv`. One lemma per action, then the theorems for `TypeOK`,
  `ConversationWellFormed`, `NoSubmissionIgnored`, `ReturnsLastSubmission`,
  `ExceededOnlyByMalformedSubmission`, and the refinement `LoopImplementsContract`.
* **LoopGraphProofs.** `GraphInv` counts super-steps against iterations
  (`steps = 2 * iteration` before a model call, `2 * iteration - 1` before the
  tools), which is why the limit `2 * max + 5` is never met; nothing of the
  result exists before the run has ended. From it: `RecursionLimitIsNeverReached`,
  `OutcomeEndsTheRun`, `OwnToolsOnly`, the refinement of the contract and,
  assuming all the tools, of the hand-written loop (`GraphImplementsLoop`): the
  graph step lemmas give the routing's result, which selects the loop's action.

* **GithubAccessProofs.** For any number of requests. `AnswerInv` relates an answer on
  its way back to the rest: a rate-limit answer names exactly what is left of the
  window, and a new token has aged by what the attempt's timer has lost, so by the
  timeout at most. `WaitInv`: a request that was told of a rate limit sleeps, and at
  least until the reset. Every timer that runs counts down with the
  windows, which is why `Tick` preserves both. `HandedOutFresh` then follows from
  `IsFresh` on a hit and from `Margin + ReadTime < TokenLife` on a miss. For
  `FirstAttemptIsAuthorized`: as long as the first attempt of a call with a credential just
  obtained is unanswered, what is left of the credential exceeds what is left of the waits, since
  both count down together from more than the margin and from `SendTime`.

* **WorkflowProofs.** For every pull request, budget, cost and submission. `Inv` conjoins the
  types; what each task's phase says about its outcome and entry; what a specialist that
  was not sent has done (nothing); that `billed` is the sum of what the four have
  `spent`; and, at `synthesize`, that the results are the sent specialists' entries in
  the order of the Sends. Sums are over the four named specialists (`Sum`, `Over`),
  so that splitting what is known from what is unknown is arithmetic. From it
  `UsageAccountsForBilling`, `CleanReviewIsEarned`, `NothingToReadCostsNothing` and
  `SpecialistsKeepContract`. The report is the synthesis of the results, and what `synthesize`
  computes is proved for every list of results. `MergedIsReference`, by induction on the number
  of findings merged: each key has one finding, the winner among those merged so far,
  with all their sources (`AppendKeeps` for a new key, `ReplaceKeeps` for a duplicate).
  `RankedFacts`: the places of a list's elements are a permutation, because what comes
  before an element is a proper subset of what comes before a later one, so the ranking
  loses nothing and is sorted. Hence `MergeMeetsReference`, `CapKeepsMostSevere` and, as
  every reported finding has a winner (`ReferenceCovers`), `SurvivorsAreReported`.
* **DependencyCheckProofs.** For every root, every registry and versions of any length. `Inv`
  says where the tool is in the root: at a manifest's place `k`, with the declarations after
  the place `m` of that manifest still to look up, the remaining lists being what the code
  selects at the places after those (`Lists`: the values at a set of places, in order), and
  the plain pins up to that point have findings of their own, in order (`Covered`). `AmongLists` and
  `ParseFacts` establish the lists, `ListsStep` takes the first of one, `CoverAdds` adds a
  finding for the pin just looked up and `CoverGrows` one for a declaration that is no plain pin.
  `NextManifest` and `Return` turn an empty list into a later point. From it
  `PlainPinsAreReported` and `RightRegistry`. The version order: the first difference of two
  padded releases does not depend on the padding (`AnyLength`), which makes the order
  transitive although every pair is padded to its own length (`OutdatedOrder`); and, by
  induction on the length, digits below a base compare like the numbers they write
  (`DigitsCompare`), which with a base above every segment is `OutdatedIsWorthLess`.
* **LintersProofs.** For any number of agents and any turns: the directory and process
  of a call are tied to the agent's position (`Current`), so another agent's step
  cannot touch them; what a process reported is the content of its own directory, and only a
  process whose call was cancelled can find that directory gone.

* **ReviewRequestProofs.** For any number of requests, engines, budgets and pushes. Each
  request's part of the invariant is its own (`RequestOK`), so a handler's step is proved once
  for its own request and framed for all others (`Others`). `ContextOK` orders the two commits
  and ties what was read to the first; `BudgetOK` says what may still be spent, which is
  what makes each end of a review a step of `AgentContract`; `CostOK` is `CostIsTold` with
  what a running request cannot have lost yet.

What a fold computes is proved by induction over the natural numbers for a set
(`NatInduct`, from the well-foundedness of `<`), with the set of the lengths at which the
claim holds. That is why the folds of `Merged`, `Among` and `Worth` are functions over
prefixes in the modules and not the library's `FoldSeq`, `SelectSeq` and the like, whose operator
parameters the provers cannot instantiate.

Liveness itself stays with TLC, but half of the engines' `ReviewEnds` is a safety property and
proved: no run goes on for ever. `LoopAlwaysProgresses`, `GraphAlwaysProgresses` and
`RunsAlwaysProgress` give measures that are natural numbers in every reachable state
and that every step lowers, in lexicographic order: the awaits or nodes that may still come, and within
them the calls of the turn (`CallsLeft`) or the awaits and the timeout of each specialist, of which
exactly one goes down. They hold without any fairness, and fail if a budget check, a route or a phase ever led back.
What TLC checks beyond them is that steps are taken, under the fairness above.

Only model-checked: the liveness properties (`ReviewEnds`, `EveryRequestEnds`, `TurnsEnd`,
`AnsweredDespiteOthers`), since fairness and ENABLED are out of the prover's reach. Every
invariant and every other action property a passing run checks is proved as well.

## Not modelled

Settings, schemas and process-wide clients: declarations without behaviour of their own.
The install redirect, the callback and the signed installation cookie: signing,
verification and expiry are itsdangerous' (`ReviewRequest` has the outcome, a 401).
The inventory line of triage, and the fields of a lint finding.
Model pricing: a pure lookup in a table of constants, whose one subtlety (an id that extends a
known id is priced as that one) shows when a model is added, not when the program runs.
Wording, logging and prompts; costs are integers, without float rounding; diff parsing (unidiff), validation
(pydantic) and the HTTP and Anthropic clients, which appear as their outcomes.
A blocking call that stalls the whole event loop: then no timer fires either. An
exception in `triage` itself (an unparsable diff) is not distinguished from
GitHub failing one step earlier; both escape with nothing spent. In
`GithubAccess`: more than one installation (their cache entries are independent),
GitHub's token being revoked early, a rate-limit answer without its reset header,
a body that does not parse, the clock skew between the two machines, and waits beyond those
counted: a connection that the pool hands out dead and is dialled again, and the time the event
loop takes to run what is ready.

## Plan

1. `ToolTurn`, `AgentLoop`, `AgentContract`, `LoopGraph`, with proofs: done.
2. `Synthesize`, `Triage`, `Workflow`, with proofs: done.
3. `GithubAccess`, with proofs: done.
4. `ReviewRequest`, with proofs: done.
5. `DependencyCheck` and `Versions`, with proofs: done.
6. `Linters`, with proofs: done.
