------------------------------ MODULE Workflow ------------------------------
(***************************************************************************)
(* The multi-specialist engine: run_review_workflow and its graph          *)
(* (services/review_graph/workflow_graph.py), the specialists' wrapper     *)
(* node (specialists.py) and the reducers of WorkflowState (state.py).     *)
(*                                                                         *)
(*   fetch_context -> triage -> one run_specialist per Send, in parallel   *)
(*                 -> synthesize -> END                                    *)
(*                                                                         *)
(* A specialist's own agent graph is LoopGraph.  Here it appears as the    *)
(* contract that LoopGraph implements (AgentContract): it asks the model,  *)
(* runs tools, and ends submitted, no_submit or exceeded.  Around it are   *)
(* the specialist's time budget, the failures run_specialist isolates, and *)
(* those that take the whole run down.                                     *)
(***************************************************************************)
EXTENDS Triage, Synthesize

CONSTANTS
    PullRequests,    \* the pull requests under review: sets of changed files
    MaxIterations,   \* AgentConfig.max_iterations of each specialist
    Costs,           \* tokens one answered model call bills
    Submissions,     \* findings lists a specialist may submit
    MaxFindings      \* MAX_FINDINGS

CodeSpecialists == <<"security", "performance", "correctness">>
Specialists     == {"security", "performance", "correctness", "dependencies"}

ASSUME MaxIterationsAssumption == MaxIterations \in [Specialists -> Nat \ {0}]
ASSUME CostsAssumption == Costs \subseteq Nat
ASSUME SubmissionsAssumption == Submissions \subseteq Seq(Finding)
ASSUME MaxFindingsAssumption == MaxFindings \in Nat

Outcomes == {"submitted", "no_submit", "exceeded", "api_error", "timed_out"}

ResultEntry ==
    [name: Specialists, status: {"ok", "failed", "timed_out"},
     findings: Submissions \cup {<<>>}, tokens: Nat \cup {None}]

ASSUME NoneAssumption ==
    /\ None \notin Int /\ None \notin ResultEntry /\ None \notin Outcomes
    /\ None \notin {"submitted", "all_failed", "error"}

VARIABLES
    pull_request,        \* what GitHub holds: the PR's changed files
    node,                \* the super-step being run, END when the run is over
    \* WorkflowState
    diff_text, files, specialist_results, tokens,
    scope,               \* the files of each specialist's Send, {} if not sent
    \* each specialist's task
    phase,               \* what its agent awaits
    expired,             \* whether its time is over and it has not returned
    iteration, spent,    \* its subgraph's counters
    outcome,             \* its subgraph's outcome, None while running
    entry,               \* the result entry it returned, None before
    \* what run_review_workflow returns or raises
    verdict, report,
    billed               \* history: what the API has billed

END == "END"

state    == <<diff_text, files, specialist_results, tokens>>
tasks    == <<phase, expired, iteration, spent, outcome, entry>>
returned == <<verdict, report>>
vars     == <<pull_request, node, state, scope, tasks, returned, billed>>

-----------------------------------------------------------------------------
NoReport ==
    [findings |-> <<>>, usage |-> None, usage_by_specialist |-> <<>>,
     incomplete_specialists |-> {}, dropped_findings |-> 0]

Init ==
    /\ pull_request \in PullRequests
    /\ node = "fetch_context"
    /\ diff_text = {} /\ files = {} /\ specialist_results = <<>> /\ tokens = 0
    /\ scope = [s \in Specialists |-> {}]
    /\ phase = [s \in Specialists |-> "idle"]
    /\ expired = [s \in Specialists |-> FALSE]
    /\ iteration = [s \in Specialists |-> 0]
    /\ spent = [s \in Specialists |-> 0]
    /\ outcome = [s \in Specialists |-> None]
    /\ entry = [s \in Specialists |-> None]
    /\ verdict = None /\ report = NoReport
    /\ billed = 0

(* An exception that escapes ainvoke: no result, no usage, and every task  *)
(* still running is cancelled with the run.                                *)
Escapes ==
    /\ node' = END
    /\ verdict' = "error"
    /\ UNCHANGED <<pull_request, state, scope, tasks, report, billed>>

FetchContext ==
    /\ node = "fetch_context"
    /\ node' = "triage"
    /\ diff_text' = pull_request
    /\ UNCHANGED <<pull_request, files, specialist_results, tokens, scope, tasks, returned, billed>>

GithubFails == node = "fetch_context" /\ Escapes

(* Mutant: skipped files are sent too.                                     *)
Scopes_Unfiltered(changes) ==
    LET manifests == {f \in changes : f.is_manifest}
    IN  [s \in Specialists |-> IF s = "dependencies" THEN manifests ELSE changes \ manifests]

(* route_to_specialists: the scope each specialist is sent.                *)
Scopes(changes) ==
    LET reviewable == {f \in changes : f.skip_reason = Reviewed}
        manifests  == {f \in reviewable : f.is_manifest}
    IN  [s \in Specialists |->
            IF s = "dependencies" THEN manifests ELSE reviewable \ manifests]

(* The triage node, and the routing of the state it leaves.                *)
TriageAndRoute ==
    /\ node = "triage"
    /\ files' = triage_diff(diff_text)
    /\ diff_text' = {}
    /\ scope' = Scopes(files')
    /\ phase' = [s \in Specialists |-> IF scope'[s] # {} THEN "model" ELSE "idle"]
    /\ node' = IF \A s \in Specialists : scope'[s] = {} THEN "synthesize" ELSE "run_specialist"
    /\ UNCHANGED <<pull_request, specialist_results, tokens, expired, iteration, spent, outcome,
                   entry, returned, billed>>

-----------------------------------------------------------------------------
(* One specialist.  `at' is where its agent is waiting.                    *)
Running(s, at) == node = "run_specialist" /\ phase[s] \in at

InTask == UNCHANGED <<pull_request, node, state, scope, returned>>

(* The result entry of _result; tokens is None when they are unknown.      *)
Finish(s, status, findings, known_tokens) ==
    /\ phase' = [phase EXCEPT ![s] = "done"]
    /\ expired' = [expired EXCEPT ![s] = FALSE]
    /\ entry' = [entry EXCEPT ![s] =
          [name |-> s, status |-> status, findings |-> findings, tokens |-> known_tokens]]

ModelAnswers(s) ==
    /\ Running(s, {"model"})
    /\ iteration' = [iteration EXCEPT ![s] = @ + 1]
    /\ \E c \in Costs : spent' = [spent EXCEPT ![s] = @ + c] /\ billed' = billed + c

AsksForTools(s) ==
    /\ ModelAnswers(s)
    /\ phase' = [phase EXCEPT ![s] = "tools"]
    /\ UNCHANGED <<expired, outcome, entry>>
    /\ InTask

(* Mutant: the usage is read before the last answer's tokens are added.    *)
StopsWithoutSubmitting_StaleUsage(s) ==
    /\ ModelAnswers(s)
    /\ outcome' = [outcome EXCEPT ![s] = "no_submit"]
    /\ Finish(s, "failed", <<>>, spent[s])
    /\ InTask

StopsWithoutSubmitting(s) ==
    /\ ModelAnswers(s)
    /\ outcome' = [outcome EXCEPT ![s] = "no_submit"]
    /\ Finish(s, "failed", <<>>, spent'[s])
    /\ InTask

(* Mutant: one iteration more than the specialist's budget.                *)
KeepsGoing_OffByOne(s) ==
    /\ Running(s, {"tools"})
    /\ iteration[s] <= MaxIterations[s]
    /\ phase' = [phase EXCEPT ![s] = "model"]
    /\ UNCHANGED <<expired, iteration, spent, outcome, entry, billed>>
    /\ InTask

KeepsGoing(s) ==
    /\ Running(s, {"tools"})
    /\ iteration[s] < MaxIterations[s]
    /\ phase' = [phase EXCEPT ![s] = "model"]
    /\ UNCHANGED <<expired, iteration, spent, outcome, entry, billed>>
    /\ InTask

Submits(s) ==
    /\ Running(s, {"tools"})
    /\ outcome' = [outcome EXCEPT ![s] = "submitted"]
    /\ \E findings \in Submissions : Finish(s, "ok", findings, spent[s])
    /\ UNCHANGED <<iteration, spent, billed>>
    /\ InTask

Exceeds(s) ==
    /\ Running(s, {"tools"})
    /\ iteration[s] >= MaxIterations[s]
    /\ outcome' = [outcome EXCEPT ![s] = "exceeded"]
    /\ Finish(s, "failed", <<>>, spent[s])
    /\ UNCHANGED <<iteration, spent, billed>>
    /\ InTask

(* Mutant: an API error is logged, and no result entry is returned.        *)
ApiFails_NoEntry(s) ==
    /\ Running(s, {"model"})
    /\ outcome' = [outcome EXCEPT ![s] = "api_error"]
    /\ phase' = [phase EXCEPT ![s] = "done"]
    /\ UNCHANGED <<expired, iteration, spent, entry, billed>>
    /\ InTask

(* anthropic.APIError out of a model call: the subgraph's state is lost.   *)
ApiFails(s) ==
    /\ Running(s, {"model"})
    /\ outcome' = [outcome EXCEPT ![s] = "api_error"]
    /\ Finish(s, "failed", <<>>, None)
    /\ UNCHANGED <<iteration, spent, billed>>
    /\ InTask

(* asyncio.timeout(SPECIALIST_TIMEOUT_SECONDS) expires, once, and cancels  *)
(* the subgraph; only when that has unwound is TimeoutError raised and     *)
(* caught.                                                                 *)
TimeExpires(s) ==
    /\ Running(s, {"model", "tools"})
    /\ ~expired[s]
    /\ expired' = [expired EXCEPT ![s] = TRUE]
    /\ phase' = [phase EXCEPT ![s] = "cancelling"]
    /\ UNCHANGED <<iteration, spent, outcome, entry, billed>>
    /\ InTask

(* The cancellation is lost in a tool: an OSError takes its place, and is  *)
(* answered like any failure of a tool.  The agent goes on past its time,  *)
(* billed as before, and only the node's own timeout is left to stop it.   *)
CancellationLost(s) ==
    /\ Running(s, {"tools"})
    /\ ~expired[s]
    /\ expired' = [expired EXCEPT ![s] = TRUE]
    /\ UNCHANGED <<phase, iteration, spent, outcome, entry, billed>>
    /\ InTask

TimesOut(s) ==
    /\ Running(s, {"cancelling"})
    /\ outcome' = [outcome EXCEPT ![s] = "timed_out"]
    /\ Finish(s, "timed_out", <<>>, None)
    /\ UNCHANGED <<iteration, spent, billed>>
    /\ InTask

(* Mutant: no timeout on the node.                                         *)
BackstopFires_Never(s) == FALSE

(* The node's own timeout, 30 seconds above the specialist's: it finds a  *)
(* task that has not unwound, or has gone on, and fails the run.           *)
BackstopFires(s) ==
    /\ Running(s, {"model", "tools", "cancelling"})
    /\ expired[s]
    /\ Escapes

(* Any other exception of the agent ("a bug") propagates.                  *)
Crashes(s) == Running(s, {"model", "tools"}) /\ Escapes

Specialist(s) ==
    \/ AsksForTools(s) \/ StopsWithoutSubmitting(s)
    \/ KeepsGoing(s) \/ Submits(s) \/ Exceeds(s)
    \/ ApiFails(s) \/ TimeExpires(s) \/ CancellationLost(s) \/ TimesOut(s)
    \/ BackstopFires(s) \/ Crashes(s)

-----------------------------------------------------------------------------
Sum(f) == f["security"] + f["performance"] + f["correctness"] + f["dependencies"]

Over(f, S) == [s \in Specialists |-> IF s \in S THEN f[s] ELSE 0]

OrZero(t) == IF t = None THEN 0 ELSE t

Sent == {s \in Specialists : scope[s] # {}}

(* The list of Sends that route_to_specialists returns.                    *)
Sends ==
    (IF scope["security"] # {} THEN CodeSpecialists ELSE <<>>)
    \o (IF scope["dependencies"] # {} THEN <<"dependencies">> ELSE <<>>)

(* The fan-out super-step ends when every task has returned.  The reducers *)
(* concatenate the result lists, in the order of the Sends, and sum the    *)
(* token counts, an unknown count counting 0.                              *)
EndFanOut ==
    /\ node = "run_specialist"
    /\ \A s \in Sent : phase[s] = "done"
    /\ specialist_results' = specialist_results \o [i \in DOMAIN Sends |-> entry[Sends[i]]]
    /\ tokens' = tokens + Sum(Over([s \in Sent |-> OrZero(entry[s].tokens)], Sent))
    /\ node' = "synthesize"
    /\ UNCHANGED <<pull_request, diff_text, files, scope, tasks, returned, billed>>

(* usage_by_specialist, from the results whose tokens are known.           *)
UsageBySpecialist ==
    LET known == {i \in DOMAIN specialist_results : specialist_results[i].tokens # None}
    IN  [name \in {specialist_results[i].name : i \in known} |->
            (CHOOSE r \in ToSet(specialist_results) : r.name = name).tokens]

(* The synthesize node, then the runner, which awaits nothing more.        *)
SynthesizeAndReturn ==
    /\ node = "synthesize"
    /\ node' = END
    /\ \E synthesis \in {synthesize(specialist_results, MaxFindings)} :
          \/ /\ synthesis.all_failed
             /\ verdict' = "all_failed"
             /\ report' = [NoReport EXCEPT !.usage = tokens]
          \/ /\ ~synthesis.all_failed
             /\ verdict' = "submitted"
             /\ report' = [findings               |-> synthesis.findings,
                           usage                  |-> tokens,
                           usage_by_specialist    |-> UsageBySpecialist,
                           incomplete_specialists |-> synthesis.incomplete_specialists,
                           dropped_findings       |-> synthesis.dropped_findings]
    /\ UNCHANGED <<pull_request, state, scope, tasks, billed>>

Terminated == node = END /\ UNCHANGED vars

Next ==
    \/ FetchContext \/ GithubFails \/ TriageAndRoute
    \/ \E s \in Specialists : Specialist(s)
    \/ EndFanOut \/ SynthesizeAndReturn
    \/ Terminated

(* Nothing is assumed of the model, of the tools or of the time it takes   *)
(* to cancel them: a specialist may hang in any of them.  The event loop   *)
(* runs what is ready and its timers fire, and GitHub calls are bounded by *)
(* httpx's timeouts.                                                       *)
Fairness ==
    /\ WF_vars(FetchContext \/ GithubFails)
    /\ WF_vars(TriageAndRoute)
    /\ WF_vars(EndFanOut)
    /\ WF_node(node = "synthesize" /\ node' = END)   \* SynthesizeAndReturn
    /\ \A s \in Specialists :
          WF_vars(TimeExpires(s) \/ CancellationLost(s)) /\ WF_vars(BackstopFires(s))

Spec == Init /\ [][Next]_vars /\ Fairness

-----------------------------------------------------------------------------
TypeOK ==
    /\ pull_request \in PullRequests
    /\ node \in {"fetch_context", "triage", "run_specialist", "synthesize", END}
    /\ diff_text \in {{}, pull_request}
    /\ scope \in [Specialists -> SUBSET triage_diff(pull_request)]
    /\ phase \in [Specialists -> {"idle", "model", "tools", "cancelling", "done"}]
    /\ expired \in [Specialists -> BOOLEAN]
    /\ iteration \in [Specialists -> Nat] /\ spent \in [Specialists -> Nat]
    /\ \A s \in Specialists : iteration[s] <= MaxIterations[s]
    /\ outcome \in [Specialists -> Outcomes \cup {None}]
    /\ entry \in [Specialists -> ResultEntry \cup {None}]
    /\ \A s \in Specialists : (phase[s] = "done") = (entry[s] # None)
    /\ verdict \in {None, "submitted", "all_failed", "error"}
    /\ tokens \in Nat /\ billed \in Nat

(* What the caller is told a review cost is what was billed, minus what    *)
(* the specialists with unknown tokens had spent: a lower bound, and exact *)
(* when every count is known.  The per-specialist figures add up to it.    *)
Unknown == {s \in Sent : entry[s] # None /\ entry[s].tokens = None}

UsageAccountsForBilling ==
    verdict \in {"submitted", "all_failed"} =>
        /\ report.usage + Sum(Over(spent, Unknown)) = billed
        /\ verdict = "submitted" =>
              /\ DOMAIN report.usage_by_specialist = Sent \ Unknown
              /\ Sum(Over(report.usage_by_specialist, Sent \ Unknown)) = report.usage

(* Whatever happens to the other specialists, every issue a successful one *)
(* submitted is in the review, at least as severe and under its name,      *)
(* unless the cap dropped findings; and a review fails only if no          *)
(* specialist succeeded.                                                   *)
Succeeded == {s \in Sent : outcome[s] = "submitted"}

SurvivorsAreReported ==
    /\ verdict = "all_failed" => Succeeded = {}
    /\ verdict = "submitted" /\ report.dropped_findings = 0 =>
          \A s \in Succeeded : \A f \in ToSet(entry[s].findings) :
              \E g \in ToSet(report.findings) :
                  Key(g) = Key(f) /\ s \in g.sources /\ ~MoreSevere(f, g)

(* The findings are what the reference keeps of those reported, up to the  *)
(* cap, none twice, and what the cap drops is counted: of duplicates the   *)
(* most severe stays, and everyone who reported it is named.               *)
MergeMeetsReference ==
    verdict = "submitted" =>
        /\ ToSet(report.findings) \subseteq ReferenceMerge(Reported(specialist_results))
        /\ IsInjective(report.findings)
        /\ Len(report.findings) + report.dropped_findings =
              Cardinality(ReferenceMerge(Reported(specialist_results)))

(* The most severe come first, and what the cap drops is never more severe *)
(* than what it keeps.                                                     *)
CapKeepsMostSevere ==
    verdict = "submitted" =>
        /\ Len(report.findings) <= MaxFindings
        /\ \A i, j \in DOMAIN report.findings :
              i < j => ~MoreSevere(report.findings[j], report.findings[i])
        /\ \A dropped \in ReferenceMerge(Reported(specialist_results)) \ ToSet(report.findings),
              i \in DOMAIN report.findings : ~MoreSevere(dropped, report.findings[i])

(* "Never something a caller should mistake for `checked, and found        *)
(* nothing'": a review without findings and without incomplete specialists *)
(* means that every reviewable file was in the scope of a specialist that  *)
(* submitted, and that every code file was in the scope of all three.      *)
ReadBy(s, f) == FileChange(f) \in scope[s] /\ outcome[s] = "submitted"

CleanReviewIsEarned ==
    verdict = "submitted" /\ report.findings = <<>> /\ report.incomplete_specialists = {} =>
        \A f \in pull_request : SkipReason(f) = Reviewed =>
            \/ is_root_manifest_path(f) /\ ReadBy("dependencies", f)
            \/ \A s \in ToSet(CodeSpecialists) : ReadBy(s, f)

(* A pull request with nothing to read (documentation, lockfiles, deleted  *)
(* files) makes no model call and is still reviewed.                       *)
NothingToReadCostsNothing ==
    node = END /\ verdict # "error" /\ (\A f \in pull_request : SkipReason(f) # Reviewed) =>
        verdict = "submitted" /\ billed = 0 /\ report.findings = <<>>

(* Each specialist keeps the contract of every engine within its own       *)
(* budget, whatever its siblings do; its time budget just stops it.        *)
AgentVerdict(s) == IF outcome[s] = "timed_out" THEN None ELSE outcome[s]
AgentUsage(s)   == IF entry[s] = None THEN None ELSE entry[s].tokens

Agent(s) == INSTANCE AgentContract WITH
    Budget <- MaxIterations[s], turns <- iteration[s], spent <- spent[s],
    verdict <- AgentVerdict(s), usage <- AgentUsage(s)

AgentStep(s) == Agent(s)!Next \/ UNCHANGED Agent(s)!vars

SpecialistsKeepContract ==
    /\ \A s \in Specialists : Agent(s)!Init
    /\ [][\A s \in Specialists : AgentStep(s)]_vars

(* A review ends, even if every specialist hangs and ignores cancellation. *)
ReviewEnds == <>(node = END)
=============================================================================
