--------------------------- MODULE AgentContract ----------------------------
(***************************************************************************)
(* What every single-agent engine promises its caller, whatever the model  *)
(* answers: at most Budget model calls, one of a few verdicts, and, on     *)
(* every verdict but an outage, a usage figure equal to what was billed.   *)
(* This is the contract review_tools.py describes for "EVERY engine"       *)
(* (MAX_ITERATIONS and the two exceptions that carry a usage).             *)
(***************************************************************************)
EXTENDS Integers

CONSTANTS
    None,
    Budget,    \* the number of model calls the agent may make
    Costs      \* the tokens one answered model call may bill

VARIABLES
    turns,     \* model calls answered
    spent,     \* tokens billed for them
    verdict,   \* None while running, then how the review ended
    usage      \* the tokens reported to the caller, None if it is told none

vars == <<turns, spent, verdict, usage>>

Verdicts == {"submitted", "no_submit", "exceeded"}
Outages  == {"api_error", "github_error"}

TypeOK ==
    /\ turns \in 0..Budget
    /\ spent \in Nat
    /\ verdict \in Verdicts \cup Outages \cup {None}
    /\ usage \in Nat \cup {None}

Init == turns = 0 /\ spent = 0 /\ verdict = None /\ usage = None

Answered ==
    /\ verdict = None
    /\ turns < Budget
    /\ turns' = turns + 1
    /\ \E c \in Costs : spent' = spent + c

(* The model answers with tool calls: the review goes on.                  *)
Investigate == Answered /\ UNCHANGED <<verdict, usage>>

(* The model stops talking without calling a tool.                         *)
GiveUp ==
    /\ Answered
    /\ verdict' = "no_submit"
    /\ usage' = spent'

(* The review ends after the tools of a turn have run.                     *)
Conclude ==
    /\ verdict = None
    /\ turns > 0
    /\ \/ verdict' = "submitted"
       \/ turns = Budget /\ verdict' = "exceeded"
    /\ usage' = spent
    /\ UNCHANGED <<turns, spent>>

(* GitHub can fail the review only before the first model call, since a    *)
(* failing tool is an answer to the model; the model API can fail it at    *)
(* any call.  Neither error carries a usage.                               *)
Outage ==
    /\ verdict = None
    /\ \/ turns = 0 /\ verdict' = "github_error"
       \/ turns < Budget /\ verdict' = "api_error"
    /\ UNCHANGED <<turns, spent, usage>>

Next == Investigate \/ GiveUp \/ Conclude \/ Outage

Spec == Init /\ [][Next]_vars
=============================================================================
