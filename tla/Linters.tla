------------------------------ MODULE Linters -------------------------------
(***************************************************************************)
(* The tool run_linter (services/linters): agents that run at the same     *)
(* time each execute the lint calls of a turn, one after the other         *)
(* (execute_tool_turn).  A call fetches the file, writes it into a         *)
(* temporary directory, runs the language's linter there as a process      *)
(* awaited without a timeout, reads what it reported, and removes the      *)
(* directory when it leaves the with block, by an exception too.  A        *)
(* specialist's time budget may cancel its agent at any await.  The        *)
(* process is not stopped then: it still works in the directory that is    *)
(* being removed, and if removing it fails, the OSError takes the place of *)
(* the CancelledError and is answered like any failure of a tool.          *)
(*                                                                         *)
(* A file has a name, an extension and a content, "clean" or "faulty",     *)
(* which is also what its linter reports about it.                         *)
(***************************************************************************)
EXTENDS Integers, Sequences, FiniteSets

CONSTANTS
    None,
    Agents,    \* the agents at work
    Turn       \* the files each of them lints in its turn

LanguageOf ==
    [py |-> "python", ts |-> "js_ts", tsx |-> "js_ts", js |-> "js_ts", jsx |-> "js_ts",
     cs |-> "csharp"]

language_for_path(file) ==
    IF file.extension \in DOMAIN LanguageOf THEN LanguageOf[file.extension] ELSE None

ASSUME TurnAssumption ==
    \A a \in Agents :
        Turn[a] \in Seq([name: STRING, extension: STRING, content: {"clean", "faulty"}]) \ {<<>>}

ASSUME NoneAssumption == None \notin {"running", "clean", "faulty", "silent", "honoured", "lost"}

VARIABLES
    at,           \* what each agent awaits, "over" once its turn is
    answers,      \* the answers to its calls so far
    cancelled,    \* None, or whether its cancellation was "honoured" or "lost"
    directories,  \* the temporary directories there are, and the file in each,
                  \* "report" for one that only holds a report
    process       \* the linter process of each call

vars == <<at, answers, cancelled, directories, process>>

Call == UNION {{a} \X DOMAIN Turn[a] : a \in Agents}

(* The call an agent is executing, and its file.                           *)
Current(a) == <<a, Len(answers[a]) + 1>>
File(c)    == Turn[c[1]][c[2]]

(* Mutant: a directory named after the file, shared by its calls.          *)
Directory_ByName(c) == File(c).name

(* tempfile.TemporaryDirectory(): a directory no other call has.           *)
Directory(c) == c

Without(dirs, d) == [x \in DOMAIN dirs \ {d} |-> dirs[x]]
With(dirs, d, content) == [x \in DOMAIN dirs \cup {d} |-> IF x = d THEN content ELSE dirs[x]]

Finished == {"clean", "faulty", "silent"}   \* how a process may end

-----------------------------------------------------------------------------
Init ==
    /\ at = [a \in Agents |-> "fetch"]
    /\ answers = [a \in Agents |-> <<>>]
    /\ cancelled = [a \in Agents |-> None]
    /\ directories = [d \in {} |-> None]
    /\ process = [c \in Call |-> None]

(* Mutant: the turn asks for a call after its last one.                    *)
Answer_NeverOver(a, content) ==
    /\ answers' = [answers EXCEPT ![a] = Append(@, content)]
    /\ at' = [at EXCEPT ![a] = "fetch"]

(* The call is answered, and the turn goes on with the next one.           *)
Answer(a, content) ==
    /\ answers' = [answers EXCEPT ![a] = Append(@, content)]
    /\ at' = [at EXCEPT ![a] = IF Len(answers'[a]) < Len(Turn[a]) THEN "fetch" ELSE "over"]

Unsupported(a) ==
    /\ at[a] = "fetch" /\ language_for_path(File(Current(a))) = None
    /\ Answer(a, "unsupported")
    /\ UNCHANGED <<cancelled, directories, process>>

(* The file is fetched and written, and the linter is being started.       *)
WriteFile(a) ==
    /\ at[a] = "fetch" /\ language_for_path(File(Current(a))) # None
    /\ at' = [at EXCEPT ![a] = "start"]
    /\ directories' = With(directories, Directory(Current(a)), File(Current(a)).content)
    /\ UNCHANGED <<answers, cancelled, process>>

FetchFails(a) ==
    /\ at[a] = "fetch"
    /\ Answer(a, "error")
    /\ UNCHANGED <<cancelled, directories, process>>

StartLinter(a) ==
    /\ at[a] = "start"
    /\ at' = [at EXCEPT ![a] = "communicate"]
    /\ process' = [process EXCEPT ![Current(a)] = "running"]
    /\ UNCHANGED <<answers, cancelled, directories>>

(* Mutant: the directory is only removed after a report was read.          *)
LinterMissing_KeepsDirectory(a) ==
    /\ at[a] = "start"
    /\ Answer(a, "error")
    /\ UNCHANGED <<cancelled, directories, process>>

(* Mutant: a linter that does not start is tried again.                    *)
LinterMissing_Retried(a) ==
    /\ at[a] = "start"
    /\ at' = [at EXCEPT ![a] = "fetch"]
    /\ directories' = Without(directories, Directory(Current(a)))
    /\ UNCHANGED <<answers, cancelled, process>>

(* The linter, or for C# the .NET SDK, is not installed.                   *)
LinterMissing(a) ==
    /\ at[a] = "start"
    /\ Answer(a, "error")
    /\ directories' = Without(directories, Directory(Current(a)))
    /\ UNCHANGED <<cancelled, process>>

(* The process ends: with its report of the file it finds, or without one. *)
(* `dotnet format --report' creates the directory of its report and, where *)
(* the call's own has been removed meanwhile, that one again.              *)
ProcessEnds(c) ==
    /\ process[c] = "running"
    /\ \/ process' = [process EXCEPT ![c] = "silent"] /\ UNCHANGED directories
       \/ /\ Directory(c) \in DOMAIN directories
          /\ process' = [process EXCEPT ![c] = directories[Directory(c)]]
          /\ UNCHANGED directories
       \/ /\ Directory(c) \notin DOMAIN directories
          /\ language_for_path(File(c)) = "csharp"
          /\ process' = [process EXCEPT ![c] = "silent"]
          /\ directories' = With(directories, Directory(c), "report")
    /\ UNCHANGED <<at, answers, cancelled>>

(* Whatever the exit code: a report that is not JSON, or for C# a report   *)
(* file that is not there, is an error.                                    *)
ReadReport(a) ==
    LET ended == process[Current(a)]
    IN  /\ at[a] = "communicate" /\ ended \in Finished
        /\ Answer(a, IF ended = "silent" THEN "error" ELSE ended)
        /\ directories' = Without(directories, Directory(Current(a)))
        /\ UNCHANGED <<cancelled, process>>

-----------------------------------------------------------------------------
CancellationDelivered(a) == cancelled[a] = None /\ at[a] # "over"

(* The CancelledError leaves the with block and the turn.  (A process that *)
(* is being started is killed by asyncio.)                                 *)
Cancelled(a) ==
    /\ CancellationDelivered(a)
    /\ at' = [at EXCEPT ![a] = "over"]
    /\ cancelled' = [cancelled EXCEPT ![a] = "honoured"]
    /\ directories' = Without(directories, Directory(Current(a)))
    /\ UNCHANGED <<answers, process>>

(* The process wrote into the directory while it was being removed: the    *)
(* OSError is an Exception, so it is the call's answer and the turn goes   *)
(* on.                                                                     *)
CancellationLost(a) ==
    /\ CancellationDelivered(a) /\ process[Current(a)] = "running"
    /\ Answer(a, "error")
    /\ cancelled' = [cancelled EXCEPT ![a] = "lost"]
    /\ UNCHANGED <<directories, process>>

Agent(a) ==
    \/ Unsupported(a) \/ WriteFile(a) \/ FetchFails(a)
    \/ StartLinter(a) \/ LinterMissing(a) \/ ReadReport(a)

Terminated == (\A a \in Agents : at[a] = "over") /\ UNCHANGED vars

Next ==
    \/ \E a \in Agents : Agent(a) \/ Cancelled(a) \/ CancellationLost(a)
    \/ \E c \in Call : ProcessEnds(c)
    \/ Terminated

(* GitHub calls end and processes start; that a linter ever ends is not    *)
(* assumed.  A budget that has expired is a timer of the event loop.       *)
Fairness == \A a \in Agents : WF_vars(Agent(a))

Spec == Init /\ [][Next]_vars /\ Fairness

-----------------------------------------------------------------------------
TypeOK ==
    /\ at \in [Agents -> {"fetch", "start", "communicate", "over"}]
    /\ answers \in [Agents -> Seq({"unsupported", "clean", "faulty", "error"})]
    /\ \A a \in Agents : Len(answers[a]) <= Len(Turn[a])
    /\ \A a \in Agents : at[a] # "over" => Len(answers[a]) < Len(Turn[a])
    /\ cancelled \in [Agents -> {None, "honoured", "lost"}]
    /\ \A d \in DOMAIN directories : directories[d] \in {"clean", "faulty", "report"}
    /\ process \in [Call -> Finished \cup {"running", None}]

(* "We checked, it's clean" is only said of a file whose own content the   *)
(* linter reported clean, never of one without a linter, of a linter that  *)
(* broke, or because another agent lints a file of that name.              *)
AnswersAreAboutTheFile ==
    \A a \in Agents : \A i \in DOMAIN answers[a] :
        LET file == Turn[a][i]
        IN  answers[a][i] \in {"error", IF language_for_path(file) = None
                                         THEN "unsupported" ELSE file.content}

(* Once all turns are over, the machine is as it was: no process runs      *)
(* except those of calls cut short by cancellation, and no directory is    *)
(* left except by a call whose cancellation was lost, or whose process     *)
(* wrote its report after the directory was removed.                       *)
CutShort(c) == cancelled[c[1]] # None /\ process[c] # None

MayLeaveDirectory(c) ==
    /\ CutShort(c)
    /\ cancelled[c[1]] = "lost" \/ language_for_path(File(c)) = "csharp"

NothingLeftBehind ==
    (\A a \in Agents : at[a] = "over") =>
        /\ \A c \in Call : process[c] = "running" => CutShort(c)
        /\ \A d \in DOMAIN directories : \E c \in Call : d = Directory(c) /\ MayLeaveDirectory(c)

(* A turn ends if the linters it waits for end.                            *)
TurnsEnd ==
    \A a \in Agents :
        ([]<>~\E i \in DOMAIN Turn[a] : process[<<a, i>>] = "running") => <>(at[a] = "over")
=============================================================================
