--------------------------- MODULE LintersProofs ----------------------------
(***************************************************************************)
(* Linters, for any number of agents and files: no agent is told anything  *)
(* about a file but what its linter reported of it, and nothing is left    *)
(* behind but what a cancellation cut short.  The argument is ownership: a *)
(* directory belongs to one call, holds that call's file or, once its      *)
(* process is over, a report, and is there as long as the call waits for   *)
(* its linter.                                                             *)
(***************************************************************************)
EXTENDS Linters, TLAPS

Answers == {"unsupported", "clean", "faulty", "error"}
InBlock == {"start", "communicate"}   \* inside the with block

DirectoriesHoldOwnFile ==
    \A d \in DOMAIN directories :
        /\ d \in Call
        /\ \/ directories[d] = File(d).content
           \/ directories[d] = "report" /\ process[d] = "silent"

BlockHasDirectory ==
    \A a \in Agents : at[a] \in InBlock =>
        /\ Current(a) \in DOMAIN directories
        /\ directories[Current(a)] = File(Current(a)).content
        /\ language_for_path(File(Current(a))) # None

ReportsAreOfOwnFile ==
    \A c \in Call : process[c] \in {"clean", "faulty"} => process[c] = File(c).content

DirectoriesAreOwned ==
    \A d \in DOMAIN directories :
        \/ at[d[1]] \in InBlock /\ d = Current(d[1])
        \/ MayLeaveDirectory(d)

ProcessesAreOwned ==
    \A c \in Call : process[c] = "running" =>
        \/ at[c[1]] = "communicate" /\ c = Current(c[1])
        \/ cancelled[c[1]] # None

Inv ==
    /\ TypeOK
    /\ DirectoriesHoldOwnFile
    /\ BlockHasDirectory
    /\ ReportsAreOfOwnFile
    /\ AnswersAreAboutTheFile
    /\ DirectoriesAreOwned
    /\ ProcessesAreOwned

-----------------------------------------------------------------------------
(* A call is an agent and an index of its turn.                            *)
LEMMA CallParts ==
    /\ \A a \in Agents : \A i \in DOMAIN Turn[a] : <<a, i>> \in Call
    /\ \A c \in Call : c = <<c[1], c[2]>> /\ c[1] \in Agents /\ c[2] \in DOMAIN Turn[c[1]]
  BY DEF Call

LEMMA ContentOfCall ==
    ASSUME NEW c \in Call PROVE File(c).content \in {"clean", "faulty"}
<1> DEFINE Files == [name: STRING, extension: STRING, content: {"clean", "faulty"}]
<1>1. Turn[c[1]] \in Seq(Files) /\ c[2] \in DOMAIN Turn[c[1]]
  BY CallParts, TurnAssumption
<1> HIDE DEF Files
<1>2. File(c) \in Files
  BY <1>1 DEF File
<1> QED  BY <1>2 DEF Files

(* The call of an agent whose turn is not over.                            *)
LEMMA CurrentIsCall ==
    ASSUME TypeOK, NEW a \in Agents, at[a] # "over"
    PROVE  /\ Current(a) \in Call
           /\ Current(a) = <<a, Len(answers[a]) + 1>>
           /\ Len(answers[a]) + 1 \in DOMAIN Turn[a]
           /\ File(Current(a)) = Turn[a][Len(answers[a]) + 1]
           /\ File(Current(a)).content \in {"clean", "faulty"}
<1>1. Len(answers[a]) \in Nat /\ Len(answers[a]) < Len(Turn[a])
  BY DEF TypeOK
<1>2. Len(answers[a]) + 1 \in DOMAIN Turn[a]
  BY <1>1, TurnAssumption
<1> DEFINE Files == [name: STRING, extension: STRING, content: {"clean", "faulty"}]
<1>3. Turn[a] \in Seq(Files)
  BY TurnAssumption
<1> HIDE DEF Files
<1>4. Turn[a][Len(answers[a]) + 1] \in Files
  BY <1>2, <1>3
<1>5. Turn[a][Len(answers[a]) + 1].content \in {"clean", "faulty"}
  BY <1>4 DEF Files
<1> QED  BY <1>2, <1>5, CallParts DEF Current, File

(* What answering a call does: the agent's own list grows by one answer,   *)
(* it leaves the block, and no other agent notices.                        *)
LEMMA AnswerStep ==
    ASSUME TypeOK, NEW a \in Agents, at[a] # "over", NEW content \in Answers,
           Answer(a, content)
    PROVE  /\ answers' \in [Agents -> Seq(Answers)]
           /\ answers'[a] = Append(answers[a], content)
           /\ Len(answers'[a]) = Len(answers[a]) + 1
           /\ at' \in [Agents -> {"fetch", "start", "communicate", "over"}]
           /\ at'[a] \in {"fetch", "over"}
           /\ Len(answers'[a]) <= Len(Turn[a])
           /\ at'[a] # "over" => Len(answers'[a]) < Len(Turn[a])
           /\ \A b \in Agents : b # a =>
                 at'[b] = at[b] /\ answers'[b] = answers[b] /\ Current(b)' = Current(b)
<1>1. answers[a] \in Seq(Answers) /\ Len(answers[a]) < Len(Turn[a])
  BY DEF TypeOK, Answers
<1>2. /\ answers' = [answers EXCEPT ![a] = Append(answers[a], content)]
      /\ at' = [at EXCEPT ![a] = IF Len(answers'[a]) < Len(Turn[a]) THEN "fetch" ELSE "over"]
  BY DEF Answer
<1>3. Append(answers[a], content) \in Seq(Answers)
      /\ Len(Append(answers[a], content)) = Len(answers[a]) + 1
  BY <1>1
<1>4. answers'[a] = Append(answers[a], content) /\ answers' \in [Agents -> Seq(Answers)]
  BY <1>2, <1>3 DEF TypeOK, Answers
<1>5. at'[a] = IF Len(answers'[a]) < Len(Turn[a]) THEN "fetch" ELSE "over"
  BY <1>2 DEF TypeOK
<1>6. at' \in [Agents -> {"fetch", "start", "communicate", "over"}]
  BY <1>2 DEF TypeOK
<1>7. \A b \in Agents : b # a =>
          at'[b] = at[b] /\ answers'[b] = answers[b] /\ Current(b)' = Current(b)
  BY <1>2 DEF TypeOK, Current
<1>8. Len(Turn[a]) \in Nat
  BY TurnAssumption
<1> QED  BY <1>1, <1>3, <1>4, <1>5, <1>6, <1>7, <1>8

(* A new answer about the call's own file keeps all answers about theirs.  *)
LEMMA AnswerIsAboutFile ==
    ASSUME TypeOK, AnswersAreAboutTheFile, NEW a \in Agents, at[a] # "over",
           NEW content \in Answers, Answer(a, content),
           content \in {"error", IF language_for_path(File(Current(a))) = None
                                  THEN "unsupported" ELSE File(Current(a)).content}
    PROVE  AnswersAreAboutTheFile'
<1> SUFFICES ASSUME NEW b \in Agents, NEW i \in DOMAIN answers'[b]
             PROVE  answers'[b][i] \in
                      {"error", IF language_for_path(Turn[b][i]) = None
                                 THEN "unsupported" ELSE Turn[b][i].content}
  BY DEF AnswersAreAboutTheFile
<1>1. CASE b # a
  BY <1>1, AnswerStep DEF AnswersAreAboutTheFile
<1>2. CASE b = a /\ i \in DOMAIN answers[a]
  <2>1. answers[a] \in Seq(Answers) /\ answers'[a] = Append(answers[a], content)
    BY AnswerStep DEF TypeOK, Answers
  <2>2. answers'[a][i] = answers[a][i]
    BY <1>2, <2>1
  <2> QED  BY <1>2, <2>2 DEF AnswersAreAboutTheFile
<1>3. CASE b = a /\ i \notin DOMAIN answers[a]
  <2>0. answers[a] \in Seq(Answers) /\ answers'[a] = Append(answers[a], content)
    BY AnswerStep DEF TypeOK, Answers
  <2>1. i = Len(answers[a]) + 1 /\ answers'[a][i] = content
    BY <1>3, <2>0
  <2>2. Turn[b][i] = File(Current(a))
    BY <1>3, <2>1, CurrentIsCall
  <2> QED  BY <1>3, <2>1, <2>2
<1> QED  BY <1>1, <1>2, <1>3

-----------------------------------------------------------------------------
(* An action that answers the current call, and has removed its directory  *)
(* if it had one, keeps the invariant.                                     *)
LEMMA LeavesBlock ==
    ASSUME Inv, NEW a \in Agents, at[a] # "over", NEW content \in Answers, Answer(a, content),
           content \in {"error", IF language_for_path(File(Current(a))) = None
                                  THEN "unsupported" ELSE File(Current(a)).content},
           \/ directories' = Without(directories, Directory(Current(a)))
           \/ at[a] = "fetch" /\ directories' = directories,
           process[Current(a)] # "running" \/ at[a] # "communicate",
           UNCHANGED <<cancelled, process>>
    PROVE  Inv'
<1>0. TypeOK /\ Current(a) \in Call
  BY CurrentIsCall DEF Inv
<1>1. /\ answers' \in [Agents -> Seq(Answers)]
      /\ at' \in [Agents -> {"fetch", "start", "communicate", "over"}]
      /\ at'[a] \in {"fetch", "over"}
      /\ Len(answers'[a]) <= Len(Turn[a])
      /\ at'[a] # "over" => Len(answers'[a]) < Len(Turn[a])
      /\ \A b \in Agents : b # a =>
            at'[b] = at[b] /\ answers'[b] = answers[b] /\ Current(b)' = Current(b)
  BY <1>0, AnswerStep
<1>2. /\ DOMAIN directories' \subseteq DOMAIN directories
      /\ \A d \in DOMAIN directories' : directories'[d] = directories[d]
      /\ \A d \in DOMAIN directories : d # Current(a) => d \in DOMAIN directories'
      /\ at[a] # "fetch" => Current(a) \notin DOMAIN directories'
  BY DEF Without, Directory
<1>3. TypeOK'
  <2>1. \A b \in Agents : /\ Len(answers'[b]) <= Len(Turn[b])
                          /\ at'[b] # "over" => Len(answers'[b]) < Len(Turn[b])
    BY <1>0, <1>1 DEF TypeOK
  <2>2. \A d \in DOMAIN directories' : directories'[d] \in {"clean", "faulty", "report"}
    BY <1>0, <1>2 DEF TypeOK
  <2> QED  BY <1>0, <1>1, <2>1, <2>2 DEF TypeOK, Answers
<1>4. DirectoriesHoldOwnFile'
  BY <1>2 DEF Inv, DirectoriesHoldOwnFile, File
<1>5. BlockHasDirectory'
  <2> SUFFICES ASSUME NEW b \in Agents, at'[b] \in InBlock
               PROVE  /\ Current(b)' \in DOMAIN directories'
                      /\ directories'[Current(b)'] = File(Current(b)').content
                      /\ language_for_path(File(Current(b)')) # None
    BY DEF BlockHasDirectory, File, language_for_path
  <2>1. b # a
    BY <1>1 DEF InBlock
  <2>2. at[b] \in InBlock /\ Current(b)' = Current(b)
    BY <1>1, <2>1
  <2>3. Current(b) # Current(a)
    BY <2>1 DEF Current
  <2> QED  BY <1>2, <2>2, <2>3 DEF Inv, BlockHasDirectory
<1>6. ReportsAreOfOwnFile'
  BY DEF Inv, ReportsAreOfOwnFile, File
<1>7. AnswersAreAboutTheFile'
  BY <1>0, AnswerIsAboutFile DEF Inv
<1>8. DirectoriesAreOwned'
  <2> SUFFICES ASSUME NEW d \in DOMAIN directories'
               PROVE  \/ at'[d[1]] \in InBlock /\ d = Current(d[1])'
                      \/ MayLeaveDirectory(d)'
    BY DEF DirectoriesAreOwned
  <2>1. d \in DOMAIN directories /\ d \in Call /\ d[1] \in Agents
    BY <1>2, CallParts DEF Inv, DirectoriesHoldOwnFile
  <2>2. CASE MayLeaveDirectory(d)
    BY <2>2 DEF MayLeaveDirectory, CutShort, File
  <2>3. CASE at[d[1]] \in InBlock /\ d = Current(d[1])
    <3>1. d[1] # a
      BY <1>2, <2>3 DEF InBlock
    <3> QED  BY <1>1, <2>1, <2>3, <3>1
  <2> QED  BY <2>1, <2>2, <2>3 DEF Inv, DirectoriesAreOwned
<1>9. ProcessesAreOwned'
  <2> SUFFICES ASSUME NEW c \in Call, process[c] = "running"
               PROVE  \/ at'[c[1]] = "communicate" /\ c = Current(c[1])'
                      \/ cancelled[c[1]] # None
    BY DEF ProcessesAreOwned
  <2>1. CASE cancelled[c[1]] # None
    BY <2>1
  <2>2. CASE at[c[1]] = "communicate" /\ c = Current(c[1])
    <3>1. c[1] # a
      BY <2>2
    <3> QED  BY <1>1, <2>2, <3>1, CallParts
  <2> QED  BY <2>1, <2>2 DEF Inv, ProcessesAreOwned
<1> QED  BY <1>3, <1>4, <1>5, <1>6, <1>7, <1>8, <1>9 DEF Inv

(* Writing the file: the call now owns a directory with its own file.      *)
LEMMA WriteFileStep == ASSUME Inv, NEW a \in Agents, WriteFile(a) PROVE Inv'
<1>0. TypeOK /\ at[a] = "fetch" /\ Current(a) \in Call /\ Current(a)[1] = a
      /\ File(Current(a)).content \in {"clean", "faulty"}
      /\ language_for_path(File(Current(a))) # None
  BY CurrentIsCall DEF Inv, WriteFile, Current
<1>1. /\ at' \in [Agents -> {"fetch", "start", "communicate", "over"}]
      /\ at'[a] = "start"
      /\ \A b \in Agents : b # a => at'[b] = at[b]
      /\ UNCHANGED <<answers, cancelled, process>>
      /\ \A b \in Agents : Current(b)' = Current(b)
  BY <1>0 DEF TypeOK, WriteFile, Current
<1>2. /\ DOMAIN directories' = DOMAIN directories \cup {Current(a)}
      /\ directories'[Current(a)] = File(Current(a)).content
      /\ \A d \in DOMAIN directories : d # Current(a) => directories'[d] = directories[d]
  BY DEF WriteFile, With, Directory
<1>3. TypeOK'
  <2>1. \A d \in DOMAIN directories' : directories'[d] \in {"clean", "faulty", "report"}
    BY <1>0, <1>2 DEF TypeOK
  <2>2. \A b \in Agents : at'[b] # "over" => Len(answers[b]) < Len(Turn[b])
    BY <1>0, <1>1 DEF TypeOK
  <2> QED  BY <1>0, <1>1, <2>1, <2>2 DEF TypeOK
<1>4. DirectoriesHoldOwnFile'
  BY <1>0, <1>1, <1>2 DEF Inv, DirectoriesHoldOwnFile, File
<1>5. BlockHasDirectory'
  <2> SUFFICES ASSUME NEW b \in Agents, at'[b] \in InBlock
               PROVE  /\ Current(b) \in DOMAIN directories'
                      /\ directories'[Current(b)] = File(Current(b)).content
                      /\ language_for_path(File(Current(b))) # None
    BY <1>1 DEF BlockHasDirectory, File, language_for_path
  <2>1. CASE b = a
    BY <1>0, <1>2, <2>1
  <2>2. CASE b # a
    BY <1>1, <1>2, <2>2 DEF Inv, BlockHasDirectory
  <2> QED  BY <2>1, <2>2
<1>6. ReportsAreOfOwnFile' /\ AnswersAreAboutTheFile'
  BY <1>1 DEF Inv, ReportsAreOfOwnFile, AnswersAreAboutTheFile, File
<1>7. DirectoriesAreOwned'
  <2> SUFFICES ASSUME NEW d \in DOMAIN directories'
               PROVE  \/ at'[d[1]] \in InBlock /\ d = Current(d[1])
                      \/ MayLeaveDirectory(d)'
    BY <1>1 DEF DirectoriesAreOwned, Current
  <2>1. CASE d = Current(a)
    BY <1>0, <1>1, <2>1 DEF InBlock
  <2>2. CASE d # Current(a) /\ at[d[1]] \in InBlock /\ d = Current(d[1])
    <3>1. d[1] # a /\ d[1] \in Agents
      BY <1>2, <2>2, CallParts DEF Inv, DirectoriesHoldOwnFile
    <3> QED  BY <1>1, <2>2, <3>1
  <2>3. CASE MayLeaveDirectory(d)
    BY <1>1, <2>3 DEF MayLeaveDirectory, CutShort, File
  <2> QED  BY <1>2, <2>1, <2>2, <2>3 DEF Inv, DirectoriesAreOwned
<1>8. ProcessesAreOwned'
  <2> SUFFICES ASSUME NEW c \in Call, process[c] = "running"
               PROVE  \/ at'[c[1]] = "communicate" /\ c = Current(c[1])
                      \/ cancelled[c[1]] # None
    BY <1>1 DEF ProcessesAreOwned, Current
  <2> QED  BY <1>0, <1>1, CallParts DEF Inv, ProcessesAreOwned
<1> QED  BY <1>3, <1>4, <1>5, <1>6, <1>7, <1>8 DEF Inv

(* Starting the linter: the running process is that of the waiting call.   *)
LEMMA StartLinterStep == ASSUME Inv, NEW a \in Agents, StartLinter(a) PROVE Inv'
<1>0. TypeOK /\ at[a] = "start" /\ Current(a) \in Call /\ Current(a)[1] = a
  BY CurrentIsCall DEF Inv, StartLinter, Current
<1>1. /\ at' \in [Agents -> {"fetch", "start", "communicate", "over"}]
      /\ at'[a] = "communicate"
      /\ \A b \in Agents : b # a => at'[b] = at[b]
      /\ UNCHANGED <<answers, cancelled, directories>>
      /\ \A b \in Agents : Current(b)' = Current(b)
  BY <1>0 DEF TypeOK, StartLinter, Current
<1>2. /\ process' \in [Call -> Finished \cup {"running", None}]
      /\ process'[Current(a)] = "running"
      /\ \A c \in Call : c # Current(a) => process'[c] = process[c]
  BY <1>0 DEF TypeOK, StartLinter
<1>3. TypeOK'
  <2>1. \A b \in Agents : at'[b] # "over" => Len(answers[b]) < Len(Turn[b])
    BY <1>0, <1>1 DEF TypeOK
  <2> QED  BY <1>0, <1>1, <1>2, <2>1 DEF TypeOK
<1>4. DirectoriesHoldOwnFile'
  <2>1. directories[Current(a)] = File(Current(a)).content
    BY <1>0 DEF Inv, BlockHasDirectory, InBlock
  <2> QED  BY <1>1, <1>2, <2>1 DEF Inv, DirectoriesHoldOwnFile, File
<1>9. AnswersAreAboutTheFile'
  BY <1>1 DEF Inv, AnswersAreAboutTheFile, File
<1>5. BlockHasDirectory'
  <2> SUFFICES ASSUME NEW b \in Agents, at'[b] \in InBlock
               PROVE  /\ Current(b) \in DOMAIN directories
                      /\ directories[Current(b)] = File(Current(b)).content
                      /\ language_for_path(File(Current(b))) # None
    BY <1>1 DEF BlockHasDirectory, File, language_for_path
  <2>1. at[b] \in InBlock
    BY <1>0, <1>1 DEF InBlock
  <2> QED  BY <2>1 DEF Inv, BlockHasDirectory
<1>6. ReportsAreOfOwnFile'
  BY <1>2 DEF Inv, ReportsAreOfOwnFile, File
<1>7. DirectoriesAreOwned'
  <2> SUFFICES ASSUME NEW d \in DOMAIN directories
               PROVE  \/ at'[d[1]] \in InBlock /\ d = Current(d[1])
                      \/ MayLeaveDirectory(d)'
    BY <1>1 DEF DirectoriesAreOwned, Current
  <2>1. d \in Call /\ d[1] \in Agents
    BY CallParts DEF Inv, DirectoriesHoldOwnFile
  <2>2. CASE at[d[1]] \in InBlock /\ d = Current(d[1])
    BY <1>1, <2>1, <2>2 DEF InBlock
  <2>3. CASE MayLeaveDirectory(d)
    BY <1>1, <1>2, <2>1, <2>3, NoneAssumption DEF MayLeaveDirectory, CutShort, File
  <2> QED  BY <2>2, <2>3 DEF Inv, DirectoriesAreOwned
<1>8. ProcessesAreOwned'
  <2> SUFFICES ASSUME NEW c \in Call, process'[c] = "running"
               PROVE  \/ at'[c[1]] = "communicate" /\ c = Current(c[1])
                      \/ cancelled[c[1]] # None
    BY <1>1 DEF ProcessesAreOwned, Current
  <2>1. CASE c = Current(a)
    BY <1>0, <1>1, <2>1
  <2>2. CASE c # Current(a)
    <3>1. process[c] = "running"
      BY <1>2, <2>2
    <3> QED  BY <1>0, <1>1, <3>1, CallParts DEF Inv, ProcessesAreOwned
  <2> QED  BY <2>1, <2>2
<1> QED  BY <1>3, <1>4, <1>5, <1>6, <1>7, <1>8, <1>9 DEF Inv

(* The linter reports of the file it finds: its call's own.  A process     *)
(* that finds its directory gone outlives a cancellation of its call.      *)
LEMMA ProcessEndsStep == ASSUME Inv, NEW c \in Call, ProcessEnds(c) PROVE Inv'
<1>0. /\ TypeOK /\ process[c] = "running"
      /\ UNCHANGED <<at, answers, cancelled>>
      /\ \A b \in Agents : Current(b)' = Current(b)
  BY DEF Inv, ProcessEnds, Current
<1>1. /\ process'[c] \in {"silent", File(c).content}
      /\ process'[c] \in Finished
      /\ \A d \in Call : d # c => process'[d] = process[d]
      /\ process' \in [Call -> Finished \cup {"running", None}]
  <2>1. CASE process' = [process EXCEPT ![c] = "silent"]
    BY <1>0, <2>1 DEF TypeOK, Finished
  <2>2. CASE /\ Directory(c) \in DOMAIN directories
             /\ process' = [process EXCEPT ![c] = directories[Directory(c)]]
    <3>1. directories[c] = File(c).content /\ directories[c] \in {"clean", "faulty", "report"}
      BY <1>0, <2>2 DEF Inv, TypeOK, DirectoriesHoldOwnFile, Directory
    <3>2. File(c).content \in {"clean", "faulty"}
      BY ContentOfCall
    <3> QED  BY <1>0, <2>2, <3>1, <3>2 DEF TypeOK, Finished, Directory
  <2> QED  BY <2>1, <2>2 DEF ProcessEnds
<1>2. \/ directories' = directories
      \/ /\ c \notin DOMAIN directories
         /\ DOMAIN directories' = DOMAIN directories \cup {c}
         /\ directories'[c] = "report" /\ process'[c] = "silent"
         /\ \A d \in DOMAIN directories : directories'[d] = directories[d]
         /\ cancelled[c[1]] # None /\ language_for_path(File(c)) = "csharp"
  <2>1. CASE directories' = directories
    BY <2>1
  <2>2. CASE /\ Directory(c) \notin DOMAIN directories
             /\ language_for_path(File(c)) = "csharp"
             /\ process' = [process EXCEPT ![c] = "silent"]
             /\ directories' = With(directories, Directory(c), "report")
    <3>1. cancelled[c[1]] # None
      BY <1>0, <2>2, CallParts DEF Inv, ProcessesAreOwned, BlockHasDirectory, InBlock, Directory
    <3>2. process'[c] = "silent"
      BY <1>0, <2>2 DEF TypeOK
    <3>3. /\ DOMAIN directories' = DOMAIN directories \cup {c}
          /\ directories'[c] = "report"
          /\ \A d \in DOMAIN directories : directories'[d] = directories[d]
      BY <2>2 DEF With, Directory
    <3> QED  BY <2>2, <3>1, <3>2, <3>3 DEF Directory
  <2> QED  BY <2>1, <2>2 DEF ProcessEnds
<1>3. TypeOK'
  <2>1. \A d \in DOMAIN directories' : directories'[d] \in {"clean", "faulty", "report"}
    BY <1>0, <1>2 DEF TypeOK
  <2> QED  BY <1>0, <1>1, <2>1 DEF TypeOK
<1>4. DirectoriesHoldOwnFile'
  <2> SUFFICES ASSUME NEW d \in DOMAIN directories'
               PROVE  /\ d \in Call
                      /\ \/ directories'[d] = File(d).content
                         \/ directories'[d] = "report" /\ process'[d] = "silent"
    BY DEF DirectoriesHoldOwnFile, File
  <2>1. CASE d \in DOMAIN directories
    <3>1. directories'[d] = directories[d]
      BY <1>2, <2>1
    <3>2. process[d] = "silent" => d # c
      BY <1>0
    <3> QED  BY <1>1, <2>1, <3>1, <3>2 DEF Inv, DirectoriesHoldOwnFile
  <2>2. CASE d \notin DOMAIN directories
    BY <1>2, <2>2
  <2> QED  BY <2>1, <2>2
<1>5. BlockHasDirectory'
  <2> SUFFICES ASSUME NEW b \in Agents, at[b] \in InBlock
               PROVE  /\ Current(b) \in DOMAIN directories'
                      /\ directories'[Current(b)] = File(Current(b)).content
                      /\ language_for_path(File(Current(b))) # None
    BY <1>0 DEF BlockHasDirectory, File, language_for_path
  <2> QED  BY <1>2 DEF Inv, BlockHasDirectory
<1>6. AnswersAreAboutTheFile'
  BY <1>0 DEF Inv, AnswersAreAboutTheFile
<1>7. ReportsAreOfOwnFile'
  <2> SUFFICES ASSUME NEW d \in Call, process'[d] \in {"clean", "faulty"}
               PROVE  process'[d] = File(d).content
    BY DEF ReportsAreOfOwnFile, File
  <2> QED  BY <1>1 DEF Inv, ReportsAreOfOwnFile
<1>8. DirectoriesAreOwned'
  <2> SUFFICES ASSUME NEW d \in DOMAIN directories'
               PROVE  \/ at[d[1]] \in InBlock /\ d = Current(d[1])
                      \/ MayLeaveDirectory(d)'
    BY <1>0, <1>4, CallParts DEF DirectoriesAreOwned, DirectoriesHoldOwnFile, Current
  <2>1. CASE d \in DOMAIN directories /\ MayLeaveDirectory(d)
    <3>1. process'[d] # None
      BY <1>1, <2>1, NoneAssumption
      DEF Inv, DirectoriesHoldOwnFile, Finished, MayLeaveDirectory, CutShort
    <3> QED  BY <1>0, <2>1, <3>1 DEF MayLeaveDirectory, CutShort, File
  <2>2. CASE d \notin DOMAIN directories
    BY <1>0, <1>2, <2>2, NoneAssumption DEF MayLeaveDirectory, CutShort, File, language_for_path
  <2> QED  BY <2>1, <2>2 DEF Inv, DirectoriesAreOwned
<1>9. ProcessesAreOwned'
  <2> SUFFICES ASSUME NEW d \in Call, process'[d] = "running"
               PROVE  \/ at[d[1]] = "communicate" /\ d = Current(d[1])
                      \/ cancelled[d[1]] # None
    BY <1>0 DEF ProcessesAreOwned, Current
  <2>1. process[d] = "running"
    BY <1>1 DEF Finished
  <2> QED  BY <2>1 DEF Inv, ProcessesAreOwned
<1> QED  BY <1>3, <1>4, <1>5, <1>6, <1>7, <1>8, <1>9 DEF Inv

(* A cancellation that is honoured leaves the block with its directory.    *)
LEMMA CancelledStep == ASSUME Inv, NEW a \in Agents, Cancelled(a) PROVE Inv'
<1>0. TypeOK /\ at[a] # "over" /\ cancelled[a] = None /\ Current(a) \in Call
  BY CurrentIsCall DEF Inv, Cancelled, CancellationDelivered
<1>1. /\ at' \in [Agents -> {"fetch", "start", "communicate", "over"}]
      /\ at'[a] = "over"
      /\ \A b \in Agents : b # a => at'[b] = at[b]
      /\ cancelled' \in [Agents -> {None, "honoured", "lost"}]
      /\ cancelled'[a] = "honoured"
      /\ \A b \in Agents : b # a => cancelled'[b] = cancelled[b]
      /\ UNCHANGED <<answers, process>>
      /\ \A b \in Agents : Current(b)' = Current(b)
  BY <1>0 DEF TypeOK, Cancelled, Current
<1>2. /\ DOMAIN directories' = DOMAIN directories \ {Current(a)}
      /\ \A d \in DOMAIN directories' : directories'[d] = directories[d]
  BY DEF Cancelled, Without, Directory
<1>3. TypeOK'
  <2>1. \A b \in Agents : at'[b] # "over" => Len(answers[b]) < Len(Turn[b])
    BY <1>0, <1>1 DEF TypeOK
  <2>2. \A d \in DOMAIN directories' : directories'[d] \in {"clean", "faulty", "report"}
    BY <1>0, <1>2 DEF TypeOK
  <2> QED  BY <1>0, <1>1, <2>1, <2>2 DEF TypeOK
<1>4. DirectoriesHoldOwnFile' /\ ReportsAreOfOwnFile' /\ AnswersAreAboutTheFile'
  BY <1>1, <1>2 DEF Inv, DirectoriesHoldOwnFile, ReportsAreOfOwnFile, AnswersAreAboutTheFile, File
<1>5. BlockHasDirectory'
  <2> SUFFICES ASSUME NEW b \in Agents, at'[b] \in InBlock
               PROVE  /\ Current(b) \in DOMAIN directories'
                      /\ directories'[Current(b)] = File(Current(b)).content
                      /\ language_for_path(File(Current(b))) # None
    BY <1>1 DEF BlockHasDirectory, File, language_for_path
  <2>1. b # a
    BY <1>1 DEF InBlock
  <2>2. Current(b) # Current(a)
    BY <2>1 DEF Current
  <2> QED  BY <1>1, <1>2, <2>1, <2>2 DEF Inv, BlockHasDirectory
<1>6. DirectoriesAreOwned'
  <2> SUFFICES ASSUME NEW d \in DOMAIN directories'
               PROVE  \/ at'[d[1]] \in InBlock /\ d = Current(d[1])
                      \/ MayLeaveDirectory(d)'
    BY <1>1 DEF DirectoriesAreOwned, Current
  <2>1. d \in Call /\ d[1] \in Agents /\ d # Current(a)
    BY <1>2, CallParts DEF Inv, DirectoriesHoldOwnFile
  <2>2. CASE at[d[1]] \in InBlock /\ d = Current(d[1])
    BY <1>1, <2>1, <2>2
  <2>3. CASE MayLeaveDirectory(d)
    BY <1>0, <1>1, <2>1, <2>3, NoneAssumption DEF MayLeaveDirectory, CutShort, File
  <2> QED  BY <1>2, <2>2, <2>3 DEF Inv, DirectoriesAreOwned
<1>7. ProcessesAreOwned'
  <2> SUFFICES ASSUME NEW c \in Call, process[c] = "running"
               PROVE  \/ at'[c[1]] = "communicate" /\ c = Current(c[1])
                      \/ cancelled'[c[1]] # None
    BY <1>1 DEF ProcessesAreOwned, Current
  <2>1. CASE c[1] = a
    BY <1>1, <2>1, NoneAssumption
  <2>2. CASE c[1] # a
    BY <1>1, <2>2, CallParts DEF Inv, ProcessesAreOwned
  <2> QED  BY <2>1, <2>2
<1> QED  BY <1>3, <1>4, <1>5, <1>6, <1>7 DEF Inv

(* One that is lost leaves the directory and the process of its call to    *)
(* the call that lost it.                                                  *)
LEMMA CancellationLostStep == ASSUME Inv, NEW a \in Agents, CancellationLost(a) PROVE Inv'
<1>0. TypeOK /\ at[a] # "over" /\ Current(a) \in Call
      /\ process[Current(a)] = "running" /\ Answer(a, "error") /\ "error" \in Answers
      /\ UNCHANGED <<directories, process>>
  BY CurrentIsCall DEF Inv, CancellationLost, CancellationDelivered, Answers
<1>1. /\ answers' \in [Agents -> Seq(Answers)]
      /\ at' \in [Agents -> {"fetch", "start", "communicate", "over"}]
      /\ at'[a] \in {"fetch", "over"}
      /\ Len(answers'[a]) <= Len(Turn[a])
      /\ at'[a] # "over" => Len(answers'[a]) < Len(Turn[a])
      /\ \A b \in Agents : b # a =>
            at'[b] = at[b] /\ answers'[b] = answers[b] /\ Current(b)' = Current(b)
  BY <1>0, AnswerStep
<1>2. /\ cancelled' \in [Agents -> {None, "honoured", "lost"}]
      /\ cancelled'[a] = "lost"
      /\ \A b \in Agents : b # a => cancelled'[b] = cancelled[b]
  BY <1>0 DEF TypeOK, CancellationLost
<1>3. TypeOK'
  <2>1. \A b \in Agents : /\ Len(answers'[b]) <= Len(Turn[b])
                          /\ at'[b] # "over" => Len(answers'[b]) < Len(Turn[b])
    BY <1>0, <1>1 DEF TypeOK
  <2> QED  BY <1>0, <1>1, <1>2, <2>1 DEF TypeOK, Answers
<1>4. DirectoriesHoldOwnFile' /\ ReportsAreOfOwnFile'
  BY <1>0 DEF Inv, DirectoriesHoldOwnFile, ReportsAreOfOwnFile, File
<1>5. AnswersAreAboutTheFile'
  BY <1>0, AnswerIsAboutFile DEF Inv
<1>6. BlockHasDirectory'
  <2> SUFFICES ASSUME NEW b \in Agents, at'[b] \in InBlock
               PROVE  /\ Current(b)' \in DOMAIN directories
                      /\ directories[Current(b)'] = File(Current(b)').content
                      /\ language_for_path(File(Current(b)')) # None
    BY <1>0 DEF BlockHasDirectory, File, language_for_path
  <2>1. b # a
    BY <1>1 DEF InBlock
  <2> QED  BY <1>1, <2>1 DEF Inv, BlockHasDirectory
<1>7. DirectoriesAreOwned'
  <2> SUFFICES ASSUME NEW d \in DOMAIN directories
               PROVE  \/ at'[d[1]] \in InBlock /\ d = Current(d[1])'
                      \/ MayLeaveDirectory(d)'
    BY <1>0 DEF DirectoriesAreOwned
  <2>1. d \in Call /\ d[1] \in Agents
    BY CallParts DEF Inv, DirectoriesHoldOwnFile
  <2>2. CASE at[d[1]] \in InBlock /\ d = Current(d[1]) /\ d[1] # a
    BY <1>1, <2>1, <2>2
  <2>3. CASE d = Current(d[1]) /\ d[1] = a
    BY <1>0, <1>2, <2>3, NoneAssumption DEF MayLeaveDirectory, CutShort, File
  <2>4. CASE MayLeaveDirectory(d)
    BY <1>0, <1>2, <2>1, <2>4, NoneAssumption DEF MayLeaveDirectory, CutShort, File
  <2> QED  BY <2>2, <2>3, <2>4 DEF Inv, DirectoriesAreOwned
<1>8. ProcessesAreOwned'
  <2> SUFFICES ASSUME NEW c \in Call, process[c] = "running"
               PROVE  \/ at'[c[1]] = "communicate" /\ c = Current(c[1])'
                      \/ cancelled'[c[1]] # None
    BY <1>0 DEF ProcessesAreOwned
  <2>1. CASE c[1] = a
    BY <1>2, <2>1, NoneAssumption
  <2>2. CASE c[1] # a
    BY <1>1, <1>2, <2>2, CallParts DEF Inv, ProcessesAreOwned
  <2> QED  BY <2>1, <2>2
<1> QED  BY <1>3, <1>4, <1>5, <1>6, <1>7, <1>8 DEF Inv

-----------------------------------------------------------------------------
LEMMA InitInv == Init => Inv
<1> SUFFICES ASSUME Init PROVE Inv
  OBVIOUS
<1>1. \A a \in Agents : Turn[a] # <<>> /\ Len(Turn[a]) \in Nat /\ Len(Turn[a]) > 0
  BY TurnAssumption
<1>2. TypeOK
  BY <1>1 DEF Init, TypeOK
<1>3. DirectoriesHoldOwnFile /\ DirectoriesAreOwned
  BY DEF Init, DirectoriesHoldOwnFile, DirectoriesAreOwned
<1>4. BlockHasDirectory /\ AnswersAreAboutTheFile
  BY DEF Init, BlockHasDirectory, InBlock, AnswersAreAboutTheFile
<1>5. ReportsAreOfOwnFile /\ ProcessesAreOwned
  BY NoneAssumption DEF Init, ReportsAreOfOwnFile, ProcessesAreOwned
<1> QED  BY <1>2, <1>3, <1>4, <1>5 DEF Inv

LEMMA StepInv == Inv /\ [Next]_vars => Inv'
<1> SUFFICES ASSUME Inv, [Next]_vars PROVE Inv'
  OBVIOUS
<1>1. CASE UNCHANGED vars
  BY <1>1 DEF vars, Inv, TypeOK, DirectoriesHoldOwnFile, BlockHasDirectory, ReportsAreOfOwnFile,
              AnswersAreAboutTheFile, DirectoriesAreOwned, ProcessesAreOwned, Current, File,
              language_for_path, MayLeaveDirectory, CutShort
<1>2. ASSUME NEW a \in Agents, Agent(a) PROVE Inv'
  <2>1. CASE Unsupported(a)
    <3>1. "unsupported" \in Answers
      BY DEF Answers
    <3> QED  BY <2>1, <3>1, LeavesBlock DEF Unsupported
  <2>2. CASE WriteFile(a)
    BY <2>2, WriteFileStep
  <2>3. CASE FetchFails(a)
    <3>1. "error" \in Answers
      BY DEF Answers
    <3> QED  BY <2>3, <3>1, LeavesBlock DEF FetchFails
  <2>4. CASE StartLinter(a)
    BY <2>4, StartLinterStep
  <2>5. CASE LinterMissing(a)
    <3>1. "error" \in Answers
      BY DEF Answers
    <3> QED  BY <2>5, <3>1, LeavesBlock DEF LinterMissing
  <2>6. CASE ReadReport(a)
    <3>0. at[a] = "communicate" /\ Current(a) \in Call
      BY <2>6, CurrentIsCall DEF ReadReport, Inv
    <3>1. process[Current(a)] \in {"clean", "faulty"} =>
              process[Current(a)] = File(Current(a)).content
      BY <3>0 DEF Inv, ReportsAreOfOwnFile
    <3>2. language_for_path(File(Current(a))) # None
      BY <3>0 DEF Inv, BlockHasDirectory, InBlock
    <3>3. PICK content \in {"error", File(Current(a)).content} \cap Answers : Answer(a, content)
      <4>1. CASE process[Current(a)] = "silent"
        BY <2>6, <4>1 DEF ReadReport, Answers
      <4>2. CASE process[Current(a)] \in {"clean", "faulty"}
        BY <2>6, <3>1, <4>2 DEF ReadReport, Answers
      <4> QED  BY <2>6, <4>1, <4>2 DEF ReadReport, Finished
    <3>4. /\ directories' = Without(directories, Directory(Current(a)))
          /\ process[Current(a)] # "running"
          /\ UNCHANGED <<cancelled, process>>
      BY <2>6 DEF ReadReport, Finished
    <3> QED  BY <3>0, <3>2, <3>3, <3>4, LeavesBlock
  <2> QED  BY <1>2, <2>1, <2>2, <2>3, <2>4, <2>5, <2>6 DEF Agent
<1>3. CASE Terminated
  BY <1>1, <1>3 DEF Terminated
<1> QED  BY <1>1, <1>2, <1>3, CancelledStep, CancellationLostStep, ProcessEndsStep DEF Next

THEOREM Invariance == Spec => []Inv
  BY InitInv, StepInv, PTL DEF Spec

(* The variables of the lint calls keep their types; no turn has more      *)
(* answers than calls.                                                     *)
THEOREM LintTypeCorrect == Spec => []TypeOK
<1>1. Inv => TypeOK
  BY DEF Inv
<1> QED  BY <1>1, Invariance, PTL

(* An agent is only told what the linter reported of its own file.         *)
THEOREM AnswersAreOfTheFile == Spec => []AnswersAreAboutTheFile
<1>1. Inv => AnswersAreAboutTheFile
  BY DEF Inv
<1> QED  BY <1>1, Invariance, PTL

(* Once all turns are over, only calls cut short by a cancellation have    *)
(* left a process, and of these only those that lost it a directory.       *)
THEOREM OnlyCutShortCallsLeave == Spec => []NothingLeftBehind
<1>1. Inv => NothingLeftBehind
  <2> SUFFICES ASSUME Inv, \A a \in Agents : at[a] = "over" PROVE NothingLeftBehind
    BY DEF NothingLeftBehind
  <2>1. ASSUME NEW c \in Call, process[c] = "running" PROVE CutShort(c)
    BY <2>1, CallParts, NoneAssumption DEF Inv, ProcessesAreOwned, CutShort
  <2>2. ASSUME NEW d \in DOMAIN directories
        PROVE  \E c \in Call : d = Directory(c) /\ MayLeaveDirectory(c)
    <3>1. d \in Call /\ at[d[1]] \notin InBlock
      BY CallParts DEF Inv, DirectoriesHoldOwnFile, InBlock
    <3> QED  BY <3>1 DEF Inv, DirectoriesAreOwned, Directory
  <2> QED  BY <2>1, <2>2 DEF NothingLeftBehind
<1> QED  BY <1>1, Invariance, PTL
=============================================================================
