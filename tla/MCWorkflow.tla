----------------------------- MODULE MCWorkflow -----------------------------
(***************************************************************************)
(* A small instance of Workflow: pull requests that start all four         *)
(* specialists, only some of them, or none.                                *)
(***************************************************************************)
EXTENDS Workflow

File(path, change, binary, directories, name) ==
    [path |-> path, change |-> change, binary |-> binary, directories |-> directories,
     name |-> name, long |-> FALSE]

Code     == File("app.py", "modified", FALSE, {}, "source")
Manifest == File("requirements.txt", "added", FALSE, {}, "manifest")
Nested   == File("api/requirements.txt", "modified", FALSE, {"plain"}, "manifest")
Deleted  == File("pyproject.toml", "deleted", FALSE, {}, "manifest")
Docs     == File("README.md", "modified", FALSE, {}, "documentation")
Lock     == File("uv.lock", "modified", FALSE, {}, "lockfile")
Vendored == File("vendor/x.go", "renamed", FALSE, {"vendored"}, "source")

MCPullRequests ==
    {{Code, Manifest, Docs}, {Nested, Docs}, {Manifest, Lock}, {Docs, Lock, Deleted, Vendored}}

MCMaxIterations ==
    [s \in Specialists |-> IF s = "security" THEN 2 ELSE 1]

MCNormalizedCategory ==
    [c \in {"SQL Injection", "sql_injection", "performance"} |->
        IF c = "performance" THEN "performance" ELSE "sql-injection"]

MCFinding(file, line, category, severity, summary) ==
    [file |-> file, line |-> line, category |-> category,
     severity |-> severity, summary |-> summary]

MCSubmissions == {<<>>, <<MCFinding(1, 1, "performance", "high", "s1")>>}

(* For synthesize: one iteration and one price, but every list of up to    *)
(* two findings, among them duplicates by name and by normalised category, *)
(* with and without a line, of different severities.                       *)
MCCodeOnly == {{Code}}

MCOneIteration == [s \in Specialists |-> 1]

MCFindings ==
    {MCFinding(1, 1, "SQL Injection", "high", "s1"),
     MCFinding(1, 1, "sql_injection", "low", "s2"),
     MCFinding(1, 1, "performance", "medium", "s3"),
     MCFinding(2, None, "performance", "medium", "s4"),
     MCFinding(2, None, "performance", "medium", "s5"),
     MCFinding(2, 3, "SQL Injection", "low", "s6")}

MCFindingLists == {<<>>} \cup [1..1 -> MCFindings] \cup [1..2 -> MCFindings]
=============================================================================
