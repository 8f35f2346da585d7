------------------------------ MODULE MCCalls -------------------------------
(***************************************************************************)
(* Tool calls for the small instances of the engines: one of every kind    *)
(* the code tells apart.                                                   *)
(***************************************************************************)
CONSTANTS Malformed, f1, f2   \* f1 and f2 are findings

MCFindingLists == {<<>>, <<f1>>, <<f2>>}

Call(id, name, input) == [id |-> id, name |-> name, input |-> input]

Read(id)      == Call(id, "get_file_content", {"path"})
BadRead(id)   == Call(id, "get_file_content", {"path", "lines"})
Lint(id)      == Call(id, "run_linter", {"path"})
Search(id)    == Call(id, "search_codebase", {})
Browse(id)    == Call(id, "browse_web", {"path"})
Good(id)      == Call(id, "submit_review", <<f1>>)
Other(id)     == Call(id, "submit_review", <<f2>>)
Empty(id)     == Call(id, "submit_review", <<>>)
Bad(id)       == Call(id, "submit_review", Malformed)

CallsOf(turns) == UNION {{t[i] : i \in DOMAIN t} : t \in turns}
=============================================================================
