---------------------------- MODULE MCLoopGraph -----------------------------
(***************************************************************************)
(* Small instances of LoopGraph: GENERALIST with the turns of MCAgentLoop, *)
(* and a specialist with a larger budget and a smaller tool set.           *)
(***************************************************************************)
EXTENDS LoopGraph

CONSTANTS f1, f2   \* findings

INSTANCE MCCalls

GeneralistTurns ==
    {<<Read("a")>>, <<BadRead("a"), Read("b")>>, <<Search("a"), Browse("b")>>, <<Lint("a")>>,
     <<Read("a"), Good("b")>>, <<Empty("a")>>, <<Bad("a")>>, <<Bad("a"), Good("b")>>,
     <<Good("a"), Other("b"), Bad("c")>>}

GeneralistCalls == CallsOf(GeneralistTurns)

(* The "performance" specialist: no linter, no dependency check.           *)
SpecialistTools == {"get_file_content", "search_codebase"}

SpecialistTurns == {<<Read("a")>>, <<Lint("a"), BadRead("b")>>, <<Bad("a")>>, <<Good("a")>>}

SpecialistCalls == CallsOf(SpecialistTurns)
=============================================================================
