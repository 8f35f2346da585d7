---------------------------- MODULE MCAgentLoop -----------------------------
(***************************************************************************)
(* A small instance of AgentLoop: every kind of tool call the code tells   *)
(* apart, and the turns whose order or mixture matters.                    *)
(***************************************************************************)
EXTENDS AgentLoop

CONSTANTS f1, f2   \* findings

INSTANCE MCCalls

MCTurns ==
    {<<Read("a")>>, <<BadRead("a"), Read("b")>>, <<Search("a"), Browse("b")>>, <<Lint("a")>>,
     <<Read("a"), Good("b")>>, <<Empty("a")>>, <<Bad("a")>>, <<Bad("a"), Good("b")>>,
     <<Good("a"), Other("b"), Bad("c")>>}

MCCallSet == CallsOf(MCTurns)
=============================================================================
