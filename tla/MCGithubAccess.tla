--------------------------- MODULE MCGithubAccess ---------------------------
(***************************************************************************)
(* A small instance of GithubAccess: two concurrent requests, in which the *)
(* JWT and the token can expire in a second attempt, after a slow first    *)
(* one or a rate limit, but not in the first.                              *)
(***************************************************************************)
EXTENDS GithubAccess

MCScenarios ==
    {[r \in Requests |-> IF r = "r1" THEN e ELSE "pulls"] : e \in {"review", "current"}}
=============================================================================
