--------------------------- MODULE MCReviewRequest ---------------------------
(***************************************************************************)
(* A small instance of ReviewRequest: two requests, a single-agent engine  *)
(* that may come back from its tools, a workflow, and a push at any time.  *)
(***************************************************************************)
EXTENDS ReviewRequest

MCMaxIterations == [e \in Engines |-> 2]
=============================================================================
