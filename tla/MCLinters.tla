----------------------------- MODULE MCLinters ------------------------------
(***************************************************************************)
(* Two agents, of two reviews, whose turns lint files of one name and      *)
(* different contents, and a file without a linter.                        *)
(***************************************************************************)
EXTENDS Linters

F(name, extension, content) == [name |-> name, extension |-> extension, content |-> content]

MCTurn ==
    [a \in Agents |->
        IF a = "first"
        THEN <<F("app.py", "py", "clean"), F("notes.md", "md", "faulty"), F("app.cs", "cs", "faulty")>>
        ELSE <<F("app.py", "py", "faulty"), F("app.cs", "cs", "clean")>>]
=============================================================================
