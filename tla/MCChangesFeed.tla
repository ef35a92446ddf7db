---------------------------- MODULE MCChangesFeed ----------------------------
(* Four files, three of them documents the client asks for.                  *)
EXTENDS ChangesFeed

CONSTANTS x, y

MCStart == {[p \in Paths |-> CASE p = 1 -> x [] p = 3 -> y [] OTHER -> None],
            [p \in Paths |-> CASE p = 2 -> x [] p = 4 -> y [] OTHER -> None]}
=============================================================================
