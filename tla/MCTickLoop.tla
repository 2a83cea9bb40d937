----------------------------- MODULE MCTickLoop -----------------------------
(* Three positions: one that opens with the first head, so that a peer's     *)
(* list may hold it or be empty, and two that open later.                    *)
EXTENDS TickLoop

Opened == [p \in {"p", "q", "r"} |->
             CASE p = "p" -> 9 [] p = "q" -> 10 [] p = "r" -> 12]
=============================================================================
