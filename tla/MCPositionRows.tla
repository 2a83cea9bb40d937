--------------------------- MODULE MCPositionRows ---------------------------
(* One position that the seed lists and no window finds again, one that     *)
(* opens later.                                                             *)
EXTENDS PositionRows

Opened == [p \in {"p", "q"} |-> IF p = "p" THEN 1 ELSE 6]
=============================================================================
