----------------------------- MODULE MCBoardPage -----------------------------
(* BoardPage with two widgets side by side. *)
EXTENDS BoardPage, TLC

CONSTANTS weather, stock

OneByOne(col) == [col |-> col, row |-> 0, width |-> 1, height |-> 1]
Symmetry == Permutations(Slots)
MCStart == (weather :> OneByOne(0)) @@ (stock :> OneByOne(1))
=============================================================================
