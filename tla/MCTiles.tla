------------------------------ MODULE MCTiles ------------------------------
(* An instance of Tiles for TLC: two questions, each with a key of its own. *)
EXTENDS Tiles

CONSTANTS usdcad, halifax

MCSpotOf == [q \in Questions |-> q]
=============================================================================
