------------------------------ MODULE Outages ------------------------------
(* What the services around the program do: the network, Redis or an       *)
(* upstream fails for a while.  How long is theirs to say.                 *)
EXTENDS Naturals

CONSTANT MaxTroubles  \* outages (bounds the model)

VARIABLES trouble,  \* an outage is on
          troubles  \* outages so far

outages == <<trouble, troubles>>

OutagesInit == trouble = FALSE /\ troubles = 0

Break ==
  /\ ~trouble /\ troubles < MaxTroubles
  /\ trouble' = TRUE /\ troubles' = troubles + 1

Mend == trouble /\ trouble' = FALSE /\ UNCHANGED troubles
=============================================================================
