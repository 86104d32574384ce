--------------------------- MODULE MCWidgetPolling ---------------------------
(* Instances of WidgetPolling for TLC. *)
EXTENDS WidgetPolling, TLC

\* Job, slot and sweeper identities carry no meaning (safety runs only).
Symmetry == Permutations(Jobs) \union Permutations(Slots) \union Permutations(Sweepers)
=============================================================================
