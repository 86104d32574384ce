----------------------------- MODULE MCFetchers -----------------------------
(* Two names for a host, one address that may be fetched and one that may not. *)
EXTENDS Fetchers
=============================================================================
