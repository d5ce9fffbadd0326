---------------------------- MODULE MCRapAdapter ----------------------------
(* TLC instance of RapAdapter: an invocation and a lease of one thread.           *)
EXTENDS RapAdapter

CONSTANTS i1, l1
=============================================================================
