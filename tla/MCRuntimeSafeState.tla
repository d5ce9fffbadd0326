-------------------------- MODULE MCRuntimeSafeState --------------------------
(* Model values for RuntimeSafeState. *)
EXTENDS RuntimeSafeState
CONSTANTS d1, d2, i1, i2
=============================================================================
