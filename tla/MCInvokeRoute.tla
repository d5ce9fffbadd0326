---------------------------- MODULE MCInvokeRoute ----------------------------
(* Model values for InvokeRoute. *)
EXTENDS InvokeRoute

CONSTANTS k1, k2, c1, c2
=============================================================================
