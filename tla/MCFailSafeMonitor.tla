--------------------------- MODULE MCFailSafeMonitor ---------------------------
(* Model values for FailSafeMonitor. *)
EXTENDS FailSafeMonitor
CONSTANTS o1, d1, d2, i1, i2
=============================================================================
