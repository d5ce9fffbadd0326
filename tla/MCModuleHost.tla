----------------------------- MODULE MCModuleHost -----------------------------
(* Instances of ModuleHost for TLC. *)
EXTENDS ModuleHost

CONSTANTS i1, i2
=============================================================================
