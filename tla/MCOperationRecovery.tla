-------------------------- MODULE MCOperationRecovery --------------------------
(* Model values for OperationRecovery. *)
EXTENDS OperationRecovery, TLC

CONSTANTS k1, k2, c1, c2

KeySymmetry == Permutations({k1, k2})
=============================================================================
