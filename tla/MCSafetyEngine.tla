---------------------------- MODULE MCSafetyEngine ----------------------------
(* Model values for SafetyEngine: a target with a rate rule and a charge, and  *)
(* one with two rate rules, an approval rule and a charge.                     *)
EXTENDS SafetyEngine, TLC

CONSTANTS x1, x2, x3, a1, a2, t1, t2

OneRate == <<[max |-> 1, window |-> 1]>>
TwoRates == <<[max |-> 4, window |-> 2], [max |-> 4, window |-> 1]>>
MCRateRules == (t1 :> OneRate) @@ (t2 :> TwoRates)
MCNeedsApproval == {t2}
MCCharged == {t1, t2}
SafetySymmetry == Permutations({x1, x2, x3}) \cup Permutations({a1, a2})
=============================================================================
