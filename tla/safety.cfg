SPECIFICATION SafetySpec
CONSTANTS
  x1 = x1
  x2 = x2
  x3 = x3
  a1 = a1
  a2 = a2
  t1 = t1
  t2 = t2
  Calls = {x1, x2, x3}
  Targets = {t1, t2}
  Approvals = {a1}
  RateRules <- MCRateRules
  NeedsApproval <- MCNeedsApproval
  Charged <- MCCharged
  BudgetLimit = 2
  BudgetWindow = 2
  MaxGrants = 2
  MaxClock = 2
  Nobody = Nobody
  Ungranted = Ungranted
INVARIANTS RateHeld BudgetHeld  LedgerIsExact
SYMMETRY SafetySymmetry
CHECK_DEADLOCK FALSE
