CONSTANTS
  NumPlans = 3
  Requested = 2
  Worker = {w1, w2}
  MaxRetries = 0
  TrialError = {pullFailed}
  RetryInclude = {}
  RetryExclude = {}
  Weight <- MCWeight
  TrialName <- MCCollidingNames
SPECIFICATION Spec
INVARIANT TrialsIsolated
CHECK_DEADLOCK FALSE
