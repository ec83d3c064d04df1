CONSTANTS
  NumPlans = 3
  Requested = 2
  Worker = {w1, w2}
  MaxRetries = 1
  TrialError = {timedOut, pullFailed, diskFull}
  RetryInclude = {{pullFailed, timedOut}}
  RetryExclude = {{timedOut}}
  Weight <- MCWeight
  TrialName <- MCDistinctNames
SPECIFICATION Spec
SYMMETRY MCSymmetry
INVARIANTS
  AtMostOnce
  NothingLost
  RetryDiscipline
  LateStartsBounded
  ExitMatchesReport
  OutputMatchesReport
CHECK_DEADLOCK FALSE
