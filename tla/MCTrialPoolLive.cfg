CONSTANTS
  NumPlans = 2
  Requested = 4
  Worker = {w1, w2}
  MaxRetries = 2
  TrialError = {timedOut, pullFailed, diskFull}
  RetryInclude = {{pullFailed}}
  RetryExclude = {{timedOut}}
  Weight <- MCWeight
  TrialName <- MCDistinctNames
SPECIFICATION FairSpec
PROPERTIES
  JobEnds
  OthersServed
  ImplementsJobSpec
CHECK_DEADLOCK FALSE
