CONSTANTS
  Key <- MCKey
  Score = {0, 1, 2}
  Full = 1
  Task <- MCTask
SPECIFICATION Spec
INVARIANTS
  StepRewardIsOwn
  StopsAtFailure
  NetworkPerPhase
  MeanHidesNoFailure
CHECK_DEADLOCK FALSE
