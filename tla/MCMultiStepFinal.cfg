CONSTANTS
  Key <- MCKey
  Score = {0, 1, 2}
  Full = 1
  Task <- MCTask
SPECIFICATION Spec
INVARIANT FinalIsLastStep
CHECK_DEADLOCK FALSE
