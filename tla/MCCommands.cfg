CONSTANTS
  Agent = {"oracle", "nop", "external"}
  MaxRetries = 1
  Retryable = {"agentFailed"}
  Configured = {0, 1, 2, 9}
  Absent = Absent
  Check = Check
  U32 = 8
SPECIFICATION MCSpec
INVARIANTS
  OneAtATime
  RewardOfAttempt
  HealthcheckBudget
PROPERTY CallersEnd
CHECK_DEADLOCK FALSE
