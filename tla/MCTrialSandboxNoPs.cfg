CONSTANTS
  r1 = r1
  r2 = r2
  NoPid = NoPid
  Run = {r1, r2}
  Pid = {p1, p2}
  MaxRetries <- MCRetries
  Retryable = {"timeout", "other", "noReward", "unparseable"}
  PsReliable = FALSE
  HasHealthcheck <- MCFirst
  HasSetup <- MCFirst
  Switches <- MCFirst
  Separate <- MCSecond
SPECIFICATION Spec
INVARIANT LivingSpared
CHECK_DEADLOCK FALSE
