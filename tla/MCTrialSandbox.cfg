CONSTANTS
  r1 = r1
  r2 = r2
  NoPid = NoPid
  Run = {r1, r2}
  Pid = {p1, p2}
  MaxRetries <- MCRetries
  Retryable = {"timeout", "other", "noReward", "unparseable"}
  PsReliable = TRUE
  HasHealthcheck <- MCFirst
  HasSetup <- MCFirst
  Switches <- MCFirst
  Separate <- MCSecond
SPECIFICATION Spec
SYMMETRY MCSymmetry
INVARIANTS
  LivingSpared
  SweptAway
  RewardIsOwn
  ArtifactsAreOwn
  NetworkAsDeclared
CHECK_DEADLOCK FALSE
