CONSTANTS
  p1 = p1
  p2 = p2
  shared = shared
  broken = broken
  Pid = {p1, p2}
  Package = {shared, broken}
  List <- MCList
  Archive <- MCArchive
  MaxWorkers = 1
  MaxTries = 2
  MaxLives <- MCLives
  Process = {p1, p2}
  MaxTip = 3
  Release <- MCRelease
  Own <- MCOwn
  User = {u1, u2}
  Interval = 1
  MaxClock = 1
  Unknown = Unknown
SPECIFICATION MCSpec
INVARIANTS
  GivenIsWhole
  StagingSwept
  CheckoutAsAsked
PROPERTIES
  ResolutionEnds
  NoticeAsKnown
  UpgradeNeverDowngrades
CHECK_DEADLOCK FALSE
