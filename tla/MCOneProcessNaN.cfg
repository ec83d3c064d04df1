CONSTANTS
  Routine = {"report"}
  CaseId = {1, 2, 3}
  Full = 2
  MaxCases = 3
  MaxRuns = 2
  Request <- MCRequest
  World <- MCWorld
  NoLimit = NoLimit
  NoVersion = NoVersion
  HeadVersion = HeadVersion
  Job <- MCJob
  Scoring <- MCScoringWithNaN
  FullReward = 6
  Resolution = 3
  NaN = NaN
SPECIFICATION MCSpec
INVARIANT ReportIsJson
CHECK_DEADLOCK FALSE
