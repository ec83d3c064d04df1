CONSTANTS
  Routine = {"evaluate", "select", "report"}
  CaseId = {1, 2, 3}
  Full = 2
  MaxCases = 3
  MaxRuns = 2
  Request <- MCRequest
  World <- MCWorld
  NoLimit = NoLimit
  NoVersion = NoVersion
  HeadVersion = HeadVersion
  Job <- MCJob
  Scoring <- MCScoring
  FullReward = 6
  Resolution = 3
  NaN = NaN
SPECIFICATION MCSpec
INVARIANTS
  ReportAgrees
  EveryStartClosed
  SelectionAsAsked
  PassAtKUnbiased
  AveragesAgree
CHECK_DEADLOCK FALSE
