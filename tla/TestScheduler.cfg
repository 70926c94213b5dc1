SPECIFICATION MCSpec
CONSTANTS
  NoNodes = 3
  NoTests = 3
  Kinds <- MCKinds
  Pid = {p1, p2, p3}
  NoPid = NoPid
  MaxReuse = 1
INVARIANTS TypeOK NodesExclusive TableMatchesJobs ReportsRight SummaryRight
PROPERTIES RunnerSpec SuiteEnds
CHECK_DEADLOCK FALSE
