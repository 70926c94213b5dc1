SPECIFICATION FairSpec
CONSTANTS
  Crashes = 99
  LastCheck = 11
  Tests = {1, 2, 3, 4, 5, 6, 7, 8, 9}
  Faults = {"none", "refuse", "deaf", "late"}
  Slack = 2
  Horizon = 60
INVARIANTS PassesAsProgrammed FailureShows
PROPERTY TestEnds
