SPECIFICATION FairSpec
CONSTANTS
  NoNodes = 3
  MaxRetries = 1
  Rounds = 3
  MaxFaults = 1
INVARIANTS NobodyLeftCutOff
PROPERTIES AcceptedIsRight TestEnds
CHECK_DEADLOCK FALSE
