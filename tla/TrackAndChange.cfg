SPECIFICATION FairSpec
CONSTANTS
  Options <- CommandLines
  MaxChilds = 2
  Wrap <- SmallWrap
  MaxRetries = 2
INVARIANTS BurstsCounted ValuesFollow
PROPERTIES LoadGoesOn EndsWhenTold
CHECK_DEADLOCK FALSE
