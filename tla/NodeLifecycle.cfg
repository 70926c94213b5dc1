SPECIFICATION FairSpec
CONSTANTS
  Nodes = 2
  MaxRetries = 1
INVARIANTS OriginalKept TrapRestores
PROPERTIES TestEnds
