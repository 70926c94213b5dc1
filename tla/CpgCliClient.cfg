SPECIFICATION FairSpec
CONSTANTS
  Process = {1, 2}
  Me = 1
  Other = 2
  NoCommands = 3
  Backlog = 1
  MaxDeaths = 1
  Scripts <- MCScripts
  DefaultSync = 9
  OtherNumbers = {1}
  MaxOther = 1
  MaxFaults = 1
INVARIANTS CommandsInOrder StreamAsCommanded SyncIsBarrier
PROPERTIES NeverBlockedForever ExitIsHeard
CHECK_DEADLOCK FALSE
