SPECIFICATION Spec
CONSTANTS
  Process = {1, 2}
  Me = 1
  Other = 2
  NoCommands = 3
  Backlog = 1
  MaxDeaths = 0
  Scripts <- MCScripts
  DefaultSync = 9
  OtherNumbers = {1}
  MaxOther = 0
  MaxFaults = 0
INVARIANT RefusedSendsNothing
CHECK_DEADLOCK FALSE
