SPECIFICATION FairSpec
CONSTANTS
  Process = {1, 2}
  num = 2
  max_msgs <- MCMaxMsgs
  MaxSent <- MCMaxSent
  MaxTryAgain = 1
  MaxFaults = 1
INVARIANTS SuccessSound FlowControl
PROPERTIES AllSucceed
CHECK_DEADLOCK FALSE
