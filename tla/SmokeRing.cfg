SPECIFICATION FairSpec
CONSTANTS
  NO_CHILDS = 3
  MESSAGES_TO_SENT = 2
  MaxSeq = 3
  MaxForkFails = 3
  MaxFaults = 1
  Process <- MCProcess
INVARIANTS SeedsInSync SuccessMeansDone
PROPERTIES AllExit RingSpec
CHECK_DEADLOCK FALSE
