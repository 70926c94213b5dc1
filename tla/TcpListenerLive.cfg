SPECIFICATION FairSpec
CONSTANTS
  Peer = {p, q}
  NoPeer = NoPeer
  MAX_ACTIVE_CONNECTIONS = 1
  FdLimit = 6
  Chunk = 2
  MaxBytes = 2
  Busy = {p, q}
PROPERTIES EveryPeerServed SignalStops
CHECK_DEADLOCK FALSE
