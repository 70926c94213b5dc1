SPECIFICATION Spec
CONSTANTS
  Peer = {p, q, r}
  NoPeer = NoPeer
  MAX_ACTIVE_CONNECTIONS = 2
  FdLimit = 6
  Chunk = 1
  MaxBytes = 2
  Busy = {}
SYMMETRY Connections
INVARIANTS FdIsSlot RightClient LineFinished
CHECK_DEADLOCK FALSE
