SPECIFICATION Spec
CONSTANTS
  Node = {n1, n2, n3}
  NoNode = NoNode
  MAX_NODES = 2
  MaxList = 3
  MaxReports = 4
SYMMETRY NodeIds
INVARIANTS TableSound NothingInvented
PROPERTY ViewSpec
CHECK_DEADLOCK FALSE
