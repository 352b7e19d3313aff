SPECIFICATION Spec
CONSTANTS
  Ports = {1}
  Users = {u1}
  Visitors = {v1, v2}
  MaxConn = 1
  MaxStreams = 1
  MaxChunks = 1
  Owner <- OneOwner
  EndsOnClose = FALSE
  Faults = {"abort", "drop"}
SYMMETRY VisitorSymmetry
INVARIANT SlotsAccounted
INVARIANT CompleteTransfer
CHECK_DEADLOCK FALSE
