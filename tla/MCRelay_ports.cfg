SPECIFICATION FairSpec
CONSTANTS
  Ports = {1, 2}
  Users = {u1}
  Visitors = {v1}
  MaxConn = 3
  MaxStreams = 1
  MaxChunks = 0
  Owner <- OneOwner
  EndsOnClose = TRUE
  Faults = {"bind", "abort", "drop"}
INVARIANT ListenersNeverCross
PROPERTY HangupEndsStream
CHECK_DEADLOCK FALSE
