SPECIFICATION Spec
CONSTANTS
  Groups = {g1, g2}
  MaxStreams = 2
  MaxChunks = 2
  MaxConnects = 2
  Faults = {"lost", "restart", "refuse", "local_eof"}
SYMMETRY GroupSymmetry
INVARIANT NoChunkLost
INVARIANT EndReported
INVARIANT ClosedStreamsWake
CHECK_DEADLOCK FALSE
