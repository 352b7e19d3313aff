SPECIFICATION TableSpec
CONSTANTS
  a = a
  b = b
  long = long
  Conns = {c1, c2, c3}
  NoConn = NoConn
  SegLen <- MCSegLen
  PathPrefixes <- MCPathPrefixes
  Paths <- MCPaths
  InputLists <- MCInputs
INVARIANT LookupMostSpecific
PROPERTY ImplementsMap
