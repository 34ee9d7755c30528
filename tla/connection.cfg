CONSTANTS
  w1 = w1
  w2 = w2
  w3 = w3
  w4 = w4
  s1 = s1
  s2 = s2
  p1 = p1
  p2 = p2
  NoConn = NoConn
  NoWrapper = NoWrapper
  Wrappers = {w1, w2, w3, w4}
  Shared = {s1, s2}
  Private = {p1, p2}
  MaxRefs = 2
  MaxBuses = 2
SPECIFICATION Spec
SYMMETRY Symmetry
INVARIANTS
  TypeOK
  ReferencesMatch
  ClosedBeforeDropped
  PrivateReportsArrive
  WatchFollowsConnection
\* Connections are opened once, and a fault ends the process: the system may
\* stop.
CHECK_DEADLOCK FALSE
