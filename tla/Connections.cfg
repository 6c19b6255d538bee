SPECIFICATION FairSpec
CONSTANTS
  c1 = c1
  c2 = c2
  c3 = c3
  Connection <- ThreeConnections
  Faults = {"listener"}
INVARIANTS TypeOK OneConnectionEscapes FailureCutsAll
PROPERTIES StopsOrAwaitsEscaped StopsWithPoliteClients
\* The daemon stops.
CHECK_DEADLOCK FALSE
