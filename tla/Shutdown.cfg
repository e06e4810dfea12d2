SPECIFICATION FairSpec
CONSTANTS
  Conns = {c1, c2, c3}
  Workers = {w1}
  MaxConns = 2
  MaxStreams = 1
INVARIANTS
  SpoolOutlivesUsers
  CleanExitPersisted
PROPERTIES
  RunReturns
  SwitchAnswered
  CallsServed
