CONSTANTS
  Peers = {p1, p2}
  NoPeer = NoPeer
  Topics = {t1}
  MaxConns = 3
  MaxMembers = 2
  MaxConnections = 2
SPECIFICATION LifecycleSpec
INVARIANT PlacesCounted
INVARIANT DatagramsBetweenMembers
PROPERTY ClosedConnectionsFinish
PROPERTY ShutdownEmpties
CHECK_DEADLOCK FALSE
