CONSTANTS
  Peers = {p1, p2}
  NoPeer = NoPeer
  Topics = {t1}
  MaxConns = 3
  MaxMembers = 2
  Streams = {s1}
  Everyone = Everyone
  MaxFrames = 2
SPECIFICATION FanoutSpec
INVARIANT StreamsStayOrdered
PROPERTY OnlyOwnersExchange
PROPERTY ImplementsPubSub
SYMMETRY Symmetry
CHECK_DEADLOCK FALSE
