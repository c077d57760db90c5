CONSTANTS
  Peers = {p1, p2}
  NoPeer = NoPeer
  Topics = {t1}
  ZeroTopic = t0
  MaxConns = 2
  MaxMembers = 2
  Blobs = {b0}
  EmptyBlob = b0
  Absent = Absent
  NoView = NoView
  MaxTopics = 1
  OutboxLimit = 1
SPECIFICATION Spec
PROPERTY NewerConnectionOwnsSlot
SYMMETRY Symmetry
CHECK_DEADLOCK FALSE
