CONSTANTS
  Peers = {p1, p2, p3}
  NoPeer = NoPeer
  Topics = {t1}
  ZeroTopic = t0
  MaxConns = 3
  MaxMembers = 2
  Blobs = {b0, b1}
  EmptyBlob = b0
  Absent = Absent
  NoView = NoView
  MaxTopics = 1
  OutboxLimit = 1
SPECIFICATION Spec
INVARIANT SlotsHaveLiveOwners
INVARIANT MembersSeeTheRoom
INVARIANT RoomsWithinCap
PROPERTY OnlyOwnerOrSuccessorFreesSlot
SYMMETRY Symmetry
CHECK_DEADLOCK FALSE
