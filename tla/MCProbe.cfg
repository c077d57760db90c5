SPECIFICATION Spec
CONSTANTS
  Probes <- ConstProbes
  Loads <- ConstLoads
INVARIANT PublishesAccepted
INVARIANT SlotsAgree
INVARIANT PingsMatch
PROPERTY PairsMesh
PROPERTY BulkAcked
CHECK_DEADLOCK FALSE
