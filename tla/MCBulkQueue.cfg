CONSTANTS
  Pushers = {u1, u2}
  Closer = Closer
  Sizes = {1, 2, 4}
  Budget = 3
  MaxStreams = 2
  MaxBytes = 10
SPECIFICATION BulkSpec
INVARIANT WithinBudget
INVARIANT NewestSurvive
INVARIANT NoLostWakeup
CHECK_DEADLOCK FALSE
PROPERTY DeliveriesMoveOn
PROPERTY ClosingEndsDispatcher
