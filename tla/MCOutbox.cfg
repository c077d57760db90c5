CONSTANTS
  Pushers = {u1, u2}
  Sizes = {1, 2, 4}
  Limit = 3
  MaxPushes = 4
SPECIFICATION OutboxSpec
INVARIANT QueuesWithinBudget
PROPERTY NoGapAfterRefusal
PROPERTY OverflowCloses
PROPERTY WritersFinish
CHECK_DEADLOCK FALSE
