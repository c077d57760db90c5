CONSTANTS
  Pushers = {u1, u2}
  Sizes = {1, 2}
  Limit = 2
  MaxPushes = 4
SPECIFICATION OutboxSpec
PROPERTY EmptyBudgetTakesOne
CHECK_DEADLOCK FALSE
