SPECIFICATION AccessSpec
CONSTANTS
  c1 = c1
  c2 = c2
  k1 = k1
  k2 = k2
  Calls = {c1, c2}
  Containers = {k1, k2}
  Home <- Apart
  Redis = Redis
  Modes = {"request", "noWait"}
  Threshold = 2
  Cooldown = 4
  Budget = 2
  Timeout = 1
  MaxAttempts = 2
  MaxWait = 1
  Waits = {1}
  Delays = {0, 1}
  MaxStoreFailures = 0
  MaxCrashes = 0
  Callers = {c1, c2}
  Processes = {k1, k2}
  HomeOf <- Apart
  One = 2
  Refill = 1
  Burst = 2
  KeyTtl = 3
  MaxWaitMs = 3
  Budgets <- SomeBudgets
  Spread = 1
  MaxNow = 4
  MaxRedisFailures = 2
INVARIANTS
  WithinBudget
  BoundedAttempts
  ReopensThroughOneProbe
  RatesKept
PROPERTIES
  ImplementsContract
