SPECIFICATION Spec
CONSTANTS
  c1 = c1
  c2 = c2
  k1 = k1
  k2 = k2
  Calls = {c1, c2}
  Containers = {k1}
  Home <- Together
  Redis = Redis
  Modes = {"job"}
  Threshold = 1
  Cooldown = 1
  Budget = 1
  Timeout = 1
  MaxAttempts = 2
  MaxWait = 1
  Waits = {1}
  Delays = {0}
  MaxStoreFailures = 1
  MaxCrashes = 1
PROPERTIES
  EveryCallEnds
  HealsByItself
