SPECIFICATION Spec
CONSTANTS
  c1 = c1
  c2 = c2
  tokenList = tokenList
  ranks = ranks
  Callers = {c1, c2}
  Sources = {tokenList, ranks}
  MemoTtl = 1
  SourceTtl = 2
  Ttl = 2
  StaleTtl = 3
  LockTtl = 3
  Budget = 1
  MaxFaults = 1
INVARIANTS
  OneRebuilder
  StaleBehindFresh
  ServedAgeBounded
PROPERTIES
  EveryCallEnds
