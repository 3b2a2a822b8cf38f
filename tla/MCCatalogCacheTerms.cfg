SPECIFICATION Spec
CONSTANTS
  c1 = c1
  c2 = c2
  tokenList = tokenList
  ranks = ranks
  Callers = {c1, c2}
  Sources = {tokenList, ranks}
  MemoTtl = 1
  SourceTtl = 5
  Ttl = 5
  StaleTtl = 10
  LockTtl = 3
  Budget = 1
  MaxFaults = 0
INVARIANT
  FreshWithinTerms
