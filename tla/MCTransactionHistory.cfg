SPECIFICATION HistorySpec
CONSTANTS
  None = None
  Readers = {r1, r2}
  Queries <- SomeQueries
  First = 1
  Newest = 2
  Spam = {2}
  Housekeeping = {}
  CacheTtl = 1
  MaxCacheEntries = 1
  MaxHistoryBatch = 2
  Hosted = TRUE
  LastSecond = 1
  MaxRefreshes = 1
  MaxLosses = 1
INVARIANTS
  WalkExact
  LoaderOncePerWindow
PROPERTIES
  EveryWalkEnds
CHECK_DEADLOCK FALSE
