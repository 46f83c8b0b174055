SPECIFICATION FairSpec
CONSTANTS
  o1 = o1
  o2 = o2
  theMain = theMain
  f = f
  special = special
  Objects = {o1, o2}
  NumThreads = 1
  Shard <- Together
  Main = theMain
  Names = {f, special}
  Special = {special}
  ReuseEvents = FALSE
  Pointer = Pointer
  Callers <- OnlyMain
  Requests <- EveryKind
  NumArgs = 1
  NestLimit = 2
  UniqueMax = 100
  MaxCalls = 2
  MaxTick = 1
PROPERTIES PendingRuns
CHECK_DEADLOCK FALSE
