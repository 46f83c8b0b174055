SPECIFICATION Spec
CONSTANTS
  o1 = o1
  o2 = o2
  theMain = theMain
  f = f
  special = special
  Objects = {o1, o2}
  NumThreads = 2
  Shard <- Apart
  Main = theMain
  Names = {f, special}
  Special = {special}
  ReuseEvents = FALSE
  Pointer = Pointer
  Callers <- OnlyMain
  Requests <- NamedOnly
  NumArgs = 1
  NestLimit = 2
  UniqueMax = 100
  MaxCalls = 2
  MaxTick = 1
INVARIANTS ArgsProvided
CHECK_DEADLOCK FALSE
