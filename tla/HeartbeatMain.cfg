SPECIFICATION FairSpec
CONSTANTS
  o1 = o1
  o2 = o2
  main = main
  Objects = {o1, o2}
  NumThreads = 2
  Shard <- Apart
  Main = main
  HasBeat = {o1, o2}
  Shared = {o2}
  Setters <- OnlyMain
  SetArgs = {0, 2}
  MaxSets = 3
  MaxLag = 1
  MaxBounced = 1
  Null = Null
INVARIANTS QueueFollowsFlag
PROPERTIES BeatsForever
CHECK_DEADLOCK FALSE
