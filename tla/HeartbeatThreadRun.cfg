SPECIFICATION FairSpec
CONSTANTS
  Posters = {p1}
  Self = w
  MaxPosts = 3
  MaxStarts = 2
  SockCap = 1
INVARIANTS TypeOK NoLostWakeup RanInPostOrder
PROPERTIES QueuedRuns CallsReturn ImplementsChannel
CHECK_DEADLOCK FALSE
