SPECIFICATION FairSpec
CONSTANTS
  master = master
  a = a
  b = b
  Objects <- Few
  Null = Null
  Master = master
  Workers = {w, v}
  Main = theMain
  Batch = 1
INVARIANT TypeOK
INVARIANT Linked
INVARIANT FreedOnce
PROPERTY RoundCovers
PROPERTY DestructedIsSwept
 
CHECK_DEADLOCK FALSE
