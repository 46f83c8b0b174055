SPECIFICATION FairSpec
CONSTANTS
  typist = typist
  Users = {typist}
  Nobody = Nobody
  Cap = 3
  Low = 2
  Bytes <- Typing
  MaxSaid = 1
INVARIANT TypeOK
INVARIANT NothingBeforeLogon
INVARIANT RemovedOnce
INVARIANT SaidIsWritten
 
PROPERTY LineIsTaken
PROPERTY GoneIsRemoved
CHECK_DEADLOCK FALSE
