SPECIFICATION Spec
CONSTANTS
  room = room
  chest = chest
  coin = coin
  Objects = {room, chest, coin}
  Null = Null
  Living = {room, chest}
  Notified = {chest, coin}
  MaxDepth = 7
INVARIANT TypeOK
INVARIANT InventoriesAgree
INVARIANT RestrictIsInnermost
 
CHECK_DEADLOCK FALSE
