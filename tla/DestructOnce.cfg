SPECIFICATION Spec
CONSTANTS
  room = room
  chest = chest
  coin = coin
  Objects = {room, chest, coin}
  Null = Null
  Living = {chest}
  Notified = {coin}
  MaxDepth = 5
INVARIANT DestructedOnce
CHECK_DEADLOCK FALSE
