SPECIFICATION Spec
CONSTANTS
  o1 = o1
  o2 = o2
  Slots = {0, 1}
  Objects = {o1, o2}
  NoObject = NoObject
  Modes = {"STREAM", "DATAGRAM", "TLS"}
  MaxMade = 2
  MaxDepth = 2
  MaxBytes = 2
  CallbacksClose = FALSE
INVARIANT DescriptorsMatch
INVARIANT BlockedIsArmed
INVARIANT StreamInOrder
 
PROPERTY StreamLosesNothing
CHECK_DEADLOCK FALSE
VIEW View
SYMMETRY Symmetric
