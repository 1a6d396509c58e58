\* Two senders, two messages each, frames of two parts.
SPECIFICATION Spec
CONSTANTS
  Senders = {worker, pump}
  MaxSends = 2
  Parts = 2
  IO = io
  NoThread = nobody
  Garbled = garbled
INVARIANTS
  TypeOK
  FramesIntact
PROPERTIES
  LostPeerUnregistered
  ClientReceivesInOrder
CHECK_DEADLOCK FALSE
