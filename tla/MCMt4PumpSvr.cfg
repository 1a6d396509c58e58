\* Two sessions that may subscribe four times between them, two updates.
SPECIFICATION Spec
CONSTANTS
  Sessions = {s1, s2}
  MaxUpdates = 2
  MaxSubscribes = 4
SYMMETRY Symmetry
INVARIANTS
  TypeOK
  UpdatesInOrder
  ClosedGetNothing
  ConfirmedIsServed
PROPERTY
  OneErasePerCallbackIsSafe
CHECK_DEADLOCK FALSE
