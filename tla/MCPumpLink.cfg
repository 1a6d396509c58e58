\* Two Inits per thread, three refused calls, two lost connections.
SPECIFICATION Spec
CONSTANTS
  MgrInits = 2
  MaxFails = 3
  MaxDrops = 2
INVARIANTS
  TypeOK
  StartsAndStopsAlternate
  LibraryHeld
  SafeUntilFirstRequest
PROPERTY
  PumpRestored
CHECK_DEADLOCK FALSE
