\* Two sessions on two io_contexts, one request each.
SPECIFICATION Spec
CONSTANTS
  Sessions = {s1, s2}
  Pool = 2
  MaxRequests = 1
  NoSession = none
INVARIANTS
  TypeOK
  PoolBalanced
  RegisteredIsServed
PROPERTIES
  DestroyedStaysDestroyed
  EndedIsDestroyed
  SignalStopsServing
  StoppedIsQuiet
CHECK_DEADLOCK FALSE
