\* Two requests, lists of up to two messages.
SPECIFICATION Spec
CONSTANTS
  Inits = 2
  MaxRequests = 2
  MaxPages = 2
INVARIANTS
  TypeOK
  SuccessIsReal
  SilentOnlyWithoutRecords
  RemainingManagerTried
  CrashOnlyInTransactions
PROPERTY
  CallbackReturns
CHECK_DEADLOCK FALSE
