\* One Init per thread and one request.
SPECIFICATION Spec
CONSTANTS
  Inits = 1
  MaxRequests = 1
  MaxPages = 1
INVARIANT
  ConnErrAnswered
CHECK_DEADLOCK FALSE
