\* Four sessions, two calls of the starter and three of the worker.
SPECIFICATION Spec
CONSTANT
  MaxSessions = 4
INVARIANTS
  LinesFindAppender
  OldFilesAreGone
CHECK_DEADLOCK FALSE
