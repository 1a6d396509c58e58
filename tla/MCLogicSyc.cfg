\* Two io threads, two requests each, known and unknown ids mixed.
SPECIFICATION Spec
CONSTANTS
  Posters = {io1, io2}
  MaxPosts = 2
  Worker = worker
  NoThread = nobody
INVARIANTS
  TypeOK
  NoLostWakeup
  DrainedOnExit
PROPERTIES
  HandledInOrder
  JoinReturns
CHECK_DEADLOCK FALSE
