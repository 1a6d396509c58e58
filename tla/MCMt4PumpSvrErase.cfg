\* Three sessions: two that close and one that stays.
SPECIFICATION Spec
CONSTANTS
  Sessions = {s1, s2, s3}
  MaxUpdates = 1
  MaxSubscribes = 4
SYMMETRY Symmetry
INVARIANT
  OnlyClosedLinksRemoved
CHECK_DEADLOCK FALSE
