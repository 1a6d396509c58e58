\* Three frames: ids below, in and above the signed range; lengths none, the
\* limit, one more, and as shorts -2 and -1.
SPECIFICATION Spec
CONSTANTS
  Ids = {999, 1000, 40000}
  Lens = {0, 4, 5, 65534, 65535}
  HEAD_TOTAL_LEN = 4
  MAX_LENGTH = 4
  SIZE_MAX = 25
  MaxFrames = 3
  Garbled = garbled
INVARIANTS
  TypeOK
  DataIsAligned
  StrandedOnlyByException
PROPERTY
  PostedInOrder
CHECK_DEADLOCK FALSE
