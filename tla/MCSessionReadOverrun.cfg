\* The frames of MCSessionRead: one says -1, and others are sent after it.
SPECIFICATION Spec
CONSTANTS
  Ids = {1000}
  Lens = {0, 4, 65535}
  HEAD_TOTAL_LEN = 4
  MAX_LENGTH = 4
  SIZE_MAX = 25
  MaxFrames = 3
  Garbled = garbled
INVARIANT
  DataFits
CHECK_DEADLOCK FALSE
