SPECIFICATION Spec
CONSTANTS
  BUFFER_SIZE = 3
  Written <- TextWords
  Garbage = 63
  MAX_LINE = 5
  MAX_LINES = 2
CHECK_DEADLOCK FALSE
INVARIANT SentBytesKept
