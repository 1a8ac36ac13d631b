SPECIFICATION Spec
CONSTANTS
  BLOCK = 2
  LOW_LIMIT = 6
  HIGH_LIMIT = 2
  WORD_LIMIT = 2
  Byte = {0, 1}
  Rounds <- MCRounds
  MemoryBytes <- MCMemory
  ADDRESS_LIMIT = 8
  MAX_BLOCKS = 2
  Written <- MCWritten
  MAX_STREAM = 3
  MAX_HASHED = 7
INVARIANTS
  TypeOK
  StateIsHash
  CountIsBytes
CHECK_DEADLOCK FALSE
