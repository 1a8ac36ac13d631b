SPECIFICATION Spec
CONSTANTS
  DATA_LINES = 2
  KEY_LINES = 1
  INT_LIMIT = 16
  MEM_LINES = 4
  Dumps <- MCDumps
  NandImage = nandKeys
  OtpImages = {nandKeys, otherKeys}
  SeepromImages = {nandKeys}
  NoImage = none
  Written <- MCWritten
CHECK_DEADLOCK FALSE
INVARIANTS TypeOK LastReadDelivered
PROPERTY MountCompletesKeys
