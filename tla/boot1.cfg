SPECIFICATION Spec
CONSTANTS
  NAND_PAGE_SIZE = 128
  NAND_ECC_SIZE = 1
  BOOT1_PAGE_SIZE = 2
  Dumps <- MCDumps
INVARIANTS
  TypeOK
  RoundsFollowStandard
  WholePagesRight
  HashRight
PROPERTY RoundsUndone
CHECK_DEADLOCK FALSE
