SPECIFICATION StreamSpec
CONSTANTS
  WordBits = {"bit"}
  MEM_BLOCKS = 3
  ADDRESS_LIMIT = 3
  MAX_BLOCKS = 2
  Cipher <- MCCipher
  InvCipher <- MCInvCipher
  InitialMemory <- MCMemory
  Written <- StreamWords
  MAX_TOTAL = 3
  MAX_SPENT = 7
INVARIANTS
  TypeOK
  StreamIsCbc
  FifosHoldLastWords
CHECK_DEADLOCK FALSE
