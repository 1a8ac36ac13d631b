SPECIFICATION StarletSpec
CONSTANTS
  BUFFER_SIZE = 2
  Written <- MCWritten
  Garbage = 63
  MAX_LINE = 3
  MAX_LINES = 2
  DEBUG_SIZE = 3
  FETCH_SIZE = 2
  PAGE = 2
  Char = {"a", "newline", "behind"}
  EndOfLine = "newline"
  Behind = "behind"
  Strings <- MCStrings
  Origins <- MCOrigins
  BusAddresses <- MCBusAddresses
  FlushValues = {1}
  MAX_TALK = 3
  SRAM_BASE = 2
  SRAM_MIRROR = 8
  WEIRD1_BASE = 12
  WEIRD2_BASE = 14
  SRAM_A_SIZE = 2
  SRAM_B_SIZE = 1
  WEIRD_SIZE = 2
  BOOT0_SIZE = 1
  MEM1_BASE = 0
  MEM1_SIZE = 1
  MEM2_BASE = 6
  MEM2_SIZE = 1
  HW_Written <- MCHollywoodWords
  TIMER_LIMIT = 1
  OtpImages = {}
  SeepromImages = {}
  NoImage = NoImage
CHECK_DEADLOCK FALSE
INVARIANTS
  StarletTypeOK
  PlainTextPrinted
  DebugTextPrinted
  FlushAcknowledged
PROPERTIES
  BootVectorSparesGecko
  JamIsForever
  StoppedTextComesOut
