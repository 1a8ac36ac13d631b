SPECIFICATION Spec
CONSTANTS
  SRAM_BASE = 54272
  SRAM_MIRROR = 1048320
  WEIRD1_BASE = 1048544
  WEIRD2_BASE = 1048560
  SRAM_A_SIZE = 16
  SRAM_B_SIZE = 8
  WEIRD_SIZE = 16
  BOOT0_SIZE = 1
  MEM1_BASE = 0
  MEM1_SIZE = 6144
  MEM2_BASE = 65536
  MEM2_SIZE = 16384
  Written <- AllWords
  OtpImages = {otpA, otpB}
  SeepromImages = {seepromA}
  NoImage = NoImage
  TIMER_LIMIT = 2
INVARIANTS
  TypeOK
  MapMatchesRegisters
  DeviceSeesWhatCpuSees
  WholeSramVisible
  WindowsMirror
  Boot0SeenWhileEnabled
  BootFlagIsSound
  OtpReadingStaysValid
PROPERTY
  CodeStaysInPlace
