SPECIFICATION Spec
CONSTANTS
  OtpImages <- Image
  SeepromImages <- Image
  NoImage <- NoKeys
  Paths <- MCPaths
  ArgLists <- AllLists
CHECK_DEADLOCK FALSE
INVARIANT NocheckHonoured
