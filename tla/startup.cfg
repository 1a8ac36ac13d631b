SPECIFICATION Spec
CONSTANTS
  OtpImages <- Image
  SeepromImages <- Image
  NoImage <- NoKeys
  Paths <- MCPaths
  ArgLists <- FewLists
CHECK_DEADLOCK FALSE
INVARIANTS TypeOK KeysByPriority CpuStartsPrepared
PROPERTY StartupEnds
