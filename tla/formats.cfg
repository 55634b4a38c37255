CONSTANTS
  NoHex = NoHex
CHECK_DEADLOCK FALSE
SPECIFICATION FormatsSpec
INVARIANTS
  FirmwareBoots
  TracesTellRuns
PROPERTIES
  PicturesKept
  SoundsHeard
