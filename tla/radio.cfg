CONSTANTS
  Devices = {1, 2}  Groups = {0, 1}  Sites = {"number", "batch"}
  Default = 0  Depth = 2  Sent = {"integer", "text"}  MaxFrames = 2  MaxSends = 3
SPECIFICATION RadioSpec
CHECK_DEADLOCK FALSE
INVARIANTS
  FleetSound
  FrameCarries
  ScriptFollowed
PROPERTIES
  NextThink
  ReadersServed
