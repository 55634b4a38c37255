CONSTANTS
  Args <- MCArgs  Lengths = {3}  Responses = {1, 4}  Echoes <- MCEchoes  Levels = {40}
  MaxDrives = 1  MaxReads = 2
  Sites = {"AB"}  LongClick = 4  Window = 2  Wrap = 100  Half = 4  Thresholds = {2}  Steps = {1, 3}
  MaxClock = 5  MaxBus = 2
  Picks = {"none", "shake", "freefall", "tiltLeft"}  Frames = {16, 20}  MaxSelects = 2
  MaxResets = 1
  Sources = {1}  Values = {1, 2}  MaxListeners = 2  MaxEvents = 2  MaxDepth = 2
  Owners = {"d1", "d2"}  Sounds = {"sound", "zero"}  Durations <- MCDurations
  MaxPlays = 3  MaxFleets = 2  NoPlay = NoPlay
SPECIFICATION BoardSpec
CHECK_DEADLOCK FALSE
INVARIANTS
  InputsRead
  GesturesSeen
  DeliveredOnce
  
