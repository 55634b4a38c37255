SPECIFICATION Spec
CONSTANTS
  Ops = {o1, o2}
  NoOp = NoOp
  Width = 1
  TextLengths = {0, 1, 2}
  FrameCounts = {0, 3}
  Durations <- MCDurations
  SoundLength = 3
  Pixels = {2}
  TickLengths = {0, 1, 3}
  Modulus = 9
  MayWrap = FALSE
INVARIANTS
  PendingHolds
  ScreenInTime
PROPERTIES
  LeasesKept
  LeaseEnds
