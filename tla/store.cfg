CONSTANTS
  a = a  b = b  p = p  q = q
  Tabs = {a}  Projects = {p, q}  Home <- MCHome  Kept <- MCKept
  Typed = {"legacy", "blank"}  StorageFails = TRUE  MaxActs = 3
  p1 = p1  p2 = p2  p3 = p3  b1 = b1  b2 = b2  b3 = b3  i1 = i1  i2 = i2  i3 = i3  i4 = i4  k1 = k1
  NoProject = NoProject  NoBrain = NoBrain  NoInstance = NoInstance  NoFleet = NoFleet
SPECIFICATION StoreSpec
CHECK_DEADLOCK FALSE
INVARIANTS
  PanelSound
  RunsLatest
  ShownIsStored
PROPERTIES
  LoadsAreSafe
  StoreSettles
