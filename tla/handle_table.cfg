SPECIFICATION MCTableSpec
CONSTANTS
  Handles = {h1, h2, h3}
  Fibers = {f1, f2}
  MaxHandles = 2
  WaiterPoolMayFail = TRUE
  MaxWaiters = 1
SYMMETRY Slots
INVARIANTS
  CappedAccounting
PROPERTIES
  SettleOnce
