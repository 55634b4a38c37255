SPECIFICATION Spec
CONSTANTS
  Handles = {h1, h2}
  Fibers = {f1, f2, f3, f4}
  MaxHandles = 2
  WaiterPoolMayFail = TRUE
  r1 = r1
  r2 = r2
  c1 = c1
  c2 = c2
  s1 = s1
  a1 = a1
  p1 = p1
  p2 = p2
  Idlers = {i1, i2, i3}
  Rules <- MCRules
  Actions = {a1}
  Pages = {p1, p2}
  Parent <- MCParent
  Anc <- MCAnc
  Subject <- MCSubject
  Code <- ArenaCode
  Roots <- TwoPages
  FirstPage = p1
  FaultRounds = 2
  NoFiber = NoFiber
  NoHandle = NoHandle
  NoRule = NoRule
  Gone = Gone
INVARIANTS
  PromiseKept
  RespawnFindsSlot
