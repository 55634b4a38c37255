SPECIFICATION FairSpec
CONSTANTS
  Handles = {h1, h2, h3}
  Fibers = {f1, f2, f3, f4, f5}
  MaxHandles = 1
  WaiterPoolMayFail = FALSE
  r1 = r1
  r2 = r2
  c1 = c1
  c2 = c2
  s1 = s1
  a1 = a1
  p1 = p1
  p2 = p2
  Idlers = {}
  Rules <- MCRules
  Actions = {a1}
  Pages = {p1, p2}
  Parent <- MCParent
  Anc <- MCAnc
  Subject <- MCSubject
  Code <- ProgressCode
  Roots <- TwoPages
  FirstPage = p1
  FaultRounds = 3
  NoFiber = NoFiber
  NoHandle = NoHandle
  NoRule = NoRule
  Gone = Gone
PROPERTIES
  Progress
