SPECIFICATION Spec
CONSTANTS
  Handles = {h1, h2, h3, h4}
  Fibers = {f1, f2, f3, f4, f5, f6}
  MaxHandles = 2
  WaiterPoolMayFail = FALSE
  r1 = r1
  r2 = r2
  c1 = c1
  c2 = c2
  s1 = s1
  a1 = a1
  p1 = p1
  p2 = p2
  Idlers = {}
  Rules <- MCRules
  Actions = {a1}
  Pages = {p1, p2}
  Parent <- MCParent
  Anc <- MCAnc
  Subject <- MCSubject
  Code <- RestartCode
  Roots <- RestartLast
  FirstPage = p1
  FaultRounds = 2
  NoFiber = NoFiber
  NoHandle = NoHandle
  NoRule = NoRule
  Gone = Gone
INVARIANTS
  UncappedBounded
