CONSTANTS
  Libraries = {l1, l2}  Kinds = {"move_failed", "unresolved", "advisory"}  Unresolved = {"move_failed", "unresolved"}
  MaxVisible = 1  MaxChanges = 3  NoToast = NoToast
  Brains = {b1, b2}  MaxPairs = 3  MaxFlashes = 3  MaxPlugs = 3  Patient = TRUE  None = None
  Catalog = {target, robot, arm}  Platform = {target}  Embedded = {robot}  DependsOn <- MCDependsOn  Manifests <- MCManifests
  Slots = {1, 2}  MaxActs = 3  MaxSwitches = 1  NoLibrary = NoLibrary  NoSlot = NoSlot  target = target  robot = robot  arm = arm
  Projects = {p1, p2}  Has <- MCHas  MaxDialogs = 2  MaxOpens = 2  MaxMoves = 2  NoProject = NoProject  NoBrain = NoBrain
CHECK_DEADLOCK FALSE
SPECIFICATION ProjectsSpec
INVARIANTS
  WarningStands
  GoesWhereMeant
PROPERTIES
  FlasherTellsTrue
  LibrariesKept
  WaitingEnds
