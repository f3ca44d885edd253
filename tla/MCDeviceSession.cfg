SPECIFICATION SessionSpec
CONSTANTS
  ImagePath = {p1, p2}
  Config = p1
  Image = {i1, i2}
  Address = {a1, a2, a3, a4}
  Dims <- MCDims
  Caps <- MCCaps
  Absent = Absent
  Overflow = Overflow
  MaxU64 = 32
  MaxCalls = 2
  MaxRebuilds = 1
SYMMETRY Interchangeable
INVARIANTS
  SessionTypeOK
  DependentsReleasedFirst
  OutputIsOfOwnCall
  SettledOnReturn
  QueuedLaunchFits
PROPERTIES
  ModuleLoadedOnce
CHECK_DEADLOCK FALSE
