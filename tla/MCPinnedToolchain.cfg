SPECIFICATION FairPin
CONSTANTS
  r1 = r1
  r2 = r2
  d1 = d1
  d2 = d2
  Revision = {r1, r2}
  FirstLock <- MCFirstLock
  Version <- MCVersion
  Patches = 2
  Design = {d1, d2}
  Honoured <- MCHonoured
  Absent = Absent
  MaxStops = 1
  MaxEdits = 2
INVARIANTS
  PinTypeOK
  UnmovedPinsAreBuilt
  OnlyReviewedSources
PROPERTY SetupAllConverges
CHECK_DEADLOCK FALSE
