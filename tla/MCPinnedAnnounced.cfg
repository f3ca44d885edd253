SPECIFICATION PinSpec
CONSTANTS
  r1 = r1
  r2 = r2
  d1 = d1
  d2 = d2
  Revision = {r1, r2}
  FirstLock <- MCFirstLock
  Version <- MCVersion
  Patches = 1
  Design = {d1, d2}
  Honoured <- MCHonoured
  Absent = Absent
  MaxStops = 0
  MaxEdits = 1
INVARIANT AnnouncedIsPinned
CHECK_DEADLOCK FALSE
