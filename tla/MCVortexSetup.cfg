SPECIFICATION FairSetup
CONSTANTS
  base = base
  base2 = base2
  wide = wide
  bad = bad
  idBase = idBase
  idWide = idWide
  Design = {base, base2, wide, bad}
  Identity = {idBase, idWide}
  Resolve <- MCResolve
  Rejected = Rejected
  Tool = {gcc13, gcc14}
  Unit = {o1, o2}
  Absent = Absent
  MaxStops = 2
  MaxEdits = 3
INVARIANTS
  SetupTypeOK
  StampVouchesForObjects
  LibraryIsOneBuild
  ReadyMeansCurrent
PROPERTIES
  SetupConverges
  ImplementsLibrary
