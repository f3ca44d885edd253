SPECIFICATION SetupSpec
CONSTANTS
  base = base
  base2 = base2
  wide = wide
  bad = bad
  idBase = idBase
  idWide = idWide
  Design = {base, base2, wide, bad}
  Identity = {idBase, idWide}
  Resolve <- MCResolve
  Rejected = Rejected
  Tool = {gcc}
  Unit = {o1, o2}
  Absent = Absent
  MaxStops = 1
  MaxEdits = 1
INVARIANTS
  OutputsReplacedAtomically
