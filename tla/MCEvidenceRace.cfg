SPECIFICATION WorkflowSpec
CONSTANTS
  base = base
  noF = noF
  idBase = idBase
  idNoF = idNoF
  t1 = t1
  t2 = t2
  Design = {base, noF}
  Identity = {idBase, idNoF}
  Resolve <- MCResolve
  Rejected = Rejected
  Tool = {gcc}
  Unit = {o1}
  Absent = Absent
  Torn = Torn
  ElfRunsOn = {idBase, idNoF}
  TargetMatches = {idBase, idNoF}
  MaxStops = 1
  MaxEdits = 1
  MaxRuns = 2
  Terminal = {t1}
INVARIANTS
  ReportNamesExecutedRtl
