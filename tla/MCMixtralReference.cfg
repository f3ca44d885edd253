SPECIFICATION Spec
CONSTANTS
  NaN = NaN
  NegInf = NegInf
  NoExpert = NoExpert
  Absent = Absent
  Attempts = 2
  TokenCounts = {0, 2}
  Layers = {0, 1}
  Revisions <- MCRevisions
  Logits <- MCLogits
  DeterministicRows <- MCRows
INVARIANTS
  PublishedWhole
  LoadedFixtureRuns
  RoutingIsTopK
