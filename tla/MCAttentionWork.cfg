SPECIFICATION FairWork
CONSTANTS
  CompiledSequence = 3
  CompiledHeadDim = 3
  Sequence = 2
  HeadDim = 2
  QueryTile = 2
  HeadDimTile = 2
  BlockX = 1
  ScalarLaunch = FALSE
  Q <- MCQ
  K <- MCK
  V <- MCV
  Dot <- MCDot
  MaxU32 = 255
  MaxLoads = 80
  Overflow = Overflow
INVARIANTS
  KernelTypeOK
  AccessesInBounds
  StoredCellIsReference
  NoCellLeft
  EstimateIsExecuted
PROPERTIES
  StoredOnce
  KernelTerminates
CHECK_DEADLOCK FALSE
