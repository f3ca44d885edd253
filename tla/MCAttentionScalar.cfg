SPECIFICATION KernelSpec
CONSTANTS
  CompiledSequence = 2
  CompiledHeadDim = 2
  Sequence = 2
  HeadDim = 2
  QueryTile = 2
  HeadDimTile = 2
  BlockX = 1
  ScalarLaunch = TRUE
  Q <- MCQ
  K <- MCK
  V <- MCV
  Dot <- MCDot
INVARIANTS
  NoCellLeft
CHECK_DEADLOCK FALSE
