SPECIFICATION LoweringSpec
CONSTANTS
  Kernels <- MCKernels
  Sanitized <- MCSanitized
  MaxWalked = 7
INVARIANTS
  NamesDefinedOnce
  EdgesFitBlocks
PROPERTIES
  ImplementsKernel
CHECK_DEADLOCK FALSE
