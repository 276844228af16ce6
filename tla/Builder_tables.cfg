SPECIFICATION Spec
CONSTANTS
  ByteModulus = 2
  WordBytes = 2
  ByteWeight <- Weights2
  Instructions <- TableInstructions
  JumpConditions <- None
  ConstantValues <- TableConstants
  f1 = f1
  f2 = f2
  f3 = f3
  f4 = f4
  f5 = f5
  Names <- FiveNames
  MaxCode = 2
  MaxLabels = 0
  MaxHandles = 5
  MaxBuilds = 1
CHECK_DEADLOCK FALSE
SYMMETRY NameSymmetry
INVARIANTS
  IInv
  FunctionsEnterTheirBodies
  ConstantsKeepTheirBytes
