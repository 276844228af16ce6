SPECIFICATION Spec
CONSTANTS
  ByteModulus = 4
  WordBytes = 2
  ByteWeight <- Weights4
  Instructions <- JumpInstructions
  JumpConditions <- JumpConditionSet
  ConstantValues <- None
  f1 = f1
  f2 = f2
  f3 = f3
  f4 = f4
  f5 = f5
  Names <- None
  MaxCode = 12
  MaxLabels = 2
  MaxHandles = 0
  MaxBuilds = 1
CHECK_DEADLOCK FALSE
INVARIANTS
  IInv
  BuiltCodeIsTheListing
  NeverUndefined
