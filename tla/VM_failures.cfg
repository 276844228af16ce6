SPECIFICATION HardSpec
CONSTANTS
  ByteModulus = 8
  WordBytes = 2
  ByteWeight <- MCByteWeight
  Modules <- HardModules
  HostArguments <- FailureArguments
  StackSize = 6
  MaxRegisters = 8
  MaxCallDepth = 4
CHECK_DEADLOCK FALSE
INVARIANTS
  IInv
PROPERTIES
  CallsHideTheirFrames
  ActivationsArePrivate
