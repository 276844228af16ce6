SPECIFICATION Spec
CONSTANTS
  ByteModulus = 8
  WordBytes = 2
  ByteWeight <- MCByteWeight
  Modules <- LibraryModules
  HostArguments <- LibraryArguments
  StackSize = 4
  MaxRegisters = 8
  MaxCallDepth = 4
INVARIANTS
  WindowsInBounds
  ReturnsMatch
PROPERTIES
  ActivationsArePrivate
  CallsComputeTheirFunction
  EveryRunEnds
