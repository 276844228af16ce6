SPECIFICATION Spec
CONSTANTS
  a = a
  b = b
  Character = {a, b}
  MaxLength = 2
  Hash <- ByFirst
  InitialBuckets = 2
  MaxEntries = 3
INVARIANTS
  IInv
  EmptyBucket
PROPERTIES
  HandlesDenoteTheirTexts
  EveryOperationReturns
