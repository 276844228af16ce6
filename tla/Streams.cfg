SPECIFICATION Spec
CONSTANTS
  MaxText = 7
  BufferSize = 3
  Byte <- MCByte
  Texts <- MCTexts
  Sizes <- MCSizes
INVARIANTS
  TypeOK
  BytesInOrder
  NothingInvented
PROPERTIES
  KeepsThePromise
  EveryReadReturns
