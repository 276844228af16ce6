SPECIFICATION Spec
CONSTANTS
  Texts <- MCTexts
  MaxLexemes <- CallsFor
  MaxPeek = 5
INVARIANTS
  TypeOK
  LexemesAreTheText
  DecodesUtf8
  LexemesInOrder
  StoreHoldsTheLexemes
PROPERTY
  EveryLexEnds
