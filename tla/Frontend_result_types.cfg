SPECIFICATION Spec
CONSTANTS
  Programs <- ElselessPrograms
  Fuel = 12
  Calls = 6
CHECK_DEADLOCK FALSE
INVARIANT
  ReturnsWhatItDeclares
