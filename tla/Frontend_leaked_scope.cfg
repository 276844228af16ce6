SPECIFICATION Spec
CONSTANTS
  Programs <- AllPrograms
  Fuel = 12
  Calls = 6
CHECK_DEADLOCK FALSE
INVARIANT
  RegistersAreTheFunctions
