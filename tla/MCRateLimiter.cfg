SPECIFICATION Spec
CONSTANTS
  Keys = {a, b, c}
  Limit = 2
  Window = 2
  MaxKeys = 2
  Steps <- ClockSteps
  MaxElapsed = 5
SYMMETRY KeySymmetry
INVARIANT TypeOK
PROPERTIES KeepsBudgets IdleKeysExpire
CHECK_DEADLOCK FALSE
