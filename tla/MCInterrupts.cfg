SPECIFICATION Spec
CONSTANTS
  Slots = 0
  MaxExecutions = 2
  MaxFaults = 1
  MaxStops = 0
PROPERTY InterruptsOnlyItsOwn
CHECK_DEADLOCK FALSE
