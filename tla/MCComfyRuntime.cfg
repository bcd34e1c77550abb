SPECIFICATION FairSpec
CONSTANTS
  Slots = 2
  MaxExecutions = 3
  MaxFaults = 1
  MaxStops = 2
INVARIANT NothingIsLeftRunning
PROPERTIES KeepsContract ExecutionEnds
CHECK_DEADLOCK FALSE
