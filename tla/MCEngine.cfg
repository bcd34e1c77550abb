SPECIFICATION PluginSpec
CONSTANTS
  Inputs = 2
  MaxExecutions = 2
  MaxFaults = 2
  MaxKills = 2
INVARIANTS PluginTypeOK NothingIsLeftRunning CancelledIsGone SignalsAreNoStatus NothingIsLeftBehind OutputIsItsOwn
PROPERTIES KeepsContract EveryExecutionEnds
CHECK_DEADLOCK FALSE
