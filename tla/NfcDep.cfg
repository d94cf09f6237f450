SPECIFICATION FairSpec
CONSTANTS
  MaxRetries = 3
  AtrRetries = 2
  MaxCommands = 2
  Setups <- AllSetups
INVARIANTS InStep
PROPERTIES ImplementsService RetriesAreUsed EveryCallEnds
CHECK_DEADLOCK FALSE
