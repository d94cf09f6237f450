SPECIFICATION FairSpec
CONSTANTS
  MaxRetriesI = 2
  MaxRetriesR = 3
  MaxRetriesS = 3
  MaxParts = 3
  MaxCommands = 2
INVARIANTS InStep
PROPERTIES ImplementsService RetriesAreUsed EveryCallEnds
CHECK_DEADLOCK FALSE
