SPECIFICATION FairSpec
CONSTANTS
  MaxDevices = 2
  Params <- TwoParams
  Careful = TRUE
  NULL = NULL
INVARIANTS ActiveDeviceKnown RfFollowsState
PROPERTIES PollingDecides ListeningEnds
