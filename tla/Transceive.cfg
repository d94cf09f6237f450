SPECIFICATION LiveSpec
CONSTANTS
  FifoDepth = 16
  TxArray = 8
  TxLevel = 6
  RxLevel = 9
  CountModulus = 8
  CrcLen = 2
  Setups <- AllSetups
PROPERTIES OnlyWholeFramesSent GoodAnswer WholeAnswer AnsweredNotTimedOut EveryExchangeEnds
CHECK_DEADLOCK FALSE
