SPECIFICATION Spec
CONSTANTS
  ShortMax = 6
  ReadSize = 8
  Texts = {"a", "b"}
  Setups <- LongTags
PROPERTY SuccessMeansWritten
CHECK_DEADLOCK FALSE
