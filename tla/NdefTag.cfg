SPECIFICATION Spec
CONSTANTS
  ShortMax = 6
  ReadSize = 8
  Texts = {"a", "b"}
  Setups <- AllTags
INVARIANTS ContextIsTrue
PROPERTIES ImplementsStore ReportsAreTrue
CHECK_DEADLOCK FALSE
