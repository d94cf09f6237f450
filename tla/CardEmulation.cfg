SPECIFICATION Spec
CONSTANTS
  Sketches <- AllSketches
  Messages <- SomeMessages
  Demo <- DemoMessage
  FileBlocks = 3
  NmaxB = 2
  Nbr = 2
  Nbw = 2
  MLe = 2
INVARIANTS ReaderIsTold
PROPERTIES ImplementsStore EveryoneServed
