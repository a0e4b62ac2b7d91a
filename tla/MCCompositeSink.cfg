SPECIFICATION Spec
CONSTANTS
  r1 = r1
  r2 = r2
  MaxRecords = 20
  SinkFaults = {"begin", "write", "commit", "abort"}
  Children = 3
  Capacity <- MCCapacity
  Batches <- MCBatches
  MaxWrites = 3
  ChildFaults = {"begin", "write", "commit", "abort"}
  ChildStates <- MCChildStates
  MayInterrupt = TRUE
INVARIANTS
  CommittedChildrenAgree
  NothingLeftOpen
  OriginalErrorRaised
PROPERTIES
  ImplementsSink
CHECK_DEADLOCK FALSE
