SPECIFICATION FairSpec
CONSTANTS
  MaxRecords = 10
  SinkFaults = {"begin", "write", "commit", "abort"}
  Inputs <- MCInputs
  SpaceObjects <- MCSpaceObjects
  States = {0}
  Epochs = {0, 1, 2, 3}
  SyncEpoch = 0
  EndEpoch = 3
  Faults = {"manifest", "backend", "schedule", "close", "reused_sink", "interrupt"}
INVARIANTS
  CancelledBetweenGroups
  CancellationIsPrompt
PROPERTIES
  ImplementsAtomicRun
  RunEnds
  RuntimeEventuallyClosed
