SPECIFICATION Spec
CONSTANTS
  MaxRecords = 10
  SinkFaults = {"begin", "write", "commit", "abort"}
  Inputs <- MCInputs
  SpaceObjects <- MCSpaceObjects
  States = {0, 1}
  Epochs = {0, 1, 2, 3}
  SyncEpoch = 0
  EndEpoch = 3
  Faults = {"manifest", "backend", "drift", "outcome", "schedule", "close", "reused_sink", "interrupt"}
INVARIANTS
  CommittedIsComplete
  CommittedManeuversChain
  OutcomeMatchesSink
  CommitAfterClose
  RuntimeClosedOnce
  RequestBeforeSealPreventsCommit
  FirstCauseSurvives
