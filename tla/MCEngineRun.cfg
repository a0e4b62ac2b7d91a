CONSTANTS
  sat = sat
  rival = rival
  Spacecraft <- MCSpacecraft
  OtherObjects <- MCNone
  Initial <- MCInitial
  Sync = 0
  LastEpoch = 3
  Limit = 100
  Ulp = 0
  MaxRecords = 7
  Manifests <- MCManifests
SPECIFICATION Spec
INVARIANTS
  CommittedTruthIsBallistic
  ReorderedNeverCommits
PROPERTIES
  PreparedRunsComplete
