CONSTANTS
  Drafts <- MCDrafts
  Entities <- MCEntities
  Maneuvers <- MCManeuvers
  Schedules <- MCSchedules
  Links = {"radio"}
  Settings <- MCSettings
  MaxEdits = 3
SPECIFICATION Spec
INVARIANTS
  ReferencesHaveOneReading
  AttemptsRunForward
  AdmittedRunsAreSupported
CHECK_DEADLOCK FALSE
