SPECIFICATION Spec
CONSTANTS
  sat = sat
  chaser = chaser
  debris = debris
  unknown = unknown
  otherScale = otherScale
  Spacecraft = {sat, chaser}
  OtherObjects = {debris}
  Initial <- MCInitial
  Sync = 1
  Targets <- MCTargets
  Incomparable = {otherScale}
  Entries <- MCEntries
  Limit = 4
  MayFailCopy = TRUE
INVARIANTS
  Ballistic
  AllOrNothing
PROPERTIES
  TornIsUnusable
  ImplementsContract
