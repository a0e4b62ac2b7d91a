SPECIFICATION Spec
CONSTANTS
  p1 = p1
  p2 = p2
  c1 = c1
  c2 = c2
  otherScale = otherScale
  fake = fake
  other = other
  Requests <- MCRequests
  Registries <- MCRegistries
  Incomparable = {otherScale}
  Changes <- MCChanges
  MaxChanges = 2
INVARIANTS
  TimelineOrdered
  EngineAgreesWithCore
  AcceptedIsConsistent
