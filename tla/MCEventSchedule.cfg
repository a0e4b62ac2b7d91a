SPECIFICATION Spec
CONSTANTS
  Products <- MCProducts
  Requests <- MCRequests
  Ulp = 1
  MayRaise = TRUE
INVARIANTS
  GroupsIncrease
  ManeuversOnTime
  CadenceKept
