CONSTANTS
  Inputs <- MCInputs
  Deviations <- MCDeviations
  Declarations <- MCDeclarations
  Weights <- MCWeights
  One = 10
  Largest = 30
  Turn = 8
  Fine = 10
  Tolerance = 1
  Rounding = 1
SPECIFICATION ObservationSpec
INVARIANTS
  RowsMatchValues
  ZeroMeansKnownZero
  VarianceWithinTolerance
CHECK_DEADLOCK FALSE
