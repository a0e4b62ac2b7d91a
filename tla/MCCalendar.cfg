CONSTANTS
  Days = 2
  Minutes = 2
  Seconds = 2
  Base = 2
  Places = 2
  Offsets <- MCOffsets
  MaxDuration = 9
  Durations <- MCDurations
  Precision = 2
  Float <- MCFloat
  Mantissa = 8
SPECIFICATION CalendarSpec
INVARIANTS
  KeepsInstants
  OrdersAgree
  ReadsBack
