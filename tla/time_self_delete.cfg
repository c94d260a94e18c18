SPECIFICATION TimeSpec
CONSTANTS
  MsPerSec = 2
  IntHalf = 128
  Delays = {1, 3}
  Returns = {0, 1, 3}
  MaxTimers = 3
  MaxNow = 3
  ClockSettings = {}
  RearmAfterSelfDelete = TRUE
PROPERTY OnlyOwnReturnRearms
