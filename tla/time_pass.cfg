SPECIFICATION TimeFairSpec
CONSTANTS
  MsPerSec = 2
  IntHalf = 128
  Delays = {1, 3}
  Returns = {0, 1, 3}
  MaxTimers = 3
  MaxNow = 3
  ClockSettings = {0, 2}
  RearmAfterSelfDelete = FALSE
INVARIANTS TimeTypeOK NewestFirst FinalizedOnce ScanStaysInList NothingDueLeft
PROPERTIES OnlyOwnReturnRearms ImplementsTimerService PassTerminates
