SPECIFICATION LoopFairSpec
CONSTANTS
  EVENT_MAX = 1
  MaxFd = 0
  Masks <- Reads
  Procs = {p}
  Datas = {d}
  Unset = Unset
  CloseWithoutDelete = FALSE
  MsPerSec = 3
  IntHalf = 128
  Delays = {1, 4}
  Returns = {0, 2}
  MaxTimers = 2
  MaxNow = 30
  ClockSettings = {}
  RearmAfterSelfDelete = FALSE
  Horizon = 3
PROPERTIES SleepEndsInTime TimerIsServed StopIsHonoured
