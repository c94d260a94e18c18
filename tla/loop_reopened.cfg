SPECIFICATION LoopSpec
CONSTANTS
  EVENT_MAX = 2
  MaxFd = 1
  Masks <- ReadWrite
  Procs = {p}
  Datas = {d}
  Unset = Unset
  CloseWithoutDelete = FALSE
  MsPerSec = 3
  IntHalf = 128
  Delays = {}
  Returns = {}
  MaxTimers = 0
  MaxNow = 0
  ClockSettings = {}
  RearmAfterSelfDelete = FALSE
  Horizon = 0
PROPERTY NoStaleDispatch
