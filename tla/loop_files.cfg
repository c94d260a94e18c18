SPECIFICATION LoopFairSpec
CONSTANTS
  EVENT_MAX = 2
  MaxFd = 1
  Masks = {{"READABLE"}, {"READABLE", "WRITABLE"}}
  Procs = {p}
  Datas = {d}
  Unset = Unset
  CloseWithoutDelete = FALSE
  MsPerSec = 3
  IntHalf = 128
  Delays = {}
  Returns = {}
  MaxTimers = 0
  MaxNow = 0
  ClockSettings = {}
  RearmAfterSelfDelete = FALSE
  Horizon = 0
INVARIANT KernelMatchesTable
PROPERTIES HandlerIsWatched ReadyIsServed
