SPECIFICATION ThreadFairSpec
CONSTANTS
  MaxStarts = 2
  Timeouts = {1}
INVARIANTS ThreadTypeOK OnlyLiveIds JoinMeansFinished StatusIsLast
PROPERTIES NoWriteAfterDestroy CallsReturn
\* The owner may destroy the object, and nothing follows.
CHECK_DEADLOCK FALSE
