SPECIFICATION ThreadSpec
CONSTANTS
  MaxStarts = 2
  Timeouts = {1}
PROPERTY TimedJoinMeansFinished
CHECK_DEADLOCK FALSE
