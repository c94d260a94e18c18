SPECIFICATION TransferFairSpec
CONSTANTS
  Threads = {t1, t2}
  Sizes = {1, 3}
  MaxInput = 3
  MaxCalls = 2
  Room = 2
INVARIANTS EachByteOnce ReadInOrder WrittenInOrder
PROPERTIES TransfersReturn
