SPECIFICATION CondFairSpec
CONSTANTS
  t1 = t1
  t2 = t2
  t3 = t3
  g1 = g1
  g2 = g2
  h = h
  k = k
  Threads <- ThreeThreads
  NoThread = NoThread
  Guards <- FourGuards
  Owner <- TwoOneOne
  Msecs = {0, 1, 3}
  MsPerSec = 2
  NsPerMs = 1000000
  Boot = 4
  MaxNow = 5
  NestedWait = FALSE
INVARIANTS CondTypeOK GuardsMatchMutex
PROPERTIES ImplementsMonitor MutexIsGot
