SPECIFICATION AllocSpec
CONSTANTS
  t1 = t1
  t2 = t2
  t3 = t3
  g1 = g1
  g2 = g2
  h = h
  Threads <- ThreeThreads
  NoThread = NoThread
  MaxReads = 2
  RwlockDetects = TRUE
  Upgrades = FALSE
  TriesToWrite = TRUE
  Guards <- ThreeGuards
  Owner <- TwoAndOne
INVARIANTS GuardsMatchLock WriteGuardAlone
PROPERTIES RefusedOnlyToWriter
