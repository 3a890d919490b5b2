SPECIFICATION HttpFairSpec
CONSTANTS
  Jobs = {j1}
  Workers = {w1}
  None = None
  Expiry = 0
  MaxTime = 1
  MaxFaults = 0
  QueueSize = 1
  MaxFiles = 1
  MaxExits = 1
INVARIANTS VerdictStands DrainedBeforeClose HttpInv
PROPERTIES StreamEnds HttpShutdownEnds ProgressShown
