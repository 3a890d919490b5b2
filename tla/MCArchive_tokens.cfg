SPECIFICATION Spec
CONSTANTS
  Jobs = {j1}
  Workers = {w1}
  None = None
  Expiry = 1
  MaxTime = 2
  MaxFaults = 0
  QueueSize = 1
  MaxFiles = 1
  MaxExits = 0
INVARIANT TokensHaveJobs
