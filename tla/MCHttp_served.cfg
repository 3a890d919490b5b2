SPECIFICATION HttpSpec
CONSTANTS
  Jobs = {j1}
  Workers = {w1}
  None = None
  Expiry = 0
  MaxTime = 1
  MaxFaults = 0
  QueueSize = 1
  MaxFiles = 0
  MaxExits = 1
PROPERTY OtherwiseServed
