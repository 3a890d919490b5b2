SPECIFICATION FairSpec
CONSTANTS
  Jobs = {j1}
  Workers = {w1}
  None = None
  Expiry = 0
  MaxTime = 1
  MaxFaults = 1
  QueueSize = 1
  MaxFiles = 1
  MaxExits = 1
PROPERTIES RelyOnPromise JobsSettle DiskReclaimed ExpiredRemoved ShutdownEnds
