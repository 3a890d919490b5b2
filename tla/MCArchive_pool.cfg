SPECIFICATION Spec
CONSTANTS
  Jobs = {j1, j2}
  Workers = {w1, w2}
  None = None
  Expiry = 1
  MaxTime = 2
  MaxFaults = 0
  QueueSize = 1
  MaxFiles = 1
  MaxExits = 0
SYMMETRY Symmetry
INVARIANTS TypeOK OneOwner NoLostJob PublishedIsWhole TokenHonoured ProgressIsTrue NoStrayTemp RefusedLeavesNothing
PROPERTIES RecordsAdvance Lifecycle
