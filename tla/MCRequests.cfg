SPECIFICATION Spec
CONSTANTS
  MaxName = 4
  RequestNames <- MCRequestNames
  StoredNames <- MCStoredNames
  MaxDepth = 3
INVARIANTS EntriesInside EntryIsChosenPath RequestInv
CHECK_DEADLOCK FALSE
