SPECIFICATION FairSpec
CONSTANTS
  MaxInt = 5
  MaxSizeBytes = 4
  RequestTimeout = 1
  MaxCount = 2
INVARIANTS CapHolds SuccessIsComplete TarSizesMatch BodiesClosed GenerateInv
PROPERTIES GenerateReturns KeepsPromise
CHECK_DEADLOCK FALSE
