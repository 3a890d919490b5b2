SPECIFICATION Spec
CONSTANTS
  Unset = Unset
  Malformed = Malformed
  Environments <- MCEnvironments
INVARIANTS ReleasedInReverse StartupInv
PROPERTY SignalEndsStart
CHECK_DEADLOCK FALSE
