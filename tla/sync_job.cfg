SPECIFICATION Spec
CONSTANTS
  N = 3
  MinSeed = 1
  MaxTimestamp = 2
INVARIANTS
  ArrivedSenderHolds
  ArrivedMissingSent
CHECK_DEADLOCK FALSE
