SPECIFICATION Spec
CONSTANTS
  N = 2
  MinSeed = 1000000
  Board = {b1, b2}
  InitialBoards = {b1}
  Writers = {1}
  ClientOps = {"j", "a"}
  MaxRequests = 2
  MaxViews = 3
  b1 = b1
  b2 = b2
INVARIANTS
  TypeOK
  UpdateKeyUnique
  NumbersFollowClock
  OriginatorHasIt
  ClockCoversLog
  VectorIsLogged
  RowsInitialised
  BufferOnlyInSync
CHECK_DEADLOCK FALSE
