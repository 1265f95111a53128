SPECIFICATION RecoverySpec
CONSTANTS
  N = 2
  MinSeed = 1000000
  Board = {b1, b2}
  InitialBoards = {b1}
  Writers = {1}
  ClientOps = {"j", "a", "d"}
  MaxRequests = 3
  MaxViews = 2
  MaxCrashes = 1
  b1 = b1
  b2 = b2
INVARIANTS
  HeadIsLogged
  BoardIsLogged
  MissingIsTorn
  SameKeyIsTorn
  RecoversAtRest
  UnbrokenInv
PROPERTIES
  VectorSurvives
  OrderSurvives
CHECK_DEADLOCK FALSE
