SPECIFICATION CalmSpec
CONSTANTS
  N = 3
  MinSeed = 1000000
  Board = {b1}
  InitialBoards = {b1}
  Writers = {1, 2}
  ClientOps = {"a", "e", "d"}
  MaxRequests = 2
  MaxViews = 3
  b1 = b1
INVARIANTS
  CalmInv
  AgreeAtRest
  ObjectsAgreeAtRest
  ClientsTold
PROPERTIES
  VectorAdvances
  OriginOrderKept
CHECK_DEADLOCK FALSE
