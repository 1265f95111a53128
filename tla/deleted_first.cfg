SPECIFICATION CalmSpec
CONSTANTS
  N = 3
  MinSeed = 1000000
  Board = {b1}
  InitialBoards = {b1}
  Writers = {1, 2}
  ClientOps = {"a", "d"}
  MaxRequests = 2
  MaxViews = 2
  b1 = b1
INVARIANTS
  DeletedForAll
CHECK_DEADLOCK FALSE
