SPECIFICATION TiedSpec
CONSTANTS
  N = 3
  MinSeed = 1000000
  Board = {b1}
  InitialBoards = {b1}
  Writers = {1, 2}
  ClientOps = {"a"}
  MaxRequests = 2
  MaxViews = 2
  b1 = b1
INVARIANTS
  AgreeAtRest
CHECK_DEADLOCK FALSE
