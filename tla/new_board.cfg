SPECIFICATION CalmSpec
CONSTANTS
  N = 2
  MinSeed = 1000000
  Board = {b1}
  InitialBoards = {}
  Writers = {1}
  ClientOps = {"j", "a"}
  MaxRequests = 2
  MaxViews = 1
  b1 = b1
INVARIANTS
  BoardFilePresent
CHECK_DEADLOCK FALSE
