SPECIFICATION EagerSpec
CONSTANTS
  N = 2
  MinSeed = 1000000
  Board = {b1}
  InitialBoards = {b1}
  Writers = {1, 2}
  ClientOps = {"a"}
  MaxRequests = 2
  MaxViews = 1
  b1 = b1
INVARIANTS
  AskedOnce
CHECK_DEADLOCK FALSE
