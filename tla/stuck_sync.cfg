SPECIFICATION RestlessSpec
CONSTANTS
  N = 2
  MinSeed = 1000000
  Board = {b1}
  InitialBoards = {b1}
  Writers = {}
  ClientOps = {}
  MaxRequests = 0
  MaxViews = 2
  b1 = b1
PROPERTIES
  SyncEnds
CHECK_DEADLOCK FALSE
