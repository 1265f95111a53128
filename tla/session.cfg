SPECIFICATION Spec
CONSTANTS
  Client = {c1}
  Server = {1, 2}
  Board = {b1, b2}
  NoBoard = NoBoard
  MaxCommands = 4
  MaxEvents = 1
  c1 = c1
  b1 = b1
  b2 = b2
INVARIANTS
  TypeOK
  RemoveFindsClient
  LineNamesObject
  JoinFindsClient
  ConnectedIsReal
  ShowsItsBoard
  ListsMatch
  OnBoardOnce
  BeliefInv
PROPERTIES
  ConnectResolves
  CrashNoticed
CHECK_DEADLOCK FALSE
