SPECIFICATION DriversSpec
CONSTANTS
  Threads = {t1}
  HALF_BITS = 2
  VALUES = {0, 2, 5}
  Rearm = FALSE
  SharedLine = TRUE
  IrqFails = TRUE
  MAX_HANDLERS = 1
  Boards <- MCBoards
  Rebound <- MCRebound
  Users = {u1, u2}
  LONG_BITS = 3
  Width <- MCWidth
INVARIANTS
  DriversTypeOK
  ReadExpired
  Released
  GivenBack
  
  LinesHeld
  StoredIsShown
PROPERTY
  ReadReturns
