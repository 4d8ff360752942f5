SPECIFICATION Spec
CONSTANTS
  loop = loop
  scheduler = scheduler
  v1 = v1
  c1 = c1
  c2 = c2
  Nothing = Nothing
  Client = {loop, scheduler}
  Connection = {c1, c2}
  Viewer = {v1}
  Loop = loop
  TailBytes = 1
  MaxLog = 3
  MaxFaults = 2
CHECK_DEADLOCK FALSE
INVARIANTS
  BorrowedByOne
  NothingLeaks
  IdleIsClean
  NothingLeftBehind
  NothingSentTwice
PROPERTIES
  HandlerEnds
