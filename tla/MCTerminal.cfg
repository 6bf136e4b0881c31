SPECIFICATION Spec
CONSTANTS
  a = a
  b = b
  u = u
  NoThread = NoThread
  Threads = {a, b, u}
  Processes = {u}
  Cols = 4
  Rows = 3
  Byte = 8
  Scenarios <- MCScenarios
  MaxEcho = 2
INVARIANTS
  ScreenShowsText
  FaultExplained
  KeysInOrder
PROPERTIES
  CallsReturn
CHECK_DEADLOCK FALSE
