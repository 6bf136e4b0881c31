SPECIFICATION Spec
CONSTANTS
  Threads = {main, a}
  Main = main
  NoThread = none
  Disks = {0, 1}
  Lbas = 4
  MaxLba = 2
  MaxChunk = 2
  Counts = {1, 3}
  TimeLimit = 3
  InStep = TRUE
INVARIANTS
  ReadIsDisk
  WriteOnDisk
  ChannelInOrder
PROPERTIES
  OnlyWhatIsWritten
  CallReturns
CHECK_DEADLOCK FALSE
