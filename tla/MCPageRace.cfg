SPECIFICATION Spec
CONSTANTS
  Threads = {main, a}
  Main = main
  KThreads = {a}
  Starters = {main}
  Procs = {}
  Worlds = {{main, a}}
  NoThread = none
  Kernel = kernel
  KFrames = 4
  UFrames = 1
  KPages = 3
  UPages = 1
  PerTable = 1
  MaxRequest = 3
  MaxCnt = 2
INVARIANT
  EntryIsFree
