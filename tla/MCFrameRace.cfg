SPECIFICATION Spec
CONSTANTS
  Threads = {main, a, p}
  Main = main
  KThreads = {a}
  Starters = {}
  Procs = {p}
  Worlds = {{main, a, p}}
  NoThread = none
  Kernel = kernel
  KFrames = 4
  UFrames = 2
  KPages = 3
  UPages = 2
  PerTable = 1
  MaxRequest = 3
  MaxCnt = 2
INVARIANT
  FrameMappedOnce
