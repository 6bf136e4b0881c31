SPECIFICATION Spec
CONSTANTS
  Main = main
  a = a
  b = b
  p = p
  q = q
  Threads = {main, a, b, p, q}
  KThreads = {a, b}
  Starters = {}
  Procs = {p, q}
  Worlds <- MCWorlds
  NoThread = none
  Kernel = kernel
  KFrames = 5
  UFrames = 4
  KPages = 3
  UPages = 4
  PerTable = 2
  MaxRequest = 3
  MaxCnt = 3
INVARIANTS
  FrameHasOneUse
  PoolsExact
  HeldApart
PROPERTY
  MappingKept
