SPECIFICATION Spec
CONSTANTS
  Threads = {main, idle, a, b}
  Main = main
  Idle = idle
  NoThread = none
  Prio <- MCPrio
  Slice = 1
  Locks = {l, pidlock}
  PidLock = pidlock
  NoLock = nolock
  Channel = l
  DiskDone = diskdone
  Procs = {a}
  Creators = {main}
  Sleepers = {main}
  DiskUsers = {main, a}
  MaxDepth = 2
INVARIANTS
  TypeOK
  NoPanic
  ReadyListExact
  WaitersExact
  MutualExclusion
  LockWordsAgree
  NoLostWakeup
  IntrRestored
  DiskAnswered
