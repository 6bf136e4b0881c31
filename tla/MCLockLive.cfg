SPECIFICATION FairSpec
CONSTANTS
  Threads = {main, idle, a}
  Main = main
  Idle = idle
  NoThread = none
  Prio <- MCPrio
  Slice = 0
  Locks = {l, pidlock}
  PidLock = pidlock
  NoLock = nolock
  Channel = l
  DiskDone = diskdone
  Procs = {a}
  Creators = {main}
  Sleepers = {}
  DiskUsers = {a}
  MaxDepth = 2
PROPERTIES
  ReadyRuns
  WaiterWoken
  LockTaken
  ImplementsMutex
