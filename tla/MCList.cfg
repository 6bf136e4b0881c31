SPECIFICATION Spec
CONSTANTS
  Threads = {main, a, u, v}
  Main = main
  Blocks = {x, y}
  Null = null
INVARIANTS
  ListsExact
  WalkStaysOnReady
