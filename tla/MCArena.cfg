SPECIFICATION Spec
CONSTANTS
  Threads = {a, b}
  NoThread = none
  Pages = 3
  PageSize = 6
  Header = 2
  MinBlock = 2
  DescCnt = 2
  MaxRequest = 3
  Sizes = {2, 3, 5, 11}
INVARIANTS
  BlocksApart
  ArenasExact
  NothingLeaked
PROPERTIES
  CallReturns
  ImplementsHeap
