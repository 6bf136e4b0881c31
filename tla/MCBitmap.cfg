SPECIFICATION BitmapSpec
CONSTANTS
  Width = 4
  Bytes = 3
  Behind = {TRUE, FALSE}
  MaxCnt = 3
INVARIANTS
  FindsFirstFit
  ScanIsFirstRun
CHECK_DEADLOCK FALSE
