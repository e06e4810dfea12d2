SPECIFICATION Spec
CONSTANTS
  Kinds = {"minute_metric", "event"}
  KindCap <- MCKindCap
  BatchLimit = 2
  SelectLimit = 3
  HistoryChunk = 2
  MaxBytes = 3
  MaxAge = 1
  BatchIds = {b1, b2, b3}
  ClockStepsBack = FALSE
  Sizes = {1, 2}
  MaxTime = 3
  MaxRowId = 3
  MaxAppend = 2
  MaxClears = 1
SYMMETRY BatchSymmetry
INVARIANT KeptSevenDaysAtMost
