SPECIFICATION FairDelivery
CONSTANTS
  Kinds = {"minute_metric"}
  KindCap <- MCKindCap
  BatchLimit = 2
  SelectLimit = 3
  HistoryChunk = 1
  MaxBytes = 2
  MaxAge = 1
  BatchIds = {b1, b2}
  ClockStepsBack = FALSE
  Sizes = {1}
  MaxTime = 3
  MaxRowId = 2
  MaxAppend = 2
  MaxClears = 3
  MaxClaims = 2
  MaxVersion = 2
INVARIANTS
  RetryStable
PROPERTIES
  RowsDrain
  ImplementsLedger
