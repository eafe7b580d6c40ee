SPECIFICATION FairSpec
CONSTANTS
  NumKeys = 2
  maxBatchEntries = 1
  tFail = 0
  mMax = 3
  MaxOps <- MCMaxOps
  Healthy = {"LabelRoute"}
INVARIANTS NothingDropped ReportsTrue
PROPERTIES NoStaleWrite EventuallyDelivered
