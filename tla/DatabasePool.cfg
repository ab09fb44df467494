SPECIFICATION FairSpec
CONSTANTS
  MaxAsync = 2
  Synchs = 1
  Requests <- MCRequests
  MaxTasks = 2
  MaxLosses = 1
  HighWater = 2
INVARIANTS AllOrNothing ExecutedOnce InOrder FinishedIsDurable
PROPERTIES RequestsFinish CloseEnds
