CONSTANTS w0 = w0 w1 = w1 NoId = NoId IDs = 2 Numbers = 2 Second = 2
  Workers <- TwoWorkers
  WorkerID <- DistinctIDs
  MaxTime = 3
  MaxBack = 0
SPECIFICATION UuidSpec
INVARIANTS UniqueIds
CHECK_DEADLOCK FALSE
