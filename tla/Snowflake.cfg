CONSTANTS w0 = w0 w1 = w1 NoId = NoId IDs = 2 Numbers = 2 Second = 2
  Workers <- TwoWorkers
  WorkerID <- DistinctIDs
  MaxTime = 3
  MaxBack = 1
SPECIFICATION UuidSpec
INVARIANTS UniqueWithoutWait UnmarshalRecovers
CHECK_DEADLOCK FALSE
