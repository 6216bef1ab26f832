CONSTANTS
  q1 = q1  q2 = q2  r1 = r1
  Requests = {q1, q2}
  Replicas = {r1}
  ReplicaOf <- OneReplica
  Limits <- SomeChains
  MaxNow = 6
  period = 2  quota = 1
  rate = 1  burst = 1
  Buckets = 2  BucketTime = 2  MinReqs = 2  KNum = 3  KDen = 2
  bucketNum = 2  bucketDuration = 1  Second = 2
SPECIFICATION Spec
INVARIANTS  TokensBounded WindowCounts 
PROPERTIES RefusedOverQuota DropsOnRecentFailures ShedsOnlyBusy
SYMMETRY SameRequests
CHECK_DEADLOCK FALSE
