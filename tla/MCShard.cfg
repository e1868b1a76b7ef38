SPECIFICATION Spec
CONSTANTS
  Groups <- TwoGroups
  Lookup <- Consecutive
  Allowed = 12
  ProbeBits = 8
  PortBits = 2
  IndexBits = 0
  PortNum = 3
  IndexNum = 0
  NumShards = 2
  NumThreads = 3
  MaxTargets = 8
  ListCount = 8
  Randoms <- SomeRandoms
INVARIANTS ExactlyOnce QuotasExact ListPartition
