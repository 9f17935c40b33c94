\* Three close loop clients, or two open loop ones: any order of pushes, batches and commits.
SPECIFICATION FairPoolSpec
CONSTANTS
  c1 = c1
  c2 = c2
  c3 = c3
  Client = {c1, c2, c3}
  MaxSeq = 3
  MaxBatchSize = 2
  OpenClient = {c1, c2}
  OpenMaxSeq = 4
  MaxLen = 3
INVARIANTS OffsetsLocatePending NoPanic ReturnedOnce OpenLoopPromises
PROPERTIES NoSetback OwnCommitsKeepQueue AbstractPoolSpec PendingServed
