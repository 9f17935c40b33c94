\* One replica is silent; clients send to the leader and to a backup; few nonces.
SPECIFICATION FairSpec
CONSTANTS
  c1 = c1
  c2 = c2
  NumReplica = 4
  NumFaulty = 1
  Silent = {3}
  SupplySize = 2
  RefillThreshold = 2
  MaxBatchSize = 1
  Client = {c1, c2}
  MaxSeq = 1
  Entry = {0, 1}
INVARIANTS NoPanic NonceOnce RoundsAsNeeded
PROPERTIES AllFinalized
CHECK_DEADLOCK FALSE
