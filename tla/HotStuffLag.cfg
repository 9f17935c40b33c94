\* All four replicas take part: the one that is not nominated lags behind. A client
\* sends two commands, one after the other, to the leader and to a backup.
SPECIFICATION Spec
CONSTANTS
  c1 = c1
  c2 = c2
  NumReplica = 4
  NumFaulty = 1
  Silent = {}
  SupplySize = 4
  RefillThreshold = 1
  MaxBatchSize = 1
  Client = {c1}
  MaxSeq = 2
  Entry = {0, 1}
INVARIANTS NothingLeftBehind FinalizedLocked RunsDryOnlyInFlight ClientOrder
PROPERTIES BroadcastSpec
CHECK_DEADLOCK FALSE
