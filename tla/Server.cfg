\* Two clients that come, send and leave, blocks of one command, channels with room for one.
SPECIFICATION FairSpec
CONSTANTS
  c1 = c1
  c2 = c2
  Client = {c1, c2}
  MaxSeq = 2
  MaxSent = 2
  MaxFinalized = 2
  MaxBatch = 1
  Servers = {"quic", "tcp", "unreplicated"}
  MessageCapacity = 1
  RequestCapacity = 1
  FinalizedCapacity = 1
  WriteCapacity = 1
INVARIANTS RepliesInOrder NothingLost FailsForReason
PROPERTIES OnlyCircleStalls CancelEnds
CHECK_DEADLOCK FALSE
