\* A Prepare between backups is lost; one replica is silent.
SPECIFICATION LossySpec
CONSTANTS
  p = p
  b1 = b1
  b2 = b2
  b3 = b3
  c1 = c1
  c2 = c2
  c3 = c3
  Replica = {p, b1, b2, b3}
  Primary = p
  Faulty = {b3}
  Malicious = {}
  NumFaulty = 1
  MaxInflight = 1
  MaxBatchSize = 1
  Client = {c1}
  MaxSeq = 1
  Entry = {p}
  MaxBlock = 1
  NoBlock = NoBlock
  FaultyBlocks = {}
  LossyLinks <- BackupPrepareLinks
  MaxLost = 2
PROPERTIES PrimaryProgress
