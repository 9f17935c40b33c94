\* A primary and a backup, num_faulty = 0: clients send to both, which batch and forward.
SPECIFICATION Spec
CONSTANTS
  p = p
  b1 = b1
  b2 = b2
  b3 = b3
  c1 = c1
  c2 = c2
  c3 = c3
  Replica = {p, b1}
  Primary = p
  Faulty = {}
  Malicious = {}
  NumFaulty = 0
  MaxInflight = 2
  MaxBatchSize = 2
  Client = {c1, c2}
  MaxSeq = 2
  Entry = {p, b1}
  MaxBlock = 4
  NoBlock = NoBlock
  FaultyBlocks = {}
SYMMETRY ClientSymmetry
INVARIANTS TypeOK ClientOrder NeverIdle CommitBacked
