\* A faulty primary proposes two blocks for one number and votes for both.
SPECIFICATION Spec
CONSTANTS
  p = p
  b1 = b1
  b2 = b2
  b3 = b3
  c1 = c1
  c2 = c2
  c3 = c3
  Replica = {p, b1, b2, b3}
  Primary = p
  Faulty = {p}
  Malicious = {p}
  NumFaulty = 1
  MaxInflight = 1
  MaxBatchSize = 1
  Client = {c1, c2}
  MaxSeq = 1
  Entry = {}
  MaxBlock = 1
  NoBlock = NoBlock
  FaultyBlocks <- OneCommandBlocks
SYMMETRY EquivocateSymmetry
INVARIANTS Agreement CommitBacked
