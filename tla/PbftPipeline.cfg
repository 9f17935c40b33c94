\* Two blocks in flight, three of four replicas take part.
SPECIFICATION Spec
CONSTANTS
  p = p
  b1 = b1
  b2 = b2
  b3 = b3
  c1 = c1
  c2 = c2
  c3 = c3
  Replica = {p, b1, b2, b3}
  Primary = p
  Faulty = {b3}
  Malicious = {}
  NumFaulty = 1
  MaxInflight = 2
  MaxBatchSize = 1
  Client = {c1, c2}
  MaxSeq = 1
  Entry = {p}
  MaxBlock = 2
  NoBlock = NoBlock
  FaultyBlocks = {}
SYMMETRY PairSymmetry
INVARIANTS NoPanic ScratchCollected FinalizedEagerly
PROPERTIES BroadcastSpec
