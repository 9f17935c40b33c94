\* A commit of a command that was not proposed here: swap_remove breaks the order.
SPECIFICATION Spec
CONSTANTS
  c1 = c1
  c2 = c2
  c3 = c3
  Client = {c1, c2, c3}
  MaxSeq = 2
  MaxBatchSize = 1
PROPERTIES OrderPreserved
