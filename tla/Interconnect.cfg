\* Two and three replicas; channels with room for one, a buffer for messages of two units.
SPECIFICATION FairSpec
CONSTANTS
  Replica = {0, 1, 2}
  Plans <- MCPlans
  WriteCapacity = 1
  MessageCapacity = 1
  BufferSize = 2
INVARIANTS DeliveredExactly FailsForReason
PROPERTIES OnlyCircleStalls StoppedEnds
CHECK_DEADLOCK FALSE
