SPECIFICATION WalSpec
CONSTANTS
  Committers = {1, 2}
  SegmentSlots = 8
  BufferSlots = 8
  MaxBatch = 2
  MaxData = 0
  MaxFaults = 0
INVARIANT CommittedNotUndone
CHECK_DEADLOCK FALSE
