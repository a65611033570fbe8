SPECIFICATION EngineSpec
CONSTANTS
  Txns = {1, 2, 3, 4}
  MaxDegree = 2
  PageBytes = 1
  CachePages = 2
  MaxId = 10
  Committers = {1, 2}
  SegmentSlots = 2
  BufferSlots = 2
  MaxBatch = 2
  MaxData = 2
  MaxFaults = 1
  Keys = {0, 1}
  MaxEntries = 12
  PageBodies = {36, 52}
  KeySizes = {2, 8, 16}
  PageIds = {1, 2, 3, 4, 5, 6, 7, 8, 9, 10, 11, 12, 13, 14, 15, 16, 17, 18, 19, 20, 21, 22, 23, 24, 25, 26, 27, 28, 29, 30, 31, 32, 33, 34, 35, 36}
INVARIANTS EngineTypes RowsSurvive UndoLeavesNothing WindowKept StructuresExact AckedOnDisk LogReadsBack PagesKept
PROPERTY CleanWrites
CHECK_DEADLOCK FALSE
