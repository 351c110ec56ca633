SPECIFICATION MCSpec
CONSTANTS
  n1 = n1
  n2 = n2
  w1 = w1
  w2 = w2
  r1 = r1
  here = here
  there = there
  building = building
  house = house
  Gone = Gone
  Untagged = Untagged
  Nodes <- MCNodes
  Ways <- MCWays
  Relations <- MCRelations
  Positions <- MCPositions
  Tags <- MCTags
  World0 <- MCWorld0
  Diffs <- MCDiffs
  LifecycleKeys <- MCLifecycleKeys
  Coordinates = {1, 2, 3}
  Nowhere = 0
  CoordOf <- MCCoordOf
  RefsOf <- MCRefsOf
  None = None
  IdBits = 4
  GroupBits = 2
  Absent = Absent
  Garbled = Garbled
  Undecodable = Undecodable
  Failed = Failed
  BatchCommitThreshold = 2
  BatchSize = 2
  MaxSequences = 4
  MaxFailures = 1
  PrefetchAhead = 2
  Threshold = 2
  MaxBatch = 2
  MaxSeq = 5
  MaxCrashes = 1
CHECK_DEADLOCK FALSE
INVARIANTS
  Converged
  NothingStale
  FilesAccounted
PROPERTIES
  ChangesNoted
  RunEnds
