SPECIFICATION Spec
CONSTANTS
  Pictures <- MCPictures
  NumPartitions = 2
  MaxFailures = 2
  QueueSize = 9
  RemapParallel = 6
  NumWorkers = 2
INVARIANTS
  PairsFresh
  TilesTracked
  GroupsCoverTokens
