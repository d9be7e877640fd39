SPECIFICATION Spec
CONSTANTS
  MaxLength = 8
  MinLength = 2
  LengthGoal = 6
  WindowSize = 100
  ItersFor <- MCIters
  WindowRows <- MCRows
  ParallelSize = 6
  MinPerWorker = 4
  PairHash <- MCPairHash
  HashBits = 2
  ColorHash <- MCColorHash
  SkipDistance = 2
  IntervalSizeMax = 4
  Pictures <- MCPictures
  CacheBitsMax = 2
  HistoBits = 1
  MaxHuffmanBits = 3
  Stale <- MCStale
INVARIANTS
  MatchesExact
  IntervalsExact
  SamplingKeeps
  DecodedIsSource
