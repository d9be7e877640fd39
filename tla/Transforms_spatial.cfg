SPECIFICATION Spec
CONSTANTS
  Jobs <- MCJobs
  MaxProcs = 3
  MaxPaletteSize = 6
  PackLimits <- MCPackLimits
  ParallelTiles = 3
  ParallelPixels = 20
  MinNearLossless = 4
  CacheRows = 1
INVARIANT SpatialIsSource
