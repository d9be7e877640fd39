SPECIFICATION Spec
CONSTANTS
  MaxFrames = 3
  Images <- SmallImages
  Options <- SmallOptions
  Durations <- SmallDurations
  LoopCounts <- SmallLoopCounts
  Colors <- SmallColors
  CanvasSizes <- SmallCanvasSizes
  Metadata <- SmallMetadata
  MaxCalls = 4
INVARIANTS
  ReadsBack
  ReadersAgree
  CutIsPrefix
