SPECIFICATION FairSpec
CONSTANTS
  Procs <- TwoWorkers
  Caller = main
  MaxRows = 4
  MaxCols = 3
  MaxFrames = 2
  Dims <- TwoSizes
  NoProc = NoProc
  NoPool = NoPool
  NotEncoded = NotEncoded
  w1 = w1
  w2 = w2
  main = main
INVARIANTS
  ContextExact
  TokensAreFinal
  RaceFree
PROPERTIES
  ImplementsWavefront
  FramesEnd
