SPECIFICATION Spec
CONSTANTS
  width = 11
  height = 1
  Configurations <- AllConfigurations
  maxDuration = 6
  MaxCalls = 4
CHECK_DEADLOCK FALSE
INVARIANTS
  ShowsWhatWasAdded
  FileIsWhole
  KeyframeEveryKmax
  RawFramesUntouched
PROPERTIES
  FailuresShowNothing
