SPECIFICATION Spec
CONSTANTS
  NumFrames = 4
  Procs = {p1, p2, p3}
INVARIANTS
  SendNeverBlocks
  NoSendAfterClose
  Outcome
  DecodedOnce
PROPERTIES
  Returns
