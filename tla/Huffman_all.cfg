SPECIFICATION Spec
CONSTANTS
  Groups <- MCGroups
  MaxAllowedCodeLength = 7
  HuffmanTableBits = 5
  HuffmanPackedBits = 5
INVARIANTS
  LengthsRoundTrip
  CodesDecode
  PackedAgrees
  CodesOptimal
