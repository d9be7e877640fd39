SPECIFICATION Spec
CONSTANTS
  mbW = 1
  mbH = 4
  MinRefreshCount = 2
  Qualities = {1, 2, 3}
  Configs <- AllModes
INVARIANTS
  TokensComplete
  HeaderExact
