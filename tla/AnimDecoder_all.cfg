SPECIFICATION Spec
CONSTANTS
  width = 2
  height = 1
  Frames = 3
  Animations <- AllAnimations
INVARIANTS
  RendersByTheRules
