CONSTANTS
  Size = 16
  Chance = 8
  Length <- MCLength
  Layouts <- MCLayouts
SPECIFICATION Spec
INVARIANTS FrameExact
