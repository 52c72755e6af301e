SPECIFICATION Spec
CONSTANTS
  DataLines = 6
  LineWords = 3
  Blocks = {b1}
  Sizes = {2, 4}
  HeadroomDiv = 40
  None = None
INVARIANTS
  TypeOK
  NoOverlap
  SpaceInv
CHECK_DEADLOCK FALSE
