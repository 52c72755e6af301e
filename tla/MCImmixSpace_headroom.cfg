SPECIFICATION Spec
CONSTANTS
  DataLines = 2
  LineWords = 3
  Blocks = {b1, b2, b3}
  Sizes = {2, 4}
  HeadroomDiv = 40
  None = None
SYMMETRY BlockSymmetry
INVARIANTS
  EmptyBlocksHoldNothing
  TargetsAreNotCandidates
CHECK_DEADLOCK FALSE
