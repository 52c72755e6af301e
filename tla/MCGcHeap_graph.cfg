SPECIFICATION HeapSpec
CONSTANTS
  DataLines = 2
  LineWords = 3
  Blocks = {b1, b2}
  Sizes = {2, 4}
  HeadroomDiv = 40
  None = None
  Root = {r1, r2}
  Field = {f}
  Id = {o1, o2, o3}
  Scalars = {}
  Null = Null
  LargeSlots = {}
  LargeLen = 10
  EpochMod = 8
  MaxEpoch = 2
SYMMETRY HeapSymmetry
INVARIANTS
  HeapTypeOK
  NoDanglingReference
  SweepSparesReachable
PROPERTIES
  SweepIsExact
  ImplementsObjectGraph
CHECK_DEADLOCK FALSE
