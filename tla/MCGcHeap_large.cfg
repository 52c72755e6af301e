SPECIFICATION FairHeapSpec
CONSTANTS
  DataLines = 2
  LineWords = 3
  Blocks = {b1, b2}
  Sizes = {2}
  HeadroomDiv = 40
  None = None
  Root = {r1, r2}
  Field = {f}
  Id = {o1, o2}
  Scalars = {i31}
  Null = Null
  LargeSlots = {s1}
  LargeLen = 10
  EpochMod = 8
  MaxEpoch = 2
PROPERTIES
  SweepIsExact
  CollectionEnds
CHECK_DEADLOCK FALSE
