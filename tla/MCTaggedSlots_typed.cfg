SPECIFICATION Spec
CONSTANTS
  Obj = {o1, o2}
  Null = Null
  I31 = I31
  Fn = Fn
  Num = Num
  StructType = {"P"}
  ArrayType = {"A", "B"}
  Tag = {"E"}
  Fields <- MCFields
  Elem <- MCElem
  Params <- MCParams
  Global = {"g"}
  GlobalType <- MCGlobalType
  i1 = i1
  i2 = i2
  Inst = {i1}
  Sees <- OwnGlobal
  LocalTypes <- MCLocalTypes
  AsNonNullAt = {"func", "i31"}
  ArrayNewAt = {"B"}
  MaxStack = 2
  MaxFrames = 2
  MaxLen = 1
SYMMETRY Objects
INVARIANTS
  SlotsTypeOK
  NoUntracedReference
  FollowedAreReferences
  CastsAreExact
  ValuesHaveTypes
CHECK_DEADLOCK FALSE
