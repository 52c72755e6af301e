SPECIFICATION Spec
CONSTANTS
  U4 = 8
  U8 = 16
  PageSize = 2
  JAV_MAX_MEMORY_PAGES = 2
  JAV_MAX_TABLE_ELEMS = 3
  obj = obj
  Null = Null
  Byte = {0, 1}
  Ref = {Null, obj}
  Managed = {obj}
  DataSegs <- MCDataSegs
  ElemSegs <- MCElemSegs
  Addr = {0, 1, 2, 3, 7, 14}
  Offset = {0, 1}
  Count = {0, 1, 2, 7}
  Width = {1, 2}
  ActiveAt = {0, 1, 3}
  HostDelta = {1}
  Stores <- MCStores
INVARIANTS
  StoreTypeOK
  WithinLimits
  NoStrayAccess
  TagsHonest
PROPERTIES
  ImplementsStore
CHECK_DEADLOCK FALSE
