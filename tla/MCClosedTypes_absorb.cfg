SPECIFICATION Spec
CONSTANTS
  Sections <- MCSections
  HostTypes <- MCHostTypes
  MaxInsts = 2
  HostMayBeNew = FALSE
  MaxGroups = 3
  MaxTypes = 3
INVARIANTS
  ClosedTypesOK
  IdsAreClosures
  CastsAreRight
  AcceptedValuesFit
CHECK_DEADLOCK FALSE
