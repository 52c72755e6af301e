SPECIFICATION Spec
CONSTANTS
  Inst = {i1, i2, i3}
  Obj = {o1, o2, o3, o4}
  Plan <- Shared
  MaxCalls = 3
  Nil = Nil
  Cluster = Cluster
SYMMETRY InstanceSymmetry
INVARIANTS
  InstancesTypeOK
  NothingLost
  NoDanglingFunction
CHECK_DEADLOCK FALSE
