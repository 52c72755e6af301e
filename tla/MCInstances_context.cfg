SPECIFICATION Spec
CONSTANTS
  Inst = {i1, i2}
  Obj = {o1, o2, o3, o4}
  Plan <- Alone
  MaxCalls = 2
  Nil = Nil
  Cluster = Cluster
INVARIANTS
  ContextAlive
CHECK_DEADLOCK FALSE
