SPECIFICATION Spec
CONSTANTS
  Func = {"f", "h"}
  Tag = {"a"}
  Prog <- Reentrant
  MaxDepth = 3
  MaxStack = 8
  StackPool = 24
  LocalsPool = 20
  HostIgnoresTraps = FALSE
  None = None
INVARIANTS
  HostArgumentsKept
