SPECIFICATION Spec
CONSTANTS
  Func = {"f", "g", "s", "h"}
  Tag = {"a", "b"}
  Prog <- Mixed
  MaxDepth = 3
  MaxStack = 8
  StackPool = 24
  LocalsPool = 5
  HostIgnoresTraps = FALSE
  None = None
INVARIANTS
  CallsTypeOK
  HandlersMatchScopes
  StackMatchesTypes
  ContextIsOwn
  TrapIsOwn
  ExceptionsStayInTheirCall
PROPERTIES
  HostNotReplaced
