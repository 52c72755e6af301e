SPECIFICATION Spec
CONSTANTS
  Results <- MCResults
  LocalType <- MCLocalType
  NParams = 0
  Defaultable = {"i32", "refnull"}
  TagType <- MCTagType
  ExnRef = "exn"
  Instr <- MixedInstr
  SubType <- MCSubType
  Condition = "i32"
  TryInLoop = FALSE
  MAX_STACK = 3
  MaxLen = 8
  MaxDead = 1
INVARIANTS
  SideTableTypeOK
  OperandsAsValidated
  ReadsAreOfSetLocals
PROPERTIES
  ImplementsStructured
CHECK_DEADLOCK FALSE
