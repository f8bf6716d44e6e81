SPECIFICATION Spec
CONSTANTS
  Names <- MCNames
  Libs <- MCLibs
  Exports <- MCExports
  Vars <- MCVars
  Files <- OnDemand
  TokenArraySize = 19
  NULL = NULL
  NoFile = NoFile
  MaxInits = 1
  MaxRefs = 2
INVARIANTS
  InitIsFirst
CHECK_DEADLOCK FALSE
