SPECIFICATION Spec
CONSTANTS
  Names <- MCNames
  Libs <- MCLibs
  Exports <- MCExports
  Vars <- MCVars
  Files <- Shared
  TokenArraySize = 19
  NULL = NULL
  NoFile = NoFile
  MaxInits = 1
  MaxRefs = 2
INVARIANTS
  DeinitIsLast
CHECK_DEADLOCK FALSE
