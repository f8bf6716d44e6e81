SPECIFICATION Spec
CONSTANTS
  Names <- MCNames
  Libs <- MCLibs
  Exports <- MCExports
  Vars <- MCVars
  Files <- AsDocumented
  TokenArraySize = 19
  NULL = NULL
  NoFile = NoFile
  MaxInits = 1
  MaxRefs = 3
INVARIANTS
  LoadingTypeUnderstood
CHECK_DEADLOCK FALSE
