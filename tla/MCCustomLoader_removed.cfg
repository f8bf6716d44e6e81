SPECIFICATION Spec
CONSTANTS
  Names <- MCNames
  Libs <- MCLibs
  Exports <- MCExports
  Vars <- MCVars
  Files <- Removed
  TokenArraySize = 19
  NULL = NULL
  NoFile = NoFile
  MaxInits = 2
  MaxRefs = 3
INVARIANTS
  LoadedIsConfigured
CHECK_DEADLOCK FALSE
