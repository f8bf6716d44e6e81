SPECIFICATION Spec
CONSTANTS
  Names <- MCNames
  Libs <- MCLibs
  Exports <- MCExports
  Vars <- MCVars
  Files <- MCFiles
  TokenArraySize = 19
  NULL = NULL
  NoFile = NoFile
  MaxInits = 3
  MaxRefs = 3
INVARIANTS
  CallsAreSafe
  TableIsTheFile
  OpenedOnce
  ConfiguredIsReady
CHECK_DEADLOCK FALSE
