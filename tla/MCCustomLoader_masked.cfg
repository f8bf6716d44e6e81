SPECIFICATION Spec
CONSTANTS
  Names <- MCNames
  Libs <- MCLibs
  Exports <- MCExports
  Vars <- MCVars
  Files <- WrongDefault
  TokenArraySize = 19
  NULL = NULL
  NoFile = NoFile
  MaxInits = 1
  MaxRefs = 2
INVARIANTS
  ErrorIsReturned
CHECK_DEADLOCK FALSE
