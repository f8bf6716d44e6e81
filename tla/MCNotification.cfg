SPECIFICATION Spec
CONSTANTS
  x1 = x1
  x2 = x2
  y1 = y1
  z1 = z1
  Apis = {keyApi}
  Resources <- MCResources
  Callbacks = {c1, c2}
  NoCallback = NoCallback
  Hash <- MCHash
  Again = FALSE
  MaxRules = 2
  MaxSignals = 2
INVARIANTS
  TypeOK
  RegisteredIsNotified
  UnregisteredIsSilent
PROPERTY
  ChangeIsNotified
CHECK_DEADLOCK FALSE
