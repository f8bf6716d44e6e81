SPECIFICATION Spec
CONSTANTS
  Writers = {key}
  UsePas = TRUE
  Shutdown_MaxCount = 3
  MaxInit = 2
  MaxShutdowns = 4
  MaxUnlocks = 2
  PipeCapacity = 2
INVARIANTS
  GateFollowsRequests
  LimitIsFinal
PROPERTIES
  ShutdownWritesBack
  NsmIsAnswered
