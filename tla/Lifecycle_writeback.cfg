SPECIFICATION Spec
CONSTANTS
  Writers = {key}
  UsePas = FALSE
  Shutdown_MaxCount = 3
  MaxInit = 1
  MaxShutdowns = 3
  MaxUnlocks = 3
  PipeCapacity = 2
INVARIANT
  WrittenBackWhenLocked
