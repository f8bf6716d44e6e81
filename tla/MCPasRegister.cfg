SPECIFICATION RegSpec
CONSTANTS
  Main = Main
  Spawned = {t1}
  Answers <- AcceptOrRefuse
  MaxChanges = 2
  MaxSessions = 2
  MaxTimeouts = 1
INVARIANTS
  RegistrationIsSound
PROPERTIES
  EveryRegistrationReturns
CHECK_DEADLOCK FALSE
