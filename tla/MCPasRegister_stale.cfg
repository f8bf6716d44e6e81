SPECIFICATION RegSpec
CONSTANTS
  Main = Main
  Spawned = {t1}
  Answers <- Accept
  MaxChanges = 3
  MaxSessions = 2
  MaxTimeouts = 0
INVARIANTS
  HoldsWhenOvertaken
CHECK_DEADLOCK FALSE
