SPECIFICATION Spec
CONSTANTS
  x = x
  y = y
  z = z
  node = node
  data = data
  preset = preset
  fact = fact
  Resources <- MCResources
  Users <- MCUsers
  Node = node
  DefaultUser = DefaultUser
  Values <- MCValues
  Absent = Absent
  Error = Error
  Written <- MCWritten
  Factory <- MCFactory
  NoDb = NoDb
  Closed = Closed
  StorageCode <- MCStorageCode
  DbTableSize = 1024
  Scenarios <- MCScenarios
INVARIANTS
  TypeOK
  RightDatabase
  ReadsLatest
  FallsBackToOwn
