SPECIFICATION Spec
CONSTANTS
  c1 = c1
  c2 = c2
  c3 = c3
  s1 = s1
  s2 = s2
  s3 = s3
  Contents <- MCContents
  Sums <- MCSums
  Crc32 <- MCCrc32
  Empty = Empty
  Absent = Absent
  NoSum = NoSum
SYMMETRY ContentSymmetry
INVARIANTS
  BackupBeforeWrite
  LossOnlyInWindows
  NoStaleBackup
PROPERTIES
  OpenDeliversCommitted
  ImplementsAtomicFile
