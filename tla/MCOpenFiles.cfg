SPECIFICATION Spec
CONSTANTS
  Files = {a, b}
  Configurations <- MCConfigurations
  Fds = {d1, d2}
  Failed = Failed
  Items = {i1, i2}
  NULL = NULL
  Free = Free
  NoFile = NoFile
  MaxStale = 1
SYMMETRY MCSymmetry
INVARIANTS
  DescriptorsAgree
  ListTracks
  ShutdownReachesAll
  ChangedHasBackup
PROPERTIES
  WritesStay
