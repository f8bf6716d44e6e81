SPECIFICATION Spec
CONSTANTS
  MaxPersHandle = 4
  Keys = {k1, k2}
  NoKey = NoKey
  Paths = {p1}
  NoPath = NoPath
  MaxDisturbed = 2
INVARIANTS
  TypeOK
  HandleNamesItsKey
  OneOwner
  NoLeak
