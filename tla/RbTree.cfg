SPECIFICATION Spec
CONSTANTS
  Items = {1, 2, 3, 4, 5, 6, 7}
  NULL = NULL
  Head = Head
  SizeRange = 8
INVARIANTS
  IsRedBlackTree
PROPERTIES
  ImplementsItemSet
