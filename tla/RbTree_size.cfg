SPECIFICATION Spec
CONSTANTS
  Items = {1, 2, 3}
  NULL = NULL
  Head = Head
  SizeRange = 8
INVARIANT SizeDocumented
