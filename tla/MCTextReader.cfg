SPECIFICATION Spec
CONSTANTS
  Capacity = 2
  Size = 3
  Limits = {2, 6}
  DefaultLimit = 2
  Files <- FileSet
INVARIANTS
  RequestsReturnWhole
  RestoresUnlessOffset
PROPERTIES
  ImplementsByteReader
  CallsReturn
