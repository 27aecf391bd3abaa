SPECIFICATION AdapterSpec
CONSTANTS
  Capacity = 2
  MaxBytes = 5
  MaxWrite = 5
  PrefixSize = 2
  BytesPerWindow = 2
  WindowTicks = 2
  MaxTicks = 3
  RingSize = 3
  FixedSize = 3
  MaxHalfway = 1
INVARIANTS
  ExactlyOnceInOrder
  AdaptersPassOn
  BudgetIsKept
PROPERTIES
  ImplementsByteStream
  CallsReturn
