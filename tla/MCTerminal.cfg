SPECIFICATION Spec
CONSTANTS
  Events = {e1}
  Coroutines = {c1, c2, c3}
  MaximumRegistrations = 2
  MaxKeys = 2
INVARIANTS
  SuspendedAreRegistered
  NoTimerLeaks
  KeysExactlyOnce
PROPERTIES
  WaitsEnd
