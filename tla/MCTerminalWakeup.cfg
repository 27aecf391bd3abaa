SPECIFICATION Spec
CONSTANTS
  Events = {e1}
  Coroutines = {c1}
  MaximumRegistrations = 1
  MaxKeys = 1
PROPERTIES
  NoWakeupLost
