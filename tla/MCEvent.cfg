SPECIFICATION Spec
CONSTANTS
  MaxConnections = 3
  MaxDepth = 2
  FirstCapacity = 2
INVARIANTS
  StableIteration
  UseAfterFreeNeedsRegrowth
PROPERTIES
  NoCallAfterRemoval
  OnceUnlessReentered
  EveryHandlerReached
\* A use of a freed buffer ends the modelled behaviour.
CHECK_DEADLOCK FALSE
