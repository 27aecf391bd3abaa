SPECIFICATION ContextSpec
CONSTANTS
  Capacity = 2
  MaxBytes = 3
  MaxWrite = 3
  WideCapacity = 3
  MaxFailures = 4
  Tables = {full, silent, broken}
  Usable = {full, silent}
  WithConsole = {full}
  Handles = {h1, h2}
  None = None
INVARIANTS
  OutputInOrder
  RepeatsOnlyAfterFailure
  ContextsAgree
PROPERTIES
  PreparedExitShowsAll
