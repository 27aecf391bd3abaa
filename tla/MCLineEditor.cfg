SPECIFICATION Spec
CONSTANTS
  Widths = {1, 3}
  Limits = {1, 4}
  MaxHistory = 2
  MaxLine = 5
  Completions <- CompletionSet
INVARIANTS
  PlacesAreValid
  LongOnlyIfRecalled
