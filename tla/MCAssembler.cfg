SPECIFICATION Spec
CONSTANTS
  Alignments = {8}
  DataSizes = {1}
  Mnemonics = {"Jmp"}
  Widths = {"Automatic", "Width8", "Width32"}
  Addresses = {112}
  BaseAddress = 100
  Reach = 5
  NearReach = 40
  MaximumLength = 15
  MaximumPasses = 4
  MaxLabels = 1
  MaxNodes = 4
  MaxSections = 2
INVARIANTS ConvergedIsStable ConvergesIfContracting
PROPERTIES ShrinksIfContracting
