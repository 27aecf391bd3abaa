SPECIFICATION Spec
SYMMETRY Symmetry
CONSTANTS
  Letters = {"d", "f"}
  Leftovers = {}
  f1 = f1
  f2 = f2
  Files = {f1, f2}
  Classes <- SomeClasses
  Volumes <- TwoVolumes
  Bytes = {b1}
  Texts <- SomeTexts
  MaxSize = 2
  None = None
INVARIANTS
  HandlesOwned
  OpensWhatItNames
  ReadReturnsWhole
  ResizeKeepsPosition
  ErrorsNameTheirStatus
