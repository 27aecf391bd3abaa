SPECIFICATION ThreadSpec
CONSTANTS
  Images <- MCImages
  StackSize = 24
  MaxDepth = 3
INVARIANTS WalkFindsEveryCaller FramePointerKeepsTheWay
CHECK_DEADLOCK FALSE
