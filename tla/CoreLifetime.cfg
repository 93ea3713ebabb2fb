CONSTANTS
  Handles = {h1, h2}
  Capacity = 2
SPECIFICATION FairSpec
PROPERTY DroppedHandlesQuit
CHECK_DEADLOCK FALSE
