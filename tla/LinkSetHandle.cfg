CONSTANTS
  MaxEpoch = 2
  Handles = {h1, h2}
  Calls = {c1, c2}
  Capacity = 1
  Burst = 2
SPECIFICATION FairSpecHandle
INVARIANTS
  EpochCatchesUp
PROPERTIES
  MessagesInTheirEpoch
  CallsReturn
  EpochEndsWithCore
CHECK_DEADLOCK FALSE
