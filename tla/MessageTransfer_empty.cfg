CONSTANTS
  MaxMsgs = 2
  Lengths = {0, 1}
  Sizes = {1}
  Flaky = {}
SPECIFICATION FairSpec
PROPERTY EverythingDelivered
CHECK_DEADLOCK FALSE
