CONSTANTS
  MaxMsgs = 2
  Lengths = {1, 3}
  Sizes = {2}
  Flaky = {"sender", "receiver"}
SPECIFICATION FairSpec
INVARIANTS
  NeverPanics
  InOrderOnce
  NothingDroppedEarly
PROPERTIES
  AckNeverRegresses
  ImplementsOrderedDelivery
  EverythingDelivered
  SenderLearns
