CONSTANTS
  MaxEpoch = 4
  LinkIds = {l1, l2}
  MaxQueued = 1
  MaxFaults = 2
  Crashing = {"a", "b"}
SPECIFICATION FairSpec
INVARIANTS
  SessionEpochsAgree
  EpochsPerFault
PROPERTY
  Converges
