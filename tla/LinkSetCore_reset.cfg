CONSTANTS
  MaxEpoch = 2
  LinkIds = {l1}
  MaxQueued = 1
SPECIFICATION Spec
PROPERTY
  MismatchEndsReconnecting
