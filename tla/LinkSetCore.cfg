CONSTANTS
  MaxEpoch = 2
  LinkIds = {l1, l2}
  MaxQueued = 1
SPECIFICATION FairSpec
INVARIANTS
  TypeOK
  UserView
  OnlyItsEpoch
  TimerOfState
PROPERTIES
  ImplementsSessions
  UsableLinkIsKept
  DeadSessionEnds
  WaitsAreBounded
