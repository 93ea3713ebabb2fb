CONSTANTS
  Schemes = {s1, s2}
  Names = {n1}
  RetriesMax = 1
  ChannelSize = 1
  MaxTries = 3
  MaxConns = 2
SPECIFICATION FairSpec
INVARIANTS
  OneTaskPerAddress
  TriesAccounted
  PermitsBounded
PROPERTIES
  AttemptMade
