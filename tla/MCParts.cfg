CONSTANTS
  Size = 6
  Lengths = {0, 2}
  MaxChunks = 2
  ReadSize = 6
  ChanSize = 1
  MaxSends = 3
  Latencies = {1, 114}
  Moments = {0}
  Delays = {0}
  Leftovers = {0, 100}
  Base = 5
  Numbers = {0, 1, 7, 390624}
  Payloads <- MCPayloads
  Words = {"", "txt", "b64", "x", "AQ=="}
  Decodings <- MCDecodings
SPECIFICATION SpecParts
INVARIANTS
  SlicesSeparated
  NothingForgotten
  ExactWithoutRightGap
  ClosedFormsAgree
  ReadIsPrefix
  ReadOnceInOrder
  SilentIsDropped
  FramesReadBack
  AddressRoundTrip
PROPERTIES
  OneLateIsForgiven
  ReadOrClosed
  CloseIsNoticed
CHECK_DEADLOCK FALSE
