CONSTANTS
  MaxMsgs = 1
  Lengths = {5}
  Sizes = {2}
  Flaky = {}
SPECIFICATION Spec
INVARIANT WholeMessages
