CONSTANTS
  MaxMsgs = 1
  Lengths = {3}
  Sizes = {2}
  Flaky = {}
SPECIFICATION Spec
PROPERTY AckWhenUpdated
