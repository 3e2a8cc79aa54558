CONSTANTS
  MaxChanges = 2
  MaxExpiries = 1
  RecursionLimit = 3
SPECIFICATION LiveSpec
PROPERTIES
  RecoversFromGone
