CONSTANTS
  MaxHeader = 3
  MaxFile = 2
  SplitHeader = TRUE
SPECIFICATION HWSpec
INVARIANT HeaderFirst
