SPECIFICATION Spec
CONSTANTS
  Files <- EndvalFiles
  Periods = 2
  MaxLag = 1
INVARIANT UnmentionedAreZero
CHECK_DEADLOCK FALSE
