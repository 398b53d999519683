SPECIFICATION Spec
CONSTANT
  Files <- CrossLagFiles
INVARIANT LinearBlocksAreLinear
CHECK_DEADLOCK FALSE
