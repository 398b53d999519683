SPECIFICATION Spec
CONSTANT
  Files <- MCFiles
INVARIANTS NormalizationIsBest EndsAreTriangular SolvedInOrder
CHECK_DEADLOCK FALSE
