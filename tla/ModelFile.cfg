SPECIFICATION Spec
CONSTANTS
  Files <- MCFiles
  Periods = 2
  MaxLag = 1
INVARIANTS
  StatementsHoldTheirPieces
  PathsAsDeclared
  CovariancesAsDeclared
  DerivativesSuffice
  EstimatedAsWritten
  RestrictionsKept
CHECK_DEADLOCK FALSE
