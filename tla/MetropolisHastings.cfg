\* Three chains; sessions that end before, at and after the end of a file of 3 rows.
SPECIFICATION Spec
CONSTANTS
  nblck = 3
  MAX_nruns = 3
  Replics = {1, 2, 3, 4, 5}
  MaxSessions = 3
  MaxCrashes = 2
INVARIANTS RecordMatchesFiles SessionsComplete RecoversEveryChain
PROPERTIES OldDrawsStay
