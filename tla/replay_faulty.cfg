SPECIFICATION Spec
CONSTANTS
  MaxAppends = 4
  MaxFailures = 2
  MaxCrashes = 1
  MaxReopens = 2
INVARIANTS
  ReadBackIsAcked
  VerifiedHoldsAcked
  SealedCount
  SealStaysTrue
CHECK_DEADLOCK FALSE
