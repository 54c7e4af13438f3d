SPECIFICATION Spec
CHECK_DEADLOCK FALSE
CONSTANTS
  Sizes <- MCSizes
  Limits <- MCLimits
  Templates = 2
  MaxRuns = 2
INVARIANTS
  SubsetIsSpread
  ValidatedOnAll
  CrashHasCause
