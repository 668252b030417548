\* The portfolio against the rules that the repository states for it.
CONSTANTS
  RateBase    = 10
  Contracts  <- SampleContracts
  Offsets    <- SampleOffsets
  Extra       = 700
  MaxStrays   = 2
  Unread      = unread

SPECIFICATION Spec

INVARIANT
  DashboardAsRuled

\* The calendar ends.
CHECK_DEADLOCK FALSE
