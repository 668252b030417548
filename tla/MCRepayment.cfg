CONSTANTS
  RateBase    = 10
  Contracts  <- SampleContracts
  Offsets    <- SampleOffsets
  Extra       = 700
  MaxStrays   = 2
  Unread      = unread

SPECIFICATION Spec

INVARIANTS
  RepaymentTypeOK
  PaysOffOnTime
  InterestShownIsOwed

PROPERTIES
  DueDatesOnSchedule

\* The calendar ends.
CHECK_DEADLOCK FALSE
