\* The text of the oldest of two intents is too long for the notifications table.
CONSTANTS
  Intents     = 2
  MaxAttempts = 2
  BatchSize   = 2
  BaseDelay   = 1
  MaxDelay    = 1
  Worker      = {w1}
  MayCrash    = {}
  Retrier     = {r1}
  NoIntent    = noIntent
  Oversized  <- MCOldestIs

SPECIFICATION FairSpec

PROPERTY
  IntentsSettle

CHECK_DEADLOCK FALSE
