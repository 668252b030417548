\* Two retry requests for the same dead letter, and a run between them.
CONSTANTS
  Intents     = 1
  MaxAttempts = 1
  BatchSize   = 2
  BaseDelay   = 1
  MaxDelay    = 2
  Worker      = {w1}
  MayCrash    = {}
  Retrier     = {r1, r2}
  NoIntent    = noIntent
  Oversized  <- MCAllFit

SPECIFICATION FairSpec

PROPERTY
  DeliveredIsFinal

CHECK_DEADLOCK FALSE
