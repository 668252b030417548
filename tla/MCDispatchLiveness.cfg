\* Runs that may crash again and again, two intents and two retry requests, under
\* the fairness of a worker that is restarted.
CONSTANTS
  Intents     = 2
  MaxAttempts = 2
  BatchSize   = 2
  BaseDelay   = 1
  MaxDelay    = 2
  Worker      = {w1, w2}
  MayCrash    = {w1, w2}
  Retrier     = {r1, r2}
  NoIntent    = noIntent
  Oversized  <- MCAllFit

SPECIFICATION FairSpec

PROPERTY
  IntentsSettle

CHECK_DEADLOCK FALSE
