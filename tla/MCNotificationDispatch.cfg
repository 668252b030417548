\* Two runs, two retry requests, crashes, two intents of at most three attempts,
\* a backoff of 2 and then 3 ticks (4, capped), and a
\* third whose text is too long.
CONSTANTS
  Intents     = 3
  MaxAttempts = 3
  BatchSize   = 2
  BaseDelay   = 2
  MaxDelay    = 3
  Worker      = {w1, w2}
  MayCrash    = {w1, w2}
  Retrier     = {r1, r2}
  NoIntent    = noIntent
  Oversized  <- MCLastIs

SPECIFICATION Spec

SYMMETRY RunSymmetry

INVARIANTS
  TypeOK
  DeliveredOnce
  AttemptsAccounted

PROPERTIES
  OnlyDueAttempts

CHECK_DEADLOCK FALSE
