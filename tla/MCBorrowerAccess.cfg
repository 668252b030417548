CONSTANTS
  Registration = {r1, r2}
  NationalId   = {n1}
  Phone        = {p1, p2}
  Pin          = {x1, x2}
  MaxAttempts  = 2
  MaxCodes     = 2
  Clerk        = {c1, c2}
  None         = none
  App          = {a1}
  Borrower     = {r1, r2}
  Owner        = owner
  Token        = {t1, t2, t3}
  Worker       = {w1, w2}
  Null         = null

SPECIFICATION BoundedSpec
SYMMETRY AccessSymmetry

INVARIANTS
  AccessTypeOK
  OneAccountPerPerson
  DecidedOnce
  GuessesAreCounted
  ActivatedOnce
  TokensRotateOnce
  LogoutIsFinal
  HeldTokenIsGood
  SessionsOfActivatedOnly

\* Every identity may be rejected or used, and every token issued.
CHECK_DEADLOCK FALSE
