\* Two borrowers, three sessions, two requests, a rate that is set, changed and
\* cleared.
CONSTANTS
  Borrower = {b1, b2}
  Plan     = {p1}
  Rate     = {q1, q2}
  Request  = {r1, r2}
  None     = none
  Session  = {s1, s2, s3}

SPECIFICATION Spec
SYMMETRY OriginationSymmetry

INVARIANTS
  TypeOK
  OnePendingPerBorrower
  LoansAsApproved
  EventsMatchDecisions
  AnswersHold

PROPERTIES
  ImplementsLife
