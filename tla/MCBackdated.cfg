\* The business date of a payment against the interest already charged: an
\* accrual run and a payment dated before it, for the same loan.
CONSTANTS
  Loan = {l1}
  Key = {k1, k2}
  NoKey = NoKey
  Session = {s1, s2}
  Rate = 500
  MaxDay = 3
  Amounts = {1000, 5400}
  Requests = {"disburse", "pay", "accrue"}
  Committing = {"disburse", "cancel", "pay", "accrue"}
  Principal <- MCPrincipal
  DueDate <- MCDueDate
SYMMETRY SessionSymmetry
SPECIFICATION Spec
INVARIANTS
  InterestOnReducedPrincipal
