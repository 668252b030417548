\* The HTTP layer as it is: the payment endpoint does not commit, the other
\* callers do.
CONSTANTS
  Loan = {l1}
  Key = {k1, k2}
  NoKey = NoKey
  Session = {s1, s2}
  Rate = 500
  MaxDay = 3
  Amounts = {400, 1000, 5400}
  Requests = {"disburse", "cancel", "pay", "accrue"}
  Committing = {"disburse", "cancel", "accrue"}
  Principal <- MCPrincipal
  DueDate <- MCDueDate
SYMMETRY SessionSymmetry
SPECIFICATION Spec
INVARIANTS
  AnsweredPaymentsOnRecord
