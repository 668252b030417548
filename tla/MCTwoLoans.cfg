\* Two loans and two sessions: accrual runs that lock both rows, in either order,
\* race payments, disbursements and each other, under the fairness of a running
\* server (without symmetry, which RequestsEnd does not allow).
CONSTANTS
  Loan = {l1, l2}
  Key = {k1}
  NoKey = NoKey
  Session = {s1, s2}
  Rate = 500
  MaxDay = 1
  Amounts = {5400}
  Requests = {"disburse", "cancel", "pay", "accrue"}
  Committing = {"disburse", "cancel", "pay", "accrue"}
  Principal <- MCPrincipal
  DueDate <- MCDueDate
SPECIFICATION FairSpec
INVARIANTS
  LockedRowsAreCurrent
  StagedWritesAreSound
PROPERTIES
  RequestsEnd
  ImplementsBook
