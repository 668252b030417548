\* One loan, two sessions, two idempotency keys: payments, retries, accruals,
\* disbursement and cancellation racing for the same row.
CONSTANTS
  Loan = {l1}
  Key = {k1, k2}
  NoKey = NoKey
  Session = {s1, s2}
  Rate = 500
  MaxDay = 3
  Amounts = {400, 1000, 5400}
  Requests = {"disburse", "cancel", "pay", "accrue"}
  Committing = {"disburse", "cancel", "pay", "accrue"}
  Principal <- MCPrincipal
  DueDate <- MCDueDate
SYMMETRY SessionSymmetry
SPECIFICATION Spec
INVARIANTS
  TypeOK
  OnePaymentPerKey
  BalancesFollowPayments
  PaidIffSettled
  InterestChargedOnce
  EventsRecordedTogether
  LedgerAgreesWithLoans
  NoCreditWhileOwing
  PaymentsInDateOrder
  AnsweredPaymentsOnRecord
PROPERTIES
  HistoryIsFinal
  ImplementsBook
