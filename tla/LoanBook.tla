------------------------------ MODULE LoanBook ------------------------------
(***************************************************************************)
(* What loan servicing promises: a book of loans on which every operation  *)
(* takes effect at one instant, on the rows as they are at that instant.   *)
(* There are no sessions, locks, transactions or failures here; they are   *)
(* in LoanServicing, which implements this specification.                  *)
(***************************************************************************)
EXTENDS LoanContract

CONSTANT Amounts      \* amounts a request may carry, in thousandths of a centavo

VARIABLES loans,      \* loans[l]: the row of loan l
          payments,   \* payments[l]: its payment rows, in posting order
          journals,   \* journals[l]: the journals of its disbursement and payments
          outbox,     \* outbox[l]: the notification intents of the same events
          charges,    \* history: charges[l][i] is the principal period i was charged on
          today       \* the server's date

tables == <<loans, payments, journals, outbox, charges>>
book   == <<tables, today>>

\* The row create_loan_from_request inserts.
NewLoan(l) == [status |-> "pending_disbursement", outstanding |-> Principal[l],
               accrued |-> 0, period |-> 1, disbursed |-> NoDay]

Init ==
  /\ loans    = [l \in Loan |-> NewLoan(l)]
  /\ payments = [l \in Loan |-> << >>]
  /\ journals = [l \in Loan |-> {}]
  /\ outbox   = [l \in Loan |-> {}]
  /\ charges  = [l \in Loan |-> << >>]
  /\ today    = 0

---------------------------------------------------------------------------

\* Makes the writes w, a LoanWrite for each loan of DOMAIN w, part of the tables.
Apply(w) ==
  /\ loans'    = [l \in Loan |-> IF l \in DOMAIN w THEN w[l].row ELSE loans[l]]
  /\ payments' = [l \in Loan |-> IF l \in DOMAIN w
                                 THEN payments[l] \o w[l].posted ELSE payments[l]]
  /\ journals' = [l \in Loan |-> IF l \in DOMAIN w
                                 THEN journals[l] \cup w[l].journals ELSE journals[l]]
  /\ outbox'   = [l \in Loan |-> IF l \in DOMAIN w
                                 THEN outbox[l] \cup w[l].intents ELSE outbox[l]]
  /\ charges'  = [l \in Loan |-> IF l \in DOMAIN w
                                 THEN charges[l] \o w[l].charged ELSE charges[l]]

Unused(l, key) == \A i \in DOMAIN payments[l] : payments[l][i].key # key

\* What a payment needs of the row it is posted to and of the payments before it.
Payable(l, row, key, cents, date) ==
  /\ row.status = "active"
  /\ Unused(l, key)
  /\ cents > 0
  /\ row.disbursed <= date
  /\ date <= today
  /\ \A i \in DOMAIN payments[l] : payments[l][i].date <= date
  /\ Postable(PaymentJournal(PaymentRow(Accrued(l, row, date), key, cents, date)))

\* (mutant) The query does not look at the status.
AccrualDueAnyStatus(l, row, d) == DueDate[l][row.period] <= d

\* The rows the accrual query selects.
AccrualDue(l, row, d) == row.status = "active" /\ DueDate[l][row.period] <= d

Tick == today < MaxDay /\ today' = today + 1 /\ UNCHANGED tables

\* The disbursement date is the day the handler ran, which may be past.
Disburse(l, day) ==
  /\ loans[l].status = "pending_disbursement"
  /\ day <= today
  /\ Apply([x \in {l} |-> Disbursement(l, loans[l], day)])
  /\ UNCHANGED today

Cancel(l) ==
  /\ loans[l].status = "pending_disbursement"
  /\ Apply([x \in {l} |-> Cancellation(loans[l])])
  /\ UNCHANGED today

Pay(l, key, cents, date) ==
  /\ Payable(l, loans[l], key, cents, date)
  /\ Apply([x \in {l} |-> Posting(l, loans[l], key, cents, date)])
  /\ UNCHANGED today

\* One run of the accrual job, over any set of the loans that are due.
AccrueDue(S, asOf) ==
  /\ asOf <= today
  /\ \A l \in S : AccrualDue(l, loans[l], asOf)
  /\ Apply([l \in S |-> Accrual(l, loans[l], asOf)])
  /\ UNCHANGED today

Next ==
  \/ Tick
  \/ \E l \in Loan : Cancel(l) \/ (\E day \in Day : Disburse(l, day))
  \/ \E l \in Loan, key \in Key, amount \in Amounts, date \in Day :
        Pay(l, key, QuantizeMoney(amount), date)
  \/ \E S \in SUBSET Loan, asOf \in Day : AccrueDue(S, asOf)

Spec == Init /\ [][Next]_book
=============================================================================
