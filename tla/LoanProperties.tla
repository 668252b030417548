--------------------------- MODULE LoanProperties ---------------------------
(***************************************************************************)
(* The properties of LoanServicing: what concurrent disbursements,         *)
(* payments and accruals, retries and failures may never break.            *)
(***************************************************************************)
EXTENDS LoanServicing, Functions

Answer == [loan : Loan, payment : Payment]

\* Types of the variables.
TypeOK ==
  /\ loans \in [Loan -> Row]
  /\ payments \in [Loan -> Seq(Payment)]
  /\ journals \in [Loan -> SUBSET Journal]
  /\ outbox \in [Loan -> SUBSET Intent]
  /\ charges \in [Loan -> Seq(Nat)]
  /\ today \in Day
  /\ phase \in [Session -> {"idle", "locking", "flushed"}]
  /\ kind \in [Session -> Kind]
  /\ asOf \in [Session -> Day]
  /\ queue \in [Session -> Seq(Loan)]
  /\ DOMAIN read = Session
  /\ DOMAIN written = Session
  /\ \A s \in Session :
        /\ Held(s) \subseteq Loan
        /\ read[s] \in [Held(s) -> Row]
        /\ DOMAIN written[s] \subseteq Held(s)
        /\ written[s] \in [DOMAIN written[s] -> LoanWrite]
  /\ acked \subseteq Answer

\* A loan row read FOR UPDATE is still the committed row whenever the
\* transaction uses or overwrites it: no update is lost between the SELECT of
\* post_payment, accrue_due_interest, disburse_loan or cancel_loan and its commit.
LockedRowsAreCurrent ==
  \A s \in Session : \A l \in Held(s) : read[s][l] = loans[l]

\* What s has flushed is what its handler makes of rows it holds, as they are
\* committed now, with every check of the handler still true.
DisbursementEffect(s) ==
  \E l \in Held(s), day \in Day :
     /\ loans[l].status = "pending_disbursement"
     /\ day <= today
     /\ written[s] = [x \in {l} |-> Disbursement(l, loans[l], day)]

CancellationEffect(s) ==
  \E l \in Held(s) :
     /\ loans[l].status = "pending_disbursement"
     /\ written[s] = [x \in {l} |-> Cancellation(loans[l])]

PaymentEffect(s) ==
  \E l \in Held(s), key \in Key, amount \in Amounts, date \in Day :
     /\ Book!Payable(l, loans[l], key, QuantizeMoney(amount), date)
     /\ written[s] = [x \in {l} |->
                        Posting(l, loans[l], key, QuantizeMoney(amount), date)]

AccrualEffect(s) ==
  \E S \in SUBSET Held(s) :
     /\ \A l \in S : Book!AccrualDue(l, loans[l], asOf[s])
     /\ written[s] = [l \in S |-> Accrual(l, loans[l], asOf[s])]

Effect(s) ==
  DisbursementEffect(s) \/ CancellationEffect(s) \/ PaymentEffect(s) \/ AccrualEffect(s)

\* Between flush and commit nothing another session, the calendar or a retry
\* does invalidates what a handler decided: committing late has the effect of
\* running the whole handler at the commit.
StagedWritesAreSound ==
  \A s \in Session :
     /\ asOf[s] <= today
     /\ IF phase[s] = "flushed" THEN Effect(s) ELSE written[s] = Nothing

\* One payment per idempotency key of a loan, however often and on however many
\* sessions at once the request is sent; and no session ever holds a posting
\* that the unique index would refuse, so the IntegrityError branch of
\* post_payment is never taken for a repeated key.
OnePaymentPerKey ==
  /\ \A l \in Loan : \A i, j \in DOMAIN payments[l] :
        payments[l][i].key = payments[l][j].key => i = j
  /\ \A s \in Session : ~Collides(s)

\* The principal a payment starts from.
PrincipalBeforePayment(l, i) ==
  IF i = 1 THEN Principal[l] ELSE payments[l][i - 1].remaining_principal

\* The payment history explains the loan row: each payment takes over the
\* remaining principal of the payment before it, splits its amount completely,
\* and the row's outstanding principal is what the last one left.
BalancesFollowPayments ==
  \A l \in Loan :
     /\ \A i \in DOMAIN payments[l] :
           LET p == payments[l][i] IN
           /\ p.remaining_principal + p.principal = PrincipalBeforePayment(l, i)
           /\ p.amount = p.interest + p.principal + p.credit
     /\ loans[l].outstanding = PrincipalBeforePayment(l, Len(payments[l]) + 1)

\* A loan is `paid' exactly while it owes neither principal nor accrued
\* interest (LOAN_RULES.md 7), whichever of payment and accrual came last.
PaidIffSettled ==
  \A l \in Loan :
     loans[l].status = "paid" <=> loans[l].outstanding = 0 /\ loans[l].accrued = 0

\* What the payments of a loan add up to in one of their columns.
Paid(l, column) == SumFunction([i \in DOMAIN payments[l] |-> payments[l][i][column]])

\* Each contractual due date is charged exactly once, by a payment or by an
\* accrual run, in any interleaving of the two; and every centavo of interest
\* charged is either paid or still accrued.
InterestChargedOnce ==
  \A l \in Loan :
     /\ Len(charges[l]) = loans[l].period - 1
     /\ loans[l].accrued + Paid(l, "interest")
          = SumFunction([i \in DOMAIN charges[l] |-> PeriodInterest(charges[l][i])])

\* The journals of a loan are those of its disbursement and of its payments,
\* and the outbox holds the intents of the same events: nothing is recorded
\* without the other two, after any failure and any retry.
EventsRecordedTogether ==
  \A l \in Loan :
     LET disbursed == loans[l].disbursed # NoDay
         posted    == {payments[l][i] : i \in DOMAIN payments[l]}
     IN /\ journals[l] = (IF disbursed THEN {DisbursementJournal(l)} ELSE {})
                           \cup {PaymentJournal(p) : p \in posted}
        /\ outbox[l] = (IF disbursed THEN {DisbursedIntent} ELSE {})
                           \cup {ReceivedIntent(p) : p \in posted}

\* The balance of a system account, loan by loan and in the general ledger.
LoanBalance(l, account) == SumFunction([j \in journals[l] |-> j[account]])
Balance(account)        == SumFunction([l \in Loan |-> LoanBalance(l, account)])

\* The general ledger agrees with the loan book: receivables are the principal
\* still owed on disbursed loans, income is the interest paid, customer credit
\* what was overpaid, and cash what came in minus what went out.
LedgerAgreesWithLoans ==
  LET disbursed == {l \in Loan : loans[l].disbursed # NoDay}
      received(column) == SumFunction([l \in Loan |-> Paid(l, column)])
  IN /\ Balance("receivable") = SumFunction([l \in disbursed |-> loans[l].outstanding])
     /\ Balance("income") = -received("interest")
     /\ Balance("credit") = -received("credit")
     /\ Balance("cash") = received("amount")
                            - SumFunction([l \in disbursed |-> Principal[l]])

\* Money is kept as unapplied credit only by the payment that settles the loan,
\* and that payment is the last one.
NoCreditWhileOwing ==
  \A l \in Loan : \A i \in DOMAIN payments[l] :
     payments[l][i].credit > 0 =>
        /\ i = Len(payments[l])
        /\ loans[l].status = "paid"

\* Payments are posted in the order of their business dates, none before the
\* disbursement and none after the server's date.
PaymentsInDateOrder ==
  \A l \in Loan : \A i \in DOMAIN payments[l] :
     /\ loans[l].disbursed <= payments[l][i].date
     /\ payments[l][i].date <= today
     /\ \A j \in 1 .. i : payments[l][j].date <= payments[l][i].date

\* A payment the owner was told is recorded is on record, also when the answer
\* was a replay or its session lost a race.
AnsweredPaymentsOnRecord ==
  \A a \in acked : \E i \in DOMAIN payments[a.loan] : payments[a.loan][i] = a.payment

\* No step rewrites history: payments, charges, journals and intents are only
\* added, and a paid or cancelled loan's row never changes again, whatever
\* requests, accrual runs and retries still arrive for it.
HistoryIsFinal ==
  [][\A l \in Loan :
        /\ \E n \in 0 .. Len(payments'[l]) : payments[l] = SubSeq(payments'[l], 1, n)
        /\ \E n \in 0 .. Len(charges'[l]) : charges[l] = SubSeq(charges'[l], 1, n)
        /\ journals[l] \subseteq journals'[l]
        /\ outbox[l] \subseteq outbox'[l]
        /\ loans[l].status \in {"paid", "cancelled"} => loans'[l] = loans[l]]_tables

\* The row-locked transactions implement the book on which each operation
\* happens at one instant.
ImplementsBook == Book!Spec

\* Every request that was accepted ends: no lock is kept for ever, and sessions
\* that wait for each other's rows are not all left waiting.
RequestsEnd == \A s \in Session : phase[s] # "idle" ~> phase[s] = "idle"

\* The principal that was outstanding on a due date, by the business dates of
\* the payments: those dated on the due date come after its charge.
PrincipalOn(l, due) ==
  LET before == {i \in DOMAIN payments[l] : payments[l][i].date < due}
  IN  PrincipalBeforePayment(l, Cardinality(before) + 1)

\* The interest of a due date is computed on the principal that the payments
\* dated before it left ("Once principal is reduced, future interest uses that
\* reduced outstanding principal", LOAN_RULES.md 2).
InterestOnReducedPrincipal ==
  \A l \in Loan : \A i \in DOMAIN charges[l] :
     charges[l][i] = PrincipalOn(l, DueDate[l][i])
=============================================================================
