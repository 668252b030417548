------------------------------ MODULE Repayment ------------------------------
(***************************************************************************)
(* One active loan on the calendar: contractual interest is charged when a *)
(* due date has arrived, by the scheduler's batch or by a payment, against *)
(* the schedule that the quote projects for the same contract; and what    *)
(* the borrower's list of loans and the owner's dashboard make of it       *)
(* (loans/accrual_service.py, payments/service.py, loans/router.py,        *)
(* reports/service.py).                                                    *)
(*                                                                         *)
(* Sessions, locks and failures are LoanServicing's subject: a charge and  *)
(* a payment, dated today, are one step here.  The dashboard runs several  *)
(* queries, and other transactions may commit between them.                *)
(***************************************************************************)
EXTENDS RepaymentSchedule

CONSTANTS Contracts,   \* terms that are asked for
          Offsets,     \* bound: distances of today from a due date, in days
          Extra,       \* bound: what a payment may exceed the installment by
          MaxStrays,   \* bound: payments that keep no installment
          Unread       \* nothing was read yet

\* There is a date a week before the first due date; and the last day of the
\* calendar, an offset after due date N + 1, is before due date N + 2.
ASSUME RepaymentAssumption ==
  /\ Contracts \subseteq Contract
  /\ \A c \in Contracts : DayNumber(c.first_due_date) > 7
  /\ Offsets \subseteq -7 .. 12
  /\ Extra \in Nat
  /\ MaxStrays \in Nat

VARIABLES contract,  \* the terms of the loan
          today,     \* the server's date, as a DayNumber
          loan,      \* its row
          collected, \* its payment rows, added up
          kept,      \* history: installments 1 .. kept were paid in full when due
          strays,    \* bound: payments that kept no installment so far
          portfolio  \* the row as two queries of the dashboard have found it

vars == <<contract, today, loan, collected, kept, strays, portfolio>>

QuoteOf == [c \in {c \in Contracts : Acceptable(c)} |-> Quote(c)]

N     == NumberOfPayments(contract)
quote == QuoteOf[contract]

\* The contract's due dates, two periods beyond its term.
DatesOf == [c \in DOMAIN QuoteOf |-> BuildDueDates(c, NumberOfPayments(c) + 2)]
DueOf   == [c \in DOMAIN QuoteOf |->
              [i \in DOMAIN DatesOf[c] |-> DayNumber(DatesOf[c][i])]]

\* Bound: the days on which something happens.
Calendar == [c \in DOMAIN QuoteOf |->
               {DueOf[c][i] + o : i \in 1 .. NumberOfPayments(c) + 1, o \in Offsets}]

---------------------------------------------------------------------------

NoDashboard == [monetary |-> Unread, projection |-> Unread]

\* The loan was disbursed a week before its first due date.
Init ==
  /\ contract \in DOMAIN QuoteOf
  /\ today = DueOf[contract][1] - 7
  /\ loan = [status |-> "active", outstanding |-> contract.principal, accrued |-> 0,
             next_interest_due_date |-> contract.first_due_date]
  /\ collected = [amount |-> 0, interest |-> 0, principal |-> 0, credit |-> 0]
  /\ kept      = 0
  /\ strays    = 0
  /\ portfolio = NoDashboard

\* Days pass, up to the next one of interest (bound: the dashboard is read
\* within a day).
Tick ==
  /\ LET later == {d \in Calendar[contract] : d > today} IN
       /\ later # {}
       /\ today' = CHOOSE d \in later : \A e \in later : d <= e
  /\ portfolio' = NoDashboard
  /\ UNCHANGED <<contract, loan, collected, kept, strays>>

\* The loop of accrue_due_interest and of post_payment.
Charged(row, day) ==
  LET walk[k \in 0 .. N + 2] ==
        IF k = 0 THEN row
        ELSE LET r == walk[k - 1] IN
             IF day >= DayNumber(r.next_interest_due_date)
             THEN [r EXCEPT !.accrued = @ + PeriodInterest(row.outstanding, contract),
                            !.next_interest_due_date = AdvanceDueDate(@, contract)]
             ELSE r
  IN  walk[N + 2]

\* accrue_due_interest
Charge ==
  /\ loan.status = "active" /\ DayNumber(loan.next_interest_due_date) <= today
  /\ loan' = Charged(loan, today)
  /\ UNCHANGED <<contract, today, collected, kept, strays, portfolio>>

Least(a, b) == IF a <= b THEN a ELSE b

\* (mutant) A payment beyond what is owed makes the balance negative.
AllocateUncapped(amount, row) ==
  LET interest == Least(amount, row.accrued)
  IN  [amount |-> amount, interest |-> interest,
       principal |-> amount - interest, credit |-> 0]

\* The payment row: interest first, then principal, the rest is credit.
Allocate(amount, row) ==
  LET interest  == Least(amount, row.accrued)
      principal == Least(amount - interest, row.outstanding)
  IN  [amount |-> amount, interest |-> interest,
       principal |-> principal, credit |-> amount - interest - principal]

\* A payment in full of the installment that is next and due today.
Keeps(amount) ==
  /\ kept < N /\ today = DueOf[contract][kept + 1]
  /\ amount >= quote.schedule[kept + 1].payment

\* post_payment, with today's date.
Pay(amount) ==
  LET due  == Charged(loan, today)
      p    == Allocate(amount, due)
      left == [due EXCEPT !.accrued = @ - p.interest, !.outstanding = @ - p.principal]
  IN  /\ loan.status = "active" /\ amount > 0
      /\ loan' = [left EXCEPT !.status =
                    IF left.accrued = 0 /\ left.outstanding = 0 THEN "paid" ELSE @]
      /\ collected' = [f \in DOMAIN p |-> collected[f] + p[f]]
      /\ IF Keeps(amount)
         THEN kept' = kept + 1 /\ UNCHANGED strays
         ELSE strays < MaxStrays /\ strays' = strays + 1 /\ UNCHANGED kept
      /\ UNCHANGED <<contract, today, portfolio>>

\* The installment with the due date of a row, if the schedule has one.
NextInstallment(row) ==
  {i \in 1 .. N : quote.schedule[i].due_date = row.next_interest_due_date}

\* list_borrower_loans: what the borrower's app names as the next payment.
ShownInstallment ==
  LET found == NextInstallment(loan) IN
  IF found = {} THEN quote.schedule[1] ELSE quote.schedule[CHOOSE i \in found : TRUE]

\* Bound: what is shown, some more, or the interest due and nothing else.
PaySome ==
  \E amount \in {ShownInstallment.payment, ShownInstallment.payment + Extra,
                 Charged(loan, today).accrued} : Pay(amount)

---------------------------------------------------------------------------
(* The owner's dashboard.                                                  *)

\* (mutant) The loans are read first, the balances after them.
ReadDashboardLoansFirst ==
  /\ \/ portfolio' = [monetary |-> Unread, projection |-> loan]
     \/ /\ portfolio.projection # Unread /\ portfolio.monetary = Unread
        /\ portfolio' = [portfolio EXCEPT !.monetary = loan]
  /\ UNCHANGED <<contract, today, loan, collected, kept, strays>>

\* get_portfolio_snapshot adds up the balances, then reads the loans again and
\* projects their quotes.
ReadDashboard ==
  /\ \/ portfolio' = [monetary |-> loan, projection |-> Unread]
     \/ /\ portfolio.monetary # Unread /\ portfolio.projection = Unread
        /\ portfolio' = [portfolio EXCEPT !.projection = loan]
  /\ UNCHANGED <<contract, today, loan, collected, kept, strays>>

\* The portfolio's accrued_interest: what the balances said, and the projected
\* interest of a next due date that has arrived.
InterestShown(p) ==
  p.monetary.accrued +
    IF p.projection.status = "active" /\ DayNumber(p.projection.next_interest_due_date) <= today
    THEN LET found == NextInstallment(p.projection)
         IN  IF found = {} THEN 0 ELSE quote.schedule[CHOOSE i \in found : TRUE].interest
    ELSE 0

\* overdue_loan_count: the loans the portfolio calls overdue.
CountedOverdue(row) ==
  row.status = "active" /\ DayNumber(row.next_interest_due_date) < today

---------------------------------------------------------------------------

Next == Tick \/ Charge \/ PaySome \/ ReadDashboard

Spec == Init /\ [][Next]_vars

---------------------------------------------------------------------------
(* Properties.                                                             *)

Max0(n) == IF n < 0 THEN 0 ELSE n

\* Types of the variables; no balance is ever negative.
RepaymentTypeOK ==
  /\ contract \in Contracts /\ today \in Nat /\ kept \in 0 .. N
  /\ loan.status \in {"active", "paid"} /\ loan.outstanding \in Nat /\ loan.accrued \in Nat
  /\ collected \in [{"amount", "interest", "principal", "credit"} -> Nat]

\* Whenever interest is charged, the next due date becomes the first of the
\* contract's dates, as build_due_dates lists them from the beginning, after
\* today: stepping from one date to the next neither drifts nor skips, over
\* short months, leap days and the end of the year, and beyond the term.
DueDatesOnSchedule ==
  [][loan'.next_interest_due_date # loan.next_interest_due_date =>
       \E i \in DOMAIN DatesOf[contract] :
          /\ loan'.next_interest_due_date = DatesOf[contract][i]
          /\ DueOf[contract][i] > today
          /\ i > 1 => DueOf[contract][i - 1] <= today]_vars

\* Who pays each installment of the quote when it is due owes no more than the
\* quote says, and nothing after the last one; all interest paid is then at
\* most the quote's, and exactly that if nothing else was paid.
PaysOffOnTime ==
  /\ kept > 0 => loan.outstanding <= Max0(quote.schedule[kept].closing)
  /\ kept > 0 /\ loan.accrued > 0 => today >= DueOf[contract][kept + 1]
  /\ kept = N =>
       /\ loan.status = "paid"
       /\ collected.interest <= quote.total_scheduled_interest
       /\ collected.amount = quote.total_scheduled_repayment
          => /\ collected.interest = quote.total_scheduled_interest
             /\ collected.credit = 0

\* A loan that has repaid no more than the schedule has at the installment it
\* is waiting for.
NotAhead(row, next) ==
  \A i \in NextInstallment(next) : row.outstanding >= quote.schedule[i].opening

\* The dashboard never shows more interest than the borrower would be charged
\* today: not for a loan with several periods due, and not when a charge or a
\* payment is committed between its two queries, which read the same loan
\* before and after it.  (A loan that is ahead of its schedule is shown the
\* schedule's interest.)
InterestShownIsOwed ==
  (/\ portfolio.monetary # Unread /\ portfolio.projection # Unread
   /\ NotAhead(portfolio.monetary, portfolio.projection))
  => InterestShown(portfolio) <= Charged(portfolio.monetary, today).accrued

\* A due date has passed, and more principal is left than the schedule leaves
\* after it.
InArrears(row) ==
  /\ row.status = "active"
  /\ \E i \in 1 .. N : /\ DueOf[contract][i] < today
                       /\ row.outstanding > Max0(quote.schedule[i].closing)

\* Two rules of REPORTING_RULES.md: the portfolio's accrued_interest is the
\* stored one (section 2); and next_interest_due_date, which moves whenever
\* interest is charged, does not tell which loans are overdue (section 7): one
\* in arrears is.  The code breaks both, and in one state: this weaker
\* statement, that one of them holds of whatever both queries found, fails.
DashboardAsRuled ==
  portfolio = [monetary |-> loan, projection |-> loan]
  => \/ InterestShown(portfolio) = portfolio.monetary.accrued
     \/ InArrears(loan) => CountedOverdue(loan)
=============================================================================
