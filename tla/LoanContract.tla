---------------------------- MODULE LoanContract ----------------------------
(***************************************************************************)
(* The arithmetic of one loan contract, as pure operators: what a          *)
(* disbursement, a cancellation, an interest accrual or a payment makes of *)
(* the loan's row, and the payment row, journal and notification intent it *)
(* inserts (calculator.py, and the parts of loans/service.py,              *)
(* accrual_service.py, payments/service.py and accounting/service.py that  *)
(* compute, as opposed to lock, look up or commit).                        *)
(*                                                                         *)
(* Money in the database is a whole number of centavos (0.01 PHP).  What   *)
(* is not yet quantized (a requested amount, principal times rate) is in   *)
(* thousandths of a centavo.  A day is a number; DueDate[l][i] is the      *)
(* contractual due date of period i of loan l, the date advance_due_date   *)
(* reaches from first_due_date in i - 1 steps, and a loan row stores the   *)
(* index of its next due date instead of the date itself.                  *)
(***************************************************************************)
EXTENDS Integers, Sequences, FiniteSets

CONSTANTS Loan,       \* loan contracts, created and not yet disbursed at the start
          Key,        \* idempotency keys a payment request may carry
          NoKey,      \* the key of a row that is not a payment's
          Principal,  \* original_principal of each loan, in centavos
          Rate,       \* monthly_rate, in thousandths
          DueDate,    \* contractual due dates of each loan
          MaxDay      \* bound: the last day of the calendar

ASSUME ContractAssumption ==
  /\ IsFiniteSet(Loan)
  /\ MaxDay \in Nat
  /\ Rate \in Nat
  /\ NoKey \notin Key
  /\ Principal \in [Loan -> Nat \ {0}]
  /\ DueDate \in [Loan -> [1 .. MaxDay + 1 -> Nat]]
  /\ \A l \in Loan :
        /\ \A i \in 1 .. MaxDay + 1 : DueDate[l][i] >= i
        /\ \A i \in 1 .. MaxDay : DueDate[l][i] < DueDate[l][i + 1]

Day    == 0 .. MaxDay
NoDay  == -1

\* `defaulted' is the fifth status of the table; no code sets it.
Status == {"pending_disbursement", "active", "paid", "cancelled"}

Row == [status : Status, outstanding : Nat, accrued : Nat,
        period : 1 .. MaxDay + 1, disbursed : Day \cup {NoDay}]

Payment == [key : Key, amount : Nat, date : Day, interest : Nat,
            principal : Nat, credit : Nat,
            remaining_interest : Nat, remaining_principal : Nat]

\* A journal transaction with its entries folded into one signed amount per
\* system account, debits positive.
Journal == [event : {"loan_disbursement", "payment"}, key : Key \cup {NoKey},
            cash : Int, receivable : Int, credit : Int, income : Int]

Intent == [event : {"loan_disbursed", "payment_received"}, key : Key \cup {NoKey}]

\* What one handler writes for one loan: the new row, the payments and the
\* journals it inserts, the outbox rows, and (history) the principal on which
\* the interest of each newly charged period was computed.
LoanWrite == [row : Row, posted : Seq(Payment), charged : Seq(Nat),
              journals : SUBSET Journal, intents : SUBSET Intent]

---------------------------------------------------------------------------
(* Calculator.                                                             *)

Lesser(a, b) == IF a <= b THEN a ELSE b

\* 0.01 precision, ROUND_HALF_UP.
QuantizeMoney(thousandths) == (thousandths + 500) \div 1000

\* Interest of one contractual period; both frequencies use the rate unchanged.
PeriodInterest(principal) == QuantizeMoney(principal * Rate)

\* The periods the accrual loop charges: those not yet charged and due by d.
DuePeriods(l, row, d) == {i \in row.period .. MaxDay : DueDate[l][i] <= d}

\* The loop `while d >= next_interest_due_date': outstanding_principal does
\* not change in it, so every period adds the same interest.
Accrued(l, row, d) ==
  LET n == Cardinality(DuePeriods(l, row, d))
  IN  [row EXCEPT !.accrued = @ + n * PeriodInterest(row.outstanding),
                  !.period  = @ + n]

\* PaymentAllocationResult.
Allocation == [interest : Nat, principal : Nat, credit : Nat,
               remaining_interest : Nat, remaining_principal : Nat]

\* (mutant) Whatever a payment leaves of the interest due stays as credit.
AllocateInterestOnly(cents, interest, principal) ==
  LET toInterest  == Lesser(cents, interest)
      left        == cents - toInterest
      toPrincipal == IF left >= principal THEN principal ELSE 0
  IN  [interest            |-> toInterest,
       principal           |-> toPrincipal,
       credit              |-> left - toPrincipal,
       remaining_interest  |-> interest - toInterest,
       remaining_principal |-> principal - toPrincipal]

\* (mutant) No credit: all that is left goes to principal.
AllocateWithoutCredit(cents, interest, principal) ==
  LET toInterest == Lesser(cents, interest)
  IN  [interest            |-> toInterest,
       principal           |-> cents - toInterest,
       credit              |-> 0,
       remaining_interest  |-> interest - toInterest,
       remaining_principal |-> principal - (cents - toInterest)]

\* Interest first, then principal, the rest is unapplied credit.
Allocate(cents, interest, principal) ==
  LET toInterest  == Lesser(cents, interest)
      toPrincipal == Lesser(cents - toInterest, principal)
  IN  [interest            |-> toInterest,
       principal           |-> toPrincipal,
       credit              |-> cents - toInterest - toPrincipal,
       remaining_interest  |-> interest - toInterest,
       remaining_principal |-> principal - toPrincipal]

---------------------------------------------------------------------------
(* Rows the handlers insert.                                               *)

DisbursementJournal(l) ==
  [event |-> "loan_disbursement", key |-> NoKey, cash |-> -Principal[l],
   receivable |-> Principal[l], credit |-> 0, income |-> 0]

\* (mutant) Principal and interest are entered in each other's account.
PaymentJournalCrossed(p) ==
  [event |-> "payment", key |-> p.key, cash |-> p.amount,
   receivable |-> -p.interest, credit |-> -p.credit, income |-> -p.principal]

PaymentJournal(p) ==
  [event |-> "payment", key |-> p.key, cash |-> p.amount,
   receivable |-> -p.principal, credit |-> -p.credit, income |-> -p.interest]

\* What post_journal insists on: at least two entries (zero amounts are not
\* entries) and equal debits and credits.
Postable(j) ==
  /\ \E a, b \in {"cash", "receivable", "credit", "income"} :
        a # b /\ j[a] # 0 /\ j[b] # 0
  /\ j.cash + j.receivable + j.credit + j.income = 0

DisbursedIntent  == [event |-> "loan_disbursed", key |-> NoKey]
ReceivedIntent(p) == [event |-> "payment_received", key |-> p.key]

\* The payment row post_payment builds from the accrued loan row.
PaymentRow(row, key, cents, date) ==
  LET a == Allocate(cents, row.accrued, row.outstanding)
  IN  [key |-> key, amount |-> cents, date |-> date,
       interest |-> a.interest, principal |-> a.principal, credit |-> a.credit,
       remaining_interest  |-> a.remaining_interest,
       remaining_principal |-> a.remaining_principal]

\* (mutant) Paid as soon as no interest is left.
SettledIgnoringPrincipal(row, p) ==
  [row EXCEPT !.outstanding = p.remaining_principal,
              !.accrued     = p.remaining_interest,
              !.status      = IF p.remaining_interest = 0 THEN "paid" ELSE @]

\* The balances move to what the payment left; both at zero is a payoff.
Settled(row, p) ==
  [row EXCEPT !.outstanding = p.remaining_principal,
              !.accrued     = p.remaining_interest,
              !.status      = IF /\ p.remaining_principal = 0
                                 /\ p.remaining_interest = 0
                              THEN "paid" ELSE @]

---------------------------------------------------------------------------
(* What each handler writes.                                               *)

Disbursement(l, row, day) ==
  [row |-> [row EXCEPT !.status = "active", !.disbursed = day, !.accrued = 0],
   posted |-> << >>, charged |-> << >>,
   journals |-> {DisbursementJournal(l)}, intents |-> {DisbursedIntent}]

Cancellation(row) ==
  [row |-> [row EXCEPT !.status = "cancelled"],
   posted |-> << >>, charged |-> << >>, journals |-> {}, intents |-> {}]

\* History: the principal each charged period's interest was computed on.
Charges(l, row, d) ==
  [i \in 1 .. Cardinality(DuePeriods(l, row, d)) |-> row.outstanding]

\* (mutant) The scheduler's batch charges but forgets to advance the due date.
AccrualWithoutAdvance(l, row, d) ==
  [row |-> [Accrued(l, row, d) EXCEPT !.period = row.period],
   posted |-> << >>, charged |-> Charges(l, row, d),
   journals |-> {}, intents |-> {}]

Accrual(l, row, d) ==
  [row |-> Accrued(l, row, d), posted |-> << >>,
   charged |-> Charges(l, row, d), journals |-> {}, intents |-> {}]

\* (mutant) The journal of a payment that pays only interest is skipped.
PostingPrincipalOnly(l, row, key, cents, date) ==
  LET p == PaymentRow(Accrued(l, row, date), key, cents, date)
  IN  [row |-> Settled(Accrued(l, row, date), p), posted |-> <<p>>,
       charged |-> Charges(l, row, date),
       journals |-> IF p.principal > 0 THEN {PaymentJournal(p)} ELSE {},
       intents |-> {ReceivedIntent(p)}]

\* A payment first accrues every period due by its own date, then allocates.
Posting(l, row, key, cents, date) ==
  LET due == Accrued(l, row, date)
      p   == PaymentRow(due, key, cents, date)
  IN  [row |-> Settled(due, p), posted |-> <<p>>,
       charged |-> Charges(l, row, date),
       journals |-> {PaymentJournal(p)}, intents |-> {ReceivedIntent(p)}]
=============================================================================
