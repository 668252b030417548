-------------------------- MODULE RepaymentSchedule --------------------------
(***************************************************************************)
(* Due dates and the repayment schedule of a loan, as pure operators on    *)
(* calendar dates and centavos (loans/calculator.py, and the validation of *)
(* a quote request in loans/schemas.py).                                   *)
(*                                                                         *)
(* A rate is a whole number of RateBase-ths, so that the annuity is a      *)
(* fraction of whole numbers; the code computes it with 28 digits.         *)
(***************************************************************************)
EXTENDS Integers, Sequences

CONSTANT RateBase     \* what a rate is a fraction of

ASSUME ScheduleAssumption == RateBase \in Nat \ {0}

---------------------------------------------------------------------------
(* Calendar.                                                               *)

On(y, m, d) == [year |-> y, month |-> m, day |-> d]

IsLeap(y) == y % 4 = 0 /\ (y % 100 # 0 \/ y % 400 = 0)

\* calendar.monthrange(y, m)[1]
LastDay(y, m) == IF m = 2 THEN (IF IsLeap(y) THEN 29 ELSE 28)
                 ELSE IF m \in {4, 6, 9, 11} THEN 30 ELSE 31

Date == {d \in [year : Nat \ {0}, month : 1 .. 12, day : 1 .. 31] :
           d.day <= LastDay(d.year, d.month)}

Clipped(y, m, d) == On(y, m, IF d <= LastDay(y, m) THEN d ELSE LastDay(y, m))

\* Days of a year, leap or not, before the first of a month.
DaysBefore ==
  [leap \in BOOLEAN |->
     LET days[m \in 1 .. 12] ==
           IF m = 1 THEN 0 ELSE days[m - 1] + LastDay(IF leap THEN 4 ELSE 1, m - 1)
     IN  [m \in 1 .. 12 |-> days[m]]]

\* The ordinal of a date: dates are compared, and days added, by it.
DayNumber(date) ==
  LET y == date.year - 1
  IN  365 * y + y \div 4 - y \div 100 + y \div 400
        + DaysBefore[IsLeap(date.year)][date.month] + date.day

---------------------------------------------------------------------------
(* Due dates.                                                              *)

\* The 15th or the last day of a month.
HalfMonthly(date) == date.day \in {15, LastDay(date.year, date.month)}

\* The fields of LoanQuoteRequest.
Contract == [principal : Int, rate : Int, term_months : Int,
             payment_frequency : {"monthly", "twice_monthly"}, first_due_date : Date]

\* What LoanQuoteRequest accepts.
Acceptable(c) ==
  /\ c.principal > 0 /\ c.rate >= 0 /\ c.term_months > 0
  /\ c.payment_frequency \in {"monthly", "twice_monthly"}
  /\ c.payment_frequency = "twice_monthly" => HalfMonthly(c.first_due_date)

NumberOfPayments(c) == c.term_months * (IF c.payment_frequency = "monthly" THEN 1 ELSE 2)

\* The two loops of build_due_dates: the months counted from the first one, on
\* its day; and months taken twice, on the 15th and on the last day.
BuildDueDates(c, n) ==
  LET first == c.first_due_date
      months(i) == first.month - 1 + i - 1
      half[i \in 1 .. n] ==
        IF i = 1
        THEN [year |-> first.year, month |-> first.month, fifteenth |-> first.day = 15]
        ELSE LET h == half[i - 1] IN
             IF h.fifteenth    THEN [h EXCEPT !.fifteenth = FALSE]
             ELSE IF h.month = 12
                  THEN [year |-> h.year + 1, month |-> 1, fifteenth |-> TRUE]
                  ELSE [h EXCEPT !.month = @ + 1, !.fifteenth = TRUE]
  IN  [i \in 1 .. n |->
         IF c.payment_frequency = "monthly"
         THEN Clipped(first.year + months(i) \div 12, (months(i) % 12) + 1, first.day)
         ELSE On(half[i].year, half[i].month,
                 IF half[i].fifteenth THEN 15 ELSE LastDay(half[i].year, half[i].month))]

\* The month after that of a date, on day d of it or on its last day.
NextMonth(date, d) ==
  IF date.month = 12 THEN Clipped(date.year + 1, 1, d) ELSE Clipped(date.year, date.month + 1, d)

\* (mutant) The anchor is the previous due date, not the first one.
AdvanceUnanchored(date, c) ==
  IF c.payment_frequency = "monthly" THEN NextMonth(date, date.day)
  ELSE IF date.day = 15 THEN On(date.year, date.month, LastDay(date.year, date.month))
  ELSE NextMonth(date, 15)

\* advance_due_date
AdvanceDueDate(date, c) ==
  IF c.payment_frequency = "monthly" THEN NextMonth(date, c.first_due_date.day)
  ELSE IF date.day = 15 THEN On(date.year, date.month, LastDay(date.year, date.month))
  ELSE NextMonth(date, 15)

---------------------------------------------------------------------------
(* Amounts.                                                                *)

\* a / b centavos, quantized to whole ones, ROUND_HALF_UP (away from zero).
Quantized(a, b) ==
  IF a >= 0 THEN (2 * a + b) \div (2 * b) ELSE -((2 * (-a) + b) \div (2 * b))

PeriodInterest(principal, c) == Quantized(principal * c.rate, RateBase)

Power(base, n) ==
  LET power[k \in 0 .. n] == IF k = 0 THEN 1 ELSE base * power[k - 1] IN power[n]

\* The annuity that repays the principal in n payments; equal parts at rate 0.
ScheduledPayment(c, n) ==
  LET grown == Power(RateBase + c.rate, n) IN
  IF c.rate = 0 THEN Quantized(c.principal, n)
  ELSE Quantized(c.principal * c.rate * grown, RateBase * (grown - Power(RateBase, n)))

\* (mutant) The last installment is like the others.
ItemWithoutRemainder(i, n, opening, payment, c, due) ==
  LET interest == PeriodInterest(opening, c) IN
  [due_date |-> due, opening |-> opening, interest |-> interest,
   principal |-> payment - interest, payment |-> payment,
   closing |-> opening - (payment - interest)]

\* Installment i of n: the last one takes whatever principal is left.
Item(i, n, opening, payment, c, due) ==
  LET interest  == PeriodInterest(opening, c)
      principal == IF i = n THEN opening ELSE payment - interest
  IN  [due_date |-> due, opening |-> opening, interest |-> interest,
       principal |-> principal, payment |-> principal + interest,
       closing |-> opening - principal]

\* calculate_quote
Quote(c) ==
  LET n       == NumberOfPayments(c)
      due     == BuildDueDates(c, n)
      payment == ScheduledPayment(c, n)
      item[i \in 1 .. n] ==
        Item(i, n, IF i = 1 THEN c.principal ELSE item[i - 1].closing, payment, c, due[i])
      interest[i \in 0 .. n] == IF i = 0 THEN 0 ELSE interest[i - 1] + item[i].interest
      repaid[i \in 0 .. n]   == IF i = 0 THEN 0 ELSE repaid[i - 1] + item[i].payment
  IN  [schedule |-> [i \in 1 .. n |-> item[i]], scheduled_payment |-> payment,
       total_scheduled_interest |-> interest[n], total_scheduled_repayment |-> repaid[n]]
=============================================================================
