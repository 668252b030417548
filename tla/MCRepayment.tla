----------------------------- MODULE MCRepayment -----------------------------
(* Contracts for TLC: rates are tenths, amounts centavos.                  *)
EXTENDS Repayment

Terms(principal, rate, months, frequency, y, m, d) ==
  [principal |-> principal, rate |-> rate, term_months |-> months,
   payment_frequency |-> frequency, first_due_date |-> On(y, m, d)]

\* Short months, a leap day, the turn of the year; a principal of two centavos;
\* no interest; and a first due date that is neither the 15th nor the last day.
SampleContracts ==
  { Terms(10000, 1, 3, "monthly", 2024, 1, 31),
    Terms(10000, 1, 4, "monthly", 2023, 11, 30),
    Terms(9999, 2, 3, "monthly", 2023, 1, 29),
    Terms(1000, 0, 3, "monthly", 2023, 12, 15),
    Terms(2, 0, 4, "monthly", 2024, 2, 29),
    Terms(10000, 1, 2, "twice_monthly", 2023, 12, 31),
    Terms(10000, 2, 2, "twice_monthly", 2024, 2, 15),
    Terms(10000, 1, 1, "twice_monthly", 2023, 2, 28),
    Terms(10000, 1, 1, "twice_monthly", 2024, 2, 28) }

\* The day before a due date, the day itself, and eight days late.
SampleOffsets == {-1, 0, 8}
=============================================================================
