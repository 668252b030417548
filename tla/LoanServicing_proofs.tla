------------------------ MODULE LoanServicing_proofs ------------------------
(***************************************************************************)
(* Type correctness of LoanServicing, the exclusion its row locks give,    *)
(* and that it implements LoanBook, for any number of loans, sessions,     *)
(* keys, amounts and days.                                                 *)
(***************************************************************************)
EXTENDS LoanProperties, FiniteSetTheorems, TLAPS

---------------------------------------------------------------------------
(* What the arithmetic of LoanContract returns, for every principal, rate, *)
(* due-date calendar and amount.                                           *)

\* Products of naturals: what rate times principal, or a number of periods
\* times one period's interest, can be.
LEMMA ProductNat == \A a, b \in Nat : a * b \in Nat
  OBVIOUS

\* quantize_money never turns an amount negative.
LEMMA QuantizeMoneyNat == \A n \in Nat : QuantizeMoney(n) \in Nat
  BY DEF QuantizeMoney

\* The interest of a period is a whole number of centavos.
LEMMA PeriodInterestNat == \A p \in Nat : PeriodInterest(p) \in Nat
  BY ContractAssumption, ProductNat, QuantizeMoneyNat DEF PeriodInterest

\* The accrual loop ends before the calendar does: it never advances the due
\* date past the first one after MaxDay.
LEMMA DuePeriodsCount ==
  ASSUME NEW l \in Loan, NEW row \in Row, NEW d \in Day
  PROVE  /\ IsFiniteSet(DuePeriods(l, row, d))
         /\ Cardinality(DuePeriods(l, row, d)) \in Nat
         /\ row.period + Cardinality(DuePeriods(l, row, d)) \in 1 .. MaxDay + 1
<1> DEFINE I == row.period .. MaxDay
<1>1. row.period \in 1 .. MaxDay + 1 /\ MaxDay \in Nat
  BY ContractAssumption DEF Row
<1>2. IsFiniteSet(I) /\ Cardinality(I) = MaxDay - row.period + 1
  <2>1. row.period \in Int /\ MaxDay \in Int
    BY <1>1
  <2>2. /\ IsFiniteSet(I)
        /\ Cardinality(I) =
             IF row.period > MaxDay THEN 0 ELSE MaxDay - row.period + 1
    BY <2>1, FS_Interval
  <2> QED
    BY <1>1, <2>2
<1>3. DuePeriods(l, row, d) \subseteq I
  BY DEF DuePeriods
<1>4. /\ IsFiniteSet(DuePeriods(l, row, d))
      /\ Cardinality(DuePeriods(l, row, d)) <= Cardinality(I)
  BY <1>2, <1>3, FS_Subset
<1>5. Cardinality(DuePeriods(l, row, d)) \in Nat
  BY <1>4, FS_CardinalityType
<1> QED
  BY <1>1, <1>2, <1>4, <1>5

\* Accruing turns a loan row into a loan row, and leaves its principal, status
\* and disbursement date alone.
LEMMA AccruedRow ==
  ASSUME NEW l \in Loan, NEW row \in Row, NEW d \in Day
  PROVE  /\ Accrued(l, row, d) \in Row
         /\ Accrued(l, row, d).outstanding = row.outstanding
         /\ Accrued(l, row, d).status = row.status
         /\ Accrued(l, row, d).disbursed = row.disbursed
         /\ Accrued(l, row, d).accrued >= row.accrued
         /\ Accrued(l, row, d).period = row.period + Cardinality(DuePeriods(l, row, d))
         /\ Accrued(l, row, d).accrued
              = row.accrued + Cardinality(DuePeriods(l, row, d))
                                * PeriodInterest(row.outstanding)
<1> DEFINE n == Cardinality(DuePeriods(l, row, d))
           interest == n * PeriodInterest(row.outstanding)
<1>1. n \in Nat /\ row.period + n \in 1 .. MaxDay + 1
  BY DuePeriodsCount
<1>2. row.outstanding \in Nat /\ row.accrued \in Nat
  BY DEF Row
<1>3. interest \in Nat
  BY <1>1, <1>2, PeriodInterestNat, ProductNat
<1>4. Accrued(l, row, d) =
        [row EXCEPT !.accrued = row.accrued + interest, !.period = row.period + n]
  BY DEF Accrued, Row
<1>5. row.accrued + interest \in Nat /\ row.accrued + interest >= row.accrued
  BY <1>2, <1>3
<1> HIDE DEF interest, n
<1>6. /\ row.period + n \in 1 .. MaxDay + 1
      /\ n = Cardinality(DuePeriods(l, row, d))
      /\ interest = n * PeriodInterest(row.outstanding)
  BY <1>1 DEF n, interest
<1>7. /\ Accrued(l, row, d) \in Row
      /\ Accrued(l, row, d).outstanding = row.outstanding
      /\ Accrued(l, row, d).status = row.status
      /\ Accrued(l, row, d).disbursed = row.disbursed
      /\ Accrued(l, row, d).accrued = row.accrued + interest
      /\ Accrued(l, row, d).period = row.period + n
  BY <1>4, <1>5, <1>6 DEF Row
<1> QED
  BY <1>5, <1>6, <1>7

\* allocate_payment: the parts are amounts, they add up to the payment, nothing
\* goes to principal before interest, and credit is left only when both are 0.
LEMMA AllocateSplits ==
  ASSUME NEW cents \in Nat, NEW interest \in Nat, NEW principal \in Nat,
         NEW a, a = Allocate(cents, interest, principal)
  PROVE  /\ a \in Allocation
         /\ a.interest + a.principal + a.credit = cents
         /\ a.interest + a.remaining_interest = interest
         /\ a.principal + a.remaining_principal = principal
         /\ a.principal > 0 => a.remaining_interest = 0
         /\ a.credit > 0 => a.remaining_interest = 0 /\ a.remaining_principal = 0
  BY DEF Allocate, Lesser, Allocation

\* The journal of a payment always balances.
LEMMA PaymentJournalBalances ==
  ASSUME NEW row \in Row, NEW key \in Key, NEW cents \in Nat, NEW date \in Day
  PROVE  LET p == PaymentRow(row, key, cents, date)
             j == PaymentJournal(p)
         IN  /\ p \in Payment
             /\ p.key = key
             /\ p.date = date
             /\ j \in Journal
             /\ j.cash + j.receivable + j.credit + j.income = 0
<1> DEFINE a == Allocate(cents, row.accrued, row.outstanding)
           p == PaymentRow(row, key, cents, date)
<1>1. row.accrued \in Nat /\ row.outstanding \in Nat
  BY DEF Row
<1>2. /\ a \in Allocation
      /\ a.interest + a.principal + a.credit = cents
  <2> HIDE DEF a
  <2>1. a = Allocate(cents, row.accrued, row.outstanding)
    BY DEF a
  <2> QED
    BY <1>1, <2>1, AllocateSplits
<1>3. p = [key |-> key, amount |-> cents, date |-> date,
           interest |-> a.interest, principal |-> a.principal, credit |-> a.credit,
           remaining_interest  |-> a.remaining_interest,
           remaining_principal |-> a.remaining_principal]
  BY DEF PaymentRow
<1> HIDE DEF a, p
<1>4. p \in Payment /\ p.key = key /\ p.date = date
  BY <1>2, <1>3 DEF Payment, Allocation
<1>5. PaymentJournal(p) =
        [event |-> "payment", key |-> p.key, cash |-> p.amount,
         receivable |-> -p.principal, credit |-> -p.credit, income |-> -p.interest]
  BY DEF PaymentJournal
<1>6. PaymentJournal(p) \in Journal
  BY <1>4, <1>5 DEF Payment, Journal
<1>7. p.amount = cents /\ p.interest = a.interest /\ p.principal = a.principal
      /\ p.credit = a.credit
  BY <1>3
<1>8. cents + (-a.principal) + (-a.credit) + (-a.interest) = 0
  BY <1>2 DEF Allocation
<1> QED
  BY <1>4, <1>5, <1>6, <1>7, <1>8 DEF p

\* Settling moves the balances to what the payment left; the loan is paid
\* exactly when that is nothing, if the row was active.
LEMMA SettledRow ==
  ASSUME NEW row \in Row, NEW p \in Payment
  PROVE  /\ Settled(row, p) \in Row
         /\ Settled(row, p).outstanding = p.remaining_principal
         /\ Settled(row, p).accrued = p.remaining_interest
         /\ Settled(row, p).period = row.period
         /\ Settled(row, p).disbursed = row.disbursed
         /\ Settled(row, p).status =
              IF p.remaining_principal = 0 /\ p.remaining_interest = 0
              THEN "paid" ELSE row.status
<1> DEFINE st == IF p.remaining_principal = 0 /\ p.remaining_interest = 0
                 THEN "paid" ELSE row.status
<1>1. st \in Status /\ p.remaining_principal \in Nat /\ p.remaining_interest \in Nat
  BY DEF Row, Status, Payment
<1>2. Settled(row, p) = [row EXCEPT !.outstanding = p.remaining_principal,
                                    !.accrued = p.remaining_interest, !.status = st]
  BY DEF Settled, Row
<1> QED
  <2> HIDE DEF st
  <2>1. /\ Settled(row, p) \in Row
        /\ Settled(row, p).outstanding = p.remaining_principal
        /\ Settled(row, p).accrued = p.remaining_interest
        /\ Settled(row, p).period = row.period
        /\ Settled(row, p).disbursed = row.disbursed
        /\ Settled(row, p).status = st
    BY <1>1, <1>2 DEF Row
  <2> QED
    BY <2>1 DEF st

\* The charge history of an accrual has one principal for each period it adds.
LEMMA ChargesType ==
  ASSUME NEW l \in Loan, NEW row \in Row, NEW d \in Day
  PROVE  /\ Charges(l, row, d) \in Seq(Nat)
         /\ Len(Charges(l, row, d)) = Cardinality(DuePeriods(l, row, d))
         /\ \A i \in DOMAIN Charges(l, row, d) : Charges(l, row, d)[i] = row.outstanding
<1> DEFINE n == Cardinality(DuePeriods(l, row, d))
<1>1. n \in Nat
  BY DuePeriodsCount
<1>2. row.outstanding \in Nat
  BY DEF Row
<1>3. Charges(l, row, d) = [i \in 1 .. n |-> row.outstanding]
  BY DEF Charges
<1> HIDE DEF n
<1>4. /\ Charges(l, row, d) \in Seq(Nat)
      /\ Len(Charges(l, row, d)) = n
      /\ \A i \in DOMAIN Charges(l, row, d) : Charges(l, row, d)[i] = row.outstanding
  BY <1>1, <1>2, <1>3
<1> QED
  BY <1>4 DEF n

---------------------------------------------------------------------------
(* What each handler writes is a LoanWrite.                                *)

\* A disbursement (disburse_loan) writes a well-typed row, journal and intent.
LEMMA DisbursementType ==
  ASSUME NEW l \in Loan, NEW row \in Row, NEW day \in Day
  PROVE  Disbursement(l, row, day) \in LoanWrite
<1>1. [row EXCEPT !.status = "active", !.disbursed = day, !.accrued = 0] \in Row
  BY DEF Row, Status
<1>2. << >> \in Seq(Payment) /\ << >> \in Seq(Nat)
  OBVIOUS
<1>3. DisbursementJournal(l) \in Journal
  <2>1. Principal[l] \in Int /\ -Principal[l] \in Int
    BY ContractAssumption
  <2> QED
    BY <2>1 DEF DisbursementJournal, Journal
<1>4. DisbursedIntent \in Intent
  BY DEF DisbursedIntent, Intent
<1> QED
  BY <1>1, <1>2, <1>3, <1>4 DEF Disbursement, LoanWrite

\* A cancellation (cancel_loan) writes a well-typed row and nothing else.
LEMMA CancellationType ==
  ASSUME NEW row \in Row
  PROVE  Cancellation(row) \in LoanWrite
<1>1. [row EXCEPT !.status = "cancelled"] \in Row
  BY DEF Row, Status
<1>2. << >> \in Seq(Payment) /\ << >> \in Seq(Nat)
  OBVIOUS
<1> QED
  BY <1>1, <1>2 DEF Cancellation, LoanWrite

\* An accrual (accrue_due_interest) writes a well-typed row and no payment.
LEMMA AccrualType ==
  ASSUME NEW l \in Loan, NEW row \in Row, NEW d \in Day
  PROVE  Accrual(l, row, d) \in LoanWrite
<1>1. Accrued(l, row, d) \in Row
  BY AccruedRow
<1>2. << >> \in Seq(Payment)
  OBVIOUS
<1>3. Charges(l, row, d) \in Seq(Nat)
  BY ChargesType
<1> QED
  BY <1>1, <1>2, <1>3 DEF Accrual, LoanWrite

\* A posting (post_payment) writes a well-typed row, payment, journal and intent.
LEMMA PostingType ==
  ASSUME NEW l \in Loan, NEW row \in Row, NEW key \in Key, NEW cents \in Nat,
         NEW date \in Day
  PROVE  Posting(l, row, key, cents, date) \in LoanWrite
<1> DEFINE due == Accrued(l, row, date)
           p   == PaymentRow(due, key, cents, date)
<1>1. due \in Row
  BY AccruedRow
<1> HIDE DEF due
<1>2. p \in Payment /\ p.key = key /\ PaymentJournal(p) \in Journal
  BY <1>1, PaymentJournalBalances
<1> HIDE DEF p
<1>3. Settled(due, p) \in Row
  BY <1>1, <1>2, SettledRow
<1>4. ReceivedIntent(p) \in Intent
  BY <1>2 DEF ReceivedIntent, Intent
<1>5. Charges(l, row, date) \in Seq(Nat)
  BY ChargesType
<1>6. Posting(l, row, key, cents, date) =
        [row |-> Settled(due, p), posted |-> <<p>>, charged |-> Charges(l, row, date),
         journals |-> {PaymentJournal(p)}, intents |-> {ReceivedIntent(p)}]
  BY DEF Posting, due, p
<1>7. <<p>> \in Seq(Payment)
  BY <1>2
<1> QED
  BY <1>2, <1>3, <1>4, <1>5, <1>6, <1>7 DEF LoanWrite

---------------------------------------------------------------------------
USE ContractAssumption, ServicingAssumption

---------------------------------------------------------------------------
(* Type correctness.                                                       *)

TablesOK ==
  /\ loans \in [Loan -> Row]
  /\ payments \in [Loan -> Seq(Payment)]
  /\ journals \in [Loan -> SUBSET Journal]
  /\ outbox \in [Loan -> SUBSET Intent]
  /\ charges \in [Loan -> Seq(Nat)]

SessionsOK ==
  /\ phase \in [Session -> {"idle", "locking", "flushed"}]
  /\ kind \in [Session -> Kind]
  /\ asOf \in [Session -> Day]
  /\ queue \in [Session -> Seq(Loan)]
  /\ DOMAIN read = Session
  /\ DOMAIN written = Session

RowsOK ==
  \A s \in Session :
     /\ Held(s) \subseteq Loan
     /\ read[s] \in [Held(s) -> Row]
     /\ DOMAIN written[s] \subseteq Held(s)
     /\ written[s] \in [DOMAIN written[s] -> LoanWrite]

\* TypeOK as facts about single loans and sessions.
LEMMA TypeOKParts ==
  TypeOK <=> /\ TablesOK
             /\ today \in Day
             /\ SessionsOK
             /\ RowsOK
             /\ acked \subseteq Answer
  BY DEF TypeOK, TablesOK, SessionsOK, RowsOK

\* Applying writes keeps the tables typed.
LEMMA ApplyType ==
  ASSUME TablesOK, NEW w, DOMAIN w \subseteq Loan, w \in [DOMAIN w -> LoanWrite],
         Book!Apply(w)
  PROVE  TablesOK'
<1>1. \A l \in DOMAIN w : w[l] \in LoanWrite
  OBVIOUS
<1>2. \A l \in DOMAIN w : /\ w[l].row \in Row
                          /\ w[l].posted \in Seq(Payment)
                          /\ w[l].charged \in Seq(Nat)
                          /\ w[l].journals \in SUBSET Journal
                          /\ w[l].intents \in SUBSET Intent
  BY <1>1 DEF LoanWrite
<1>3. loans' \in [Loan -> Row]
  BY <1>2 DEF TablesOK, Book!Apply
<1>4. payments' \in [Loan -> Seq(Payment)]
  BY <1>2 DEF TablesOK, Book!Apply
<1>5. journals' \in [Loan -> SUBSET Journal]
  BY <1>2 DEF TablesOK, Book!Apply
<1>6. outbox' \in [Loan -> SUBSET Intent]
  BY <1>2 DEF TablesOK, Book!Apply
<1>7. charges' \in [Loan -> Seq(Nat)]
  BY <1>2 DEF TablesOK, Book!Apply
<1> QED
  BY <1>3, <1>4, <1>5, <1>6, <1>7 DEF TablesOK

\* Closing a session keeps the sessions typed.
LEMMA ClosedType ==
  ASSUME SessionsOK, RowsOK, NEW s \in Session, Closed(s)
  PROVE  SessionsOK' /\ RowsOK'
<1>1. 0 \in Day
  BY DEF Day
<1>2. SessionsOK'
  BY <1>1 DEF SessionsOK, Closed, Kind
<1>3. \A t \in Session : /\ t # s => read'[t] = read[t] /\ written'[t] = written[t]
                         /\ t = s => read'[t] = Nothing /\ written'[t] = Nothing
  BY DEF SessionsOK, Closed
<1>4. /\ DOMAIN Nothing = {}
      /\ Nothing \in [{} -> Row]
      /\ Nothing \in [{} -> LoanWrite]
  BY DEF Nothing
<1>5. RowsOK'
  BY <1>3, <1>4 DEF RowsOK, Held
<1> QED
  BY <1>2, <1>5

\* Flushing writes for rows the session holds keeps the sessions typed.
LEMMA FlushType ==
  ASSUME SessionsOK, RowsOK, NEW s \in Session, NEW w, Flush(s, w),
         DOMAIN w \subseteq Held(s), w \in [DOMAIN w -> LoanWrite]
  PROVE  SessionsOK' /\ RowsOK'
<1>1. SessionsOK'
  BY DEF SessionsOK, Flush
<1>2. /\ read' = read
      /\ \A t \in Session : /\ t # s => written'[t] = written[t]
                            /\ t = s => written'[t] = w
  BY DEF SessionsOK, Flush
<1>3. RowsOK'
  BY <1>2 DEF RowsOK, Held
<1> QED
  BY <1>1, <1>3

\* The initial states are typed.
LEMMA InitType == Init => TypeOK
<1> SUFFICES ASSUME Init PROVE TypeOK
  OBVIOUS
<1> USE DEF Init, Book!Init
<1>1. \A l \in Loan : Book!NewLoan(l) \in Row
  BY DEF Book!NewLoan, Row, Status, Book!NoDay, NoDay
<1>2. 0 \in Day
  BY DEF Day
<1>3. TablesOK
  BY <1>1 DEF TablesOK
<1>4. SessionsOK
  BY <1>2 DEF SessionsOK, Kind
<1>5. RowsOK
  BY DEF RowsOK, Held, Nothing
<1> QED
  BY <1>2, <1>3, <1>4, <1>5, TypeOKParts

\* Every step keeps the types.
LEMMA NextType == TypeOK /\ [Next]_vars => TypeOK'
<1> SUFFICES ASSUME TypeOK, [Next]_vars PROVE TypeOK'
  OBVIOUS
<1>0. TablesOK /\ today \in Day /\ SessionsOK /\ RowsOK /\ acked \subseteq Answer
  BY TypeOKParts
<1> DEFINE Typed == /\ TablesOK
                    /\ today \in Day
                    /\ SessionsOK
                    /\ RowsOK
                    /\ acked \subseteq Answer
<1> SUFFICES Typed'
  BY DEF TypeOK, TablesOK, SessionsOK, RowsOK
<1>1. CASE UNCHANGED vars
  BY <1>0, <1>1 DEF vars, tables, sessions, TablesOK, SessionsOK, RowsOK, Held
<1>2. CASE Tick
  <2>1. today' \in Day
    BY <1>0, <1>2 DEF Tick, Book!Tick, Day
  <2> QED
    BY <1>0, <1>2, <2>1 DEF Tick, Book!Tick, Book!tables, sessions, TablesOK, SessionsOK,
                            RowsOK, Held
<1>3. ASSUME NEW s \in Session, NEW k, NEW day \in Day, NEW scan \in Seq(Loan),
             k \in Kind, Open(s, k, day, scan)
      PROVE  Typed'
  BY <1>0, <1>3 DEF Open, tables, TablesOK, SessionsOK, RowsOK, Held
<1>4. ASSUME NEW s \in Session, Refused(s)
      PROVE  Typed'
  <2>1. SessionsOK' /\ RowsOK'
    BY <1>0, <1>4, ClosedType DEF Refused
  <2> QED
    BY <1>0, <1>4, <2>1 DEF Refused, tables, TablesOK
<1>5. ASSUME NEW s \in Session, NEW w, Flush(s, w),
             DOMAIN w \subseteq Held(s), w \in [DOMAIN w -> LoanWrite]
      PROVE  Typed'
  <2>1. SessionsOK' /\ RowsOK'
    BY <1>0, <1>5, FlushType
  <2> QED
    BY <1>0, <1>5, <2>1 DEF Flush, tables, TablesOK
<1>6. ASSUME NEW s \in Session, NEW k \in Kind, NEW l \in Loan, OpenOnLoan(s, k, l)
      PROVE  Typed'
  <2>1. 0 \in Day /\ <<l>> \in Seq(Loan)
    BY DEF Day
  <2> QED
    BY <1>3, <1>6, <2>1 DEF OpenOnLoan
<1>7. ASSUME NEW s \in Session, OpenAccrual(s)
      PROVE  Typed'
  <2> DEFINE due == {l \in Loan : Book!AccrualDue(l, loans[l], today)}
  <2>1. PICK scan \in ScanOrders(due) : Open(s, "accrue", today, scan)
    BY <1>7 DEF OpenAccrual
  <2>2. PICK n \in Nat : scan \in [1 .. n -> due]

    <3>1. Cardinality(due) \in Nat
      BY FS_Subset, FS_CardinalityType
    <3> QED
      BY <2>1, <3>1 DEF ScanOrders
  <2>3. scan \in Seq(Loan)
    BY <2>2
  <2> QED
    BY <1>0, <1>3, <2>1, <2>3 DEF Kind
<1>8. ASSUME NEW s \in Session, LockRow(s)
      PROVE  Typed'
  <2> DEFINE h == Head(queue[s])
  <2>1. queue[s] \in Seq(Loan) /\ queue[s] # << >>
    BY <1>0, <1>8 DEF LockRow, SessionsOK
  <2>2. h \in Loan /\ Tail(queue[s]) \in Seq(Loan)
    BY <2>1
  <2>3. loans[h] \in Row
    BY <1>0, <2>2 DEF TablesOK
  <2> HIDE DEF h
  <2>4. /\ \A t \in Session : t # s => read'[t] = read[t]
        /\ read'[s] = [x \in Held(s) \cup {h} |-> IF x = h THEN loans[x] ELSE read[s][x]]
        /\ DOMAIN read' = Session
        /\ written' = written
    BY <1>0, <1>8 DEF LockRow, SessionsOK, h
  <2>5. SessionsOK'
    BY <1>0, <1>8, <2>2, <2>4 DEF LockRow, SessionsOK
  <2>6. RowsOK'
    <3> SUFFICES ASSUME NEW t \in Session
                 PROVE  (/\ Held(t) \subseteq Loan
                         /\ read[t] \in [Held(t) -> Row]
                         /\ DOMAIN written[t] \subseteq Held(t)
                         /\ written[t] \in [DOMAIN written[t] -> LoanWrite])'
      BY DEF RowsOK
    <3>1. CASE t # s
      BY <1>0, <2>4, <3>1 DEF RowsOK, Held
    <3>2. CASE t = s
      BY <1>0, <2>2, <2>3, <2>4, <3>2 DEF RowsOK, Held
    <3> QED
      BY <3>1, <3>2
  <2> QED
    BY <1>0, <1>8, <2>5, <2>6 DEF LockRow, tables, TablesOK
<1>9. ASSUME NEW s \in Session, DisburseLoan(s)
      PROVE  Typed'
  <2>1. PICK l \in Held(s) :
          \/ Flush(s, [x \in {l} |-> Disbursement(l, read[s][l], today)])
          \/ Refused(s)
    BY <1>9 DEF DisburseLoan
  <2>2. l \in Loan /\ read[s][l] \in Row
    BY <1>0 DEF RowsOK
  <2>3. Disbursement(l, read[s][l], today) \in LoanWrite
    BY <1>0, <2>2, DisbursementType
  <2> QED
    BY <1>4, <1>5, <2>1, <2>3
<1>10. ASSUME NEW s \in Session, CancelLoan(s)
      PROVE  Typed'
  <2>1. PICK l \in Held(s) :
          \/ Flush(s, [x \in {l} |-> Cancellation(read[s][l])])
          \/ Refused(s)
    BY <1>10 DEF CancelLoan
  <2>2. read[s][l] \in Row
    BY <1>0 DEF RowsOK
  <2>3. Cancellation(read[s][l]) \in LoanWrite
    BY <2>2, CancellationType
  <2> QED
    BY <1>4, <1>5, <2>1, <2>3
<1>11. ASSUME NEW s \in Session, ReplayPayment(s)
      PROVE  Typed'
  <2>0. PICK l \in Held(s), key \in Key :
          \E i \in FindIdempotent(l, read[s][l], key) :
            /\ \/ acked' = acked \cup {[loan |-> l, payment |-> payments[l][i]]}
               \/ acked' = acked
            /\ Closed(s)
            /\ UNCHANGED <<tables, today>>
    BY <1>11 DEF ReplayPayment
  <2>1. PICK i \in FindIdempotent(l, read[s][l], key) :
          /\ \/ acked' = acked \cup {[loan |-> l, payment |-> payments[l][i]]}
             \/ acked' = acked
          /\ Closed(s)
          /\ UNCHANGED <<tables, today>>
    BY <2>0
  <2>2. l \in Loan /\ i \in DOMAIN payments[l]
    BY <1>0, <2>1 DEF RowsOK, FindIdempotent
  <2>3. payments[l][i] \in Payment
    BY <1>0, <2>2 DEF TablesOK
  <2>4. [loan |-> l, payment |-> payments[l][i]] \in Answer
    BY <2>2, <2>3 DEF Answer
  <2>5. SessionsOK' /\ RowsOK'
    BY <1>0, <2>1, ClosedType
  <2> QED
    BY <1>0, <2>1, <2>4, <2>5 DEF tables, TablesOK
<1>12. ASSUME NEW s \in Session, PostPayment(s)
      PROVE  Typed'
  <2>0. PICK l \in Held(s), key \in Key, amount \in Amounts, date \in Day :
          /\ FindIdempotent(l, read[s][l], key) = {}
          /\ IF /\ Acceptable(l, read[s][l], date)
                /\ Insertable(l, read[s][l], key, QuantizeMoney(amount), date)
             THEN Flush(s, [x \in {l} |->
                              Posting(l, read[s][l], key, QuantizeMoney(amount), date)])
             ELSE Refused(s)
    BY <1>12, Zenon DEF PostPayment
  <2>1. \/ Flush(s, [x \in {l} |->
                       Posting(l, read[s][l], key, QuantizeMoney(amount), date)])
        \/ Refused(s)
    BY <2>0
  <2>2. l \in Loan /\ read[s][l] \in Row
    BY <1>0 DEF RowsOK
  <2>3. QuantizeMoney(amount) \in Nat
    BY QuantizeMoneyNat
  <2>4. Posting(l, read[s][l], key, QuantizeMoney(amount), date) \in LoanWrite
    BY <2>2, <2>3, PostingType
  <2> QED
    BY <1>4, <1>5, <2>1, <2>4
<1>13. ASSUME NEW s \in Session, AccrueInterest(s)
      PROVE  Typed'
  <2> DEFINE due == {l \in Held(s) : Book!AccrualDue(l, read[s][l], asOf[s])}
             w   == [l \in due |-> Accrual(l, read[s][l], asOf[s])]
  <2>1. Flush(s, w)
    BY <1>13 DEF AccrueInterest
  <2>2. \A l \in Held(s) : l \in Loan /\ read[s][l] \in Row
    BY <1>0 DEF RowsOK
  <2>3. asOf[s] \in Day
    BY <1>0 DEF SessionsOK
  <2>4. \A l \in due : Accrual(l, read[s][l], asOf[s]) \in LoanWrite
    BY <2>2, <2>3, AccrualType
  <2>5. DOMAIN w \subseteq Held(s) /\ w \in [DOMAIN w -> LoanWrite]
    BY <2>4
  <2> HIDE DEF w
  <2> QED
    BY <1>5, <2>1, <2>5
<1>14. ASSUME NEW s \in Session, Commit(s), Closed(s), today' = today,
              acked' \subseteq acked \cup Recorded(s) \cup NewlyPosted(s)
      PROVE  Typed'
  <2>1. SessionsOK' /\ RowsOK'
    BY <1>0, <1>14, ClosedType
  <2>2. /\ DOMAIN written[s] \subseteq Loan
        /\ written[s] \in [DOMAIN written[s] -> LoanWrite]
    BY <1>0 DEF RowsOK
  <2>3. TablesOK'
    <3>1. CASE Book!Apply(written[s])
      BY <1>0, <2>2, <3>1, ApplyType
    <3>2. CASE UNCHANGED tables
      BY <1>0, <3>2 DEF TablesOK, tables
    <3> QED
      BY <1>14, <3>1, <3>2 DEF Commit
  <2>4. NewlyPosted(s) \subseteq Answer
    <3>1. \A l \in DOMAIN written[s] : written[s][l].posted \in Seq(Payment)
      BY <2>2 DEF LoanWrite
    <3>2. \A l \in DOMAIN written[s] : \A i \in DOMAIN written[s][l].posted :
             l \in Loan /\ written[s][l].posted[i] \in Payment
      BY <2>2, <3>1
    <3> QED
      BY <3>2 DEF NewlyPosted, Answer
  <2>5. Recorded(s) \subseteq Answer
    <3>1. \A l \in DOMAIN written[s] : \A i \in DOMAIN payments[l] :
             l \in Loan /\ payments[l][i] \in Payment
      BY <1>0, <2>2 DEF TablesOK
    <3> QED
      BY <3>1 DEF Recorded, Answer
  <2> QED
    BY <1>0, <1>14, <2>1, <2>3, <2>4, <2>5
<1>15. ASSUME NEW s \in Session, Respond(s)
      PROVE  Typed'
  BY <1>14, <1>15 DEF Respond
<1>16. ASSUME NEW s \in Session, LoseAnswer(s)
      PROVE  Typed'
  BY <1>14, <1>16 DEF LoseAnswer
<1> QED
  BY <1>1, <1>2, <1>4, <1>6, <1>7, <1>8, <1>9, <1>10, <1>11, <1>12, <1>13, <1>15, <1>16
     DEF Next, SessionStep, Fail, DeadlockVictim

\* Every variable keeps its type, whatever sessions, failures and days do.
THEOREM TypeCorrect == Spec => []TypeOK
  BY InitType, NextType, PTL DEF Spec

---------------------------------------------------------------------------
(* LoanBook computes with the same contract arithmetic.                    *)

\* The operators of the book instance are those of this module: cardinality,
LEMMA SameCardinality == \A S : Book!Cardinality(S) = Cardinality(S)
  BY DEF Book!Cardinality, Cardinality, Book!IsFiniteSet, IsFiniteSet

\* accrual,
LEMMA SameAccrued ==
  ASSUME NEW l, NEW row, NEW d
  PROVE  /\ Book!DuePeriods(l, row, d) = DuePeriods(l, row, d)
         /\ Book!Accrued(l, row, d) = Accrued(l, row, d)
         /\ Book!Charges(l, row, d) = Charges(l, row, d)
         /\ Book!Accrual(l, row, d) = Accrual(l, row, d)
<1>1. Book!DuePeriods(l, row, d) = DuePeriods(l, row, d)
  BY DEF Book!DuePeriods, DuePeriods
<1>2. Book!PeriodInterest(row.outstanding) = PeriodInterest(row.outstanding)
  BY DEF Book!PeriodInterest, PeriodInterest, Book!QuantizeMoney, QuantizeMoney
<1>3. Book!Accrued(l, row, d) = Accrued(l, row, d)
  BY <1>1, <1>2, SameCardinality DEF Book!Accrued, Accrued
<1>4. Book!Charges(l, row, d) = Charges(l, row, d)
  BY <1>1, SameCardinality DEF Book!Charges, Charges
<1>5. Book!Accrual(l, row, d) = Accrual(l, row, d)
  BY <1>3, <1>4 DEF Book!Accrual, Accrual
<1> QED
  BY <1>1, <1>3, <1>4, <1>5

\* payment rows and journals,
LEMMA SamePayment ==
  ASSUME NEW l, NEW row, NEW key, NEW cents, NEW date
  PROVE  /\ Book!PaymentRow(row, key, cents, date) = PaymentRow(row, key, cents, date)
         /\ \A p : /\ Book!PaymentJournal(p) = PaymentJournal(p)
                   /\ Book!Settled(row, p) = Settled(row, p)
         /\ \A j : Book!Postable(j) <=> Postable(j)
         /\ Book!Posting(l, row, key, cents, date) = Posting(l, row, key, cents, date)
<1>1. \A r : Book!PaymentRow(r, key, cents, date) = PaymentRow(r, key, cents, date)
  BY DEF Book!PaymentRow, PaymentRow, Book!Allocate, Allocate, Book!Lesser, Lesser
<1>2. \A p : Book!PaymentJournal(p) = PaymentJournal(p)
  BY DEF Book!PaymentJournal, PaymentJournal
<1>3. \A r, p : Book!Settled(r, p) = Settled(r, p)
  BY DEF Book!Settled, Settled
<1>4. \A j : Book!Postable(j) <=> Postable(j)
  BY DEF Book!Postable, Postable
<1>5. \A p : Book!ReceivedIntent(p) = ReceivedIntent(p)
  BY DEF Book!ReceivedIntent, ReceivedIntent
<1>6. Book!Posting(l, row, key, cents, date) = Posting(l, row, key, cents, date)
  BY <1>1, <1>2, <1>3, <1>5, SameAccrued DEF Book!Posting, Posting
<1> QED
  BY <1>1, <1>2, <1>3, <1>4, <1>6

\* disbursements and cancellations,
LEMMA SameDisbursement ==
  ASSUME NEW l, NEW row, NEW day
  PROVE  /\ Book!Disbursement(l, row, day) = Disbursement(l, row, day)
         /\ Book!Cancellation(row) = Cancellation(row)
  BY DEF Book!Disbursement, Disbursement, Book!DisbursementJournal, DisbursementJournal,
         Book!DisbursedIntent, DisbursedIntent, Book!Cancellation, Cancellation

\* and the rounding of amounts.
LEMMA SameAmounts == \A n : Book!QuantizeMoney(n) = QuantizeMoney(n)
  BY DEF Book!QuantizeMoney, QuantizeMoney

---------------------------------------------------------------------------
(* Row locks: no two sessions hold the same row, and what a session has     *)
(* read and flushed stays valid until it commits.                           *)

Exclusive == \A s, t \in Session : s # t => Held(s) \cap Held(t) = {}

\* The inductive invariant.
IInv ==
  /\ TypeOK
  /\ Exclusive
  /\ LockedRowsAreCurrent
  /\ StagedWritesAreSound

\* No session holds or has written anything at the start.
LEMMA InitIInv == Init => IInv
<1> SUFFICES ASSUME Init PROVE IInv
  OBVIOUS
<1>1. \A s \in Session : Held(s) = {} /\ written[s] = Nothing /\ phase[s] = "idle"
  BY DEF Init, Held, Nothing
<1>2. StagedWritesAreSound
  BY <1>1 DEF StagedWritesAreSound, Init, Book!Init
<1> QED
  BY <1>1, <1>2, InitType DEF IInv, Exclusive, LockedRowsAreCurrent

Sound(s) ==
  /\ asOf[s] <= today
  /\ IF phase[s] = "flushed" THEN Effect(s) ELSE written[s] = Nothing

\* StagedWritesAreSound, session by session.
LEMMA SoundSessions == StagedWritesAreSound <=> \A s \in Session : Sound(s)
  BY DEF StagedWritesAreSound, Sound

\* A session is not disturbed by a step that leaves it and its rows alone.
LEMMA Bystander ==
  ASSUME IInv, NEW t \in Session, today' \in Day, today <= today',
         phase'[t] = phase[t], asOf'[t] = asOf[t], read'[t] = read[t],
         written'[t] = written[t],
         \A l \in Held(t) : loans'[l] = loans[l] /\ payments'[l] = payments[l]
  PROVE  Sound(t)'
<1>1. Sound(t) /\ today \in Day /\ asOf[t] \in Day
  BY SoundSessions DEF IInv, TypeOK
<1>2. asOf'[t] <= today'
  BY <1>1 DEF Day, Sound
<1>3. Held(t)' = Held(t)
  BY DEF Held
<1>4. ASSUME Effect(t) PROVE Effect(t)'
  <2>1. CASE DisbursementEffect(t)
    <3>1. PICK l \in Held(t), day \in Day :
               /\ loans[l].status = "pending_disbursement"
               /\ day <= today
               /\ written[t] = [x \in {l} |-> Disbursement(l, loans[l], day)]
      BY <2>1 DEF DisbursementEffect
    <3>2. /\ loans'[l].status = "pending_disbursement"
          /\ day <= today'
          /\ written'[t] = [x \in {l} |-> Disbursement(l, loans'[l], day)]
      BY <1>1, <3>1 DEF Day
    <3> QED
      BY <1>3, <3>2 DEF Effect, DisbursementEffect
  <2>2. CASE CancellationEffect(t)
    <3>1. PICK l \in Held(t) :
               /\ loans'[l].status = "pending_disbursement"
               /\ written'[t] = [x \in {l} |-> Cancellation(loans'[l])]
      BY <2>2 DEF CancellationEffect
    <3> QED
      BY <1>3, <3>1 DEF Effect, CancellationEffect
  <2>3. CASE PaymentEffect(t)
    <3>1. PICK l \in Held(t), key \in Key, amount \in Amounts, date \in Day :
               /\ Book!Payable(l, loans[l], key, QuantizeMoney(amount), date)
               /\ written[t] = [x \in {l} |->
                     Posting(l, loans[l], key, QuantizeMoney(amount), date)]
      BY <2>3 DEF PaymentEffect
    <3>2. loans'[l] = loans[l] /\ payments'[l] = payments[l]
      OBVIOUS
    <3>3. Book!Payable(l, loans[l], key, QuantizeMoney(amount), date)'
      BY <1>1, <3>1, <3>2 DEF Book!Payable, Book!Unused, Day
    <3>4. written'[t] = [x \in {l} |->
                     Posting(l, loans'[l], key, QuantizeMoney(amount), date)]
      BY <3>1, <3>2
    <3> QED
      BY <1>3, <3>3, <3>4 DEF Effect, PaymentEffect
  <2>4. CASE AccrualEffect(t)
    <3>1. PICK S \in SUBSET Held(t) :
               /\ \A l \in S : Book!AccrualDue(l, loans[l], asOf[t])
               /\ written[t] = [l \in S |-> Accrual(l, loans[l], asOf[t])]
      BY <2>4 DEF AccrualEffect
    <3>2. /\ \A l \in S : Book!AccrualDue(l, loans[l], asOf[t])'
          /\ written'[t] = [l \in S |-> Accrual(l, loans'[l], asOf'[t])]
      BY <3>1 DEF Book!AccrualDue
    <3> QED
      BY <1>3, <3>2 DEF Effect, AccrualEffect
  <2> QED
    BY <1>4, <2>1, <2>2, <2>3, <2>4 DEF Effect
<1> QED
  BY <1>1, <1>2, <1>4 DEF Sound

\* Closing a session, whatever becomes of the rows it held.
LEMMA ClosedKeeps ==
  ASSUME IInv, NEW s \in Session, Closed(s), today' = today,
         \A t \in Session \ {s} : \A l \in Held(t) :
            loans'[l] = loans[l] /\ payments'[l] = payments[l]
  PROVE  Exclusive' /\ LockedRowsAreCurrent' /\ StagedWritesAreSound'
<1> USE DEF IInv
<1>1. SessionsOK /\ today \in Day
  BY TypeOKParts
<1>2. /\ Held(s)' = {}
      /\ asOf'[s] = 0 /\ phase'[s] = "idle" /\ written'[s] = Nothing
  BY <1>1 DEF Closed, SessionsOK, Held, Nothing
<1>3. \A t \in Session \ {s} : /\ phase'[t] = phase[t] /\ asOf'[t] = asOf[t]
                               /\ read'[t] = read[t] /\ written'[t] = written[t]
  BY <1>1 DEF Closed, SessionsOK
<1>4. \A t \in Session \ {s} : Held(t)' = Held(t)
  BY <1>3 DEF Held
<1>5. Exclusive'
  BY <1>2, <1>4 DEF Exclusive
<1>6. LockedRowsAreCurrent'
  BY <1>2, <1>3, <1>4 DEF LockedRowsAreCurrent
<1>7. ASSUME NEW t \in Session PROVE Sound(t)'
  <2>1. CASE t = s
    BY <1>1, <1>2, <2>1 DEF Sound, Day
  <2>2. CASE t # s
    <3>1. today' \in Day /\ today <= today'
      BY <1>1 DEF Day
    <3> QED
      BY <1>3, <2>2, <3>1, Bystander
  <2> QED
    BY <2>1, <2>2
<1> QED
  BY <1>5, <1>6, <1>7 DEF StagedWritesAreSound, Sound

\* Flushing an effect on rows read under lock.
LEMMA FlushKeeps ==
  ASSUME IInv, NEW s \in Session, NEW w, Flush(s, w), Effect(s)'
  PROVE  Exclusive' /\ LockedRowsAreCurrent' /\ StagedWritesAreSound'
<1> USE DEF IInv
<1>1. SessionsOK /\ today \in Day
  BY TypeOKParts
<1>2. UNCHANGED <<loans, payments, today, asOf, read>>
  BY DEF Flush, tables
<1>3. phase'[s] = "flushed"
  BY <1>1 DEF Flush, SessionsOK
<1>4. \A t \in Session \ {s} : phase'[t] = phase[t] /\ written'[t] = written[t]
  BY <1>1 DEF Flush, SessionsOK
<1>5. Exclusive' /\ LockedRowsAreCurrent'
  BY <1>2 DEF Exclusive, LockedRowsAreCurrent, Held
<1>6. ASSUME NEW t \in Session PROVE Sound(t)'
  <2>1. CASE t = s
    BY <1>2, <1>3, <2>1 DEF Sound, StagedWritesAreSound
  <2>2. CASE t # s
    <3>1. today' \in Day /\ today <= today'
      BY <1>1, <1>2 DEF Day
    <3> QED
      BY <1>2, <1>4, <2>2, <3>1, Bystander
  <2> QED
    BY <2>1, <2>2
<1> QED
  BY <1>5, <1>6 DEF StagedWritesAreSound, Sound

\* What a session has read under lock is what is committed.
LEMMA ReadRow ==
  ASSUME IInv, NEW s \in Session, NEW l \in Held(s)
  PROVE  /\ l \in Loan
         /\ read[s][l] = loans[l]
         /\ asOf[s] <= today
  BY TypeOKParts DEF IInv, LockedRowsAreCurrent, StagedWritesAreSound, RowsOK

\* Each handler either refuses or flushes a sound effect.
LEMMA HandlerKeeps ==
  ASSUME IInv, NEW s \in Session,
         DisburseLoan(s) \/ CancelLoan(s) \/ PostPayment(s) \/ AccrueInterest(s)
  PROVE  Exclusive' /\ LockedRowsAreCurrent' /\ StagedWritesAreSound'
<1>0. SessionsOK /\ today \in Day
  BY TypeOKParts DEF IInv
<1>1. ASSUME Refused(s)
      PROVE  Exclusive' /\ LockedRowsAreCurrent' /\ StagedWritesAreSound'
  <2>1. Closed(s) /\ loans' = loans /\ payments' = payments /\ today' = today
    BY <1>1 DEF Refused, tables
  <2> QED
    BY <2>1, ClosedKeeps
<1>2. ASSUME NEW w, Flush(s, w)
      PROVE  /\ written'[s] = w /\ Held(s)' = Held(s)
             /\ loans' = loans /\ payments' = payments /\ today' = today /\ asOf' = asOf
  BY <1>0, <1>2 DEF Flush, SessionsOK, Held, tables
<1>3. CASE DisburseLoan(s)
  <2>1. PICK l \in Held(s) :
          IF read[s][l].status = "pending_disbursement"
          THEN Flush(s, [x \in {l} |-> Disbursement(l, read[s][l], today)])
          ELSE Refused(s)
    BY <1>3, Zenon DEF DisburseLoan
  <2>2. CASE /\ loans[l].status = "pending_disbursement"
             /\ Flush(s, [x \in {l} |-> Disbursement(l, loans[l], today)])
    <3>1. today <= today'
      BY <1>0, <1>2, <2>2 DEF Day
    <3>2. /\ loans'[l].status = "pending_disbursement"
          /\ written'[s] = [x \in {l} |-> Disbursement(l, loans'[l], today)]
          /\ l \in Held(s)'
      BY <1>2, <2>2
    <3>3. Effect(s)'
      BY <1>0, <3>1, <3>2 DEF Effect, DisbursementEffect
    <3> QED
      BY <2>2, <3>3, FlushKeeps
  <2> QED
    BY <1>1, <2>1, <2>2, ReadRow
<1>4. CASE CancelLoan(s)
  <2>1. PICK l \in Held(s) :
          IF read[s][l].status = "pending_disbursement"
          THEN Flush(s, [x \in {l} |-> Cancellation(read[s][l])])
          ELSE Refused(s)
    BY <1>4, Zenon DEF CancelLoan
  <2>2. CASE /\ loans[l].status = "pending_disbursement"
             /\ Flush(s, [x \in {l} |-> Cancellation(loans[l])])
    <3>1. /\ loans'[l].status = "pending_disbursement"
          /\ written'[s] = [x \in {l} |-> Cancellation(loans'[l])]
          /\ l \in Held(s)'
      BY <1>2, <2>2
    <3>2. Effect(s)'
      BY <3>1 DEF Effect, CancellationEffect
    <3> QED
      BY <2>2, <3>2, FlushKeeps
  <2> QED
    BY <1>1, <2>1, <2>2, ReadRow

<1>5. CASE PostPayment(s)
  <2>1. PICK l \in Held(s), key \in Key, amount \in Amounts, date \in Day :
          /\ FindIdempotent(l, read[s][l], key) = {}
          /\ IF /\ Acceptable(l, read[s][l], date)
                /\ Insertable(l, read[s][l], key, QuantizeMoney(amount), date)
             THEN Flush(s, [x \in {l} |->
                              Posting(l, read[s][l], key, QuantizeMoney(amount), date)])
             ELSE Refused(s)
    BY <1>5, Zenon DEF PostPayment
  <2> DEFINE cents == QuantizeMoney(amount)
  <2>2. CASE /\ Acceptable(l, loans[l], date)
             /\ Insertable(l, loans[l], key, cents, date)
             /\ Flush(s, [x \in {l} |-> Posting(l, loans[l], key, cents, date)])
    <3>1. loans[l].status = "active"
      BY <2>2 DEF Acceptable
    <3>2. Book!Unused(l, key)
      BY <2>1, <3>1, ReadRow DEF FindIdempotent, Book!Unused
    <3>a. cents = QuantizeMoney(amount)
      OBVIOUS
    <3> HIDE DEF cents
    <3> DEFINE r == Accrued(l, loans[l], date)
    <3>b. Book!Accrued(l, loans[l], date) = r
      BY SameAccrued
    <3> HIDE DEF r
    <3> DEFINE p == PaymentRow(r, key, cents, date)
    <3>c. Book!PaymentRow(r, key, cents, date) = p
      BY SamePayment
    <3>d. Postable(PaymentJournal(p)) /\ cents > 0
      BY <2>2 DEF Insertable, r
    <3> HIDE DEF p
    <3>e. Book!Postable(Book!PaymentJournal(p))
      BY <3>d, SamePayment
    <3>3. Book!Payable(l, loans[l], key, cents, date)
      BY <2>2, <3>1, <3>2, <3>b, <3>c, <3>d, <3>e DEF Acceptable, Book!Payable
    <3>4. loans' = loans /\ payments' = payments /\ today' = today /\ Held(s)' = Held(s)
          /\ written'[s] = [x \in {l} |-> Posting(l, loans[l], key, cents, date)]
      BY <1>2, <2>2
    <3>5. Book!Payable(l, loans[l], key, cents, date)'
      BY <3>3, <3>4 DEF Book!Payable, Book!Unused
    <3>6. Effect(s)'
      <4>1. /\ l \in Held(s)'
            /\ Book!Payable(l, loans[l], key, QuantizeMoney(amount), date)'
            /\ written'[s] = [x \in {l} |->
                    Posting(l, loans'[l], key, QuantizeMoney(amount), date)]
        BY <3>a, <3>4, <3>5
      <4>2. PaymentEffect(s)'
        BY <4>1 DEF PaymentEffect
      <4> QED
        BY <4>2 DEF Effect
    <3> QED
      BY <2>2, <3>6, FlushKeeps
  <2> QED
    BY <1>1, <2>1, <2>2, ReadRow
<1>6. CASE AccrueInterest(s)
  <2> DEFINE S == {l \in Held(s) : Book!AccrualDue(l, loans[l], asOf[s])}
             w == [l \in S |-> Accrual(l, loans[l], asOf[s])]
  <2>1. Flush(s, w)
    <3>1. \A l \in Held(s) : read[s][l] = loans[l]
      BY ReadRow
    <3>2. {l \in Held(s) : Book!AccrualDue(l, read[s][l], asOf[s])} = S
      BY <3>1
    <3>3. [l \in S |-> Accrual(l, read[s][l], asOf[s])] = w
      BY <3>1
    <3> QED
      BY <1>6, <3>2, <3>3 DEF AccrueInterest
  <2>2. /\ loans' = loans /\ asOf' = asOf /\ Held(s)' = Held(s)
        /\ written'[s] = w
    <3> HIDE DEF w
    <3> QED
      BY <1>2, <2>1
  <2>3. /\ \A l \in S : Book!AccrualDue(l, loans[l], asOf[s])'
        /\ written'[s] = [l \in S |-> Accrual(l, loans'[l], asOf'[s])]
    BY <2>2 DEF Book!AccrualDue
  <2>4. Effect(s)'
    <3>1. S \in SUBSET Held(s)'
      BY <2>2
    <3> HIDE DEF S
    <3> QED
      BY <2>3, <3>1 DEF Effect, AccrualEffect
  <2> HIDE DEF w
  <2> QED
    BY <2>1, <2>4, FlushKeeps
<1> QED
  BY <1>3, <1>4, <1>5, <1>6

\* Opening a transaction for a date that has come.
LEMMA OpenKeeps ==
  ASSUME IInv, NEW s \in Session, NEW k, NEW day \in Day, NEW scan, day <= today,
         Open(s, k, day, scan)
  PROVE  Exclusive' /\ LockedRowsAreCurrent' /\ StagedWritesAreSound'
<1> USE DEF IInv
<1>1. SessionsOK /\ today \in Day
  BY TypeOKParts
<1>2. UNCHANGED <<loans, payments, today, read, written>>
  BY DEF Open, tables
<1>3. /\ phase[s] = "idle" /\ phase'[s] = "locking" /\ asOf'[s] = day
      /\ \A t \in Session \ {s} : phase'[t] = phase[t] /\ asOf'[t] = asOf[t]
  BY <1>1 DEF Open, SessionsOK
<1>4. Exclusive' /\ LockedRowsAreCurrent'
  BY <1>2 DEF Exclusive, LockedRowsAreCurrent, Held
<1>5. ASSUME NEW t \in Session PROVE Sound(t)'
  <2>1. CASE t = s
    <3>1. written[s] = Nothing
      BY <1>3 DEF StagedWritesAreSound
    <3> QED
      BY <1>2, <1>3, <2>1, <3>1 DEF Sound
  <2>2. CASE t # s
    <3>1. today' \in Day /\ today <= today'
      BY <1>1, <1>2 DEF Day
    <3> QED
      BY <1>2, <1>3, <2>2, <3>1, Bystander
  <2> QED
    BY <2>1, <2>2
<1> QED
  BY <1>4, <1>5 DEF StagedWritesAreSound, Sound

\* FOR UPDATE waits for the row to be free and reads its last committed version.
LEMMA LockRowKeeps ==
  ASSUME IInv, NEW s \in Session, LockRow(s)
  PROVE  Exclusive' /\ LockedRowsAreCurrent' /\ StagedWritesAreSound'
<1> USE DEF IInv
<1> DEFINE h == Head(queue[s])
<1>1. SessionsOK /\ today \in Day
  BY TypeOKParts
<1>2. UNCHANGED <<loans, payments, today, phase, asOf, written>>
  BY DEF LockRow, tables
<1>3. /\ phase[s] = "locking"
      /\ \A t \in Session : h \notin Held(t)
      /\ read'[s] = [x \in Held(s) \cup {h} |-> IF x = h THEN loans[x] ELSE read[s][x]]
      /\ \A t \in Session \ {s} : read'[t] = read[t]
  BY <1>1 DEF LockRow, SessionsOK
<1> HIDE DEF h
<1>4. Held(s)' = Held(s) \cup {h} /\ \A t \in Session \ {s} : Held(t)' = Held(t)
  BY <1>3 DEF Held
<1>5. Exclusive'
  BY <1>3, <1>4 DEF Exclusive
<1>6. LockedRowsAreCurrent'
  BY <1>2, <1>3, <1>4 DEF LockedRowsAreCurrent
<1>7. ASSUME NEW t \in Session PROVE Sound(t)'
  <2>1. CASE t = s
    BY <1>2, <1>3, <2>1 DEF Sound, StagedWritesAreSound
  <2>2. CASE t # s
    <3>1. today' \in Day /\ today <= today'
      BY <1>1, <1>2 DEF Day
    <3> QED
      BY <1>2, <1>3, <2>2, <3>1, Bystander
  <2> QED
    BY <2>1, <2>2
<1> QED
  BY <1>5, <1>6, <1>7 DEF StagedWritesAreSound, Sound

\* A commit changes only rows the committing session holds.
LEMMA CommitTouches ==
  ASSUME IInv, NEW s \in Session, Commit(s)
  PROVE  \A t \in Session \ {s} : \A l \in Held(t) :
            loans'[l] = loans[l] /\ payments'[l] = payments[l]
<1> SUFFICES ASSUME NEW t \in Session \ {s}, NEW l \in Held(t)
             PROVE  loans'[l] = loans[l] /\ payments'[l] = payments[l]
  OBVIOUS
<1>1. l \in Loan /\ l \notin DOMAIN written[s]
  BY TypeOKParts DEF IInv, RowsOK, Exclusive
<1>2. CASE UNCHANGED tables
  BY <1>2 DEF tables
<1>3. CASE Book!Apply(written[s])
  BY <1>1, <1>3 DEF Book!Apply
<1> QED
  BY <1>2, <1>3 DEF Commit

\* The inductive step: every action of every session keeps the invariant.
LEMMA NextIInv == IInv /\ [Next]_vars => IInv'
<1> SUFFICES ASSUME IInv, [Next]_vars PROVE IInv'
  OBVIOUS
<1>1. TypeOK'
  BY NextType DEF IInv
<1>2. today \in Day /\ MaxDay \in Nat
  BY DEF IInv, TypeOK
<1> DEFINE Kept == Exclusive' /\ LockedRowsAreCurrent' /\ StagedWritesAreSound'
<1> SUFFICES Kept
  BY <1>1 DEF IInv
<1>3. ASSUME UNCHANGED <<loans, payments, phase, asOf, read, written>>,
             today' \in Day, today <= today'
      PROVE  Kept
  <2>1. Exclusive' /\ LockedRowsAreCurrent'
    BY <1>3 DEF IInv, Exclusive, LockedRowsAreCurrent, Held
  <2>2. \A t \in Session : Sound(t)'
    BY <1>3, Bystander
  <2> QED
    BY <2>1, <2>2 DEF StagedWritesAreSound, Sound
<1>4. CASE UNCHANGED vars
  BY <1>2, <1>3, <1>4 DEF vars, tables, sessions, Day
<1>5. CASE Tick
  BY <1>2, <1>3, <1>5 DEF Tick, Book!Tick, Book!tables, sessions, Day
<1>6. ASSUME NEW s \in Session, NEW k \in Kind, NEW l \in Loan, OpenOnLoan(s, k, l)
      PROVE  Kept
  <2>1. 0 \in Day /\ 0 <= today
    BY <1>2 DEF Day
  <2> QED
    BY <1>6, <2>1, OpenKeeps DEF OpenOnLoan
<1>7. ASSUME NEW s \in Session, OpenAccrual(s)
      PROVE  Kept
  <2>1. PICK scan : Open(s, "accrue", today, scan)
    BY <1>7 DEF OpenAccrual
  <2>2. today <= today
    BY <1>2 DEF Day
  <2> QED
    BY <1>2, <2>1, <2>2, OpenKeeps
<1>8. ASSUME NEW s \in Session, Closed(s), UNCHANGED tables, today' = today
      PROVE  Kept
  BY <1>8, ClosedKeeps DEF tables
<1>9. ASSUME NEW s \in Session, Closed(s), Commit(s), today' = today
      PROVE  Kept
  BY <1>9, CommitTouches, ClosedKeeps
<1>10. ASSUME NEW s \in Session, ReplayPayment(s)
       PROVE  Kept
  <2>1. Closed(s) /\ UNCHANGED <<tables, today>>
    BY <1>10 DEF ReplayPayment
  <2> QED
    BY <1>8, <2>1
<1>11. ASSUME NEW s \in Session, Respond(s) \/ LoseAnswer(s)
       PROVE  Kept
  BY <1>9, <1>11 DEF Respond, LoseAnswer
<1>12. ASSUME NEW s \in Session, Fail(s) \/ DeadlockVictim(s)
       PROVE  Kept
  BY <1>8, <1>12 DEF Fail, DeadlockVictim, Refused
<1> HIDE DEF Kept
<1>13. ASSUME NEW s \in Session, LockRow(s)
       PROVE  Kept
  BY <1>13, LockRowKeeps DEF Kept
<1>14. ASSUME NEW s \in Session,
              DisburseLoan(s) \/ CancelLoan(s) \/ PostPayment(s) \/ AccrueInterest(s)
       PROVE  Kept
  BY <1>14, HandlerKeeps DEF Kept
<1> QED
  BY <1>4, <1>5, <1>6, <1>7, <1>10, <1>11, <1>12, <1>13, <1>14
     DEF Next, SessionStep

\* Rows read under lock are current, locks exclusive and staged writes sound, in
\* every reachable state: the invariant the other theorems rest on.
THEOREM InductiveInvariant == Spec => []IInv
  BY InitIInv, NextIInv, PTL DEF Spec

\* A row read FOR UPDATE is the committed row until the session ends: no update
\* is lost, for any number of sessions.
THEOREM NoLostUpdate == Spec => []LockedRowsAreCurrent
<1>1. IInv => LockedRowsAreCurrent
  BY DEF IInv
<1> QED
  BY <1>1, InductiveInvariant, PTL

\* What a handler decided still holds when its caller commits.
THEOREM LateCommitIsSound == Spec => []StagedWritesAreSound
<1>1. IInv => StagedWritesAreSound
  BY DEF IInv
<1> QED
  BY <1>1, InductiveInvariant, PTL

---------------------------------------------------------------------------
(* Refinement: the commit of a transaction is one operation of the book,    *)
(* every other step of a session is a stutter.                              *)

\* A commit is one operation of the book, or none if nothing was written.
LEMMA CommitIsBookStep ==
  ASSUME IInv, NEW s \in Session, phase[s] = "flushed", Book!Apply(written[s]),
         today' = today
  PROVE  Book!Next
<1>1. Effect(s) /\ asOf[s] <= today
  BY DEF IInv, StagedWritesAreSound
<1>2. Held(s) \subseteq Loan /\ asOf[s] \in Day
  BY TypeOKParts DEF IInv, RowsOK, SessionsOK
<1>3. CASE DisbursementEffect(s)
  <2>1. PICK l \in Held(s), day \in Day :
          /\ loans[l].status = "pending_disbursement"
          /\ day <= today
          /\ written[s] = [x \in {l} |-> Disbursement(l, loans[l], day)]
    BY <1>3 DEF DisbursementEffect
  <2>2. [x \in {l} |-> Book!Disbursement(l, loans[l], day)] = written[s]
    BY <2>1, SameDisbursement
  <2>3. Book!Disburse(l, day)
    BY <2>1, <2>2 DEF Book!Disburse
  <2> QED
    BY <1>2, <2>3 DEF Book!Next, Book!Day, Day
<1>4. CASE CancellationEffect(s)
  <2>1. PICK l \in Held(s) :
          /\ loans[l].status = "pending_disbursement"
          /\ written[s] = [x \in {l} |-> Cancellation(loans[l])]
    BY <1>4 DEF CancellationEffect
  <2>2. [x \in {l} |-> Book!Cancellation(loans[l])] = written[s]
    BY <2>1, SameDisbursement
  <2>3. Book!Cancel(l)
    BY <2>1, <2>2 DEF Book!Cancel
  <2> QED
    BY <1>2, <2>3 DEF Book!Next
<1>5. CASE PaymentEffect(s)
  <2>1. PICK l \in Held(s), key \in Key, amount \in Amounts, date \in Day :
          /\ Book!Payable(l, loans[l], key, QuantizeMoney(amount), date)
          /\ written[s] = [x \in {l} |->
                             Posting(l, loans[l], key, QuantizeMoney(amount), date)]
    BY <1>5 DEF PaymentEffect
  <2>2. [x \in {l} |-> Book!Posting(l, loans[l], key, QuantizeMoney(amount), date)]
          = written[s]
    BY <2>1, SamePayment
  <2>3. Book!Pay(l, key, QuantizeMoney(amount), date)
    BY <2>1, <2>2 DEF Book!Pay
  <2>4. \E x \in Loan, k \in Key, a \in Amounts, d \in Day :
           Book!Pay(x, k, QuantizeMoney(a), d)
    BY <1>2, <2>3
  <2> QED
    BY <2>4, SameAmounts DEF Book!Next, Book!Day, Day
<1>6. CASE AccrualEffect(s)
  <2>1. PICK S \in SUBSET Held(s) :
          /\ \A l \in S : Book!AccrualDue(l, loans[l], asOf[s])
          /\ written[s] = [l \in S |-> Accrual(l, loans[l], asOf[s])]
    BY <1>6 DEF AccrualEffect
  <2>2. [l \in S |-> Book!Accrual(l, loans[l], asOf[s])] = written[s]
    BY <2>1, SameAccrued
  <2>3. Book!AccrueDue(S, asOf[s])
    BY <1>1, <2>1, <2>2 DEF Book!AccrueDue
  <2>4. S \in SUBSET Loan
    BY <1>2
  <2> QED
    BY <1>2, <2>3, <2>4 DEF Book!Next, Book!Day, Day
<1> QED
  BY <1>1, <1>3, <1>4, <1>5, <1>6 DEF Effect

\* Every step of the system is a step of the book or leaves the book alone.
LEMMA StepIsBookStep == IInv /\ [Next]_vars => [Book!Next]_(Book!book)
<1> SUFFICES ASSUME IInv, [Next]_vars
             PROVE  Book!Next \/ UNCHANGED <<tables, today>>
  BY DEF tables, Book!book, Book!tables
<1>1. CASE UNCHANGED vars
  BY <1>1 DEF vars
<1>2. CASE Tick
  BY <1>2 DEF Tick, Book!Next
<1>3. ASSUME NEW s \in Session, Respond(s) \/ LoseAnswer(s)
      PROVE  Book!Next \/ UNCHANGED <<tables, today>>
  <2>1. phase[s] = "flushed" /\ Commit(s) /\ today' = today
    BY <1>3 DEF Respond, LoseAnswer
  <2>2. CASE Book!Apply(written[s])
    BY <2>1, <2>2, CommitIsBookStep
  <2>3. CASE UNCHANGED tables
    BY <2>1, <2>3
  <2> QED
    BY <2>1, <2>2, <2>3 DEF Commit
<1>4. ASSUME NEW s \in Session, NEW k, NEW d, NEW q, Open(s, k, d, q)
      PROVE  UNCHANGED <<tables, today>>
  BY <1>4 DEF Open
<1>5. ASSUME NEW s \in Session,
             \/ \E w : Flush(s, w)
             \/ Refused(s)
      PROVE  UNCHANGED <<tables, today>>
  BY <1>5 DEF Flush, Refused
<1>6. ASSUME NEW s \in Session,
             DisburseLoan(s) \/ CancelLoan(s) \/ PostPayment(s) \/ AccrueInterest(s)
      PROVE  UNCHANGED <<tables, today>>
  <2>1. CASE DisburseLoan(s)
    BY <1>5, <2>1, Zenon DEF DisburseLoan
  <2>2. CASE CancelLoan(s)
    BY <1>5, <2>2, Zenon DEF CancelLoan
  <2>3. CASE PostPayment(s)
    BY <1>5, <2>3, Zenon DEF PostPayment
  <2>4. CASE AccrueInterest(s)
    BY <1>5, <2>4, Zenon DEF AccrueInterest
  <2> QED
    BY <1>6, <2>1, <2>2, <2>3, <2>4
<1>7. ASSUME NEW s \in Session,
             \/ \E k \in Kind, l \in Loan : OpenOnLoan(s, k, l)
             \/ OpenAccrual(s) \/ LockRow(s) \/ ReplayPayment(s)
             \/ Fail(s) \/ DeadlockVictim(s)
      PROVE  UNCHANGED <<tables, today>>
  <2>1. CASE \E k \in Kind, l \in Loan : OpenOnLoan(s, k, l)
    BY <1>4, <2>1 DEF OpenOnLoan
  <2>2. CASE OpenAccrual(s)
    BY <1>4, <2>2 DEF OpenAccrual
  <2>3. CASE LockRow(s)
    BY <2>3 DEF LockRow
  <2>4. CASE ReplayPayment(s)
    BY <2>4 DEF ReplayPayment
  <2>5. CASE Fail(s) \/ DeadlockVictim(s)
    BY <2>5 DEF Fail, DeadlockVictim, Refused
  <2> QED
    BY <1>7, <2>1, <2>2, <2>3, <2>4, <2>5
<1> QED
  BY <1>1, <1>2, <1>3, <1>6, <1>7 DEF Next, SessionStep

\* Transactions that lock the rows they read implement the book on which every
\* operation happens at one instant.
THEOREM Refinement == Spec => ImplementsBook
<1>1. Init => Book!Init
  BY DEF Init
<1> QED
  BY <1>1, StepIsBookStep, InductiveInvariant, PTL DEF Spec, ImplementsBook, Book!Spec
=============================================================================
