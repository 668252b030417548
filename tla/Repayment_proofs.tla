-------------------------- MODULE Repayment_proofs --------------------------
(***************************************************************************)
(* The contract's calendar, schedule and charges, for every contract: the  *)
(* due dates a loan steps through are those its quote lists, and who pays  *)
(* the quote's installments when due pays what the quote says.             *)
(***************************************************************************)
EXTENDS Repayment, FiniteSetTheorems, TLAPS

---------------------------------------------------------------------------
(* Induction on an interval of numbers, without an operator for the claim: *)
(* the claim is the set B of the numbers for which it holds.               *)

Inductive(B, lo, hi) ==
  /\ lo \in Int /\ hi \in Int /\ lo <= hi
  /\ B \in SUBSET (lo .. hi)
  /\ lo \in B
  /\ \A k \in B : k < hi => k + 1 \in B

\* Among the initial segments of an interval that lack a property there is a
\* shortest one.
LEMMA IntervalInduction ==
  ASSUME NEW B, NEW lo, NEW hi, Inductive(B, lo, hi)
  PROVE  B = lo .. hi
<1> USE DEF Inductive
<1> DEFINE I == lo .. hi
           C == {lo .. k : k \in I \ B}
<1> SUFFICES ASSUME I \ B # {}
             PROVE  FALSE
  OBVIOUS
<1>1. IsFiniteSet(I) /\ C # {} /\ C \in SUBSET (SUBSET I)
  <2>1. IsFiniteSet(I)
    BY FS_Interval
  <2>2. \A k \in I : lo .. k \in SUBSET I
    OBVIOUS
  <2> QED
    BY <2>1, <2>2
<1> HIDE DEF I, C
<1>2. IsWellFoundedOn(StrictSubsetOrdering(I), SUBSET I)
  BY <1>1, FS_StrictSubsetOrderingWellFounded, FS_FiniteSubsetsOfFinite
<1>3. PICK T \in C : \A U \in C : ~ (<<U, T>> \in StrictSubsetOrdering(I))
  BY <1>1, <1>2, WFMin
<1>4. \A U \in C : U \subseteq T => U = T
  BY <1>1, <1>3 DEF StrictSubsetOrdering
<1>5. PICK k \in I \ B : T = lo .. k
  BY <1>3 DEF C
<1>6. k # lo /\ k \in lo .. hi
  BY <1>5 DEF I
<1>7. k - 1 \in I /\ k - 1 \notin B
  BY <1>5, <1>6 DEF I
<1>8. lo .. k - 1 \in C /\ lo .. k - 1 \subseteq T
  BY <1>5, <1>6, <1>7 DEF C
<1>9. k \in T /\ k \notin lo .. k - 1
  BY <1>5, <1>6
<1> QED
  BY <1>4, <1>8, <1>9

\* Two functions that start alike and go on alike are alike.
GoAlike(f, g, lo, hi) ==
  /\ lo \in Int /\ hi \in Int /\ lo <= hi
  /\ f[lo] = g[lo]
  /\ \A k \in lo .. hi : k < hi /\ f[k] = g[k] => f[k + 1] = g[k + 1]

LEMMA Agree ==
  ASSUME NEW f, NEW g, NEW lo, NEW hi, GoAlike(f, g, lo, hi)
  PROVE  \A k \in lo .. hi : f[k] = g[k]
<1> USE DEF GoAlike
<1> DEFINE B == {k \in lo .. hi : f[k] = g[k]}
<1>1. Inductive(B, lo, hi)
  BY DEF Inductive
<1>2. B = lo .. hi
  <2> HIDE DEF B
  <2> QED
    BY <1>1, IntervalInduction
<1> QED
  BY <1>2

\* A value for every number of an interval, one from the other, makes a function.
Steps(step, lo, hi, V, a) ==
  /\ lo \in Int /\ hi \in Int /\ lo <= hi
  /\ a \in V
  /\ \A k \in lo + 1 .. hi : step[k] \in [V -> V]

Follows(f, step, lo, hi, a) ==
  /\ f[lo] = a
  /\ \A k \in lo + 1 .. hi : f[k] = step[k][f[k - 1]]

LEMMA Recursion ==
  ASSUME NEW step, NEW lo, NEW hi, NEW V, NEW a, Steps(step, lo, hi, V, a)
  PROVE  \E f \in [lo .. hi -> V] : Follows(f, step, lo, hi, a)
<1> USE DEF Steps
<1> DEFINE B == {m \in lo .. hi : \E f \in [lo .. m -> V] : Follows(f, step, lo, m, a)}
<1>1. lo \in B
  <2> DEFINE f == [k \in lo .. lo |-> a]
  <2>1. f \in [lo .. lo -> V] /\ Follows(f, step, lo, lo, a)
    BY DEF Follows
  <2> HIDE DEF f
  <2> QED
    BY <2>1
<1>2. ASSUME NEW m \in B, m < hi
      PROVE  m + 1 \in B
  <2>1. PICK g \in [lo .. m -> V] : Follows(g, step, lo, m, a)
    OBVIOUS
  <2>2. m \in lo .. hi /\ m \in Int /\ m + 1 \in lo + 1 .. hi
    BY <1>2
  <2> DEFINE v == step[m + 1][g[m]]
             f == [k \in lo .. m + 1 |-> IF k = m + 1 THEN v ELSE g[k]]
  <2>3. v \in V
    <3>1. g[m] \in V /\ step[m + 1] \in [V -> V]
      BY <2>2
    <3> QED
      BY <3>1
  <2> HIDE DEF v
  <2>4. f \in [lo .. m + 1 -> V]
    BY <2>2, <2>3
  <2>5. /\ f[m + 1] = v /\ lo \in lo .. m /\ m \in lo .. m
        /\ \A k \in lo .. m : f[k] = g[k]
    BY <2>2
  <2> HIDE DEF f
  <2>6. f[lo] = a
    BY <2>1, <2>5 DEF Follows
  <2>7. ASSUME NEW k \in lo + 1 .. m + 1
        PROVE  f[k] = step[k][f[k - 1]]
    <3>1. CASE k = m + 1
      <4>1. k - 1 = m
        BY <2>2, <3>1
      <4> QED
        BY <2>5, <3>1, <4>1 DEF v
    <3>2. CASE k # m + 1
      <4>1. k \in lo + 1 .. m /\ k \in lo .. m /\ k - 1 \in lo .. m
        BY <2>2, <3>2
      <4> QED
        BY <2>1, <2>5, <4>1 DEF Follows
    <3> QED
      BY <3>1, <3>2
  <2>8. Follows(f, step, lo, m + 1, a) /\ m + 1 \in lo .. hi
    BY <2>2, <2>6, <2>7 DEF Follows
  <2> QED
    BY <2>4, <2>8
<1>3. Inductive(B, lo, hi)
  BY <1>1, <1>2 DEF Inductive
<1> HIDE DEF B
<1>4. B = lo .. hi
  BY <1>3, IntervalInduction
<1>5. hi \in B
  BY <1>4
<1> QED
  BY <1>5 DEF B

---------------------------------------------------------------------------
(* The calendar.                                                           *)

\* A month has 28 to 31 days, by its number and the leap year.
LEMMA MonthLength ==
  ASSUME NEW y \in Int, NEW m \in 1 .. 12
  PROVE  /\ LastDay(y, m) \in 28 .. 31
         /\ LastDay(y, m) = LastDay(IF IsLeap(y) THEN 4 ELSE 1, m)
<1>1. IsLeap(4) /\ ~IsLeap(1)
  BY DEF IsLeap
<1> QED
  BY <1>1 DEF LastDay

\* days counts the days before the first of each month.
IsDays(days, leap) ==
  days = [m \in 1 .. 12 |->
            IF m = 1 THEN 0 ELSE days[m - 1] + LastDay(IF leap THEN 4 ELSE 1, m - 1)]

LEMMA DaysChosen ==
  ASSUME NEW leap \in BOOLEAN
  PROVE  \A m \in 1 .. 12 : DaysBefore[leap][m] = (CHOOSE days : IsDays(days, leap))[m]
BY DEF DaysBefore, IsDays

\* A month starts where the one before it ends.
LEMMA DaysBeforeMonth ==
  ASSUME NEW leap \in BOOLEAN
  PROVE  /\ DaysBefore[leap][1] = 0
         /\ \A m \in 1 .. 12 : DaysBefore[leap][m] \in Nat
         /\ \A m \in 1 .. 11 : DaysBefore[leap][m + 1]
               = DaysBefore[leap][m] + LastDay(IF leap THEN 4 ELSE 1, m)
<1> DEFINE len(m) == LastDay(IF leap THEN 4 ELSE 1, m)
           step == [m \in 2 .. 12 |-> [v \in Nat |-> v + len(m - 1)]]
<1>1. \A m \in 1 .. 12 : len(m) \in Nat
  BY MonthLength
<1>2. ASSUME NEW m \in 2 .. 12
      PROVE  /\ step[m] \in [Nat -> Nat]
             /\ \A v \in Nat : step[m][v] = v + len(m - 1)
  <2> HIDE DEF len
  <2>1. m - 1 \in 1 .. 12 /\ len(m - 1) \in Nat
    BY <1>1
  <2>2. step[m] = [v \in Nat |-> v + len(m - 1)]
    OBVIOUS
  <2>3. \A v \in Nat : v + len(m - 1) \in Nat
    BY <2>1
  <2> QED
    BY <2>2, <2>3
<1> HIDE DEF step
<1>3. PICK f \in [1 .. 12 -> Nat] : Follows(f, step, 1, 12, 0)
  <2>1. 1 + 1 .. 12 = 2 .. 12
    OBVIOUS
  <2>2. Steps(step, 1, 12, Nat, 0)
    <3>1. \A m \in 2 .. 12 : step[m] \in [Nat -> Nat]
      BY <1>2
    <3>2. ASSUME NEW m \in 1 + 1 .. 12
          PROVE  step[m] \in [Nat -> Nat]
      <4>1. m \in 2 .. 12
        OBVIOUS
      <4> QED
        BY <3>1, <4>1
    <3>3. 1 \in Int /\ 12 \in Int /\ 1 <= 12 /\ 0 \in Nat
      OBVIOUS
    <3> QED
      BY <3>2, <3>3, Zenon DEF Steps
  <2> QED
    BY <2>2, Recursion
<1>4. IsDays(f, leap)
  <2>1. \A m \in 1 .. 12 : m # 1 => m \in 2 .. 12 /\ f[m - 1] \in Nat
    BY <1>3
  <2>2. \A m \in 2 .. 12 : f[m] = step[m][f[m - 1]]
    <3>1. 1 + 1 .. 12 = 2 .. 12
      OBVIOUS
    <3> QED
      BY <1>3, <3>1 DEF Follows
  <2>3. f[1] = 0
    BY <1>3 DEF Follows
  <2>4. \A m \in 1 .. 12 : f[m] = IF m = 1 THEN 0 ELSE f[m - 1] + len(m - 1)
    BY <1>2, <2>1, <2>2, <2>3
  <2>5. f = [m \in 1 .. 12 |-> f[m]]
    BY <1>3
  <2> QED
    BY <2>4, <2>5 DEF IsDays
<1> DEFINE days == CHOOSE d : IsDays(d, leap)
<1>5. IsDays(days, leap)
  BY <1>4
<1>6. \A m \in 1 .. 12 : DaysBefore[leap][m] = days[m]
  BY DaysChosen
<1> HIDE DEF days, len
<1>7. \A m \in 1 .. 12 : days[m] = IF m = 1 THEN 0 ELSE days[m - 1] + len(m - 1)
  BY <1>5 DEF IsDays, len
<1>8. \A m \in 1 .. 11 : days[m + 1] = days[m] + len(m)
  <2> SUFFICES ASSUME NEW m \in 1 .. 11
               PROVE  days[m + 1] = days[m] + len(m)
    OBVIOUS
  <2>1. m + 1 \in 1 .. 12 /\ m + 1 # 1 /\ m + 1 - 1 = m
    OBVIOUS
  <2> QED
    BY <1>7, <2>1
<1>9. \A m \in 1 .. 12 : days[m] \in Nat
  <2> DEFINE B == {m \in 1 .. 12 : days[m] \in Nat}
  <2>1. Inductive(B, 1, 12)
    BY <1>1, <1>7, <1>8 DEF Inductive
  <2> HIDE DEF B
  <2>2. B = 1 .. 12
    BY <2>1, IntervalInduction
  <2> QED
    BY <2>2 DEF B
<1> QED
  BY <1>6, <1>7, <1>8, <1>9 DEF len

\* The last month of a year ends where the next year starts.
LEMMA YearLength ==
  ASSUME NEW leap \in BOOLEAN
  PROVE  DaysBefore[leap][12] = IF leap THEN 335 ELSE 334
<1> DEFINE d == DaysBefore[leap]
<1>1. /\ d[1] = 0
      /\ d[2] = d[1] + 31
      /\ d[3] = d[2] + IF leap THEN 29 ELSE 28
      /\ d[4] = d[3] + 31
      /\ d[5] = d[4] + 30
      /\ d[6] = d[5] + 31
  BY DaysBeforeMonth DEF LastDay, IsLeap
<1>2. /\ d[7] = d[6] + 30
      /\ d[8] = d[7] + 31
      /\ d[9] = d[8] + 31
      /\ d[10] = d[9] + 30
      /\ d[11] = d[10] + 31
      /\ d[12] = d[11] + 30
  BY DaysBeforeMonth DEF LastDay, IsLeap
<1> QED
  BY <1>1, <1>2


\* The day before the first of January.
YearStart(y) == 365 * (y - 1) + (y - 1) \div 4 - (y - 1) \div 100 + (y - 1) \div 400

\* A year has 365 days, a leap year 366.
LEMMA YearStep ==
  ASSUME NEW y \in Nat \ {0}
  PROVE  /\ YearStart(y) \in Int
         /\ YearStart(y + 1) = YearStart(y) + IF IsLeap(y) THEN 366 ELSE 365
<1>1. /\ y \div 4 = (y - 1) \div 4 + IF y % 4 = 0 THEN 1 ELSE 0
      /\ y \div 100 = (y - 1) \div 100 + IF y % 100 = 0 THEN 1 ELSE 0
      /\ y \div 400 = (y - 1) \div 400 + IF y % 400 = 0 THEN 1 ELSE 0
  OBVIOUS
<1>2. /\ y % 100 = 0 => y % 4 = 0
      /\ y % 400 = 0 => y % 100 = 0
  OBVIOUS
<1>3. y + 1 - 1 = y
  OBVIOUS
<1>4. /\ (y - 1) \div 4 \in Int /\ (y - 1) \div 100 \in Int /\ (y - 1) \div 400 \in Int
  OBVIOUS
<1> QED
  BY <1>1, <1>2, <1>3, <1>4 DEF YearStart, IsLeap

\* The number of a date.
LEMMA DayNumberOn ==
  ASSUME NEW y \in Nat \ {0}, NEW m \in 1 .. 12, NEW d \in Nat
  PROVE  /\ DayNumber(On(y, m, d)) = YearStart(y) + DaysBefore[IsLeap(y)][m] + d
         /\ DayNumber(On(y, m, d)) \in Int
<1>1. IsLeap(y) \in BOOLEAN
  BY DEF IsLeap
<1>2. DaysBefore[IsLeap(y)][m] \in Nat /\ YearStart(y) \in Int
  BY <1>1, DaysBeforeMonth, YearStep
<1> QED
  BY <1>2 DEF DayNumber, On, YearStart

\* From a day of one month to a day of the next.
LEMMA MonthStep ==
  ASSUME NEW y \in Nat \ {0}, NEW m \in 1 .. 11, NEW d \in Nat, NEW e \in Nat
  PROVE  DayNumber(On(y, m + 1, e)) = DayNumber(On(y, m, d)) + LastDay(y, m) - d + e
<1> DEFINE leap == IsLeap(y)
<1>1. leap \in BOOLEAN
  BY DEF IsLeap
<1> HIDE DEF leap
<1>2. /\ DaysBefore[leap][m] \in Nat /\ DaysBefore[leap][m + 1] \in Nat
      /\ DaysBefore[leap][m + 1] = DaysBefore[leap][m] + LastDay(IF leap THEN 4 ELSE 1, m)
  BY <1>1, DaysBeforeMonth
<1>3. LastDay(y, m) = LastDay(IF leap THEN 4 ELSE 1, m) /\ LastDay(y, m) \in Nat
  BY MonthLength DEF leap
<1>4. YearStart(y) \in Int
  BY YearStep
<1>5. /\ DayNumber(On(y, m, d)) = YearStart(y) + DaysBefore[leap][m] + d
      /\ DayNumber(On(y, m + 1, e)) = YearStart(y) + DaysBefore[leap][m + 1] + e
  <2>1. m \in 1 .. 12 /\ m + 1 \in 1 .. 12
    OBVIOUS
  <2> QED
    BY <2>1, DayNumberOn DEF leap
<1> QED
  BY <1>2, <1>3, <1>4, <1>5

\* From a day of December to a day of January.
LEMMA NewYearStep ==
  ASSUME NEW y \in Nat \ {0}, NEW d \in Nat, NEW e \in Nat
  PROVE  DayNumber(On(y + 1, 1, e)) = DayNumber(On(y, 12, d)) + 31 - d + e
<1> DEFINE leap == IsLeap(y)
           next == IsLeap(y + 1)
<1>1. leap \in BOOLEAN /\ next \in BOOLEAN
  BY DEF IsLeap
<1>2. YearStart(y) \in Int /\ YearStart(y + 1) = YearStart(y) + IF leap THEN 366 ELSE 365
  BY YearStep
<1>3. /\ DayNumber(On(y, 12, d)) = YearStart(y) + DaysBefore[leap][12] + d
      /\ DayNumber(On(y + 1, 1, e)) = YearStart(y + 1) + DaysBefore[next][1] + e
  <2>1. y + 1 \in Nat \ {0} /\ 1 \in 1 .. 12 /\ 12 \in 1 .. 12
    OBVIOUS
  <2> QED
    BY <2>1, DayNumberOn
<1> HIDE DEF leap, next
<1>4. DaysBefore[leap][12] = (IF leap THEN 335 ELSE 334) /\ DaysBefore[next][1] = 0
  BY <1>1, YearLength, DaysBeforeMonth
<1> QED
  BY <1>1, <1>2, <1>3, <1>4

\* A due date of a contract: on the day of the first one, or on the last day of
\* a shorter month; or on the 15th or the last day.
OnCycle(date, c) ==
  /\ date \in Date
  /\ IF c.payment_frequency = "monthly"
     THEN date = Clipped(date.year, date.month, c.first_due_date.day)
     ELSE HalfMonthly(date)

\* A clipped date is a date, of that month.
ClippedTo(date, y, m, d) ==
  /\ date \in Date
  /\ date.year = y /\ date.month = m
  /\ date.day \in 1 .. 31
  /\ date.day = IF d <= LastDay(y, m) THEN d ELSE LastDay(y, m)
  /\ date = On(y, m, date.day)

LEMMA ClippedDate ==
  ASSUME NEW y \in Nat \ {0}, NEW m \in 1 .. 12, NEW d \in 1 .. 31
  PROVE  ClippedTo(Clipped(y, m, d), y, m, d)
<1>1. LastDay(y, m) \in 28 .. 31
  BY MonthLength
<1> DEFINE e == IF d <= LastDay(y, m) THEN d ELSE LastDay(y, m)
<1>2. e \in 1 .. 31 /\ e <= LastDay(y, m)
  BY <1>1
<1>3. Clipped(y, m, d) = [year |-> y, month |-> m, day |-> e]
  BY DEF Clipped, On
<1> HIDE DEF e
<1>4. [year |-> y, month |-> m, day |-> e] \in Date
  BY <1>2 DEF Date
<1> QED
  BY <1>2, <1>3, <1>4 DEF On, e, ClippedTo

\* A date is the day, of the month, of the year it is of.
LEMMA DateOn ==
  ASSUME NEW date \in Date
  PROVE  /\ date.year \in Nat \ {0} /\ date.month \in 1 .. 12 /\ date.day \in 1 .. 31
         /\ date.day <= LastDay(date.year, date.month)
         /\ date = On(date.year, date.month, date.day)
         /\ DayNumber(date) \in Int
<1>1. /\ date.year \in Nat \ {0} /\ date.month \in 1 .. 12 /\ date.day \in 1 .. 31
      /\ date.day <= LastDay(date.year, date.month)
  BY DEF Date
<1>2. date = On(date.year, date.month, date.day)
  BY DEF Date, On
<1>3. DayNumber(On(date.year, date.month, date.day)) \in Int
  <2>1. date.day \in Nat
    BY <1>1
  <2> HIDE DEF Date
  <2> QED
    BY <1>1, <2>1, DayNumberOn
<1> QED
  BY <1>1, <1>2, <1>3

\* From one due date to the next it is two weeks at least (13 days, from the
\* 15th of February to its end), and the next one is a due date of the contract.
LEMMA NextDueDate ==
  ASSUME NEW c \in Contract, NEW date, OnCycle(date, c)
  PROVE  /\ OnCycle(AdvanceDueDate(date, c), c)
         /\ DayNumber(AdvanceDueDate(date, c)) > DayNumber(date) + 12
<1> DEFINE y == date.year
           m == date.month
           d == date.day
           f == c.first_due_date.day
<1>1. date \in Date /\ c.first_due_date \in Date
  BY DEF OnCycle, Contract
<1>2. /\ y \in Nat \ {0} /\ m \in 1 .. 12 /\ d \in 1 .. 31 /\ d <= LastDay(y, m)
      /\ date = On(y, m, d) /\ f \in 1 .. 31 /\ DayNumber(date) \in Int
  BY <1>1, DateOn
<1>3. c.payment_frequency # "monthly" => d = 15 \/ d = LastDay(y, m)
  BY DEF OnCycle, HalfMonthly
<1>4. c.payment_frequency = "monthly" =>
        date = Clipped(y, m, f) /\ d = IF f <= LastDay(y, m) THEN f ELSE LastDay(y, m)
  <2>1. ClippedTo(Clipped(y, m, f), y, m, f)
    BY <1>2, ClippedDate
  <2> QED
    BY <2>1 DEF OnCycle, ClippedTo
<1> HIDE DEF y, m, d, f
<1>5. LastDay(y, m) \in 28 .. 31
  BY <1>2, MonthLength
\* A day of the month after.
<1>6. ASSUME NEW g \in 1 .. 31
      PROVE  \E z \in Nat \ {0}, k \in 1 .. 12 :
               /\ NextMonth(date, g) = Clipped(z, k, g)
               /\ DayNumber(NextMonth(date, g))
                    = DayNumber(date) + LastDay(y, m) - d + NextMonth(date, g).day
  <2>1. CASE m = 12
    <3> DEFINE e == Clipped(y + 1, 1, g).day
    <3>1. NextMonth(date, g) = Clipped(y + 1, 1, g)
      BY <2>1 DEF NextMonth, m, y
    <3>2. y + 1 \in Nat \ {0} /\ 1 \in 1 .. 12
      BY <1>2
    <3>3. Clipped(y + 1, 1, g) = On(y + 1, 1, e) /\ e \in Nat
      <4>1. ClippedTo(Clipped(y + 1, 1, g), y + 1, 1, g)
        BY <3>2, ClippedDate
      <4> QED
        BY <4>1 DEF ClippedTo
    <3> HIDE DEF e
    <3>4. DayNumber(On(y + 1, 1, e)) = DayNumber(On(y, 12, d)) + 31 - d + e
      BY <1>2, <3>3, NewYearStep
    <3>5. LastDay(y, m) = 31
      BY <2>1 DEF LastDay
    <3>6. NextMonth(date, g).day = e
      BY <3>1 DEF e
    <3> QED
      BY <1>2, <2>1, <3>1, <3>2, <3>3, <3>4, <3>5, <3>6
  <2>2. CASE m # 12
    <3> DEFINE e == Clipped(y, m + 1, g).day
    <3>1. NextMonth(date, g) = Clipped(y, m + 1, g)
      BY <2>2 DEF NextMonth, m, y
    <3>2. m + 1 \in 1 .. 12 /\ m \in 1 .. 11
      BY <1>2, <2>2
    <3>3. Clipped(y, m + 1, g) = On(y, m + 1, e) /\ e \in Nat
      <4>1. ClippedTo(Clipped(y, m + 1, g), y, m + 1, g)
        BY <1>2, <3>2, ClippedDate
      <4> QED
        BY <4>1 DEF ClippedTo
    <3> HIDE DEF e
    <3>4. DayNumber(On(y, m + 1, e)) = DayNumber(On(y, m, d)) + LastDay(y, m) - d + e
      BY <1>2, <3>2, <3>3, MonthStep
    <3>6. NextMonth(date, g).day = e
      BY <3>1 DEF e
    <3> QED
      BY <1>2, <3>1, <3>2, <3>3, <3>4, <3>6
  <2> QED
    BY <2>1, <2>2
<1>7. CASE c.payment_frequency = "monthly"
  <2>1. PICK z \in Nat \ {0}, k \in 1 .. 12 :
          /\ NextMonth(date, f) = Clipped(z, k, f)
          /\ DayNumber(NextMonth(date, f))
               = DayNumber(date) + LastDay(y, m) - d + NextMonth(date, f).day
    BY <1>2, <1>6
  <2> DEFINE next == NextMonth(date, f)
             e    == next.day
  <2>2. AdvanceDueDate(date, c) = next
    BY <1>7 DEF AdvanceDueDate, f
  <2>3. /\ next \in Date /\ next.year = z /\ next.month = k /\ e \in 1 .. 31
        /\ e = IF f <= LastDay(z, k) THEN f ELSE LastDay(z, k)
    <3>1. ClippedTo(Clipped(z, k, f), z, k, f)
      BY <1>2, <2>1, ClippedDate
    <3> QED
      BY <2>1, <3>1 DEF ClippedTo
  <2>4. LastDay(z, k) \in 28 .. 31
    BY <2>1, MonthLength
  <2>5. OnCycle(next, c)
    BY <1>7, <2>1, <2>3 DEF OnCycle, f
  <2>6. DayNumber(next) = DayNumber(date) + LastDay(y, m) - d + e
    BY <2>1
  <2> HIDE DEF next, e
  <2>7. DayNumber(next) > DayNumber(date) + 12
    BY <1>2, <1>4, <1>5, <1>7, <2>3, <2>4, <2>6
  <2> QED
    BY <2>2, <2>5, <2>7
<1>8. CASE c.payment_frequency # "monthly" /\ d = 15
  <2> DEFINE l == LastDay(y, m)
  <2>1. AdvanceDueDate(date, c) = On(y, m, l)
    BY <1>8 DEF AdvanceDueDate, y, m, d
  <2>2. DayNumber(On(y, m, l)) = DayNumber(On(y, m, d)) - d + l
    <3>1. l \in Nat /\ d \in Nat /\ YearStart(y) \in Int
      BY <1>2, <1>5, YearStep
    <3>2. IsLeap(y) \in BOOLEAN
      BY DEF IsLeap
    <3>3. DaysBefore[IsLeap(y)][m] \in Nat
      BY <1>2, <3>2, DaysBeforeMonth
    <3>4. /\ DayNumber(On(y, m, l)) = YearStart(y) + DaysBefore[IsLeap(y)][m] + l
          /\ DayNumber(On(y, m, d)) = YearStart(y) + DaysBefore[IsLeap(y)][m] + d
      BY <1>2, <3>1, DayNumberOn
    <3> HIDE DEF l
    <3> QED
      BY <3>1, <3>3, <3>4
  <2>3. On(y, m, l) \in Date /\ HalfMonthly(On(y, m, l))
    BY <1>2, <1>5 DEF Date, HalfMonthly, On
  <2>4. OnCycle(On(y, m, l), c)
    BY <1>8, <2>3 DEF OnCycle
  <2> QED
    BY <1>2, <1>5, <1>8, <2>1, <2>2, <2>4
<1>9. CASE c.payment_frequency # "monthly" /\ d # 15
  <2>1. PICK z \in Nat \ {0}, k \in 1 .. 12 :
          /\ NextMonth(date, 15) = Clipped(z, k, 15)
          /\ DayNumber(NextMonth(date, 15))
               = DayNumber(date) + LastDay(y, m) - d + NextMonth(date, 15).day
    BY <1>6
  <2> DEFINE next == NextMonth(date, 15)
             e    == next.day
  <2>2. AdvanceDueDate(date, c) = next
    BY <1>9 DEF AdvanceDueDate, d
  <2>3. LastDay(z, k) \in 28 .. 31
    BY <2>1, MonthLength
  <2>4. next \in Date /\ e = 15
    <3>1. 15 \in 1 .. 31
      OBVIOUS
    <3>2. ClippedTo(Clipped(z, k, 15), z, k, 15)
      BY <2>1, <3>1, ClippedDate
    <3> QED
      BY <2>1, <2>3, <3>2 DEF ClippedTo
  <2>5. OnCycle(next, c)
    BY <1>9, <2>4 DEF OnCycle, HalfMonthly
  <2>6. DayNumber(next) = DayNumber(date) + LastDay(y, m) - d + e
    BY <2>1
  <2> HIDE DEF next, e
  <2>7. DayNumber(next) > DayNumber(date) + 12
    BY <1>2, <1>3, <1>5, <1>9, <2>4, <2>6
  <2> QED
    BY <2>2, <2>5, <2>7
<1> QED
  BY <1>7, <1>8, <1>9

---------------------------------------------------------------------------
(* Due dates: the list of them, and the steps from each to the next.       *)

\* The states of the second loop of build_due_dates.
Half == [year : Nat \ {0}, month : 1 .. 12, fifteenth : BOOLEAN]

FirstHalf(c) == [year |-> c.first_due_date.year, month |-> c.first_due_date.month,
                 fifteenth |-> c.first_due_date.day = 15]

NextHalf(h) ==
  IF h.fifteenth    THEN [h EXCEPT !.fifteenth = FALSE]
  ELSE IF h.month = 12
       THEN [year |-> h.year + 1, month |-> 1, fifteenth |-> TRUE]
       ELSE [h EXCEPT !.month = @ + 1, !.fifteenth = TRUE]

IsHalves(half, c, n) ==
  half = [i \in 1 .. n |-> IF i = 1 THEN FirstHalf(c) ELSE NextHalf(half[i - 1])]

HalvesOf(c, n) == CHOOSE half : IsHalves(half, c, n)

DateOfHalf(h) == On(h.year, h.month, IF h.fifteenth THEN 15 ELSE LastDay(h.year, h.month))

MonthlyDate(c, k) ==
  Clipped(c.first_due_date.year + k \div 12, (k % 12) + 1, c.first_due_date.day)

\* The two lists, by what their elements are.
LEMMA DueDatesListed ==
  ASSUME NEW c, NEW n
  PROVE  BuildDueDates(c, n)
           = [i \in 1 .. n |-> IF c.payment_frequency = "monthly"
                               THEN MonthlyDate(c, c.first_due_date.month - 1 + i - 1)
                               ELSE DateOfHalf(HalvesOf(c, n)[i])]
BY DEF BuildDueDates, MonthlyDate, DateOfHalf, HalvesOf, IsHalves, FirstHalf, NextHalf

\* The half months follow each other.
LEMMA Halves ==
  ASSUME NEW c \in Contract, NEW n \in Nat \ {0}
  PROVE  /\ HalvesOf(c, n) \in [1 .. n -> Half]
         /\ HalvesOf(c, n)[1] = FirstHalf(c)
         /\ \A i \in 1 .. n : i < n => HalvesOf(c, n)[i + 1] = NextHalf(HalvesOf(c, n)[i])
<1> DEFINE step == [i \in 1 + 1 .. n |-> [h \in Half |-> NextHalf(h)]]
<1>1. FirstHalf(c) \in Half
  <2>1. c.first_due_date \in Date
    BY DEF Contract
  <2> QED
    BY <2>1, DateOn DEF FirstHalf, Half
<1>2. ASSUME NEW h \in Half
      PROVE  NextHalf(h) \in Half
  <2>1. /\ h.year \in Nat \ {0} /\ h.month \in 1 .. 12
        /\ h = [year |-> h.year, month |-> h.month, fifteenth |-> h.fifteenth]
    BY DEF Half
  <2>2. CASE h.fifteenth
    <3>1. NextHalf(h) = [year |-> h.year, month |-> h.month, fifteenth |-> FALSE]
      BY <2>1, <2>2 DEF NextHalf
    <3> QED
      BY <2>1, <3>1 DEF Half
  <2>3. CASE ~h.fifteenth /\ h.month = 12
    <3>1. NextHalf(h) = [year |-> h.year + 1, month |-> 1, fifteenth |-> TRUE]
      BY <2>3 DEF NextHalf
    <3> QED
      BY <2>1, <3>1 DEF Half
  <2>4. CASE ~h.fifteenth /\ h.month # 12
    <3>1. NextHalf(h) = [year |-> h.year, month |-> h.month + 1, fifteenth |-> TRUE]
      BY <2>1, <2>4 DEF NextHalf
    <3>2. h.month + 1 \in 1 .. 12
      BY <2>1, <2>4
    <3> QED
      BY <2>1, <3>1, <3>2 DEF Half
  <2> QED
    BY <2>2, <2>3, <2>4
<1>3. Steps(step, 1, n, Half, FirstHalf(c))
  <2>1. \A i \in 1 + 1 .. n : step[i] \in [Half -> Half]
    BY <1>2
  <2>2. 1 \in Int /\ n \in Int /\ 1 <= n
    OBVIOUS
  <2> HIDE DEF step
  <2> QED
    BY <1>1, <2>1, <2>2, Zenon DEF Steps
<1>4. \A i \in 1 + 1 .. n, h \in Half : step[i][h] = NextHalf(h)
  OBVIOUS
<1> HIDE DEF step
<1>5. PICK f \in [1 .. n -> Half] : Follows(f, step, 1, n, FirstHalf(c))
  BY <1>3, Recursion
<1>6. f[1] = FirstHalf(c) /\ \A i \in 1 + 1 .. n : f[i] = NextHalf(f[i - 1])
  <2>1. \A i \in 1 + 1 .. n : i - 1 \in 1 .. n
    OBVIOUS
  <2>2. f[1] = FirstHalf(c) /\ \A i \in 1 + 1 .. n : f[i] = step[i][f[i - 1]]
    BY <1>5 DEF Follows
  <2> QED
    BY <1>4, <2>1, <2>2
<1>7. IsHalves(f, c, n)
  <2>1. \A i \in 1 .. n : i # 1 => i \in 1 + 1 .. n
    OBVIOUS
  <2>2. \A i \in 1 .. n : f[i] = IF i = 1 THEN FirstHalf(c) ELSE NextHalf(f[i - 1])
    BY <1>6, <2>1
  <2> QED
    BY <2>2 DEF IsHalves
<1> DEFINE half == HalvesOf(c, n)
<1>8. IsHalves(half, c, n)
  BY <1>7 DEF HalvesOf
<1> HIDE DEF half
<1>9. /\ half = [i \in 1 .. n |-> half[i]]
      /\ \A i \in 1 .. n : half[i] = IF i = 1 THEN FirstHalf(c) ELSE NextHalf(half[i - 1])
  BY <1>8 DEF IsHalves
<1>10. half[1] = FirstHalf(c)
  <2>1. 1 \in 1 .. n
    OBVIOUS
  <2> QED
    BY <1>9, <2>1
<1>11. \A i \in 1 .. n : i < n => half[i + 1] = NextHalf(half[i])
  <2> SUFFICES ASSUME NEW i \in 1 .. n, i < n
               PROVE  half[i + 1] = NextHalf(half[i])
    OBVIOUS
  <2>1. i + 1 \in 1 .. n /\ i + 1 # 1 /\ i + 1 - 1 = i
    OBVIOUS
  <2> QED
    <3>1. PICK j \in 1 .. n : j = i + 1 /\ j # 1 /\ j - 1 = i
      BY <2>1
    <3>2. half[j] = NextHalf(half[j - 1])
      BY <1>9, <3>1
    <3> QED
      BY <3>1, <3>2
<1>12. \A i \in 1 .. n : half[i] \in Half
  <2> DEFINE B == {i \in 1 .. n : half[i] \in Half}
  <2>1. 1 \in B
    BY <1>1, <1>10
  <2>2. Inductive(B, 1, n)
    BY <1>2, <1>11, <2>1 DEF Inductive
  <2> HIDE DEF B
  <2>3. B = 1 .. n
    BY <2>2, IntervalInduction
  <2> QED
    BY <2>3 DEF B
<1>13. half \in [1 .. n -> Half]
  BY <1>9, <1>12
<1> QED
  BY <1>10, <1>11, <1>13 DEF half

\* The date of the next half month is the next due date.
LEMMA NextHalfMonth ==
  ASSUME NEW h \in Half, NEW c, c.payment_frequency # "monthly"
  PROVE  AdvanceDueDate(DateOfHalf(h), c) = DateOfHalf(NextHalf(h))
<1>1. /\ h.year \in Nat \ {0} /\ h.month \in 1 .. 12 /\ h.fifteenth \in BOOLEAN
      /\ h = [year |-> h.year, month |-> h.month, fifteenth |-> h.fifteenth]
  BY DEF Half
<1>2. LastDay(h.year, h.month) \in 28 .. 31
  BY <1>1, MonthLength
<1> DEFINE date == DateOfHalf(h)
<1>3. /\ date.year = h.year /\ date.month = h.month
      /\ date.day = 15 <=> h.fifteenth
  BY <1>1, <1>2 DEF DateOfHalf, On
<1>4. CASE h.fifteenth
  <2>1. NextHalf(h) = [year |-> h.year, month |-> h.month, fifteenth |-> FALSE]
    BY <1>1, <1>4 DEF NextHalf
  <2>2. DateOfHalf(NextHalf(h)) = On(h.year, h.month, LastDay(h.year, h.month))
    BY <2>1 DEF DateOfHalf
  <2> HIDE DEF date
  <2>3. AdvanceDueDate(date, c) = On(date.year, date.month, LastDay(date.year, date.month))
    BY <1>3, <1>4 DEF AdvanceDueDate
  <2> QED
    BY <1>3, <2>2, <2>3 DEF date
<1>5. CASE ~h.fifteenth
  <2> HIDE DEF date
  <2>1. AdvanceDueDate(date, c) = NextMonth(date, 15)
    BY <1>3, <1>5 DEF AdvanceDueDate
  <2>2. CASE h.month = 12
    <3>1. NextHalf(h) = [year |-> h.year + 1, month |-> 1, fifteenth |-> TRUE]
      BY <1>5, <2>2 DEF NextHalf
    <3>2. DateOfHalf(NextHalf(h)) = On(h.year + 1, 1, 15)
      BY <3>1 DEF DateOfHalf
    <3>3. NextMonth(date, 15) = Clipped(h.year + 1, 1, 15)
      BY <1>3, <2>2 DEF NextMonth
    <3>4. LastDay(h.year + 1, 1) = 31
      BY DEF LastDay
    <3> QED
      BY <2>1, <3>2, <3>3, <3>4 DEF Clipped, date
  <2>3. CASE h.month # 12
    <3>1. NextHalf(h) = [year |-> h.year, month |-> h.month + 1, fifteenth |-> TRUE]
      BY <1>1, <1>5, <2>3 DEF NextHalf
    <3>2. DateOfHalf(NextHalf(h)) = On(h.year, h.month + 1, 15)
      BY <3>1 DEF DateOfHalf
    <3>3. NextMonth(date, 15) = Clipped(h.year, h.month + 1, 15)
      BY <1>3, <2>3 DEF NextMonth
    <3>4. LastDay(h.year, h.month + 1) \in 28 .. 31
      BY <1>1, <2>3, MonthLength
    <3> QED
      BY <2>1, <3>2, <3>3, <3>4 DEF Clipped, date
  <2> QED
    BY <2>2, <2>3
<1> QED
  BY <1>1, <1>4, <1>5

\* The date of the next month is the next due date.
LEMMA NextMonthly ==
  ASSUME NEW c \in Contract, NEW k \in Nat, c.payment_frequency = "monthly"
  PROVE  AdvanceDueDate(MonthlyDate(c, k), c) = MonthlyDate(c, k + 1)
<1> DEFINE y == c.first_due_date.year + k \div 12
           m == (k % 12) + 1
           f == c.first_due_date.day
           date == MonthlyDate(c, k)
<1>1. c.first_due_date \in Date
  BY DEF Contract
<1>2. c.first_due_date.year \in Nat \ {0} /\ f \in 1 .. 31
  BY <1>1, DateOn
<1>3. y \in Nat \ {0} /\ m \in 1 .. 12
  <2>1. k \div 12 \in Nat /\ k % 12 \in 0 .. 11
    OBVIOUS
  <2>2. (k % 12) + 1 \in 1 .. 12
    BY <2>1
  <2>3. c.first_due_date.year + (k \div 12) \in Nat \ {0}
    <3>1. PICK q \in Nat : q = k \div 12
      BY <2>1
    <3>2. PICK z \in Nat \ {0} : z = c.first_due_date.year
      BY <1>2
    <3>3. z + q \in Nat \ {0}
      OBVIOUS
    <3> QED
      BY <3>1, <3>2, <3>3
  <2> QED
    BY <2>2, <2>3
<1>4. date = Clipped(y, m, f)
  BY DEF MonthlyDate
<1>5. IF m = 12 THEN (k + 1) \div 12 = k \div 12 + 1 /\ (k + 1) % 12 = 0
                ELSE (k + 1) \div 12 = k \div 12 /\ (k + 1) % 12 = (k % 12) + 1
  OBVIOUS
<1>6. MonthlyDate(c, k + 1)
        = IF m = 12 THEN Clipped(y + 1, 1, f) ELSE Clipped(y, m + 1, f)
  <2>1. CASE m = 12
    <3>1. /\ c.first_due_date.year + (k + 1) \div 12 = y + 1
          /\ ((k + 1) % 12) + 1 = 1
      BY <1>2, <1>5, <2>1
    <3> QED
      BY <2>1, <3>1 DEF MonthlyDate
  <2>2. CASE m # 12
    <3>1. /\ c.first_due_date.year + (k + 1) \div 12 = y
          /\ ((k + 1) % 12) + 1 = m + 1
      BY <1>2, <1>5, <2>2
    <3> QED
      BY <2>2, <3>1 DEF MonthlyDate
  <2> QED
    BY <2>1, <2>2
<1> HIDE DEF y, m, f, date
<1>7. ClippedTo(date, y, m, f)
  BY <1>2, <1>3, <1>4, ClippedDate
<1>8. AdvanceDueDate(date, c) = IF m = 12 THEN Clipped(y + 1, 1, f) ELSE Clipped(y, m + 1, f)
  BY <1>7 DEF AdvanceDueDate, NextMonth, ClippedTo, f
<1> QED
  BY <1>6, <1>8 DEF date

\* A list of due dates: from the first, each one by a step from the one before.
Stepping(dates, c, n) ==
  /\ n \in Nat \ {0}
  /\ DOMAIN dates = 1 .. n
  /\ dates[1] = c.first_due_date
  /\ \A i \in 1 .. n : i < n => dates[i + 1] = AdvanceDueDate(dates[i], c)

LEMMA DueDatesStep ==
  ASSUME NEW c \in Contract, Acceptable(c), NEW n \in Nat \ {0}
  PROVE  Stepping(BuildDueDates(c, n), c, n)
<1> DEFINE dates == BuildDueDates(c, n)
           first == c.first_due_date
<1>1. /\ first \in Date
      /\ c.payment_frequency # "monthly" => HalfMonthly(first)
  BY DEF Contract, Acceptable
<1>2. /\ first.year \in Nat \ {0} /\ first.month \in 1 .. 12 /\ first.day \in 1 .. 31
      /\ first.day <= LastDay(first.year, first.month)
      /\ first = On(first.year, first.month, first.day)
  BY <1>1, DateOn
<1>3. DOMAIN dates = 1 .. n
  BY DueDatesListed
<1>4. 1 \in 1 .. n
  OBVIOUS
<1>5. CASE c.payment_frequency = "monthly"
  <2> DEFINE k(i) == first.month - 1 + i - 1
  <2>1. \A i \in 1 .. n : dates[i] = MonthlyDate(c, k(i))
    BY <1>5, DueDatesListed
  <2> HIDE DEF dates
  <2>2. dates[1] = first
    <3>1. k(1) \div 12 = 0 /\ (k(1) % 12) = first.month - 1
      BY <1>2
    <3>2. first.year + k(1) \div 12 = first.year /\ (k(1) % 12) + 1 = first.month
      BY <1>2, <3>1
    <3> HIDE DEF k
    <3>3. dates[1] = Clipped(first.year, first.month, first.day)
      BY <1>4, <2>1, <3>2 DEF MonthlyDate
    <3> QED
      BY <1>2, <3>3 DEF Clipped
  <2>3. ASSUME NEW i \in 1 .. n, i < n
        PROVE  dates[i + 1] = AdvanceDueDate(dates[i], c)
    <3>1. i + 1 \in 1 .. n
      BY <2>3
    <3>2. k(i + 1) = k(i) + 1 /\ k(i) \in Nat
      BY <1>2, <2>3
    <3> HIDE DEF k, first
    <3>3. AdvanceDueDate(MonthlyDate(c, k(i)), c) = MonthlyDate(c, k(i) + 1)
      BY <1>5, <3>2, NextMonthly
    <3> QED
      BY <2>1, <3>1, <3>2, <3>3
  <2> QED
    BY <1>3, <2>2, <2>3 DEF Stepping, dates
<1>6. CASE c.payment_frequency # "monthly"
  <2> DEFINE half == HalvesOf(c, n)
  <2>1. \A i \in 1 .. n : dates[i] = DateOfHalf(half[i])
    BY <1>6, DueDatesListed
  <2>2. /\ \A i \in 1 .. n : half[i] \in Half
        /\ half[1] = FirstHalf(c)
        /\ \A i \in 1 .. n : i < n => half[i + 1] = NextHalf(half[i])
    BY Halves
  <2> HIDE DEF dates, half
  <2>3. dates[1] = first
    <3>1. dates[1] = DateOfHalf(FirstHalf(c))
      BY <1>4, <2>1, <2>2
    <3>2. DateOfHalf(FirstHalf(c))
            = On(first.year, first.month,
                 IF first.day = 15 THEN 15 ELSE LastDay(first.year, first.month))
      BY DEF DateOfHalf, FirstHalf
    <3> QED
      BY <1>1, <1>2, <1>6, <3>1, <3>2 DEF HalfMonthly
  <2>4. ASSUME NEW i \in 1 .. n, i < n
        PROVE  dates[i + 1] = AdvanceDueDate(dates[i], c)
    <3>1. i + 1 \in 1 .. n
      BY <2>4
    <3>2. AdvanceDueDate(DateOfHalf(half[i]), c) = DateOfHalf(NextHalf(half[i]))
      BY <1>6, <2>2, NextHalfMonth
    <3> QED
      BY <2>1, <2>2, <2>4, <3>1, <3>2
  <2> QED
    BY <1>3, <2>3, <2>4 DEF Stepping, dates
<1> QED
  BY <1>5, <1>6

\* Two such lists agree as far as both of them go.
LEMMA DueDatesAgree ==
  ASSUME NEW c, NEW f, NEW g, NEW m, NEW n, Stepping(f, c, m), Stepping(g, c, n), m <= n
  PROVE  \A i \in 1 .. m : f[i] = g[i]
<1>1. GoAlike(f, g, 1, m)
  <2>1. \A i \in 1 .. m : i < m => i < n /\ i \in 1 .. n
    BY DEF Stepping
  <2> QED
    BY <2>1 DEF Stepping, GoAlike
<1> QED
  BY <1>1, Agree

\* Every date of such a list is one of the contract's, and later than the one
\* before it by two weeks.
Spaced(dates, n) ==
  /\ \A i \in 1 .. n : DayNumber(dates[i]) \in Int
  /\ \A i \in 1 .. n : i < n => DayNumber(dates[i + 1]) > DayNumber(dates[i]) + 12

LEMMA DueDatesSpaced ==
  ASSUME NEW c \in Contract, Acceptable(c), NEW dates, NEW n, Stepping(dates, c, n)
  PROVE  (\A i \in 1 .. n : OnCycle(dates[i], c)) /\ Spaced(dates, n)
<1> DEFINE first == c.first_due_date
           B == {i \in 1 .. n : OnCycle(dates[i], c)}
<1>1. OnCycle(first, c)
  <2>1. /\ first \in Date
        /\ c.payment_frequency # "monthly" => HalfMonthly(first)
    BY DEF Contract, Acceptable
  <2>2. /\ first.day <= LastDay(first.year, first.month)
        /\ first = On(first.year, first.month, first.day)
    BY <2>1, DateOn
  <2>3. first = Clipped(first.year, first.month, first.day)
    BY <2>2 DEF Clipped
  <2> HIDE DEF first
  <2> QED
    BY <2>1, <2>3 DEF OnCycle, first
<1>2. Inductive(B, 1, n)
  <2>1. 1 \in B
    BY <1>1 DEF Stepping
  <2>2. ASSUME NEW i \in B, i < n
        PROVE  i + 1 \in B
    <3>1. i + 1 \in 1 .. n /\ dates[i + 1] = AdvanceDueDate(dates[i], c)
      BY <2>2 DEF Stepping
    <3> QED
      BY <3>1, NextDueDate
  <2> QED
    BY <2>1, <2>2 DEF Inductive, Stepping
<1> HIDE DEF B
<1>3. \A i \in 1 .. n : OnCycle(dates[i], c)
  <2>1. B = 1 .. n
    BY <1>2, IntervalInduction
  <2> QED
    BY <2>1 DEF B
<1>4. \A i \in 1 .. n : DayNumber(dates[i]) \in Int
  BY <1>3, DateOn DEF OnCycle
<1>5. ASSUME NEW i \in 1 .. n, i < n
      PROVE  DayNumber(dates[i + 1]) > DayNumber(dates[i]) + 12
  <2>1. dates[i + 1] = AdvanceDueDate(dates[i], c)
    BY <1>5 DEF Stepping
  <2> QED
    BY <1>3, <2>1, NextDueDate
<1> QED
  BY <1>3, <1>4, <1>5 DEF Spaced

\* So the dates are in order.
LEMMA SpacedOrdered ==
  ASSUME NEW dates, NEW n \in Nat, Spaced(dates, n)
  PROVE  \A i, j \in 1 .. n : i < j => DayNumber(dates[i]) + 12 < DayNumber(dates[j])
<1> DEFINE day(i) == DayNumber(dates[i])
<1> SUFFICES ASSUME NEW i \in 1 .. n
             PROVE  \A j \in 1 .. n : i < j => day(i) + 12 < day(j)
  OBVIOUS
<1>1. /\ \A k \in 1 .. n : day(k) \in Int
      /\ \A k \in 1 .. n : k < n => day(k + 1) > day(k) + 12
  BY DEF Spaced
<1> HIDE DEF day
<1> DEFINE B == {j \in i .. n : i = j \/ day(i) + 12 < day(j)}
<1>2. ASSUME NEW k \in B, k < n
      PROVE  k + 1 \in B
  <2>1. k \in 1 .. n /\ k + 1 \in 1 .. n /\ k + 1 \in i .. n
    BY <1>2
  <2>2. day(i) \in Int /\ day(k) \in Int /\ day(k + 1) \in Int /\ day(k + 1) > day(k) + 12
    BY <1>1, <1>2, <2>1
  <2>3. day(i) + 12 < day(k + 1)
    BY <2>2
  <2> QED
    BY <2>1, <2>3
<1>3. Inductive(B, i, n)
  BY <1>2 DEF Inductive
<1> HIDE DEF B
<1>4. B = i .. n
  BY <1>3, IntervalInduction
<1> QED
  BY <1>4 DEF B

---------------------------------------------------------------------------
(* Amounts.                                                                *)

\* A quotient is between.
LEMMA Quotient ==
  ASSUME NEW x \in Nat, NEW y \in Nat \ {0}
  PROVE  /\ x \div y \in Nat
         /\ y * (x \div y) <= x
         /\ x < y * (x \div y) + y
OBVIOUS

\* The order of two fractions of naturals ...
NotMore(a, b, d, e) ==
  /\ a \in Nat /\ b \in Nat \ {0} /\ d \in Nat /\ e \in Nat \ {0}
  /\ a * e <= d * b

\* ... is kept when they are rounded, half up;
LEMMA QuantizedOrder ==
  ASSUME NEW a, NEW b, NEW d, NEW e, NotMore(a, b, d, e)
  PROVE  Quantized(a, b) <= Quantized(d, e)
<1> USE DEF NotMore
<1> DEFINE q == (2 * a + b) \div (2 * b)
           r == (2 * d + e) \div (2 * e)
<1>1. Quantized(a, b) = q /\ Quantized(d, e) = r
  BY DEF Quantized
<1>2. q \in Nat /\ (2 * b) * q <= 2 * a + b
  <2>1. 2 * a + b \in Nat /\ 2 * b \in Nat \ {0}
    OBVIOUS
  <2> QED
    BY <2>1, Quotient
<1>3. r \in Nat /\ 2 * d + e < (2 * e) * r + 2 * e
  <2>1. 2 * d + e \in Nat /\ 2 * e \in Nat \ {0}
    OBVIOUS
  <2> QED
    BY <2>1, Quotient
<1> HIDE DEF q, r
<1> SUFFICES ASSUME r + 1 <= q
             PROVE  FALSE
  BY <1>1, <1>2, <1>3
<1>4. e * ((2 * b) * q) <= e * (2 * a + b)
  BY <1>2
<1>5. b * (2 * d + e) < b * ((2 * e) * r + 2 * e)
  BY <1>3
<1>6. (2 * b * e) * (r + 1) <= (2 * b * e) * q
  BY <1>2, <1>3
<1>7. /\ e * ((2 * b) * q) = (2 * b * e) * q
      /\ b * ((2 * e) * r + 2 * e) = (2 * b * e) * (r + 1)
      /\ e * (2 * a + b) = 2 * (a * e) + b * e
      /\ b * (2 * d + e) = 2 * (d * b) + b * e
  BY <1>2, <1>3
<1>8. PICK v \in Nat, w \in Nat, x \in Nat, y \in Nat, z \in Nat :
        /\ v = a * e /\ w = d * b /\ x = b * e
        /\ y = (2 * b * e) * q /\ z = (2 * b * e) * (r + 1)
  BY <1>2, <1>3
<1>9. y <= 2 * v + x /\ 2 * w + x < z /\ z <= y /\ v <= w
  BY <1>4, <1>5, <1>6, <1>7, <1>8
<1> QED
  BY <1>9

LEMMA QuantizedNat ==
  ASSUME NEW a \in Nat, NEW b \in Nat \ {0}
  PROVE  Quantized(a, b) \in Nat
BY DEF Quantized

\* and so is the order of two balances, in what is owed on them for a period.
LEMMA PeriodInterestOrder ==
  ASSUME NEW c \in Contract, Acceptable(c), NEW p \in Int, NEW q \in Int, p <= q
  PROVE  /\ PeriodInterest(p, c) \in Int
         /\ PeriodInterest(p, c) <= PeriodInterest(q, c)
         /\ p >= 0 => PeriodInterest(p, c) \in Nat
<1>1. c.rate \in Nat /\ RateBase \in Nat \ {0}
  BY ScheduleAssumption DEF Contract, Acceptable
<1> DEFINE a == p * c.rate
           b == q * c.rate
<1>2. a \in Int /\ b \in Int /\ a <= b /\ (p >= 0 => a >= 0)
  BY <1>1
<1>3. PeriodInterest(p, c) = Quantized(a, RateBase) /\ PeriodInterest(q, c) = Quantized(b, RateBase)
  BY DEF PeriodInterest
<1> HIDE DEF a, b
<1>4. CASE a >= 0
  <2>1. NotMore(a, RateBase, b, RateBase)
    BY <1>1, <1>2, <1>4 DEF NotMore
  <2>2. Quantized(a, RateBase) <= Quantized(b, RateBase)
    BY <2>1, QuantizedOrder
  <2>3. a \in Nat /\ b \in Nat
    BY <1>2, <1>4
  <2>4. Quantized(a, RateBase) \in Nat
    BY <1>1, <2>3, QuantizedNat
  <2> QED
    BY <1>3, <2>2, <2>4
<1>5. CASE a < 0
  <2>1. /\ -a \in Nat /\ Quantized(a, RateBase) = -Quantized(-a, RateBase)
        /\ Quantized(-a, RateBase) \in Nat
    <3>1. -a \in Nat
      BY <1>2, <1>5
    <3>2. Quantized(-a, RateBase) = (2 * (-a) + RateBase) \div (2 * RateBase)
      BY <1>1, <3>1 DEF Quantized
    <3>3. Quantized(a, RateBase) = -((2 * (-a) + RateBase) \div (2 * RateBase))
      BY <1>2, <1>5 DEF Quantized
    <3> QED
      BY <1>1, <3>1, <3>2, <3>3, QuantizedNat
  <2>2. CASE b >= 0
    <3>1. Quantized(b, RateBase) \in Nat
      BY <1>1, <1>2, <2>2, QuantizedNat
    <3> QED
      BY <1>2, <1>3, <1>5, <2>1, <3>1
  <2>3. CASE b < 0
    <3>1. /\ -b \in Nat /\ Quantized(b, RateBase) = -Quantized(-b, RateBase)
          /\ Quantized(-b, RateBase) \in Nat
      <4>1. -b \in Nat
        BY <1>2, <2>3
      <4>2. Quantized(-b, RateBase) = (2 * (-b) + RateBase) \div (2 * RateBase)
        BY <1>1, <4>1 DEF Quantized
      <4>3. Quantized(b, RateBase) = -((2 * (-b) + RateBase) \div (2 * RateBase))
        BY <1>2, <2>3 DEF Quantized
      <4> QED
        BY <1>1, <4>1, <4>2, <4>3, QuantizedNat
    <3>2. NotMore(-b, RateBase, -a, RateBase)
      BY <1>1, <1>2, <2>1, <3>1 DEF NotMore
    <3>3. Quantized(-b, RateBase) <= Quantized(-a, RateBase)
      BY <3>2, QuantizedOrder
    <3> QED
      BY <1>2, <1>3, <1>5, <2>1, <3>1, <3>3
  <2> QED
    BY <1>2, <2>2, <2>3
<1> QED
  BY <1>2, <1>4, <1>5

\* The powers of a number, each from the one before.
IsPowers(power, base, n) == power = [k \in 0 .. n |-> IF k = 0 THEN 1 ELSE base * power[k - 1]]

PowersOf(base, n) == CHOOSE power : IsPowers(power, base, n)

LEMMA Powers ==
  ASSUME NEW base \in Nat, NEW n \in Nat
  PROVE  /\ Power(base, n) = PowersOf(base, n)[n]
         /\ PowersOf(base, n)[0] = 1
         /\ \A k \in 0 .. n : PowersOf(base, n)[k] \in Nat
         /\ \A k \in 0 .. n : k < n =>
              PowersOf(base, n)[k + 1] = base * PowersOf(base, n)[k]
<1> DEFINE step == [k \in 0 + 1 .. n |-> [v \in Nat |-> base * v]]
<1>1. Steps(step, 0, n, Nat, 1)
  <2>1. \A v \in Nat : base * v \in Nat
    OBVIOUS
  <2>2. \A k \in 0 + 1 .. n : step[k] \in [Nat -> Nat]
    BY <2>1
  <2>3. 0 \in Int /\ n \in Int /\ 0 <= n /\ 1 \in Nat
    OBVIOUS
  <2> HIDE DEF step
  <2> QED
    BY <2>2, <2>3, Zenon DEF Steps
<1>2. \A k \in 0 + 1 .. n, v \in Nat : step[k][v] = base * v
  OBVIOUS
<1> HIDE DEF step
<1>3. PICK f \in [0 .. n -> Nat] : Follows(f, step, 0, n, 1)
  BY <1>1, Recursion
<1>4. IsPowers(f, base, n)
  <2>1. \A k \in 0 .. n : k # 0 => k \in 0 + 1 .. n /\ f[k - 1] \in Nat
    OBVIOUS
  <2>2. f[0] = 1 /\ \A k \in 0 + 1 .. n : f[k] = step[k][f[k - 1]]
    BY <1>3 DEF Follows
  <2>3. \A k \in 0 .. n : f[k] = IF k = 0 THEN 1 ELSE base * f[k - 1]
    BY <1>2, <2>1, <2>2
  <2> QED
    BY <2>3 DEF IsPowers
<1> DEFINE power == PowersOf(base, n)
<1>5. IsPowers(power, base, n)
  BY <1>4 DEF PowersOf
<1>6. Power(base, n) = power[n]
  BY DEF Power, PowersOf, IsPowers
<1> HIDE DEF power
<1>7. \A k \in 0 .. n : power[k] = IF k = 0 THEN 1 ELSE base * power[k - 1]
  BY <1>5 DEF IsPowers
<1>8. power[0] = 1
  <2>1. 0 \in 0 .. n
    OBVIOUS
  <2> QED
    BY <1>7, <2>1
<1>9. ASSUME NEW k \in 0 .. n, k < n
      PROVE  power[k + 1] = base * power[k]
  <2>1. PICK j \in 0 .. n : j = k + 1 /\ j # 0 /\ j - 1 = k
    BY <1>9
  <2>2. power[j] = base * power[j - 1]
    BY <1>7, <2>1
  <2> QED
    BY <2>1, <2>2
<1>10. \A k \in 0 .. n : power[k] \in Nat
  <2> DEFINE B == {k \in 0 .. n : power[k] \in Nat}
  <2>1. 0 \in B
    BY <1>8
  <2>2. ASSUME NEW k \in B, k < n
        PROVE  k + 1 \in B
    BY <1>9, <2>2
  <2>3. Inductive(B, 0, n)
    BY <2>1, <2>2 DEF Inductive
  <2> HIDE DEF B
  <2>4. B = 0 .. n
    BY <2>3, IntervalInduction
  <2> QED
    BY <2>4 DEF B
<1> QED
  BY <1>6, <1>8, <1>9, <1>10 DEF power

\* A greater number has a greater power.
LEMMA PowerOrder ==
  ASSUME NEW b \in Nat \ {0}, NEW d \in Nat, b < d, NEW n \in Nat \ {0}
  PROVE  /\ Power(b, n) \in Nat /\ Power(d, n) \in Nat
         /\ 0 < Power(b, n) /\ Power(b, n) < Power(d, n)
<1> DEFINE p == PowersOf(b, n)
           q == PowersOf(d, n)
<1>1. /\ Power(b, n) = p[n] /\ p[0] = 1 /\ \A k \in 0 .. n : p[k] \in Nat
      /\ \A k \in 0 .. n : k < n => p[k + 1] = b * p[k]
  BY Powers
<1>2. /\ Power(d, n) = q[n] /\ q[0] = 1 /\ \A k \in 0 .. n : q[k] \in Nat
      /\ \A k \in 0 .. n : k < n => q[k + 1] = d * q[k]
  BY Powers
<1> HIDE DEF p, q
<1> DEFINE B == {k \in 1 .. n : 0 < p[k] /\ p[k] < q[k]}
<1>3. 1 \in B
  <2>1. 0 \in 0 .. n /\ 0 < n /\ 0 + 1 = 1 /\ 1 \in 1 .. n
    OBVIOUS
  <2>2. p[1] = b * 1 /\ q[1] = d * 1
    BY <1>1, <1>2, <2>1
  <2> QED
    BY <2>1, <2>2
<1>4. ASSUME NEW k \in B, k < n
      PROVE  k + 1 \in B
  <2>1. k \in 0 .. n /\ k + 1 \in 1 .. n
    BY <1>4
  <2>2. PICK v \in Nat, w \in Nat : v = p[k] /\ w = q[k] /\ 0 < v /\ v < w
    BY <1>1, <1>2, <2>1
  <2>3. p[k + 1] = b * v /\ q[k + 1] = d * w
    BY <1>1, <1>2, <1>4, <2>1, <2>2
  <2>4. 0 < b * v /\ b * v < d * w
    <3>1. 0 < b * v /\ b * v < b * w
      BY <2>2
    <3>2. b * w < d * w
      BY <2>2
    <3>3. b * v \in Nat /\ b * w \in Nat /\ d * w \in Nat
      BY <2>2
    <3> QED
      BY <3>1, <3>2, <3>3
  <2> QED
    BY <2>1, <2>3, <2>4
<1>5. Inductive(B, 1, n)
  BY <1>3, <1>4 DEF Inductive
<1> HIDE DEF B
<1>6. n \in B
  BY <1>5, IntervalInduction
<1> QED
  BY <1>1, <1>2, <1>6 DEF B

\* The scheduled payment is at least the interest of the first period: an
\* installment always repays, or the loan would never end.
LEMMA PaymentCoversInterest ==
  ASSUME NEW c \in Contract, Acceptable(c), NEW n \in Nat \ {0}
  PROVE  /\ ScheduledPayment(c, n) \in Nat
         /\ PeriodInterest(c.principal, c) <= ScheduledPayment(c, n)
<1>1. /\ c.principal \in Nat \ {0} /\ c.rate \in Nat /\ RateBase \in Nat \ {0}
  BY ScheduleAssumption DEF Contract, Acceptable
<1>2. CASE c.rate = 0
  <2>1. ScheduledPayment(c, n) = Quantized(c.principal, n)
    BY <1>2 DEF ScheduledPayment
  <2>2. PeriodInterest(c.principal, c) = Quantized(0, RateBase)
    BY <1>1, <1>2 DEF PeriodInterest
  <2>3. NotMore(0, RateBase, c.principal, n)
    BY <1>1 DEF NotMore
  <2>4. Quantized(0, RateBase) <= Quantized(c.principal, n)
    BY <2>3, QuantizedOrder
  <2>5. Quantized(c.principal, n) \in Nat
    BY <1>1, QuantizedNat
  <2> QED
    BY <2>1, <2>2, <2>4, <2>5
<1>3. CASE c.rate # 0
  <2> DEFINE r == c.rate
             p == c.principal
  <2>1. PICK g \in Nat, h \in Nat : /\ g = Power(RateBase + r, n) /\ h = Power(RateBase, n)
                                     /\ 0 < h /\ h < g
    <3>1. RateBase + r \in Nat /\ RateBase < RateBase + r
      BY <1>1, <1>3
    <3>2. /\ Power(RateBase, n) \in Nat /\ Power(RateBase + r, n) \in Nat
          /\ 0 < Power(RateBase, n) /\ Power(RateBase, n) < Power(RateBase + r, n)
      BY <1>1, <3>1, PowerOrder
    <3> QED
      BY <3>2
  <2> DEFINE d == p * r * g
             e == RateBase * (g - h)
  <2>2. ScheduledPayment(c, n) = Quantized(d, e)
    BY <1>3, <2>1 DEF ScheduledPayment
  <2>3. PeriodInterest(p, c) = Quantized(p * r, RateBase)
    BY DEF PeriodInterest
  <2> HIDE DEF p, r
  <2>4. p \in Nat /\ r \in Nat /\ p * r \in Nat
    BY <1>1 DEF p, r
  <2>5. PICK i \in Nat : i = p * r
    BY <2>4
  <2>6. d = i * g /\ d \in Nat
    BY <2>1, <2>5
  <2>7. e \in Nat \ {0}
    BY <1>1, <2>1
  <2>8. i * e <= d * RateBase
    <3>1. i * e = (i * RateBase) * (g - h)
      BY <1>1, <2>1
    <3>2. i * RateBase \in Nat /\ g - h \in Nat /\ g - h <= g
      BY <1>1, <2>1
    <3>3. (i * RateBase) * (g - h) <= (i * RateBase) * g
      BY <2>1, <3>2
    <3>4. (i * RateBase) * g = d * RateBase
      BY <1>1, <2>1, <2>6
    <3> QED
      BY <3>1, <3>3, <3>4
  <2> HIDE DEF d, e
  <2>9. Quantized(i, RateBase) <= Quantized(d, e)
    <3>1. NotMore(i, RateBase, d, e)
      BY <1>1, <2>6, <2>7, <2>8 DEF NotMore
    <3> QED
      BY <3>1, QuantizedOrder
  <2>10. Quantized(d, e) \in Nat
    BY <2>6, <2>7, QuantizedNat
  <2> QED
    BY <2>2, <2>3, <2>5, <2>9, <2>10 DEF p
<1> QED
  BY <1>2, <1>3

---------------------------------------------------------------------------
(* The quote: its installments, each from the one before, and their sums.  *)

Installment == [due_date : Date, opening : Int, interest : Int, principal : Int,
                payment : Int, closing : Int]

Due(c)     == BuildDueDates(c, NumberOfPayments(c))
Payment(c) == ScheduledPayment(c, NumberOfPayments(c))

IsItems(item, c) ==
  item = [i \in 1 .. NumberOfPayments(c) |->
            Item(i, NumberOfPayments(c), IF i = 1 THEN c.principal ELSE item[i - 1].closing,
                 Payment(c), c, Due(c)[i])]

ItemsOf(c) == CHOOSE item : IsItems(item, c)

IsInterest(interest, c) ==
  interest = [i \in 0 .. NumberOfPayments(c) |->
                IF i = 0 THEN 0 ELSE interest[i - 1] + ItemsOf(c)[i].interest]

InterestUpTo(c) == CHOOSE interest : IsInterest(interest, c)

IsRepaid(repaid, c) ==
  repaid = [i \in 0 .. NumberOfPayments(c) |->
              IF i = 0 THEN 0 ELSE repaid[i - 1] + ItemsOf(c)[i].payment]

RepaidUpTo(c) == CHOOSE repaid : IsRepaid(repaid, c)

\* The parts of a quote.
LEMMA QuoteParts ==
  ASSUME NEW c
  PROVE  Quote(c) = [schedule |-> [i \in 1 .. NumberOfPayments(c) |-> ItemsOf(c)[i]],
                     scheduled_payment |-> Payment(c),
                     total_scheduled_interest |-> InterestUpTo(c)[NumberOfPayments(c)],
                     total_scheduled_repayment |-> RepaidUpTo(c)[NumberOfPayments(c)]]
BY DEF Quote, ItemsOf, IsItems, InterestUpTo, IsInterest, RepaidUpTo, IsRepaid, Payment, Due

\* The number of payments is positive.
LEMMA SomePayments ==
  ASSUME NEW c \in Contract, Acceptable(c)
  PROVE  NumberOfPayments(c) \in Nat \ {0}
BY DEF Contract, Acceptable, NumberOfPayments

\* The running sum of the values of a function exists.
IsSum(sum, f, n) == sum = [i \in 0 .. n |-> IF i = 0 THEN 0 ELSE sum[i - 1] + f[i]]

Sums(sum, f, n) ==
  /\ sum[0] = 0
  /\ \A i \in 0 .. n : sum[i] \in Int
  /\ \A i \in 0 .. n : i < n => sum[i + 1] = sum[i] + f[i + 1]

LEMMA RunningSum ==
  ASSUME NEW n \in Nat, NEW f, \A i \in 1 .. n : f[i] \in Int
  PROVE  /\ \E sum : IsSum(sum, f, n)
         /\ \A sum : IsSum(sum, f, n) => Sums(sum, f, n)
<1>1. \E sum : IsSum(sum, f, n)
  <2> DEFINE step == [k \in 0 + 1 .. n |-> [v \in Int |-> v + f[k]]]
  <2>1. Steps(step, 0, n, Int, 0)
    <3>1. \A k \in 0 + 1 .. n : f[k] \in Int
      OBVIOUS
    <3>2. \A k \in 0 + 1 .. n : step[k] \in [Int -> Int]
      BY <3>1
    <3>3. 0 \in Int /\ n \in Int /\ 0 <= n
      OBVIOUS
    <3> HIDE DEF step
    <3> QED
      BY <3>2, <3>3, Zenon DEF Steps
  <2>2. \A k \in 0 + 1 .. n, v \in Int : step[k][v] = v + f[k]
    OBVIOUS
  <2> HIDE DEF step
  <2>3. PICK g \in [0 .. n -> Int] : Follows(g, step, 0, n, 0)
    BY <2>1, Recursion
  <2>4. \A k \in 0 .. n : k # 0 => k \in 0 + 1 .. n /\ g[k - 1] \in Int
    OBVIOUS
  <2>5. g[0] = 0 /\ \A k \in 0 + 1 .. n : g[k] = step[k][g[k - 1]]
    BY <2>3 DEF Follows
  <2>6. \A k \in 0 .. n : g[k] = IF k = 0 THEN 0 ELSE g[k - 1] + f[k]
    BY <2>2, <2>4, <2>5
  <2>7. IsSum(g, f, n)
    BY <2>6 DEF IsSum
  <2> QED
    BY <2>7
<1>2. ASSUME NEW sum, IsSum(sum, f, n)
      PROVE  Sums(sum, f, n)
  <2>1. \A i \in 0 .. n : sum[i] = IF i = 0 THEN 0 ELSE sum[i - 1] + f[i]
    BY <1>2 DEF IsSum
  <2>2. sum[0] = 0
    <3>1. 0 \in 0 .. n
      OBVIOUS
    <3> QED
      BY <2>1, <3>1
  <2>3. ASSUME NEW i \in 0 .. n, i < n
        PROVE  sum[i + 1] = sum[i] + f[i + 1]
    <3>1. PICK j \in 0 .. n : j = i + 1 /\ j # 0 /\ j - 1 = i
      BY <2>3
    <3>2. sum[j] = sum[j - 1] + f[j]
      BY <2>1, <3>1
    <3> QED
      BY <3>1, <3>2
  <2> DEFINE B == {i \in 0 .. n : sum[i] \in Int}
  <2>4. 0 \in B
    BY <2>2
  <2>5. ASSUME NEW i \in B, i < n
        PROVE  i + 1 \in B
    <3>1. i + 1 \in 1 .. n /\ i + 1 \in 0 .. n /\ f[i + 1] \in Int /\ sum[i] \in Int
      BY <2>5
    <3> QED
      BY <2>3, <2>5, <3>1
  <2>6. Inductive(B, 0, n)
    BY <2>4, <2>5 DEF Inductive
  <2> HIDE DEF B
  <2>7. B = 0 .. n
    BY <2>6, IntervalInduction
  <2> QED
    BY <2>2, <2>3, <2>7 DEF B, Sums
<1> QED
  BY <1>1, <1>2

\* What is left of the principal after installment i of the schedule.
Left(c, i) == IF i = 0 THEN c.principal ELSE ItemsOf(c)[i].closing

\* The installments follow each other.
LEMMA Installments ==
  ASSUME NEW c \in Contract, Acceptable(c)
  PROVE  /\ \A i \in 1 .. NumberOfPayments(c) : ItemsOf(c)[i] \in Installment
         /\ \A i \in 0 .. NumberOfPayments(c) : i < NumberOfPayments(c) =>
              ItemsOf(c)[i + 1] = Item(i + 1, NumberOfPayments(c), Left(c, i), Payment(c), c,
                                       Due(c)[i + 1])
<1> DEFINE n == NumberOfPayments(c)
           first == Item(1, n, c.principal, Payment(c), c, Due(c)[1])
           step == [k \in 1 + 1 .. n |->
                      [v \in Installment |-> Item(k, n, v.closing, Payment(c), c, Due(c)[k])]]
<1>1. n \in Nat \ {0}
  BY SomePayments
<1>2. \A i \in 1 .. n : Due(c)[i] \in Date
  <2>1. Stepping(Due(c), c, n)
    BY <1>1, DueDatesStep DEF Due
  <2> QED
    BY <2>1, DueDatesSpaced DEF OnCycle
<1>3. Payment(c) \in Int
  BY <1>1, PaymentCoversInterest DEF Payment
<1> HIDE DEF n
<1>4. ASSUME NEW i \in 1 .. n, NEW opening \in Int
      PROVE  Item(i, n, opening, Payment(c), c, Due(c)[i]) \in Installment
  <2> DEFINE interest  == PeriodInterest(opening, c)
             principal == IF i = n THEN opening ELSE Payment(c) - interest
  <2>1. interest \in Int
    <3>1. opening <= opening
      OBVIOUS
    <3> QED
      BY <3>1, PeriodInterestOrder
  <2>2. Item(i, n, opening, Payment(c), c, Due(c)[i])
          = [due_date |-> Due(c)[i], opening |-> opening, interest |-> interest,
             principal |-> principal, payment |-> principal + interest,
             closing |-> opening - principal]
    BY DEF Item
  <2> HIDE DEF interest
  <2>3. principal \in Int
    BY <1>3, <2>1
  <2> HIDE DEF principal
  <2>4. Due(c)[i] \in Date
    BY <1>2
  <2>5. principal + interest \in Int /\ opening - principal \in Int
    BY <2>1, <2>3
  <2> QED
    BY <2>1, <2>2, <2>3, <2>4, <2>5 DEF Installment
<1>5. c.principal \in Int /\ 1 \in 1 .. n
  BY <1>1 DEF Contract
<1>6. first \in Installment
  BY <1>4, <1>5
<1>7. Steps(step, 1, n, Installment, first)
  <2>1. ASSUME NEW k \in 1 + 1 .. n
        PROVE  step[k] \in [Installment -> Installment]
    <3>1. k \in 1 .. n
      BY <1>1
    <3>2. \A v \in Installment : v.closing \in Int
      BY DEF Installment
    <3>3. \A v \in Installment : Item(k, n, v.closing, Payment(c), c, Due(c)[k]) \in Installment
      BY <1>4, <3>1, <3>2
    <3> QED
      BY <3>3
  <2>2. 1 \in Int /\ n \in Int /\ 1 <= n
    BY <1>1
  <2> HIDE DEF step, first
  <2> QED
    BY <1>6, <2>1, <2>2, Zenon DEF Steps
<1>8. \A k \in 1 + 1 .. n, v \in Installment :
        step[k][v] = Item(k, n, v.closing, Payment(c), c, Due(c)[k])
  OBVIOUS
<1> HIDE DEF step
<1>9. PICK f \in [1 .. n -> Installment] : Follows(f, step, 1, n, first)
  <2> HIDE DEF first
  <2> QED
    BY <1>7, Recursion
<1>10. IsItems(f, c)
  <2>1. \A i \in 1 .. n : i # 1 => i \in 1 + 1 .. n /\ f[i - 1] \in Installment
    BY <1>1
  <2>2. f[1] = first /\ \A i \in 1 + 1 .. n : f[i] = step[i][f[i - 1]]
    BY <1>9 DEF Follows
  <2>3. ASSUME NEW i \in 1 .. n
        PROVE  f[i] = Item(i, n, IF i = 1 THEN c.principal ELSE f[i - 1].closing,
                           Payment(c), c, Due(c)[i])
    <3>1. CASE i = 1
      BY <2>2, <3>1
    <3>2. CASE i # 1
      <4>1. f[i] = Item(i, n, f[i - 1].closing, Payment(c), c, Due(c)[i])
        BY <1>8, <2>1, <2>2, <3>2
      <4> QED
        BY <3>2, <4>1
    <3> QED
      BY <3>1, <3>2
  <2>4. f = [i \in 1 .. n |-> f[i]]
    OBVIOUS
  <2> QED
    BY <2>3, <2>4, Zenon DEF IsItems, n
<1> DEFINE item == ItemsOf(c)
<1>11. IsItems(item, c)
  BY <1>10 DEF ItemsOf
<1> HIDE DEF item
<1>12. \A i \in 1 .. n :
         item[i] = Item(i, n, IF i = 1 THEN c.principal ELSE item[i - 1].closing,
                        Payment(c), c, Due(c)[i])
  BY <1>11 DEF IsItems, n
<1>13. ASSUME NEW i \in 0 .. n, i < n
       PROVE  item[i + 1] = Item(i + 1, n, Left(c, i), Payment(c), c, Due(c)[i + 1])
  <2>1. PICK j \in 1 .. n : j = i + 1 /\ j - 1 = i /\ (j = 1 <=> i = 0)
    BY <1>1, <1>13
  <2>2. item[j] = Item(j, n, IF j = 1 THEN c.principal ELSE item[j - 1].closing,
                       Payment(c), c, Due(c)[j])
    BY <1>12
  <2>3. Left(c, i) = IF j = 1 THEN c.principal ELSE item[j - 1].closing
    BY <2>1 DEF Left, item
  <2> QED
    BY <2>1, <2>2, <2>3
<1>14. \A i \in 1 .. n : item[i] \in Installment
  <2> DEFINE B == {i \in 1 .. n : item[i] \in Installment}
  <2>1. 1 \in B
    <3>1. item[1] = first
      BY <1>5, <1>12
    <3> QED
      BY <1>5, <1>6, <3>1
  <2>2. ASSUME NEW i \in B, i < n
        PROVE  i + 1 \in B
    <3>1. i \in 0 .. n /\ i + 1 \in 1 .. n /\ i # 0 /\ item[i] \in Installment
      BY <1>1, <2>2
    <3>2. Left(c, i) \in Int
      BY <3>1 DEF Left, Installment, item
    <3>3. item[i + 1] = Item(i + 1, n, Left(c, i), Payment(c), c, Due(c)[i + 1])
      BY <1>13, <2>2, <3>1
    <3>4. item[i + 1] \in Installment
      BY <1>4, <3>1, <3>2, <3>3
    <3> QED
      BY <3>1, <3>4
  <2>3. Inductive(B, 1, n)
    BY <1>1, <2>1, <2>2 DEF Inductive
  <2> HIDE DEF B
  <2>4. B = 1 .. n
    BY <2>3, IntervalInduction
  <2> QED
    BY <2>4 DEF B
<1> QED
  BY <1>13, <1>14 DEF item, n

\* What an installment does to the balance and to the sums: it pays the interest
\* of the period, and the rest repays; nothing is left after the last one.
Amortizes(c, i, left, interest, payment) ==
  /\ left \in Int /\ interest \in Int /\ payment \in Int
  /\ left = Left(c, i) /\ interest = PeriodInterest(left, c)
  /\ ItemsOf(c)[i + 1].opening = left /\ ItemsOf(c)[i + 1].interest = interest
  /\ ItemsOf(c)[i + 1].payment = payment
  /\ left >= 0 => interest >= 0 /\ payment >= interest
  /\ Left(c, i + 1) = left - payment + interest
  /\ InterestUpTo(c)[i] \in Int /\ InterestUpTo(c)[i + 1] = InterestUpTo(c)[i] + interest
  /\ RepaidUpTo(c)[i] \in Int /\ RepaidUpTo(c)[i + 1] = RepaidUpTo(c)[i] + payment

Amortized(c) ==
  LET n == NumberOfPayments(c) IN
  /\ Left(c, 0) = c.principal /\ Left(c, n) = 0
  /\ InterestUpTo(c)[0] = 0 /\ RepaidUpTo(c)[0] = 0
  /\ \A i \in 0 .. n : i < n => \E l, j, p : Amortizes(c, i, l, j, p)
  /\ \A i \in 0 .. n : /\ Left(c, i) \in Int
                       /\ InterestUpTo(c)[i] \in Int
                       /\ RepaidUpTo(c)[i] = InterestUpTo(c)[i] + c.principal - Left(c, i)

LEMMA ScheduleAmortizes ==
  ASSUME NEW c \in Contract, Acceptable(c)
  PROVE  Amortized(c)
<1> DEFINE n == NumberOfPayments(c)
           item == ItemsOf(c)
<1>1. n \in Nat \ {0} /\ c.principal \in Nat
  <2>1. c.principal \in Nat
    BY DEF Contract, Acceptable
  <2> QED
    BY <2>1, SomePayments
<1>2. /\ \A i \in 1 .. n : item[i] \in Installment
      /\ \A i \in 0 .. n : i < n =>
           item[i + 1] = Item(i + 1, n, Left(c, i), Payment(c), c, Due(c)[i + 1])
  BY Installments
<1>3. Payment(c) \in Nat /\ PeriodInterest(c.principal, c) <= Payment(c)
  BY <1>1, PaymentCoversInterest DEF Payment
<1> HIDE DEF n, item
<1>4. ASSUME NEW i \in 0 .. n
      PROVE  Left(c, i) \in Int
  <2>1. CASE i = 0
    BY <1>1, <2>1 DEF Left
  <2>2. CASE i # 0
    <3>1. i \in 1 .. n
      BY <1>1, <2>2
    <3> QED
      BY <1>2, <2>2, <3>1 DEF Left, Installment, item
  <2> QED
    BY <2>1, <2>2
\* One installment.
<1> DEFINE interest(i) == PeriodInterest(Left(c, i), c)
<1>5. ASSUME NEW i \in 0 .. n, i < n
      PROVE  /\ interest(i) \in Int /\ item[i + 1].opening = Left(c, i)
             /\ item[i + 1].interest = interest(i)
             /\ item[i + 1].payment
                  = (IF i + 1 = n THEN Left(c, i) ELSE Payment(c) - interest(i)) + interest(i)
             /\ Left(c, i + 1) = Left(c, i)
                  - (IF i + 1 = n THEN Left(c, i) ELSE Payment(c) - interest(i))
  <2>1. Left(c, i) \in Int /\ Left(c, i) <= Left(c, i)
    BY <1>4
  <2>2. interest(i) \in Int
    BY <2>1, PeriodInterestOrder
  <2>3. item[i + 1] = Item(i + 1, n, Left(c, i), Payment(c), c, Due(c)[i + 1])
    BY <1>2, <1>5
  <2>4. Left(c, i + 1) = item[i + 1].closing
    <3>1. i + 1 # 0
      BY <1>1
    <3> QED
      BY <3>1 DEF Left, item
  <2> QED
    BY <2>2, <2>3, <2>4 DEF Item
<1> HIDE DEF interest
\* No balance is above the principal, so that no interest is above the first.
<1>6. \A i \in 0 .. n : i < n => Left(c, i) <= c.principal
  <2> DEFINE B == {i \in 0 .. n : i < n => Left(c, i) <= c.principal}
  <2>1. 0 \in B
    BY <1>1 DEF Left
  <2>2. ASSUME NEW i \in B, i < n
        PROVE  i + 1 \in B
    <3>1. i + 1 \in 0 .. n
      BY <1>1, <2>2
    <3> SUFFICES ASSUME i + 1 < n
                 PROVE  Left(c, i + 1) <= c.principal
      BY <3>1
    <3>2. i \in 0 .. n /\ Left(c, i) \in Int /\ Left(c, i) <= c.principal
      BY <1>4, <2>2
    <3>3. interest(i) \in Int /\ interest(i) <= PeriodInterest(c.principal, c)
      BY <1>1, <3>2, PeriodInterestOrder DEF interest
    <3>4. i + 1 # n
      BY <1>1, <2>2
    <3>5. Left(c, i + 1) = Left(c, i) - (Payment(c) - interest(i))
      BY <1>5, <2>2, <3>2, <3>4
    <3>6. PeriodInterest(c.principal, c) \in Int
      <4>1. c.principal \in Int /\ c.principal <= c.principal
        BY <1>1
      <4> QED
        BY <4>1, PeriodInterestOrder
    <3> QED
      BY <1>1, <1>3, <3>2, <3>3, <3>5, <3>6
  <2>3. Inductive(B, 0, n)
    BY <1>1, <2>1, <2>2 DEF Inductive
  <2> HIDE DEF B
  <2>4. B = 0 .. n
    BY <2>3, IntervalInduction
  <2> QED
    BY <2>4 DEF B
\* The two sums.
<1>7. /\ InterestUpTo(c)[0] = 0
      /\ \A i \in 0 .. n : InterestUpTo(c)[i] \in Int
      /\ \A i \in 0 .. n : i < n =>
           InterestUpTo(c)[i + 1] = InterestUpTo(c)[i] + item[i + 1].interest
  <2> DEFINE f == [i \in 1 .. n |-> item[i].interest]
  <2>1. \A i \in 1 .. n : f[i] \in Int /\ f[i] = item[i].interest
    BY <1>2 DEF Installment
  <2>2. \A sum : IsInterest(sum, c) <=> IsSum(sum, f, n)
    <3>1. \A i \in 0 .. n : i # 0 => i \in 1 .. n
      OBVIOUS
    <3>2. ASSUME NEW sum
          PROVE  [i \in 0 .. n |-> IF i = 0 THEN 0 ELSE sum[i - 1] + item[i].interest]
                   = [i \in 0 .. n |-> IF i = 0 THEN 0 ELSE sum[i - 1] + f[i]]
      BY <2>1, <3>1
    <3> HIDE DEF f
    <3> QED
      BY <3>2 DEF IsInterest, IsSum, n, item
  <2> HIDE DEF f
  <2>3. /\ \E sum : IsSum(sum, f, n)
        /\ \A sum : IsSum(sum, f, n) => Sums(sum, f, n)
    BY <1>1, <2>1, RunningSum
  <2>4. IsInterest(InterestUpTo(c), c)
    BY <2>2, <2>3 DEF InterestUpTo
  <2>5. Sums(InterestUpTo(c), f, n)
    BY <2>2, <2>3, <2>4
  <2>6. \A i \in 0 .. n : i < n => i + 1 \in 1 .. n
    BY <1>1
  <2> QED
    BY <2>1, <2>5, <2>6 DEF Sums
<1>8. /\ RepaidUpTo(c)[0] = 0
      /\ \A i \in 0 .. n : RepaidUpTo(c)[i] \in Int
      /\ \A i \in 0 .. n : i < n =>
           RepaidUpTo(c)[i + 1] = RepaidUpTo(c)[i] + item[i + 1].payment
  <2> DEFINE f == [i \in 1 .. n |-> item[i].payment]
  <2>1. \A i \in 1 .. n : f[i] \in Int /\ f[i] = item[i].payment
    BY <1>2 DEF Installment
  <2>2. \A sum : IsRepaid(sum, c) <=> IsSum(sum, f, n)
    <3>1. \A i \in 0 .. n : i # 0 => i \in 1 .. n
      OBVIOUS
    <3>2. ASSUME NEW sum
          PROVE  [i \in 0 .. n |-> IF i = 0 THEN 0 ELSE sum[i - 1] + item[i].payment]
                   = [i \in 0 .. n |-> IF i = 0 THEN 0 ELSE sum[i - 1] + f[i]]
      BY <2>1, <3>1
    <3> HIDE DEF f
    <3> QED
      BY <3>2 DEF IsRepaid, IsSum, n, item
  <2> HIDE DEF f
  <2>3. /\ \E sum : IsSum(sum, f, n)
        /\ \A sum : IsSum(sum, f, n) => Sums(sum, f, n)
    BY <1>1, <2>1, RunningSum
  <2>4. IsRepaid(RepaidUpTo(c), c)
    BY <2>2, <2>3 DEF RepaidUpTo
  <2>5. Sums(RepaidUpTo(c), f, n)
    BY <2>2, <2>3, <2>4
  <2>6. \A i \in 0 .. n : i < n => i + 1 \in 1 .. n
    BY <1>1
  <2> QED
    BY <2>1, <2>5, <2>6 DEF Sums
<1>9. Left(c, 0) = c.principal /\ Left(c, n) = 0
  <2>1. PICK k \in 0 .. n : k < n /\ k + 1 = n
    BY <1>1
  <2>2. Left(c, k + 1) = Left(c, k) - Left(c, k) /\ Left(c, k) \in Int
    BY <1>4, <1>5, <2>1
  <2> QED
    BY <2>1, <2>2 DEF Left
<1>10. ASSUME NEW i \in 0 .. n, i < n
       PROVE  Amortizes(c, i, Left(c, i), interest(i), item[i + 1].payment)
  <2> DEFINE l == Left(c, i)
             j == interest(i)
             p == item[i + 1].payment
  <2>1. PICK r \in Int : r = IF i + 1 = n THEN l ELSE Payment(c) - j
    BY <1>3, <1>4, <1>5, <1>10
  <2>2. /\ l \in Int /\ j \in Int /\ p = r + j /\ Left(c, i + 1) = l - r
        /\ item[i + 1].opening = l /\ item[i + 1].interest = j
    BY <1>4, <1>5, <1>10, <2>1
  <2>3. l <= c.principal /\ c.principal \in Int /\ Payment(c) \in Int
    BY <1>1, <1>3, <1>6, <1>10
  <2>4. /\ j <= PeriodInterest(c.principal, c) /\ PeriodInterest(c.principal, c) \in Int
        /\ l >= 0 => j >= 0
    <3>1. c.principal <= c.principal
      BY <2>3
    <3>2. PeriodInterest(c.principal, c) \in Int
      BY <2>3, <3>1, PeriodInterestOrder
    <3>3. j <= PeriodInterest(c.principal, c) /\ (l >= 0 => j \in Nat)
      BY <2>2, <2>3, PeriodInterestOrder DEF interest
    <3> QED
      BY <3>2, <3>3
  <2>5. /\ InterestUpTo(c)[i] \in Int /\ InterestUpTo(c)[i + 1] = InterestUpTo(c)[i] + j
        /\ RepaidUpTo(c)[i] \in Int /\ RepaidUpTo(c)[i + 1] = RepaidUpTo(c)[i] + p
    BY <1>7, <1>8, <1>10, <2>2
  <2>6. j = PeriodInterest(l, c)
    BY DEF interest
  <2> HIDE DEF l, j, p
  <2>7. l >= 0 => p >= j
    BY <1>3, <2>1, <2>2, <2>3, <2>4
  <2>8. Left(c, i + 1) = l - p + j /\ p \in Int
    BY <2>2
  <2> QED
    BY <2>2, <2>4, <2>5, <2>6, <2>7, <2>8 DEF Amortizes, l, j, p, item
<1>11. \A i \in 0 .. n : RepaidUpTo(c)[i] = InterestUpTo(c)[i] + c.principal - Left(c, i)
  <2> DEFINE B == {i \in 0 .. n :
                     RepaidUpTo(c)[i] = InterestUpTo(c)[i] + c.principal - Left(c, i)}
  <2>1. 0 \in B
    BY <1>1, <1>7, <1>8, <1>9
  <2>2. ASSUME NEW i \in B, i < n
        PROVE  i + 1 \in B
    <3>1. i \in 0 .. n /\ i + 1 \in 0 .. n
      BY <1>1, <2>2
    <3>2. PICK l, j, p : Amortizes(c, i, l, j, p)
      BY <1>10, <2>2, <3>1
    <3>3. PICK u \in Int, v \in Int : u = InterestUpTo(c)[i] /\ v = RepaidUpTo(c)[i]
      BY <3>2 DEF Amortizes
    <3>4. /\ l \in Int /\ j \in Int /\ p \in Int /\ v = u + c.principal - l
          /\ InterestUpTo(c)[i + 1] = u + j /\ RepaidUpTo(c)[i + 1] = v + p
          /\ Left(c, i + 1) = l - p + j
      BY <3>2, <3>3, <2>2 DEF Amortizes
    <3>5. v + p = u + j + c.principal - (l - p + j)
      BY <1>1, <3>4
    <3> QED
      BY <3>1, <3>4, <3>5
  <2>3. Inductive(B, 0, n)
    BY <1>1, <2>1, <2>2 DEF Inductive
  <2> HIDE DEF B
  <2>4. B = 0 .. n
    BY <2>3, IntervalInduction
  <2> QED
    BY <2>4 DEF B
<1> QED
  BY <1>4, <1>7, <1>8, <1>9, <1>10, <1>11 DEF Amortized, n

---------------------------------------------------------------------------
(* The contracts that are asked for, and the charging loop.                *)

\* The due dates of a contract are in order, go on by advance_due_date, and
\* begin with those of its quote.
Calendared(c, n) ==
  /\ c \in Contract /\ Acceptable(c) /\ n \in Nat \ {0} /\ n = NumberOfPayments(c)
  /\ c \in Contracts /\ QuoteOf[c] = Quote(c)
  /\ DOMAIN DatesOf[c] = 1 .. n + 2
  /\ DatesOf[c][1] = c.first_due_date
  /\ \A i \in 1 .. n + 2 : /\ DatesOf[c][i] \in Date
                           /\ DueOf[c][i] \in Int /\ DueOf[c][i] = DayNumber(DatesOf[c][i])
  /\ \A i \in 1 .. n + 2 : i < n + 2 => DatesOf[c][i + 1] = AdvanceDueDate(DatesOf[c][i], c)
  /\ \A i, j \in 1 .. n + 2 : i < j => DueOf[c][i] + 12 < DueOf[c][j]
  /\ \A i \in 1 .. n : Quote(c).schedule[i].due_date = DatesOf[c][i]

LEMMA ContractsCalendared ==
  ASSUME NEW c \in DOMAIN QuoteOf
  PROVE  Calendared(c, NumberOfPayments(c))
<1> DEFINE n == NumberOfPayments(c)
           dates == BuildDueDates(c, n + 2)
<1>1. c \in Contracts /\ c \in Contract /\ Acceptable(c) /\ QuoteOf[c] = Quote(c)
  BY RepaymentAssumption DEF QuoteOf
<1>2. n \in Nat \ {0} /\ n + 2 \in Nat \ {0}
  <2>1. n \in Nat \ {0}
    BY <1>1, SomePayments
  <2> HIDE DEF n
  <2> QED
    BY <2>1
<1>3. DatesOf[c] = dates
  BY DEF DatesOf
<1>4. Stepping(dates, c, n + 2)
  BY <1>1, <1>2, DueDatesStep
<1>5. (\A i \in 1 .. n + 2 : OnCycle(dates[i], c)) /\ Spaced(dates, n + 2)
  BY <1>1, <1>4, DueDatesSpaced
<1>6. \A i, j \in 1 .. n + 2 : i < j => DayNumber(dates[i]) + 12 < DayNumber(dates[j])
  BY <1>2, <1>5, SpacedOrdered
<1>7. DueOf[c] = [i \in DOMAIN dates |-> DayNumber(dates[i])]
  BY <1>3 DEF DueOf
<1>8. \A i \in 1 .. n : Quote(c).schedule[i].due_date = dates[i]
  <2> SUFFICES ASSUME NEW i \in 1 .. n
               PROVE  Quote(c).schedule[i].due_date = dates[i]
    OBVIOUS
  <2>1. Quote(c).schedule[i] = ItemsOf(c)[i]
    BY QuoteParts
  <2>2. PICK k \in 0 .. n : k < n /\ k + 1 = i
    <3>1. i - 1 \in 0 .. n /\ i - 1 < n /\ i - 1 + 1 = i
      BY <1>2
    <3> QED
      BY <3>1
  <2>3. ItemsOf(c)[k + 1] = Item(k + 1, n, Left(c, k), Payment(c), c, Due(c)[k + 1])
    BY <1>1, <2>2, Installments
  <2>4. Quote(c).schedule[i].due_date = Due(c)[i]
    BY <2>1, <2>2, <2>3 DEF Item
  <2>5. Stepping(Due(c), c, n) /\ n <= n + 2
    BY <1>1, <1>2, DueDatesStep DEF Due
  <2>6. Due(c)[i] = dates[i]
    BY <1>4, <2>5, DueDatesAgree
  <2> QED
    BY <2>4, <2>6
<1> HIDE DEF n, dates
<1>9. DOMAIN dates = 1 .. n + 2
  BY <1>4 DEF Stepping
<1>10. \A i \in 1 .. n + 2 : /\ dates[i] \in Date /\ DayNumber(dates[i]) \in Int
                             /\ DueOf[c][i] = DayNumber(dates[i])
  BY <1>5, <1>7, <1>9 DEF OnCycle, Spaced
<1> QED
  BY <1>1, <1>2, <1>3, <1>4, <1>6, <1>8, <1>9, <1>10 DEF Calendared, Stepping, n

\* The row of the loan, and what it becomes when k periods are charged and
\* the due date of number to is the next one.
Row == [status : {"active", "paid"}, outstanding : Nat, accrued : Nat,
        next_interest_due_date : Date]

ChargedTo(row, k, to) ==
  [row EXCEPT !.accrued = row.accrued + k * PeriodInterest(row.outstanding, contract),
              !.next_interest_due_date = DatesOf[contract][to]]

LEMMA ChargedFields ==
  ASSUME NEW row \in Row, NEW k, NEW to
  PROVE  ChargedTo(row, k, to)
           = [status |-> row.status, outstanding |-> row.outstanding,
              accrued |-> row.accrued + k * PeriodInterest(row.outstanding, contract),
              next_interest_due_date |-> DatesOf[contract][to]]
<1> DEFINE a == row.accrued + k * PeriodInterest(row.outstanding, contract)
           d == DatesOf[contract][to]
           r == [row EXCEPT !.accrued = a, !.next_interest_due_date = d]
<1>1. row = [status |-> row.status, outstanding |-> row.outstanding, accrued |-> row.accrued,
             next_interest_due_date |-> row.next_interest_due_date]
  BY DEF Row
<1>2. ChargedTo(row, k, to) = r
  BY DEF ChargedTo
<1> HIDE DEF a, d
<1>3. DOMAIN row = {"status", "outstanding", "accrued", "next_interest_due_date"}
  BY <1>1
<1>4. r = [f \in DOMAIN row |-> IF f = "next_interest_due_date" THEN d
                               ELSE IF f = "accrued" THEN a ELSE row[f]]
  BY <1>1
<1>5. r = [status |-> row.status, outstanding |-> row.outstanding, accrued |-> a,
           next_interest_due_date |-> d]
  BY <1>3, <1>4
<1> QED
  BY <1>2, <1>5 DEF a, d

\* From due date number m, the first one after the day is number to.
Reaches(m, to, day) ==
  /\ m \in 1 .. N + 2 /\ to \in m .. N + 2 /\ day \in Int
  /\ DueOf[contract][to] > day
  /\ to > m => DueOf[contract][to - 1] <= day

LEMMA SomeDueDateReached ==
  ASSUME contract \in DOMAIN QuoteOf, NEW m \in 1 .. N + 2, NEW day \in Int,
         day < DueOf[contract][N + 2]
  PROVE  \E to \in m .. N + 2 : Reaches(m, to, day)
<1> DEFINE B == {k \in m .. N + 2 : DueOf[contract][k] <= day}
<1>1. /\ N \in Nat \ {0}
      /\ \A i \in 1 .. N + 2 : DueOf[contract][i] \in Int
  BY ContractsCalendared DEF Calendared, N
<1> HIDE DEF N
<1>2. N + 2 \notin B /\ m <= N + 2 /\ m \in Int /\ N + 2 \in Int /\ N + 2 \in 1 .. N + 2
  BY <1>1
<1>3. CASE m \notin B
  <2>1. m \in m .. N + 2 /\ DueOf[contract][m] > day
    BY <1>1, <1>3
  <2> QED
    BY <2>1 DEF Reaches
<1>4. CASE m \in B
  <2>1. ~Inductive(B, m, N + 2)
    <3>1. B # m .. N + 2
      BY <1>2
    <3> HIDE DEF B
    <3> QED
      BY <3>1, IntervalInduction
  <2>2. PICK k \in B : k < N + 2 /\ k + 1 \notin B
    BY <1>2, <1>4, <2>1 DEF Inductive
  <2>3. /\ k \in m .. N + 2 /\ k + 1 \in m .. N + 2 /\ k + 1 - 1 = k
        /\ k + 1 \in 1 .. N + 2 /\ DueOf[contract][k] <= day
    BY <1>1, <2>2
  <2>4. DueOf[contract][k + 1] > day
    BY <1>1, <2>2, <2>3
  <2>5. Reaches(m, k + 1, day)
    BY <2>3, <2>4 DEF Reaches
  <2> QED
    BY <2>3, <2>5
<1> QED
  BY <1>3, <1>4

\* The loop that charges periods, one after the other.
NextRow(r, row, day) ==
  IF day >= DayNumber(r.next_interest_due_date)
  THEN [r EXCEPT !.accrued = @ + PeriodInterest(row.outstanding, contract),
                 !.next_interest_due_date = AdvanceDueDate(@, contract)]
  ELSE r

IsWalk(walk, row, day) ==
  walk = [k \in 0 .. N + 2 |-> IF k = 0 THEN row ELSE NextRow(walk[k - 1], row, day)]

LEMMA WalkChosen ==
  ASSUME NEW row, NEW day
  PROVE  Charged(row, day) = (CHOOSE walk : IsWalk(walk, row, day))[N + 2]
BY DEF Charged, IsWalk, NextRow

\* It charges every due date that has arrived, once, and stops at the next.
LEMMA ChargedThrough ==
  ASSUME contract \in DOMAIN QuoteOf, NEW row \in Row, NEW m, NEW to, NEW day,
         Reaches(m, to, day), row.next_interest_due_date = DatesOf[contract][m]
  PROVE  Charged(row, day) = ChargedTo(row, to - m, to)
<1> DEFINE owed == PeriodInterest(row.outstanding, contract)
           date(i) == DatesOf[contract][i]
           at(k) == [status |-> row.status, outstanding |-> row.outstanding,
                     accrued |-> row.accrued + k * owed, next_interest_due_date |-> date(m + k)]
           f == [k \in 0 .. N + 2 |-> IF k <= to - m THEN at(k) ELSE at(to - m)]
<1>1. /\ N \in Nat \ {0} /\ contract \in Contract /\ Acceptable(contract)
      /\ \A i \in 1 .. N + 2 : DueOf[contract][i] \in Int /\ DueOf[contract][i] = DayNumber(date(i))
      /\ \A i \in 1 .. N + 2 : i < N + 2 => date(i + 1) = AdvanceDueDate(date(i), contract)
      /\ \A i, j \in 1 .. N + 2 : i < j => DueOf[contract][i] + 12 < DueOf[contract][j]
  BY ContractsCalendared DEF Calendared, N
<1>2. /\ row.accrued \in Nat /\ row.outstanding \in Nat
      /\ row = [status |-> row.status, outstanding |-> row.outstanding,
                accrued |-> row.accrued, next_interest_due_date |-> date(m)]
  BY DEF Row
<1>3. owed \in Nat
  <2>1. row.outstanding \in Int /\ row.outstanding <= row.outstanding /\ row.outstanding >= 0
    BY <1>2
  <2> QED
    BY <1>1, <2>1, PeriodInterestOrder
<1>4. /\ m \in 1 .. N + 2 /\ to \in m .. N + 2 /\ day \in Int
      /\ m \in Int /\ to \in Int /\ to - m \in 0 .. N + 2 /\ to \in 1 .. N + 2
      /\ DueOf[contract][to] > day
      /\ to > m => DueOf[contract][to - 1] <= day
  BY <1>1 DEF Reaches
<1> HIDE DEF N, date, owed
<1>5. at(0) = row
  <2>1. m + 0 = m /\ row.accrued + 0 * owed = row.accrued
    BY <1>2, <1>3, <1>4
  <2> QED
    BY <1>2, <2>1
<1>6. ASSUME NEW k \in 0 .. to - m, k < to - m
      PROVE  NextRow(at(k), row, day) = at(k + 1)
  <2>1. /\ m + k \in 1 .. N + 2 /\ m + k < N + 2 /\ m + k + 1 = m + (k + 1)
        /\ to > m /\ to - 1 \in 1 .. N + 2 /\ m + k <= to - 1
    BY <1>1, <1>4, <1>6
  <2>2. DueOf[contract][m + k] <= day
    <3>1. CASE m + k = to - 1
      BY <1>4, <2>1, <3>1
    <3>2. CASE m + k < to - 1
      <4>1. DueOf[contract][m + k] + 12 < DueOf[contract][to - 1]
        BY <1>1, <2>1, <3>2
      <4> QED
        BY <1>1, <1>4, <2>1, <4>1
    <3> QED
      BY <1>4, <2>1, <3>1, <3>2
  <2>3. DueOf[contract][m + k] = DayNumber(date(m + k)) /\ DueOf[contract][m + k] \in Int
    BY <1>1, <2>1
  <2>4. date(m + (k + 1)) = AdvanceDueDate(date(m + k), contract)
    BY <1>1, <2>1
  <2>5. row.accrued + k * owed + owed = row.accrued + (k + 1) * owed
    BY <1>2, <1>3
  <2>6. NextRow(at(k), row, day)
          = [at(k) EXCEPT !.accrued = @ + owed,
                          !.next_interest_due_date = AdvanceDueDate(@, contract)]
    BY <1>4, <2>2, <2>3 DEF NextRow, owed
  <2> QED
    BY <2>4, <2>5, <2>6
<1>7. NextRow(at(to - m), row, day) = at(to - m)
  <2>1. m + (to - m) = to
    BY <1>4
  <2>2. DayNumber(date(m + (to - m))) > day /\ DayNumber(date(m + (to - m))) \in Int
    BY <1>1, <1>4, <2>1
  <2> QED
    BY <1>4, <2>2 DEF NextRow
<1> HIDE DEF at
<1>8. \A k \in 0 .. N + 2 : f[k] = IF k <= to - m THEN at(k) ELSE at(to - m)
  OBVIOUS
<1>9. f = [k \in 0 .. N + 2 |-> f[k]]
  OBVIOUS
<1> HIDE DEF f
<1>10. f[0] = row /\ f[N + 2] = at(to - m)
  <2>1. 0 \in 0 .. N + 2 /\ N + 2 \in 0 .. N + 2 /\ 0 <= to - m
    BY <1>1, <1>4
  <2>2. f[0] = row
    BY <1>5, <1>8, <2>1
  <2>3. N + 2 <= to - m => N + 2 = to - m
    BY <1>1, <1>4
  <2> QED
    BY <1>8, <2>1, <2>2, <2>3
<1>11. ASSUME NEW k \in 0 .. N + 2, k < N + 2
       PROVE  f[k + 1] = NextRow(f[k], row, day)
  <2>1. k + 1 \in 0 .. N + 2
    BY <1>1, <1>11
  <2>2. CASE k < to - m
    <3>1. k \in 0 .. to - m /\ k <= to - m /\ k + 1 <= to - m
      BY <1>4, <2>2
    <3> QED
      BY <1>6, <1>8, <2>1, <2>2, <3>1
  <2>3. CASE ~(k < to - m)
    <3>1. /\ ~(k + 1 <= to - m)
          /\ k <= to - m => k = to - m
      BY <1>4, <2>3
    <3>2. f[k] = at(to - m) /\ f[k + 1] = at(to - m)
      BY <1>8, <2>1, <3>1
    <3> QED
      BY <1>7, <3>2
  <2> QED
    BY <2>2, <2>3
<1>12. IsWalk(f, row, day)
  <2>1. ASSUME NEW k \in 0 .. N + 2
        PROVE  f[k] = IF k = 0 THEN row ELSE NextRow(f[k - 1], row, day)
    <3>1. CASE k = 0
      BY <1>10, <3>1
    <3>2. CASE k # 0
      <4>1. PICK j \in 0 .. N + 2 : j < N + 2 /\ j + 1 = k /\ k - 1 = j
        <5>1. k - 1 \in 0 .. N + 2 /\ k - 1 < N + 2 /\ k - 1 + 1 = k
          BY <1>1, <3>2
        <5> QED
          BY <5>1
      <4>2. f[j + 1] = NextRow(f[j], row, day)
        BY <1>11, <4>1
      <4> QED
        BY <3>2, <4>1, <4>2
    <3> QED
      BY <3>1, <3>2
  <2> QED
    BY <1>9, <2>1, Zenon DEF IsWalk
<1> DEFINE walk == CHOOSE g : IsWalk(g, row, day)
<1>13. IsWalk(walk, row, day) /\ Charged(row, day) = walk[N + 2]
  BY <1>12, WalkChosen
<1> HIDE DEF walk
<1>14. \A k \in 0 .. N + 2 : walk[k] = IF k = 0 THEN row ELSE NextRow(walk[k - 1], row, day)
  BY <1>13 DEF IsWalk
<1>15. walk[0] = row
  <2>1. 0 \in 0 .. N + 2
    BY <1>1
  <2> QED
    BY <1>14, <2>1
<1>16. ASSUME NEW k \in 0 .. N + 2, k < N + 2
       PROVE  walk[k + 1] = NextRow(walk[k], row, day)
  <2>1. PICK j \in 0 .. N + 2 : j = k + 1 /\ j # 0 /\ j - 1 = k
    BY <1>1, <1>16
  <2>2. walk[j] = NextRow(walk[j - 1], row, day)
    BY <1>14, <2>1
  <2> QED
    BY <2>1, <2>2
<1>17. GoAlike(f, walk, 0, N + 2)
  BY <1>1, <1>10, <1>11, <1>15, <1>16 DEF GoAlike
<1>18. walk[N + 2] = f[N + 2]
  <2>1. N + 2 \in 0 .. N + 2
    BY <1>1
  <2> QED
    BY <1>17, <2>1, Agree
<1>19. at(to - m) = ChargedTo(row, to - m, to)
  <2>1. m + (to - m) = to
    BY <1>4
  <2>2. ChargedTo(row, to - m, to)
          = [status |-> row.status, outstanding |-> row.outstanding,
             accrued |-> row.accrued + (to - m) * owed, next_interest_due_date |-> date(to)]
    BY ChargedFields DEF owed, date
  <2> QED
    BY <2>1, <2>2 DEF at
<1> QED
  BY <1>10, <1>13, <1>18, <1>19

---------------------------------------------------------------------------
(* The balances, the payments and the schedule: what a row and the payment *)
(* rows have to do with the installments that were paid when due.          *)

Payments == [{"amount", "interest", "principal", "credit"} -> Nat]

\* The row waits for due date number m of the contract.
Awaits(row, m) ==
  /\ row \in Row /\ m \in 1 .. N + 2
  /\ row.next_interest_due_date = DatesOf[contract][m]

\* Money is neither made nor lost; a loan is active as long as it owes principal,
\* interest is settled before that, and nothing is credit as long as it is owed.
Balanced(row, paid) ==
  /\ row.status = "active" <=> row.outstanding > 0
  /\ row.outstanding = 0 => row.accrued = 0
  /\ row.status = "active" => paid.credit = 0
  /\ paid.amount = paid.interest + paid.principal + paid.credit
  /\ paid.principal + row.outstanding = contract.principal

\* After k installments were paid in full when due, no more is owed than the
\* schedule leaves, and no more interest was paid or is due than it has charged,
\* as long as the next one is not late; and no less was paid than it asks for:
\* who paid exactly that owes exactly what it leaves.
OnTrack(row, paid, k, m) ==
  /\ k \in 0 .. N /\ m >= k + 1 /\ (k = N => m = N + 1)
  /\ row.outstanding <= Max0(Left(contract, k))
  /\ m = k + 1 => row.accrued = 0 /\ paid.interest <= InterestUpTo(contract)[k]
  /\ m = k + 2 /\ k < N =>
       /\ row.accrued <= PeriodInterest(Left(contract, k), contract)
       /\ paid.interest + row.accrued <= InterestUpTo(contract)[k + 1]
  /\ paid.amount >= RepaidUpTo(contract)[k]
  /\ paid.amount = RepaidUpTo(contract)[k] /\ (row.status = "active" \/ k = N) =>
       /\ row.outstanding = Left(contract, k)
       /\ paid.credit = 0
       /\ m = k + 2 => row.accrued = PeriodInterest(Left(contract, k), contract)

LEMMA Amortization ==
  ASSUME contract \in DOMAIN QuoteOf
  PROVE  /\ N \in Nat \ {0} /\ contract \in Contract /\ Acceptable(contract)
         /\ contract.principal \in Nat \ {0}
         /\ Left(contract, 0) = contract.principal /\ Left(contract, N) = 0
         /\ InterestUpTo(contract)[0] = 0 /\ RepaidUpTo(contract)[0] = 0
         /\ \A i \in 0 .. N : i < N => \E l, j, p : Amortizes(contract, i, l, j, p)
         /\ \A i \in 0 .. N :
              /\ Left(contract, i) \in Int /\ InterestUpTo(contract)[i] \in Int
              /\ RepaidUpTo(contract)[i]
                   = InterestUpTo(contract)[i] + contract.principal - Left(contract, i)
<1>1. Calendared(contract, N)
  BY ContractsCalendared DEF N
<1>2. /\ N \in Nat \ {0} /\ contract \in Contract /\ Acceptable(contract)
  BY <1>1 DEF Calendared
<1>3. Amortized(contract)
  BY <1>2, ScheduleAmortizes
<1>4. contract.principal \in Nat \ {0}
  BY <1>2 DEF Contract, Acceptable
<1> QED
  BY <1>2, <1>3, <1>4 DEF Amortized, N

\* A loan that is active has not paid the last installment, and its balance is
\* not above what is left.
LEMMA Unfinished ==
  ASSUME contract \in DOMAIN QuoteOf, NEW row, NEW paid, NEW k, NEW m,
         row \in Row, Balanced(row, paid), OnTrack(row, paid, k, m), row.status = "active"
  PROVE  \E l, j, p : /\ k \in 0 .. N /\ k < N /\ Amortizes(contract, k, l, j, p)
                      /\ l > 0 /\ row.outstanding <= l /\ j >= 0 /\ p >= j
<1>1. row.outstanding \in Nat /\ row.outstanding > 0
  BY DEF Row, Balanced
<1>2. k \in 0 .. N /\ row.outstanding <= Max0(Left(contract, k))
  BY DEF OnTrack
<1>3. Left(contract, k) \in Int
  BY <1>2, Amortization
<1>4. Left(contract, k) > 0 /\ row.outstanding <= Left(contract, k)
  BY <1>1, <1>2, <1>3 DEF Max0
<1>5. k # N
  BY <1>4, Amortization
<1>6. k < N
  BY <1>2, <1>5, Amortization
<1>7. PICK l, j, p : Amortizes(contract, k, l, j, p)
  BY <1>2, <1>6, Amortization
<1> QED
  BY <1>2, <1>4, <1>6, <1>7 DEF Amortizes

\* Charging keeps a loan on track.
LEMMA ChargingOnTrack ==
  ASSUME contract \in DOMAIN QuoteOf, NEW row, NEW paid \in Payments, NEW k, NEW m, NEW to,
         NEW day, Awaits(row, m), Balanced(row, paid), OnTrack(row, paid, k, m),
         row.status = "active", Reaches(m, to, day)
  PROVE  LET next == ChargedTo(row, to - m, to)
         IN  /\ Awaits(next, to) /\ Balanced(next, paid) /\ OnTrack(next, paid, k, to)
             /\ next.status = "active"
<1> DEFINE next == ChargedTo(row, to - m, to)
<1>1. row \in Row
  BY DEF Awaits
<1>2. PICK l, j, p : /\ k \in 0 .. N /\ k < N /\ Amortizes(contract, k, l, j, p)
                     /\ l > 0 /\ row.outstanding <= l /\ j >= 0 /\ p >= j
  BY <1>1, Unfinished
<1>3. N \in Nat \ {0} /\ contract \in Contract /\ Acceptable(contract)
  BY Amortization
<1>4. PICK o \in Nat, a \in Nat : o = row.outstanding /\ a = row.accrued
  BY <1>1 DEF Row
<1>5. PICK u \in Int : u = InterestUpTo(contract)[k] /\ InterestUpTo(contract)[k + 1] = u + j
  BY <1>2 DEF Amortizes
<1>6. /\ l \in Int /\ j \in Int /\ l = Left(contract, k) /\ j = PeriodInterest(l, contract)
      /\ o <= l
  BY <1>2, <1>4 DEF Amortizes
<1>7. PICK w \in Nat : w = PeriodInterest(o, contract) /\ w <= j /\ (o = l => w = j)
  <2>1. PeriodInterest(o, contract) \in Nat /\ PeriodInterest(o, contract) <= j
    BY <1>3, <1>6, PeriodInterestOrder
  <2> QED
    BY <1>6, <2>1
<1>8. /\ m \in Int /\ to \in Int /\ to - m \in Nat /\ to \in 1 .. N + 2
  BY <1>3 DEF Reaches
<1>9. PICK t \in Nat : /\ t = (to - m) * w
                       /\ to - m = 0 => t = 0
                       /\ to - m = 1 => t = w
  BY <1>7, <1>8
<1>10. next = [status |-> "active", outstanding |-> o, accrued |-> a + t,
               next_interest_due_date |-> DatesOf[contract][to]]
  BY <1>1, <1>4, <1>7, <1>9, ChargedFields
<1> HIDE DEF next
<1>11. Awaits(next, to)
  <2>1. DatesOf[contract][to] \in Date
    BY <1>8, ContractsCalendared DEF Calendared, N
  <2>2. next \in Row
    BY <1>10, <2>1 DEF Row
  <2> QED
    BY <1>8, <1>10, <2>2 DEF Awaits
<1>12. Balanced(next, paid)
  <2>1. o > 0
    BY <1>4 DEF Balanced
  <2> QED
    BY <1>4, <1>10, <2>1 DEF Balanced
<1>13. PICK i \in Nat : i = paid.interest
  BY DEF Payments
<1>14. /\ k \in Int /\ m >= k + 1
       /\ m = k + 1 => a = 0 /\ i <= u
       /\ m = k + 2 => a <= j /\ i + a <= u + j
  BY <1>2, <1>4, <1>5, <1>6, <1>13 DEF OnTrack
<1>15. to >= k + 1
  BY <1>8, <1>14
<1>16. to = k + 1 => a + t = 0 /\ i <= u
  BY <1>8, <1>9, <1>14
<1>17. to = k + 2 => a + t <= j /\ i + (a + t) <= u + j
  <2>1. CASE m = k + 1
    BY <1>5, <1>6, <1>7, <1>8, <1>9, <1>14, <2>1
  <2>2. CASE m = k + 2
    BY <1>8, <1>9, <1>14, <2>2
  <2>3. CASE m > k + 2
    BY <1>8, <1>14, <2>3
  <2> QED
    BY <1>8, <1>14, <2>1, <2>2, <2>3
<1>18. ASSUME paid.amount = RepaidUpTo(contract)[k]
       PROVE  /\ o = l /\ paid.credit = 0
              /\ to = k + 2 => a + t = j
  <2>1. o = l /\ paid.credit = 0 /\ (m = k + 2 => a = j)
    BY <1>4, <1>6, <1>18 DEF OnTrack
  <2>2. ASSUME to = k + 2
        PROVE  a + t = j
    <3>1. CASE m = k + 1
      BY <1>7, <1>8, <1>9, <1>14, <2>1, <2>2, <3>1
    <3>2. CASE m = k + 2
      BY <1>6, <1>8, <1>9, <2>1, <2>2, <3>2
    <3>3. CASE m > k + 2
      BY <1>8, <1>14, <2>2, <3>3
    <3> QED
      BY <1>8, <1>14, <3>1, <3>2, <3>3
  <2> QED
    BY <2>1, <2>2
<1>19. OnTrack(next, paid, k, to)
  <2>1. /\ next.outstanding = o /\ next.accrued = a + t /\ next.status = "active"
    BY <1>10
  <2>2. /\ o <= Max0(Left(contract, k)) /\ paid.amount >= RepaidUpTo(contract)[k]
    BY <1>4 DEF OnTrack
  <2>3. k # N
    BY <1>2, <1>3
  <2> QED
    BY <1>2, <1>5, <1>6, <1>13, <1>15, <1>16, <1>17, <1>18, <2>1, <2>2, <2>3 DEF OnTrack
<1> QED
  BY <1>10, <1>11, <1>12, <1>19 DEF next

\* The row and the payment rows after a payment.
Settled(row, amount) ==
  LET p    == Allocate(amount, row)
      left == [row EXCEPT !.accrued = @ - p.interest, !.outstanding = @ - p.principal]
  IN  [left EXCEPT !.status =
         IF left.accrued = 0 /\ left.outstanding = 0 THEN "paid" ELSE @]

CollectedWith(paid, row, amount) ==
  LET p == Allocate(amount, row) IN [f \in DOMAIN p |-> paid[f] + p[f]]

\* Interest i is paid first, then principal q, and the rest r is credit.
Splits(amount, owed, due, i, q, r) ==
  /\ i \in Nat /\ q \in Nat /\ r \in Nat
  /\ amount = i + q + r
  /\ i <= due /\ q <= owed
  /\ i < due => q = 0
  /\ q < owed => r = 0

SettledAs(next, sum, row, paid, amount, i, q, r) ==
  /\ Splits(amount, row.outstanding, row.accrued, i, q, r)
  /\ next \in Row /\ sum \in Payments
  /\ next.next_interest_due_date = row.next_interest_due_date
  /\ next.outstanding = row.outstanding - q /\ next.accrued = row.accrued - i
  /\ next.status = IF next.accrued = 0 /\ next.outstanding = 0 THEN "paid" ELSE row.status
  /\ sum.amount = paid.amount + amount /\ sum.interest = paid.interest + i
  /\ sum.principal = paid.principal + q /\ sum.credit = paid.credit + r

LEMMA SettledSplits ==
  ASSUME NEW row \in Row, NEW paid \in Payments, NEW amount \in Nat
  PROVE  \E i, q, r : SettledAs(Settled(row, amount), CollectedWith(paid, row, amount),
                                row, paid, amount, i, q, r)
<1> DEFINE i == Least(amount, row.accrued)
           q == Least(amount - i, row.outstanding)
           r == amount - i - q
           p == [amount |-> amount, interest |-> i, principal |-> q, credit |-> r]
           next == Settled(row, amount)
           sum == CollectedWith(paid, row, amount)
<1>1. /\ row.outstanding \in Nat /\ row.accrued \in Nat /\ row.status \in {"active", "paid"}
      /\ row.next_interest_due_date \in Date
      /\ row = [status |-> row.status, outstanding |-> row.outstanding,
                accrued |-> row.accrued,
                next_interest_due_date |-> row.next_interest_due_date]
  BY DEF Row
<1>2. Splits(amount, row.outstanding, row.accrued, i, q, r)
  BY <1>1 DEF Splits, Least
<1>3. Allocate(amount, row) = p
  BY DEF Allocate
<1>4. p.interest = i /\ p.principal = q
  OBVIOUS
<1> HIDE DEF i, q, r
<1>5. sum \in Payments /\ sum.amount = paid.amount + amount /\ sum.interest = paid.interest + i
      /\ sum.principal = paid.principal + q /\ sum.credit = paid.credit + r
  <2>1. sum = [f \in {"amount", "interest", "principal", "credit"} |-> paid[f] + p[f]]
    BY <1>3 DEF CollectedWith
  <2>2. i \in Nat /\ q \in Nat /\ r \in Nat
    BY <1>2 DEF Splits
  <2>3. p \in Payments
    BY <2>2 DEF Payments
  <2> HIDE DEF sum
  <2>4. \A f \in {"amount", "interest", "principal", "credit"} : paid[f] + p[f] \in Nat
    BY <2>3 DEF Payments
  <2>5. sum \in Payments
    BY <2>1, <2>4 DEF Payments
  <2> QED
    BY <2>1, <2>5
<1> DEFINE a == row.accrued - i
           o == row.outstanding - q
           left == [row EXCEPT !.accrued = row.accrued - i, !.outstanding = row.outstanding - q]
           s == IF a = 0 /\ o = 0 THEN "paid" ELSE row.status
<1>6. next = [left EXCEPT !.status = IF left.accrued = 0 /\ left.outstanding = 0
                                     THEN "paid" ELSE left.status]
  BY <1>3, <1>4 DEF Settled
<1>7. left = [status |-> row.status, outstanding |-> o, accrued |-> a,
              next_interest_due_date |-> row.next_interest_due_date]
  <2>1. DOMAIN row = {"status", "outstanding", "accrued", "next_interest_due_date"}
    BY <1>1
  <2>2. left = [f \in DOMAIN row |-> IF f = "outstanding" THEN o
                                     ELSE IF f = "accrued" THEN a ELSE row[f]]
    BY <1>1
  <2> QED
    BY <2>1, <2>2
<1> HIDE DEF next, left
<1>8. next = [status |-> s, outstanding |-> o, accrued |-> a,
              next_interest_due_date |-> row.next_interest_due_date]
  <2>1. DOMAIN left = {"status", "outstanding", "accrued", "next_interest_due_date"}
    BY <1>7
  <2>2. s = IF left.accrued = 0 /\ left.outstanding = 0 THEN "paid" ELSE left.status
    BY <1>7
  <2>3. next = [left EXCEPT !.status = s]
    BY <1>6, <2>2
  <2> HIDE DEF s, o, a
  <2>4. next = [f \in DOMAIN left |-> IF f = "status" THEN s ELSE left[f]]
    BY <2>1, <2>3
  <2> QED
    BY <1>7, <2>1, <2>4
<1>9. next \in Row
  <2>1. a \in Nat /\ o \in Nat
    BY <1>1, <1>2 DEF Splits
  <2>2. s \in {"active", "paid"}
    BY <1>1
  <2> HIDE DEF a, o, s
  <2> QED
    BY <1>1, <1>8, <2>1, <2>2 DEF Row
<1>10. SettledAs(next, sum, row, paid, amount, i, q, r)
  <2> HIDE DEF sum
  <2> QED
    BY <1>2, <1>5, <1>8, <1>9 DEF SettledAs
<1> QED
  BY <1>10 DEF next

\* A payment keeps the balances, and a loan on track where it is: ...
LEMMA PayingOnTrack ==
  ASSUME contract \in DOMAIN QuoteOf, NEW row, NEW paid \in Payments, NEW k, NEW m,
         Awaits(row, m), Balanced(row, paid), OnTrack(row, paid, k, m), row.status = "active",
         NEW amount \in Nat \ {0}, NEW next, NEW sum, NEW i, NEW q, NEW r,
         SettledAs(next, sum, row, paid, amount, i, q, r)
  PROVE  /\ Awaits(next, m) /\ Balanced(next, sum)
         /\ OnTrack(next, sum, k, m)
         /\ \* ... or one installment further, when that is paid when due.
            m = k + 2 /\ amount >= ItemsOf(contract)[k + 1].payment
              => OnTrack(next, sum, k + 1, m)
<1>1. /\ row \in Row /\ next \in Row /\ sum \in Payments
      /\ next.next_interest_due_date = row.next_interest_due_date
  BY DEF Awaits, SettledAs
<1>2. PICK l, j, p : /\ k \in 0 .. N /\ k < N /\ Amortizes(contract, k, l, j, p)
                     /\ l > 0 /\ row.outstanding <= l /\ j >= 0 /\ p >= j
  BY <1>1, Unfinished
<1>3. N \in Nat \ {0} /\ contract.principal \in Nat
  BY Amortization
<1>4. PICK o \in Nat, a \in Nat, o1 \in Nat, a1 \in Nat :
        /\ o = row.outstanding /\ a = row.accrued
        /\ o1 = next.outstanding /\ a1 = next.accrued
  BY <1>1 DEF Row
<1>5. PICK ca \in Nat, ci \in Nat, cp \in Nat, cc \in Nat :
        /\ ca = paid.amount /\ ci = paid.interest /\ cp = paid.principal /\ cc = paid.credit
  BY DEF Payments
<1>6. /\ i \in Nat /\ q \in Nat /\ r \in Nat /\ amount = i + q + r
      /\ i <= a /\ q <= o
      /\ i < a => q = 0
      /\ q < o => r = 0
      /\ o1 = o - q /\ a1 = a - i
      /\ next.status = IF a1 = 0 /\ o1 = 0 THEN "paid" ELSE "active"
      /\ sum.amount = ca + amount /\ sum.interest = ci + i
      /\ sum.principal = cp + q /\ sum.credit = cc + r
  BY <1>4, <1>5 DEF SettledAs, Splits
<1>7. /\ o > 0 /\ cc = 0 /\ ca = ci + cp + cc /\ cp + o = contract.principal
  BY <1>4, <1>5 DEF Balanced
<1>8. Awaits(next, m)
  BY <1>1 DEF Awaits
<1>9. o1 = 0 => a1 = 0
  BY <1>4, <1>6, <1>7
<1>10. Balanced(next, sum)
  <2>1. next.status = "active" <=> o1 > 0
    BY <1>4, <1>6, <1>9
  <2>2. o1 > 0 => cc + r = 0
    BY <1>4, <1>6, <1>7
  <2>3. ca + amount = (ci + i) + (cp + q) + (cc + r)
    BY <1>5, <1>6, <1>7
  <2>4. (cp + q) + o1 = contract.principal
    BY <1>3, <1>4, <1>5, <1>6, <1>7
  <2> QED
    BY <1>4, <1>6, <1>9, <2>1, <2>2, <2>3, <2>4 DEF Balanced
<1>11. PICK u \in Int, v \in Int :
         /\ u = InterestUpTo(contract)[k] /\ InterestUpTo(contract)[k + 1] = u + j
         /\ v = RepaidUpTo(contract)[k] /\ RepaidUpTo(contract)[k + 1] = v + p
  BY <1>2 DEF Amortizes
<1>12. /\ l \in Int /\ j \in Int /\ p \in Int
       /\ l = Left(contract, k) /\ j = PeriodInterest(l, contract)
       /\ Left(contract, k + 1) = l - p + j /\ ItemsOf(contract)[k + 1].payment = p
       /\ o <= l
  BY <1>2, <1>4 DEF Amortizes
<1>13. /\ k \in Int /\ m \in Int /\ m >= k + 1 /\ k # N
       /\ m = k + 1 => a = 0 /\ ci <= u
       /\ m = k + 2 => a <= j /\ ci + a <= u + j
       /\ ca >= v
       /\ ca = v => o = l /\ (m = k + 2 => a = j)
  <2>1. k \in Int /\ m \in Int /\ k # N
    BY <1>2, <1>3 DEF Awaits
  <2> QED
    BY <1>2, <1>4, <1>5, <1>11, <1>12, <2>1 DEF OnTrack
<1>14. OnTrack(next, sum, k, m)
  <2>1. o1 <= Max0(l)
    BY <1>2, <1>4, <1>6, <1>12 DEF Max0
  <2>2. m = k + 1 => a1 = 0 /\ ci + i <= u
    BY <1>4, <1>5, <1>6, <1>11, <1>13
  <2>3. m = k + 2 => a1 <= j /\ (ci + i) + a1 <= u + j
    BY <1>4, <1>5, <1>6, <1>11, <1>12, <1>13
  <2>4. ca + amount >= v /\ ca + amount # v
    BY <1>5, <1>11, <1>13
  <2> QED
    BY <1>2, <1>4, <1>6, <1>11, <1>12, <1>13, <2>1, <2>2, <2>3, <2>4 DEF OnTrack
<1>15. ASSUME m = k + 2, amount >= ItemsOf(contract)[k + 1].payment
       PROVE  OnTrack(next, sum, k + 1, m)
  <2>1. amount >= p /\ p >= j /\ j >= a /\ ci + a <= u + j
    BY <1>2, <1>12, <1>13, <1>15
  <2>2. a1 = 0 /\ i = a /\ ci + i <= u + j
    BY <1>2, <1>4, <1>5, <1>6, <1>7, <1>12, <2>1
  <2>3. o1 <= Max0(l - p + j)
    <3>1. CASE q < o
      BY <1>4, <1>6, <1>12, <2>1, <2>2, <3>1 DEF Max0
    <3>2. CASE q = o
      BY <1>4, <1>6, <1>12, <3>2 DEF Max0
    <3> QED
      BY <1>4, <1>6, <3>1, <3>2
  <2>4. ca + amount >= v + p
    BY <1>5, <1>11, <1>12, <1>13, <2>1
  <2>5. ASSUME ca + amount = v + p, next.status = "active" \/ k + 1 = N
        PROVE  o1 = l - p + j /\ cc + r = 0
    <3>1. ca = v /\ amount = p
      BY <1>5, <1>11, <1>12, <1>13, <2>1, <2>5
    <3>2. o = l /\ a = j
      BY <1>13, <1>15, <3>1
    <3>3. CASE q < o
      BY <1>4, <1>5, <1>6, <1>7, <1>12, <2>2, <3>1, <3>2, <3>3
    <3>4. CASE q = o
      <4>1. o1 = 0
        BY <1>4, <1>6, <3>4
      <4>2. k + 1 = N
        BY <1>6, <1>9, <2>5, <4>1
      <4>3. l - p + j = 0
        BY <1>12, <4>2, Amortization
      <4> QED
        BY <1>4, <1>5, <1>6, <1>7, <1>12, <2>2, <3>1, <3>2, <3>4, <4>1, <4>3
    <3> QED
      BY <1>4, <1>6, <3>3, <3>4
  <2>6. k + 1 \in 0 .. N /\ m >= (k + 1) + 1 /\ (k + 1 = N => m = N + 1)
        /\ m = (k + 1) + 1 /\ m # (k + 1) + 2
    BY <1>2, <1>3, <1>13, <1>15
  <2> QED
    BY <1>4, <1>6, <1>11, <1>12, <2>2, <2>3, <2>4, <2>5, <2>6 DEF OnTrack
<1> QED
  BY <1>8, <1>10, <1>14, <1>15

---------------------------------------------------------------------------
(* The inductive invariant.                                                *)

\* The row waits for a due date of the contract, all those before it have
\* arrived, and what is owed and was paid is as OnTrack says.
RInv ==
  /\ contract \in DOMAIN QuoteOf
  /\ today \in Nat /\ today < DueOf[contract][N + 2]
  /\ collected \in Payments
  /\ Balanced(loan, collected)
  /\ \E m : /\ Awaits(loan, m)
            /\ m > 1 => DueOf[contract][m - 1] <= today
            /\ OnTrack(loan, collected, kept, m)

\* The loan is disbursed before its first due date, and nothing was paid.
LEMMA RepaymentInit == Init => RInv
<1> SUFFICES ASSUME Init
             PROVE  RInv
  OBVIOUS
<1>1. Calendared(contract, N) /\ contract \in DOMAIN QuoteOf
  BY ContractsCalendared DEF Init, N
<1>2. /\ N \in Nat \ {0} /\ contract \in Contracts /\ contract.first_due_date \in Date
      /\ DatesOf[contract][1] = contract.first_due_date
      /\ \A i \in 1 .. N + 2 : /\ DueOf[contract][i] \in Int
                               /\ DueOf[contract][i] = DayNumber(DatesOf[contract][i])
      /\ \A i, j \in 1 .. N + 2 : i < j => DueOf[contract][i] + 12 < DueOf[contract][j]
  BY <1>1 DEF Calendared, Contract
<1>3. 1 \in 1 .. N + 2 /\ N + 2 \in 1 .. N + 2 /\ 1 < N + 2
  BY <1>2
<1>4. PICK d \in Int, e \in Int : d = DueOf[contract][1] /\ e = DueOf[contract][N + 2]
  BY <1>2, <1>3
<1>5. d > 7 /\ d < e
  <2>1. d = DayNumber(contract.first_due_date)
    BY <1>2, <1>3, <1>4
  <2>2. d + 12 < e
    BY <1>2, <1>3, <1>4
  <2> QED
    BY <1>2, <1>4, <2>1, <2>2, RepaymentAssumption
<1>6. today = d - 7 /\ today \in Nat /\ today < e
  BY <1>4, <1>5 DEF Init
<1>7. contract.principal \in Nat \ {0}
  BY <1>1, Amortization
<1>8. /\ loan = [status |-> "active", outstanding |-> contract.principal, accrued |-> 0,
                 next_interest_due_date |-> contract.first_due_date]
      /\ collected = [amount |-> 0, interest |-> 0, principal |-> 0, credit |-> 0]
      /\ kept = 0
  BY DEF Init
<1>9. collected \in Payments
  BY <1>8 DEF Payments
<1>10. Awaits(loan, 1)
  BY <1>2, <1>3, <1>7, <1>8 DEF Awaits, Row
<1>11. Balanced(loan, collected)
  BY <1>7, <1>8 DEF Balanced
<1>12. OnTrack(loan, collected, kept, 1)
  <2>1. /\ Left(contract, 0) = contract.principal /\ N # 0
        /\ InterestUpTo(contract)[0] = 0 /\ RepaidUpTo(contract)[0] = 0
    BY <1>1, Amortization
  <2>2. 0 \in 0 .. N /\ 1 >= 0 + 1 /\ 1 # 0 + 2
    BY <1>2
  <2> QED
    BY <1>7, <1>8, <2>1, <2>2 DEF OnTrack, Max0
<1> QED
  BY <1>1, <1>4, <1>6, <1>9, <1>10, <1>11, <1>12 DEF RInv

\* Charging at a day that has a next due date.
LEMMA ChargingReaches ==
  ASSUME RInv, loan.status = "active"
  PROVE  \E m, to : LET next == Charged(loan, today) IN
           /\ Awaits(loan, m) /\ Reaches(m, to, today)
           /\ next = ChargedTo(loan, to - m, to)
           /\ to > 1 => DueOf[contract][to - 1] <= today
           /\ Awaits(next, to) /\ Balanced(next, collected)
           /\ OnTrack(next, collected, kept, to)
           /\ next.status = "active"
<1>1. PICK m : /\ Awaits(loan, m)
               /\ m > 1 => DueOf[contract][m - 1] <= today
               /\ OnTrack(loan, collected, kept, m)
  BY DEF RInv
<1>2. /\ contract \in DOMAIN QuoteOf /\ today \in Int /\ today < DueOf[contract][N + 2]
      /\ collected \in Payments /\ Balanced(loan, collected)
  BY DEF RInv
<1>3. /\ m \in 1 .. N + 2 /\ loan \in Row
      /\ loan.next_interest_due_date = DatesOf[contract][m]
  BY <1>1 DEF Awaits
<1>4. PICK to \in m .. N + 2 : Reaches(m, to, today)
  BY <1>2, <1>3, SomeDueDateReached
<1>5. Charged(loan, today) = ChargedTo(loan, to - m, to)
  BY <1>2, <1>3, <1>4, ChargedThrough
<1>6. /\ Awaits(ChargedTo(loan, to - m, to), to)
      /\ Balanced(ChargedTo(loan, to - m, to), collected)
      /\ OnTrack(ChargedTo(loan, to - m, to), collected, kept, to)
      /\ ChargedTo(loan, to - m, to).status = "active"
  BY <1>1, <1>2, <1>4, ChargingOnTrack
<1>7. to > 1 => DueOf[contract][to - 1] <= today
  <2>1. CASE to = m
    BY <1>1, <2>1
  <2>2. CASE to # m
    <3>1. to > m
      BY <1>3, <1>4, <2>2
    <3> QED
      BY <1>4, <3>1 DEF Reaches
  <2> QED
    BY <2>1, <2>2
<1> QED
  BY <1>1, <1>4, <1>5, <1>6, <1>7

\* A payment moves the next due date as a charge of that day does.
LEMMA PayingMoves ==
  ASSUME RInv, PaySome
  PROVE  /\ loan.status = "active"
         /\ loan'.next_interest_due_date = Charged(loan, today).next_interest_due_date
         /\ UNCHANGED <<contract, today, portfolio>>
<1>1. PICK amount \in {ShownInstallment.payment, ShownInstallment.payment + Extra,
                       Charged(loan, today).accrued} : Pay(amount)
  BY DEF PaySome
<1> DEFINE due == Charged(loan, today)
<1>2. /\ loan' = Settled(due, amount) /\ loan.status = "active"
      /\ UNCHANGED <<contract, today, portfolio>>
  BY <1>1 DEF Pay, Settled
<1>3. due \in Row
  BY <1>2, ChargingReaches DEF Awaits
<1> HIDE DEF due
<1>4. Settled(due, amount).next_interest_due_date = due.next_interest_due_date
  BY <1>3 DEF Settled, Row
<1> QED
  BY <1>2, <1>4 DEF due

LEMMA RepaymentNext == RInv /\ [Next]_vars => RInv'
<1> SUFFICES ASSUME RInv, [Next]_vars
             PROVE  RInv'
  OBVIOUS
<1>1. /\ contract \in DOMAIN QuoteOf /\ today \in Nat /\ today < DueOf[contract][N + 2]
      /\ collected \in Payments /\ Balanced(loan, collected)
  BY DEF RInv
<1>2. PICK m0 : /\ Awaits(loan, m0)
                /\ m0 > 1 => DueOf[contract][m0 - 1] <= today
                /\ OnTrack(loan, collected, kept, m0)
  BY DEF RInv
<1>3. /\ N \in Nat \ {0}
      /\ \A i \in 1 .. N + 2 : DueOf[contract][i] \in Int
      /\ \A i, j \in 1 .. N + 2 : i < j => DueOf[contract][i] + 12 < DueOf[contract][j]
  BY <1>1, ContractsCalendared DEF Calendared, N
\* Nothing that the invariant is about has changed, but the day.
<1>4. ASSUME UNCHANGED <<contract, loan, collected, kept>>, today' \in Nat, today <= today',
             today' < DueOf[contract][N + 2]
      PROVE  RInv'
  <2>1. N' = N
    BY <1>4 DEF N
  <2>2. Awaits(loan, m0)' /\ Balanced(loan, collected)'
    BY <1>1, <1>2, <1>4, <2>1 DEF Awaits, Balanced
  <2>3. OnTrack(loan, collected, kept, m0)'
    BY <1>2, <1>4, <2>1 DEF OnTrack
  <2>4. m0 > 1 => DueOf[contract][m0 - 1] <= today'
    <3> SUFFICES ASSUME m0 > 1
                 PROVE  DueOf[contract][m0 - 1] <= today'
      OBVIOUS
    <3>1. m0 - 1 \in 1 .. N + 2
      BY <1>2, <1>3 DEF Awaits
    <3>2. DueOf[contract][m0 - 1] \in Int /\ DueOf[contract][m0 - 1] <= today
      BY <1>2, <1>3, <3>1
    <3> QED
      BY <1>1, <1>4, <3>2
  <2>5. contract' = contract /\ collected' = collected /\ kept' = kept /\ loan' = loan
    BY <1>4
  <2> QED
    BY <1>1, <1>4, <2>1, <2>2, <2>3, <2>4, <2>5 DEF RInv
\* Something was charged or paid.
<1>5. ASSUME NEW m, UNCHANGED <<contract, today>>, collected' \in Payments,
             Awaits(loan', m), m > 1 => DueOf[contract][m - 1] <= today,
             Balanced(loan', collected'), OnTrack(loan', collected', kept', m)
      PROVE  RInv'
  <2>1. N' = N
    BY <1>5 DEF N
  <2>2. Awaits(loan, m)' /\ Balanced(loan, collected)'
    BY <1>5, <2>1 DEF Awaits, Balanced
  <2>3. OnTrack(loan, collected, kept, m)'
    BY <1>5, <2>1 DEF OnTrack
  <2> QED
    BY <1>1, <1>5, <2>1, <2>2, <2>3 DEF RInv
<1>6. CASE Tick
  <2> DEFINE later == {d \in Calendar[contract] : d > today}
  <2>1. /\ later # {} /\ today' = CHOOSE d \in later : \A e \in later : d <= e
        /\ UNCHANGED <<contract, loan, collected, kept>>
    BY <1>6 DEF Tick
  <2>2. \A d \in later : d \in Int /\ d > today /\ d < DueOf[contract][N + 2]
    <3> SUFFICES ASSUME NEW d \in later
                 PROVE  d \in Int /\ d > today /\ d < DueOf[contract][N + 2]
      OBVIOUS
    <3>1. PICK i \in 1 .. N + 1, o \in Offsets : d = DueOf[contract][i] + o
      BY <1>1 DEF Calendar, N
    <3>2. i \in 1 .. N + 2 /\ N + 2 \in 1 .. N + 2 /\ i < N + 2
      BY <1>3
    <3>3. DueOf[contract][i] + 12 < DueOf[contract][N + 2]
      BY <1>3, <3>2
    <3>4. o \in -7 .. 12
      BY RepaymentAssumption
    <3>5. DueOf[contract][i] \in Int /\ DueOf[contract][N + 2] \in Int
      BY <1>3, <3>2
    <3> QED
      BY <3>1, <3>3, <3>4, <3>5
  <2> HIDE DEF later
  <2>3. \E d \in later : \A e \in later : d <= e
    <3>1. PICK f \in later : TRUE
      BY <2>1
    <3> DEFINE B == {k \in today .. f : \A e \in later : k < e}
    <3>2. today \in B /\ f \notin B /\ today <= f /\ f \in Int /\ today \in Int
      BY <1>1, <2>2
    <3>3. ~Inductive(B, today, f)
      <4>1. B # today .. f
        BY <3>2
      <4> HIDE DEF B
      <4> QED
        BY <4>1, IntervalInduction
    <3>4. PICK k \in B : k < f /\ k + 1 \notin B
      BY <3>2, <3>3 DEF Inductive
    <3>5. PICK d \in later : ~(k + 1 < d)
      BY <1>1, <3>2, <3>4
    <3>6. \A e \in later : d <= e
      BY <1>1, <2>2, <3>2, <3>4, <3>5
    <3> QED
      BY <3>6
  <2>4. today' \in later
    BY <2>1, <2>3
  <2>5. today' \in Nat /\ today <= today' /\ today' < DueOf[contract][N + 2]
    BY <1>1, <2>2, <2>4
  <2> QED
    BY <1>4, <2>1, <2>5
<1>7. CASE Charge
  <2>1. /\ loan.status = "active" /\ loan' = Charged(loan, today)
        /\ UNCHANGED <<contract, today, collected, kept>>
    BY <1>7 DEF Charge
  <2>2. PICK m, to : LET next == Charged(loan, today) IN
          /\ Awaits(loan, m) /\ Reaches(m, to, today)
          /\ next = ChargedTo(loan, to - m, to)
          /\ to > 1 => DueOf[contract][to - 1] <= today
          /\ Awaits(next, to) /\ Balanced(next, collected)
          /\ OnTrack(next, collected, kept, to)
          /\ next.status = "active"
    BY <2>1, ChargingReaches
  <2> QED
    BY <1>1, <1>5, <2>1, <2>2
<1>8. CASE PaySome
  <2>1. PICK amount \in {ShownInstallment.payment, ShownInstallment.payment + Extra,
                         Charged(loan, today).accrued} : Pay(amount)
    BY <1>8 DEF PaySome
  <2> DEFINE due == Charged(loan, today)
  <2>2. /\ loan.status = "active" /\ amount > 0
        /\ UNCHANGED <<contract, today>>
    BY <2>1 DEF Pay
  <2>3. PICK m, to :
          /\ Awaits(loan, m) /\ Reaches(m, to, today)
          /\ to > 1 => DueOf[contract][to - 1] <= today
          /\ Awaits(due, to) /\ Balanced(due, collected)
          /\ OnTrack(due, collected, kept, to)
          /\ due.status = "active"
    BY <2>2, ChargingReaches
  <2>4. loan' = Settled(due, amount) /\ collected' = CollectedWith(collected, due, amount)
    BY <2>1 DEF Pay, Settled, CollectedWith
  <2>5. IF Keeps(amount) THEN kept' = kept + 1 ELSE kept' = kept
    BY <2>1 DEF Pay
  <2> HIDE DEF due
  <2>6. amount \in Nat \ {0}
    <3>1. due \in Row
      BY <2>3 DEF Awaits
    <3>2. ShownInstallment.payment \in Int
      <4> DEFINE found == NextInstallment(loan)
      <4>1. PICK i \in 1 .. N : ShownInstallment = quote.schedule[i]
        <5>1. CASE found = {}
          <6>1. 1 \in 1 .. N
            BY <1>3
          <6> QED
            BY <5>1, <6>1 DEF ShownInstallment
        <5>2. CASE found # {}
          <6>1. found \subseteq 1 .. N
            BY DEF NextInstallment
          <6> HIDE DEF found
          <6>2. (CHOOSE i \in found : TRUE) \in 1 .. N
            BY <5>2, <6>1
          <6> QED
            BY <5>2, <6>2 DEF ShownInstallment, found
        <5> QED
          BY <5>1, <5>2
      <4>2. /\ contract \in Contract /\ Acceptable(contract) /\ quote = Quote(contract)
        BY <1>1, ContractsCalendared DEF Calendared, N, quote
      <4>3. quote.schedule[i] = ItemsOf(contract)[i]
        BY <4>2, QuoteParts DEF N
      <4>4. ItemsOf(contract)[i] \in Installment
        BY <4>2, Installments DEF N
      <4> QED
        BY <4>1, <4>3, <4>4 DEF Installment
    <3>3. due.accrued \in Int
      BY <3>1 DEF Row
    <3>4. ShownInstallment.payment + Extra \in Int
      BY <3>2, RepaymentAssumption
    <3>5. amount \in Int
      BY <2>1, <3>2, <3>3, <3>4 DEF due
    <3> QED
      BY <2>2, <3>5
  <2>7. PICK i, q, r : SettledAs(loan', collected', due, collected, amount, i, q, r)
    <3>1. due \in Row /\ amount \in Nat
      BY <2>3, <2>6 DEF Awaits
    <3> QED
      BY <1>1, <2>4, <3>1, SettledSplits
  <2>8. /\ Awaits(loan', to) /\ Balanced(loan', collected')
        /\ OnTrack(loan', collected', kept, to)
        /\ to = kept + 2 /\ amount >= ItemsOf(contract)[kept + 1].payment
             => OnTrack(loan', collected', kept + 1, to)
    BY <1>1, <2>3, <2>6, <2>7, PayingOnTrack
  <2>9. collected' \in Payments
    BY <2>7 DEF SettledAs
  <2>10. CASE Keeps(amount)
    <3>1. /\ kept < N /\ today = DueOf[contract][kept + 1]
          /\ amount >= quote.schedule[kept + 1].payment
      BY <2>10 DEF Keeps
    <3>2. /\ kept \in 0 .. N /\ to >= kept + 1 /\ to \in 1 .. N + 2
      BY <2>3 DEF OnTrack, Awaits
    <3>3. kept + 1 \in 1 .. N /\ kept + 1 \in 1 .. N + 2 /\ to \in Int
      BY <1>3, <3>1, <3>2
    <3>4. quote.schedule[kept + 1] = ItemsOf(contract)[kept + 1]
      <4>1. quote = Quote(contract)
        BY <1>1, ContractsCalendared DEF Calendared, N, quote
      <4> QED
        BY <3>3, <4>1, QuoteParts DEF N
    <3>5. to = kept + 2
      <4>1. DueOf[contract][to] > today
        BY <2>3 DEF Reaches
      <4>2. to # kept + 1
        BY <1>1, <3>1, <4>1
      <4>3. ASSUME to > kept + 2
            PROVE  FALSE
        <5>1. to - 1 \in 1 .. N + 2 /\ kept + 1 < to - 1 /\ to > 1
          BY <1>3, <3>2, <3>3, <4>3
        <5>2. DueOf[contract][kept + 1] + 12 < DueOf[contract][to - 1]
          BY <1>3, <3>3, <5>1
        <5>3. DueOf[contract][to - 1] <= today /\ DueOf[contract][to - 1] \in Int
          BY <1>3, <2>3, <5>1
        <5> QED
          BY <1>1, <3>1, <5>2, <5>3
      <4> QED
        BY <1>3, <3>2, <4>2, <4>3
    <3>6. OnTrack(loan', collected', kept', to)
      BY <2>5, <2>8, <2>10, <3>1, <3>4, <3>5
    <3> QED
      BY <1>5, <2>2, <2>3, <2>8, <2>9, <3>6
  <2>11. CASE ~Keeps(amount)
    BY <1>5, <2>2, <2>3, <2>5, <2>8, <2>9, <2>11
  <2> QED
    BY <2>10, <2>11
<1>9. ASSUME UNCHANGED <<contract, today, loan, collected, kept>>
      PROVE  RInv'
  <2>1. today' \in Nat /\ today <= today' /\ today' < DueOf[contract][N + 2]
    BY <1>1, <1>9
  <2> QED
    BY <1>4, <1>9, <2>1
<1>10. CASE ReadDashboard
  BY <1>9, <1>10 DEF ReadDashboard
<1>11. CASE UNCHANGED vars
  BY <1>9, <1>11 DEF vars
<1> QED
  BY <1>6, <1>7, <1>8, <1>10, <1>11 DEF Next

\* In every reachable state the loan awaits a due date of its contract, and its
\* balances and payments are those of a loan that is on track or late.
THEOREM RepaymentInvariant == Spec => []RInv
<1>1. Init => RInv
  BY RepaymentInit
<1>2. RInv /\ [Next]_vars => RInv'
  BY RepaymentNext
<1> QED
  BY <1>1, <1>2, PTL DEF Spec

---------------------------------------------------------------------------
(* The properties.                                                         *)

\* No balance of a loan and no sum of its payments is ever negative, whatever
\* its contract asks for and whatever is paid when.
THEOREM BalancesNeverNegative == Spec => []RepaymentTypeOK
<1>1. RInv => RepaymentTypeOK
  <2> SUFFICES ASSUME RInv
               PROVE  RepaymentTypeOK
    OBVIOUS
  <2>1. contract \in Contracts
    BY ContractsCalendared DEF RInv, Calendared
  <2> QED
    BY <2>1 DEF RInv, Awaits, OnTrack, Row, Payments, RepaymentTypeOK
<1> QED
  BY <1>1, RepaymentInvariant, PTL

\* For every contract, who pays each installment of the quote when it is due
\* pays the loan off with the last one: the balance is never above the
\* schedule's, the interest never more than the quote's, and exactly that when
\* the payments are exactly the quote's.
THEOREM SchedulePaysOff == Spec => []PaysOffOnTime
<1>1. RInv => PaysOffOnTime
  <2> SUFFICES ASSUME RInv
               PROVE  PaysOffOnTime
    OBVIOUS
  <2>1. /\ contract \in DOMAIN QuoteOf /\ today \in Nat
        /\ collected \in Payments /\ Balanced(loan, collected)
    BY DEF RInv
  <2>2. PICK m : /\ Awaits(loan, m)
                 /\ m > 1 => DueOf[contract][m - 1] <= today
                 /\ OnTrack(loan, collected, kept, m)
    BY DEF RInv
  <2>3. Calendared(contract, N)
    BY <2>1, ContractsCalendared DEF N
  <2>4. /\ N \in Nat \ {0} /\ quote = Quote(contract) /\ contract.principal \in Nat
        /\ Left(contract, N) = 0
        /\ \A i \in 0 .. N :
             /\ Left(contract, i) \in Int /\ InterestUpTo(contract)[i] \in Int
             /\ RepaidUpTo(contract)[i]
                  = InterestUpTo(contract)[i] + contract.principal - Left(contract, i)
    BY <2>1, <2>3, Amortization DEF Calendared, quote
  <2>5. kept \in 0 .. N /\ m \in 1 .. N + 2 /\ m >= kept + 1 /\ loan \in Row
    BY <2>2 DEF OnTrack, Awaits
  <2>6. kept > 0 => loan.outstanding <= Max0(quote.schedule[kept].closing)
    <3> SUFFICES ASSUME kept > 0
                 PROVE  loan.outstanding <= Max0(quote.schedule[kept].closing)
      OBVIOUS
    <3>1. kept \in 1 .. N /\ kept # 0
      BY <2>4, <2>5
    <3>2. quote.schedule[kept].closing = Left(contract, kept)
      BY <2>4, <3>1, QuoteParts DEF Left, N
    <3> QED
      BY <2>2, <3>2 DEF OnTrack
  <2>7. kept > 0 /\ loan.accrued > 0 => today >= DueOf[contract][kept + 1]
    <3> SUFFICES ASSUME loan.accrued > 0
                 PROVE  today >= DueOf[contract][kept + 1]
      OBVIOUS
    <3>1. m # kept + 1
      BY <2>2 DEF OnTrack
    <3>2. m > kept + 1 /\ m > 1 /\ m - 1 \in 1 .. N + 2 /\ kept + 1 \in 1 .. N + 2
      BY <2>4, <2>5, <3>1
    <3>3. /\ DueOf[contract][m - 1] \in Int /\ DueOf[contract][kept + 1] \in Int
          /\ DueOf[contract][m - 1] <= today
      BY <2>2, <2>3, <3>2 DEF Calendared
    <3>4. CASE m - 1 = kept + 1
      BY <2>1, <3>3, <3>4
    <3>5. CASE m - 1 # kept + 1
      <4>1. kept + 1 < m - 1
        BY <2>5, <3>2, <3>5
      <4>2. DueOf[contract][kept + 1] + 12 < DueOf[contract][m - 1]
        BY <2>3, <3>2, <4>1 DEF Calendared
      <4> QED
        BY <2>1, <3>3, <4>2
    <3> QED
      BY <3>4, <3>5
  <2>8. ASSUME kept = N
        PROVE  /\ loan.status = "paid"
               /\ collected.interest <= quote.total_scheduled_interest
               /\ collected.amount = quote.total_scheduled_repayment
                    => /\ collected.interest = quote.total_scheduled_interest
                       /\ collected.credit = 0
    <3>1. /\ quote.total_scheduled_interest = InterestUpTo(contract)[N]
          /\ quote.total_scheduled_repayment = RepaidUpTo(contract)[N]
      BY <2>4, QuoteParts DEF N
    <3>2. loan.outstanding = 0
      <4>1. loan.outstanding \in Nat /\ loan.outstanding <= Max0(0)
        BY <2>2, <2>4, <2>5, <2>8 DEF OnTrack, Row
      <4> QED
        BY <4>1 DEF Max0
    <3>3. loan.status = "paid"
      BY <2>1, <2>5, <3>2 DEF Balanced, Row
    <3>4. m = kept + 1
      BY <2>2, <2>8 DEF OnTrack
    <3>5. collected.interest <= InterestUpTo(contract)[N]
      BY <2>2, <2>8, <3>4 DEF OnTrack
    <3>6. ASSUME collected.amount = RepaidUpTo(contract)[N]
          PROVE  collected.interest = InterestUpTo(contract)[N] /\ collected.credit = 0
      <4>1. collected.credit = 0
        BY <2>2, <2>8, <3>6 DEF OnTrack
      <4>2. N \in 0 .. N
        BY <2>4
      <4>3. RepaidUpTo(contract)[N] = InterestUpTo(contract)[N] + contract.principal
        BY <2>4, <4>2
      <4>4. /\ collected.amount = collected.interest + collected.principal + collected.credit
            /\ collected.principal = contract.principal
        BY <2>1, <2>4, <3>2 DEF Balanced, Payments
      <4>5. collected.interest \in Nat /\ InterestUpTo(contract)[N] \in Int
        BY <2>1, <2>4, <4>2 DEF Payments
      <4> QED
        BY <2>4, <3>6, <4>1, <4>3, <4>4, <4>5
    <3> QED
      BY <3>1, <3>3, <3>5, <3>6
  <2> QED
    BY <2>6, <2>7, <2>8 DEF PaysOffOnTime
<1> QED
  BY <1>1, RepaymentInvariant, PTL

\* Whenever a charge or a payment moves the next due date, it moves to the first
\* of the contract's due dates after today, over short months, leap days and
\* the end of the year, for every first due date and however late it is.
THEOREM DueDatesNeverDrift == Spec => DueDatesOnSchedule
<1> DEFINE Moves == loan'.next_interest_due_date # loan.next_interest_due_date =>
                      \E i \in DOMAIN DatesOf[contract] :
                         /\ loan'.next_interest_due_date = DatesOf[contract][i]
                         /\ DueOf[contract][i] > today
                         /\ i > 1 => DueOf[contract][i - 1] <= today
<1>1. RInv /\ [Next]_vars => [Moves]_vars
  <2> SUFFICES ASSUME RInv, [Next]_vars,
                      loan'.next_interest_due_date # loan.next_interest_due_date
               PROVE  Moves
    OBVIOUS
  <2>1. ASSUME loan.status = "active",
               loan'.next_interest_due_date = Charged(loan, today).next_interest_due_date
        PROVE  Moves
    <3>1. PICK m, to :
            /\ Reaches(m, to, today)
            /\ to > 1 => DueOf[contract][to - 1] <= today
            /\ Awaits(Charged(loan, today), to)
      BY <2>1, ChargingReaches
    <3>2. to \in DOMAIN DatesOf[contract]
      BY <3>1, ContractsCalendared DEF RInv, Calendared, Awaits, N
    <3>3. /\ loan'.next_interest_due_date = DatesOf[contract][to]
          /\ DueOf[contract][to] > today
      BY <2>1, <3>1 DEF Awaits, Reaches
    <3> QED
      BY <3>1, <3>2, <3>3
  <2> HIDE DEF Moves
  <2>2. CASE Tick
    BY <2>2 DEF Tick
  <2>3. CASE Charge
    BY <2>1, <2>3 DEF Charge
  <2>4. CASE PaySome
    BY <2>1, <2>4, PayingMoves
  <2>5. CASE ReadDashboard
    BY <2>5 DEF ReadDashboard
  <2>6. CASE UNCHANGED vars
    BY <2>6 DEF vars
  <2> QED
    BY <2>2, <2>3, <2>4, <2>5, <2>6 DEF Next
<1> QED
  BY <1>1, RepaymentInvariant, PTL DEF Spec, DueDatesOnSchedule

---------------------------------------------------------------------------
(* What the dashboard's two queries have found.                            *)

DueBy(row, day) == DayNumber(row.next_interest_due_date) <= day

\* The balances are of a row that awaited a due date of the contract, and of the
\* row itself as long as interest is due on it: charging moves the due date past
\* today.  So what the second query finds due is what the first one has found.
PInv ==
  /\ portfolio = [monetary |-> portfolio.monetary, projection |-> portfolio.projection]
  /\ portfolio.monetary # Unread =>
       /\ \E k : Awaits(portfolio.monetary, k)
       /\ DueBy(loan, today) => portfolio.monetary = loan
  /\ portfolio.projection # Unread =>
       /\ portfolio.monetary # Unread
       /\ DueBy(portfolio.projection, today) => portfolio.projection = portfolio.monetary

\* After a charge, nothing is due until another day.
LEMMA ChargedUpToDate ==
  ASSUME RInv, loan.status = "active"
  PROVE  ~DueBy(Charged(loan, today), today)
<1>1. PICK m, to : /\ Reaches(m, to, today) /\ Awaits(Charged(loan, today), to)
  BY ChargingReaches
<1>2. Calendared(contract, N)
  BY ContractsCalendared DEF RInv, N
<1>3. to \in 1 .. N + 2
  BY <1>1 DEF Awaits
<1>4. /\ DueOf[contract][to] \in Int
      /\ DueOf[contract][to] = DayNumber(DatesOf[contract][to])
  BY <1>2, <1>3 DEF Calendared
<1> QED
  BY <1>1, <1>4 DEF Reaches, Awaits, DueBy, RInv

LEMMA DashboardInit == Init => PInv
BY DEF Init, PInv, NoDashboard

LEMMA DashboardNext == RInv /\ PInv /\ [Next]_vars => PInv'
<1> SUFFICES ASSUME RInv, PInv, [Next]_vars
             PROVE  PInv'
  OBVIOUS
\* Nothing is read, and what was read stays of this contract and this day.
<1>1. ASSUME UNCHANGED <<contract, today, portfolio>>,
             loan' = loan \/ ~DueBy(loan', today)
      PROVE  PInv'
  <2>1. N' = N
    BY <1>1 DEF N
  <2>2. \A row, k : Awaits(row, k) =>
          /\ row \in Row /\ k \in 1 .. N' + 2
          /\ row.next_interest_due_date = DatesOf[contract]'[k]
    BY <1>1, <2>1 DEF Awaits, DatesOf
  <2>3. (\E k : Awaits(portfolio.monetary, k)) => (\E k : Awaits(portfolio.monetary, k))'
    BY <1>1, <2>1 DEF Awaits
  <2>4. DueBy(loan, today)' => loan' = loan /\ DueBy(loan, today)
    BY <1>1 DEF DueBy
  <2>5. DueBy(portfolio.projection, today)' <=> DueBy(portfolio.projection, today)
    BY <1>1 DEF DueBy
  <2> QED
    BY <1>1, <2>3, <2>4, <2>5 DEF PInv
<1>2. CASE Tick
  BY <1>2 DEF Tick, NoDashboard, PInv
<1>3. CASE Charge
  <2>1. loan.status = "active" /\ loan' = Charged(loan, today)
        /\ UNCHANGED <<contract, today, portfolio>>
    BY <1>3 DEF Charge
  <2> QED
    BY <1>1, <2>1, ChargedUpToDate
<1>4. CASE PaySome
  <2>1. /\ loan.status = "active"
        /\ loan'.next_interest_due_date = Charged(loan, today).next_interest_due_date
        /\ UNCHANGED <<contract, today, portfolio>>
    BY <1>4, PayingMoves
  <2>2. ~DueBy(loan', today)
    BY <2>1, ChargedUpToDate DEF DueBy
  <2> QED
    BY <1>1, <2>1, <2>2
<1>5. CASE ReadDashboard
  <2>1. UNCHANGED <<contract, today, loan>>
    BY <1>5 DEF ReadDashboard
  <2>2. N' = N
    BY <2>1 DEF N
  <2>3. (\E k : Awaits(loan, k))'
    BY <2>1, <2>2 DEF RInv, Awaits
  <2>4. CASE portfolio' = [monetary |-> loan, projection |-> Unread]
    BY <2>1, <2>3, <2>4 DEF PInv
  <2>5. CASE /\ portfolio.monetary # Unread
             /\ portfolio' = [portfolio EXCEPT !.projection = loan]
    <3>1. /\ portfolio' = [monetary |-> portfolio.monetary, projection |-> loan]
          /\ portfolio'.monetary = portfolio.monetary /\ portfolio'.projection = loan
      BY <2>5 DEF PInv
    <3>2. (\E k : Awaits(portfolio.monetary, k))'
      BY <2>1, <2>2, <2>5, <3>1 DEF PInv, Awaits
    <3>3. DueBy(loan, today) => portfolio.monetary = loan
      BY <2>5 DEF PInv
    <3>4. DueBy(loan, today)' => portfolio'.monetary = loan'
      BY <2>1, <3>1, <3>3 DEF DueBy
    <3>5. DueBy(portfolio.projection, today)' => portfolio'.projection = portfolio'.monetary
      BY <2>1, <3>1, <3>3 DEF DueBy
    <3> QED
      BY <2>5, <3>1, <3>2, <3>4, <3>5 DEF PInv
  <2> QED
    BY <1>5, <2>4, <2>5 DEF ReadDashboard
<1>6. CASE UNCHANGED vars
  BY <1>1, <1>6 DEF vars
<1> QED
  BY <1>2, <1>3, <1>4, <1>5, <1>6 DEF Next

\* Whatever is charged or paid between the two queries of the dashboard, and
\* however late the loan is, the owner is never shown more interest than the
\* borrower would be charged today, unless the loan is ahead of its schedule.
THEOREM DashboardNeverOverstates == Spec => []InterestShownIsOwed
<1>1. RInv /\ PInv => InterestShownIsOwed
  <2> SUFFICES ASSUME RInv, PInv,
                      portfolio.monetary # Unread, portfolio.projection # Unread,
                      NotAhead(portfolio.monetary, portfolio.projection)
               PROVE  InterestShown(portfolio) <= Charged(portfolio.monetary, today).accrued
    BY DEF InterestShownIsOwed
  <2> DEFINE row == portfolio.monetary
             owed == PeriodInterest(row.outstanding, contract)
  <2>1. /\ contract \in DOMAIN QuoteOf /\ today \in Nat /\ today < DueOf[contract][N + 2]
        /\ contract \in Contract /\ Acceptable(contract)
        /\ N \in Nat \ {0} /\ quote = Quote(contract)
        /\ \A i \in 1 .. N + 2 : /\ DueOf[contract][i] \in Int
                                 /\ DueOf[contract][i] = DayNumber(DatesOf[contract][i])
    <3>1. contract \in DOMAIN QuoteOf /\ today \in Nat /\ today < DueOf[contract][N + 2]
      BY DEF RInv
    <3> QED
      BY <3>1, ContractsCalendared DEF Calendared, N, quote
  <2>2. PICK k : Awaits(row, k)
    BY DEF PInv
  <2>3. PICK to \in k .. N + 2 : Reaches(k, to, today)
    BY <2>1, <2>2, SomeDueDateReached DEF Awaits
  <2>4. /\ row.outstanding \in Nat /\ row.accrued \in Nat /\ owed \in Nat
        /\ to - k \in Nat
    <3>1. row.outstanding \in Nat /\ row.accrued \in Nat /\ k \in 1 .. N + 2
      BY <2>2 DEF Awaits, Row
    <3>2. owed \in Nat
      <4>1. row.outstanding \in Int /\ row.outstanding <= row.outstanding /\ row.outstanding >= 0
        BY <3>1
      <4> QED
        BY <2>1, <4>1, PeriodInterestOrder
    <3> QED
      BY <2>1, <2>3, <3>1, <3>2
  <2>5. Charged(row, today).accrued = row.accrued + (to - k) * owed
    <3>1. row \in Row
      BY <2>2 DEF Awaits
    <3>2. Charged(row, today) = ChargedTo(row, to - k, to)
      BY <2>1, <2>2, <2>3, ChargedThrough DEF Awaits
    <3> HIDE DEF row
    <3> QED
      BY <3>1, <3>2, ChargedFields
  <2> DEFINE shown == portfolio.projection.status = "active" /\ DueBy(portfolio.projection, today)
             found == NextInstallment(portfolio.projection)
  <2>6. CASE shown /\ found # {}
    <3>1. portfolio.projection = row
      BY <2>6 DEF PInv
    <3> DEFINE i == CHOOSE j \in found : TRUE
    <3>2. i \in found
      BY <2>6
    <3>3. i \in 1 .. N /\ row.outstanding >= quote.schedule[i].opening
      BY <3>2 DEF NotAhead, NextInstallment
    <3>4. InterestShown(portfolio) = row.accrued + quote.schedule[i].interest
      BY <2>6 DEF InterestShown, DueBy
    <3> HIDE DEF i
    <3>5. quote.schedule[i].interest \in Int /\ quote.schedule[i].interest <= owed
      <4>1. PICK h \in 0 .. N : h < N /\ h + 1 = i
        <5>1. i - 1 \in 0 .. N /\ i - 1 < N /\ i - 1 + 1 = i
          BY <2>1, <3>3
        <5> QED
          BY <5>1
      <4>2. /\ ItemsOf(contract)[h + 1] = Item(h + 1, N, Left(contract, h), Payment(contract),
                                               contract, Due(contract)[h + 1])
            /\ ItemsOf(contract)[h + 1] \in Installment
        BY <2>1, <3>3, <4>1, Installments DEF N
      <4>3. quote.schedule[i] = ItemsOf(contract)[i]
        BY <2>1, <3>3, QuoteParts DEF N
      <4>4. /\ quote.schedule[i].interest = PeriodInterest(quote.schedule[i].opening, contract)
            /\ quote.schedule[i].opening \in Int
        BY <4>1, <4>2, <4>3 DEF Item, Installment
      <4>5. row.outstanding \in Int
        BY <2>4
      <4> QED
        BY <2>1, <3>3, <4>4, <4>5, PeriodInterestOrder
    <3>6. to - k >= 1
      <4>1. DueOf[contract][k] <= today
        BY <2>1, <2>2, <2>6, <3>1 DEF DueBy, Awaits
      <4>2. to # k
        BY <2>1, <2>2, <2>3, <4>1 DEF Reaches, Awaits
      <4> QED
        BY <2>2, <2>3, <2>1, <4>2 DEF Awaits
    <3>7. (to - k) * owed >= owed
      BY <2>4, <3>6
    <3> QED
      BY <2>4, <2>5, <3>4, <3>5, <3>7
  <2>7. CASE ~(shown /\ found # {})
    <3>1. InterestShown(portfolio) = row.accrued
      <4>1. InterestShown(portfolio) = row.accrued + 0
        BY <2>7 DEF InterestShown, DueBy
      <4> QED
        BY <2>4, <4>1
    <3>2. (to - k) * owed >= 0
      BY <2>4
    <3> QED
      BY <2>4, <2>5, <3>1, <3>2
  <2> QED
    BY <2>6, <2>7
<1>2. Init => PInv
  BY DashboardInit
<1>3. RInv /\ PInv /\ [Next]_vars => PInv'
  BY DashboardNext
<1>4. Spec => []PInv
  BY <1>2, <1>3, RepaymentInvariant, PTL DEF Spec
<1> QED
  BY <1>1, <1>4, RepaymentInvariant, PTL
=============================================================================
