# A TLA+ model of Lending Nelson

Lending Nelson is a lending back office for one lender: a FastAPI/SQLAlchemy
backend over PostgreSQL (`backend/app`) and two Flutter clients, one for the
owner and one for borrowers (`apps/`). This directory holds TLA+ specifications
of the parts in which money or promises can go wrong when requests overlap,
fail, or are sent again; TLC configurations that check them on small instances;
and proofs, checked by TLAPS, that every safety property the runs check of this
system holds for every value of its parameters.

Everything is translated from the source. `PROJECT.json` maps each definition
to the lines it models.

## 1. Inventory

Each row says what state a component keeps, what changes it, and what should
hold. "M" in the last column: modelled; "P": partly; "-": planned or left out.

| Component (source) | State | Operations | Correct means | |
|---|---|---|---|---|
| Payment posting (`payments/`) | `payments` rows, the loan's balances | `post_payment`, list queries | one payment per idempotency key; balances follow the payments; an answered payment is on record | M |
| Accrual batch (`loans/accrual_service.py`) | `accrued_interest`, `next_interest_due_date` | `accrue_due_interest` | each due date charged once, by the batch or by a payment | M |
| Loan lifecycle (`loans/service.py`) | `loans` rows | create from request, disburse, cancel | no way back from paid or cancelled; one loan per request, with its terms | M |
| Calculator (`loans/calculator.py`) | none | rounding, allocation, due dates, quote | interest first, then principal; the schedule adds up; dates neither drift nor skip | M |
| Accounting (`accounting/`) | accounts, journals | journals of disbursement and payment, reversal | the ledger agrees with the loan book | P |
| Sessions (`db/session.py`) | a transaction | commit by the caller, else discard | nothing half done | M |
| Notification outbox (`notifications/`) | `notification_outbox`, `notifications` | enqueue, dispatch, retry, mark read | delivered once; given up only after the last attempt | P |
| Loan requests (`loan_requests/`) | `loan_requests` rows | submit, cancel, approve, reject | one pending request per borrower; decided once, as announced | M |
| Registration (`borrowers/registration_*`) | registrations, borrowers | create, approve, reject | one account per phone and national id; decided once | M |
| Activation, borrower sessions (`borrowers/auth_*`) | codes, accounts, devices, refresh tokens | issue, activate, login, refresh, logout | codes used once, attempts limited; a token is exchanged once; a logout is final | M |
| Owner identity (`owner_identity/`) | owner, refresh tokens | bootstrap, login, refresh, logout | as above, single owner | M |
| Reports (`reports/`) | none | snapshot, statements | show what is stored, and never more interest than is owed, whatever commits between their queries | P |
| Mobile API clients (`apps/*/lib/core/network`) | stored tokens, a refresh in flight | request, refresh, logout, retry | one refresh at a time; the stored token works; logout wins | P |
| Screens, themes, routes, configuration, migrations | - | - | - | - |

**How they interact.** An HTTP handler takes a session from `get_db`, calls a
service function, and commits or not; the service functions flush and never
commit. Loan servicing, accounting and the outbox meet inside one transaction:
a payment or disbursement writes the loan row, its own row, its journal and its
notification intent before one commit. The dispatcher is a separate process
over the outbox table. The accrual batch is triggered through an endpoint by an
external scheduler. A loan request becomes a loan in one transaction that locks
the request; a registration becomes a borrower with an account in one that locks
the registration. The clients talk HTTP, refresh their token when it is refused,
and retry on their own.

**What is hard.** Row locks taken one by one by a batch and by single requests;
a unique index as the last defence against retries; callers that forget the
commit; payments with business dates in the past, in any order with the batch;
rounding and the exact cent at which a loan is paid; a batch of notifications
that shares one transaction; a retry endpoint that does not lock what it
checks; submissions and registrations that look first and insert later, with
only an index between them; dates that step through short months; a report of
several queries; refresh tokens whose successor is lost on the way, and a logout
that crosses a refresh. `PROJECT.json` lists
these hazards at their lines, with the properties that cover them.

## 2. Modules

    LoanContract            arithmetic of one loan: pure operators
      +- LoanBook           abstract: each operation takes effect at one instant
      +- LoanServicing      the transactions: sessions, row locks, failures
           +- LoanProperties          what must hold; ImplementsBook is the refinement
                +- MCLoanServicing    TLC instances
                +- LoanServicing_proofs
                     +- LoanHistory_proofs
    NotificationDispatch    the outbox, dispatcher runs, manual retry
      +- MCNotificationDispatch       TLC instances
      +- NotificationDispatch_proofs
    RequestLife             abstract: a request's life, each operation at one instant
      +- Origination        the transactions; ImplementsLife is the refinement
           +- MCOrigination           TLC instance
           +- Origination_proofs
    Onboarding              registration, decision, activation codes
      +- Onboarding_proofs --------------+
    TokenRotation           refresh tokens on the server, and the apps that hold them
      +- TokenRotation_proofs ---------+ |
    BorrowerAccess          both together (EXTENDS Onboarding, TokenRotation)
      +- MCBorrowerAccess             TLC instance
      +- BorrowerAccess_proofs --------+-+
    RepaymentSchedule       calendar, rounding and quote: pure operators
      +- Repayment          one loan against its schedule, and what is shown of it
           +- MCRepayment             TLC instance
           +- Repayment_proofs

### LoanContract and LoanBook

Money is a number of centavos; amounts before rounding are in thousandths of a
centavo, so that `QuantizeMoney` is `ROUND_HALF_UP` and a request can round to
zero. A day is a number and `DueDate[l][i]` the date of the loan's i-th period;
a row keeps the index of the next period where the table keeps its date. A
journal is one signed amount per account. `Accrued` is the loop shared by
`post_payment` and `accrue_due_interest`; `Allocate` is `allocate_payment`;
`Posting`, `Accrual`, `Disbursement` and `Cancellation` are what the handlers
write. `charges` is a history variable: the principal each charged period was
computed on. `LoanBook` lets each of these happen at one instant, on current
rows. It is what an owner believes the system does.

### LoanServicing

| Model | Code |
|---|---|
| `Open`, `OpenOnLoan`, `OpenAccrual` | a request arrives and `get_db` opens a session; the batch's query chooses the rows that are due as it starts, in any order |
| `LockRow` | `SELECT ... FOR UPDATE` of the next row: wait, then read the last committed version |
| `DisburseLoan`, `CancelLoan`, `ReplayPayment`, `PostPayment`, `AccrueInterest` | the whole handler after its lock, with its early returns; `AccrueInterest` re-evaluates the query's WHERE on the locked version, as READ COMMITTED does |
| `Flush` / `written` | flushed and not committed |
| `Respond`, `LoseAnswer`, `Commit` | the caller commits, if it is one that does (`Committing`), and answers; the answer may be lost |
| `Fail`, `Closed` | death, disconnect, cancellation: the session closes and its writes are discarded |
| `Collides`, `Recorded` | the unique index on (loan, key) and the `IntegrityError` branch |
| `DeadlockVictim` | PostgreSQL cancels one session of a cycle |

A handler between its locks and its flush reads only rows it holds and rows
keyed by them (the payments of the loan), so it is one step. The commit is a
separate step: the calendar, other sessions and failures come between. The
requests' contents (loan, key, amount, date) are chosen where they are used.

### NotificationDispatch

A run of the dispatcher claims the oldest due rows no other run holds, attempts
them in order, staging what it changes and inserts, and commits the batch.
`Deliver` is the in-app provider; `Refuse` any provider that declines or raises
before it reaches the database; `BreakDown` an INSERT the database refuses: the
provider's flush rolls the transaction back and expires its rows, so the
handler that should count the failure raises as well. `RetryRead` and
`RetryReset` are the two halves of the owner's retry, which reads without a
lock. `next_attempt_at` is kept as the time still to wait, so that time needs
no bound; a wait never exceeds the backoff's maximum.

### RequestLife and Origination

| Model | Code |
|---|---|
| `Configure` | the operator sets or clears `default_monthly_estimate_rate` |
| `ReadRate`, `CheckPending`, `InsertRequest` | `submit_loan_request`: three statements, between which others commit; `HeldUp` is the wait that a unique index causes, `HasPending` its verdict |
| `Open`, `LockRequest` | a review or conversion arrives and waits for `SELECT ... FOR UPDATE` |
| `CancelRequest`, `ApproveRequest`, `RejectRequest`, `ConvertRequest` | the handler after its lock |
| `Respond`, `LoseAnswer`, `Commit`, `Announced` | commit of the row, the loan and the intent together, then the answer |
| `Fail` | any failure before the commit |

A handler reads `business_settings` with the ORM, unlocked, so that the rate is
the one of the first statement. A plan (principal, term, frequency, first due
date) is a model value: no property tells its fields apart here.

### Onboarding, TokenRotation and BorrowerAccess

`Onboarding` follows a person from `Register` (`Register`, `LookUpPending`,
`InsertRegistration`: the two look-ups and the insert of `create_registration`)
over `Approve` and `InsertAccount` or `Reject` (the row lock, the look-up and the
insert of borrower, account and intent) to `IssueCode`, `GuessCode` and
`Activate`, which lock the account. `desk[c]` is what session `c` has read and
flushed, `CommitDesk` makes it visible. A registration, borrower and account with
their identity are one index `r`: the borrower takes over the registration's
values. `guesses` is a history variable: the wrong tries that were answered or
whose answer was lost after a commit.

`TokenRotation` has the rows of `refresh_tokens` and the app's side of them.
A refresh and a logout lock the token's row (`FreeToken`), a login inserts its
device if it is unknown (`InsertDevice`). An app waits for its calls
(`calls[a]`) and `Hears` their success, refusal or failure, as the interceptor of
`api_client.dart` and the controller do: `CallRefresh` in a single flight,
`CallLogout` with the token stored when the user asked, sent again after a
refresh. `GiveUp` is a timeout while the server goes on, `Restart` the loss of
everything but the secure storage, `Expire` time. `broken[a]` records that the
app may have missed an answer or its token's end.

`BorrowerAccess` runs both as one server does, interleaved: an account can sign in exactly
while it is activated, the owner once he is created.

### RepaymentSchedule and Repayment

`RepaymentSchedule` is `calculator.py` on a real calendar: `LastDay`, `DayNumber`,
`BuildDueDates` (all dates from the first), `AdvanceDueDate` (one from another),
`Quantized` (half up), `ScheduledPayment` and `Quote`. Rates are multiples of
1 / `RateBase`, so that every amount before rounding is an exact fraction.
`Repayment` charges and pays one loan day by day (`Charge`, `Pay`, `Tick`) and
reads it as the clients do: `ShownInstallment` is the next payment in
`list_borrower_loans`, `ReadDashboard` two of the queries of
`get_portfolio_snapshot`, in their order and with any charge or payment between
them, `InterestShown` and `CountedOverdue` what it makes of them. Sessions and failures are left to `LoanServicing`; the arithmetic that
`LoanContract` abstracts (a date is a number there, a period's interest one
operator) is exact here. `Contract` is the shape of a quote request and
`Acceptable` its validation; the recursive definitions (the steps from date to
date, `Power`, the running balance of the schedule) are recursive functions, so
that they can be reasoned about.

## 3. Runs

| Run | Question | Result |
|---|---|---|
| `MCLoanServicing` | Does the money add up, and is every history one of the serial book, with two sessions, retries, failures and lost answers on one loan? | holds |
| `MCTwoLoans` | The same refinement with batches that lock two rows and deadlock; the inductive invariant of the proofs; and does every request end? | holds, the last under `Fairness` |
| `MCPaymentEndpoint` | The payment endpoint as written, without a commit | an answered payment is lost |
| `MCBackdated` | Is interest computed on the principal that earlier-dated payments left? | not after the batch has charged the due date |
| `MCNotificationDispatch` | Attempts, backoff and uniqueness with two runs, crashes, two manual retries and an undeliverable intent | holds |
| `MCOrigination` | Is every history of concurrent submissions, reviews, conversions and rate changes one of the serial life of requests? | holds |
| `MCBorrowerAccess` | From the owner's bootstrap to an app's logout: one account per person, one use of a code, of a token, of a decision? | holds |
| `MCRepayment` | Do dates, rounding, the schedule and the charges agree over a contract's life, and does the dashboard ever show more interest than is owed? | holds |
| `MCDashboard` | Is the portfolio as REPORTING_RULES.md defines it? | neither its accrued interest nor its overdue count is |
| `MCDispatchLiveness` | Does every intent settle? | holds under `Fairness` if all texts fit |
| `MCOversizedIntent` | The same, if a text does not fit its table | never settles |
| `MCStaleRetry` | Does a retry reset dead letters only? | a delivered intent is reset |

**Bounds.** `MCLoanServicing`: one loan (rows of different loans interact only
through locks held together, which `MCTwoLoans` covers), two sessions (a third
only waits for the same row), two keys, four days with due dates among them, so
that accrual of several periods, payments before, on and after a due date and
disbursement after one all happen; the amounts round to zero, pay interest
partly, pay part of the principal, and overpay. `MCTwoLoans`: one key and two
days; two sessions suffice for a lock cycle, and disbursements, cancellations and
payments wait before and behind the batches. `MCNotificationDispatch`: three
intents against a batch of two, three attempts (backoff 2, then 4 capped to 3).
`MCOrigination`: two borrowers, two requests and three sessions, so that a
submission can wait for another borrower's, or its own, insert while a third
session reviews; two rates, so that a change between submission and conversion
shows; `RoomToSubmit` keeps an identity for each submission under way.
`MCBorrowerAccess`: two registrations of one national id and two numbers, which
coincide in both, or in the id only; two clerks; two codes of two attempts; two
PINs, so that the winner of two activations shows; one app with three tokens and
two of its calls on the server at once (a refresh with a logout, a given-up call
with its successor, two logins). The two parts share nothing but the set of accounts that can sign in, and
`BoundedNext` keeps their product small. While onboarding is under way with one
person and one clerk at a time (`Early`), apps call with two tokens and one of
their calls on the server at a time (`FewTokens`): they log in and refresh while an
account is registered, approved and not yet activated, or being activated. All
three tokens and two calls at once come when onboarding is at rest (`Settled`). The
proofs need no such bound. `MCRepayment`: nine contracts, one of
them refused, over the ends of February in leap and other years, of the year, and of
months of 30 days; days are the due dates, the day before and eight days after, so that
several periods can be due at once; payments are the installment shown, 7.00
more, or the interest only, two of them at most outside the schedule. Symmetry
is used in safety runs only. Sessions, runs and retry requests that
have ended start again, so that their number bounds concurrency and not the
length of a history. Where `CHECK_DEADLOCK` is off the system may stop: the outbox
with every intent settled, onboarding with every identity used and every token
issued, the repayment at the end of its calendar.

**Fairness.** `LoanServicing` assumes of each open session that the server goes
on with it (`SF`, because waiting for a row is enabled and disabled again by
others; PostgreSQL queues lock requests, so that a waiting session does get the
row) and that deadlocks are broken. It assumes nothing about the arrival of
requests, the clock or failures. `NotificationDispatch` assumes that runs are
started again, also after crashes, that no intent meets a crash in every run
that attempts it, and that time passes. Nothing in the application starts the
dispatcher; this is the worker NOTIFICATION_RULES.md 6 leaves to deployment.

## 4. What the runs found

1. `owner_post_payment` never commits: its payment is discarded after a 201.
   The integration tests share one session between requests, which hides it.
   All other loan-servicing runs are of the system with that commit in place,
   as the accounting and loan endpoints have it (`Committing`).
2. Interest already charged is not revised by a payment with an earlier date.
3. A rejection note of 500 to 1000 characters makes a notification that cannot
   be inserted; the dispatcher then fails as a whole, again and again.
4. Two concurrent retries of one dead letter can reset a delivered intent.
5. The portfolio's `accrued_interest` is not the stored one that
   REPORTING_RULES.md 2 defines: a due installment's projected interest is added.
   What is shown is nevertheless never more than the borrower would be charged
   that day (`InterestShownIsOwed`), except for a loan ahead of its schedule,
   which is shown the schedule's interest; of several periods due one is shown.
6. The portfolio counts overdue loans by `next_interest_due_date`, which
   REPORTING_RULES.md 7 says is no proxy for it: charging interest moves the date
   on, so that an accrual run takes loans in arrears out of the count.

The last two are one run: `DashboardAsRuled` says that one of the two rules
holds of what a snapshot has found, and fails where neither does.

Modelling the other parts found behaviour that no document contradicts; it is
in the models, and no property holds it against the code:

- A logout whose token a concurrent refresh has rotated is answered with 401;
  the interceptor refreshes and sends the same body again, which is refused
  again, without a bound on the repetitions
  (`borrower_mobile/lib/core/network/api_client.dart:66`, `CallLogout` and
  `HearsRefusal`).
- A registration of a person who is being approved at that moment can be stored
  as pending; it cannot become a second account (`OneAccountPerPerson`).
- Two first logins of one device collide on its row, and the second is answered
  with 500 (`InsertDevice`).
- After the last period has been charged no installment has the loan's next due
  date, and the borrower is shown the first one (`ShownInstallment`).
- For a principal of a few centavos the rounded installments repay it before
  the last one, whose principal is then negative; `PaysOffOnTime` still holds,
  because the loan is paid by then.

## 5. What is proved

Every theorem is about `Spec` with the constants left open; the assumptions on
them are the named ones, each evaluated by TLC for the instances of the runs.

**Loan servicing.** `LoanServicing_proofs` begins with the lemmas about the
arithmetic: allocation splits an amount completely and leaves credit only when
nothing is owed; the entries of a payment's journal balance; accrual keeps the
principal. From the assumptions `ContractAssumption` (finitely many loans,
positive principals, increasing due dates) and `ServicingAssumption` alone, for
any number of loans, sessions, keys, amounts and days:

- `TypeCorrect`: the type invariant.
- `NoLostUpdate`, `LateCommitIsSound`: what a session read under lock stays
  current, and what it flushed stays what its handler would write.
- `Refinement`: `LoanServicing` implements `LoanBook`.
- `PaidExactlyWhenSettled`, `PaymentsExplainBalances`, `CreditOnlyAtPayoff`,
  `PostedInDateOrder`, `KeysPostOnce`: the history properties.
- `EventsComplete`: a disbursement or payment is on record exactly with its
  journal and its intent.
- `EachPeriodChargedOnce`: the batch and the payments together charge each due
  date once, and each centavo charged is paid or still accrued.
- `LedgerAgrees`: the journals add up to what the rows say.
- `HistoryNeverRewritten` (an action property): no payment, charge, journal or
  intent is changed or withdrawn, and a paid or cancelled row is final.
- `CommitDecidesAnswers`, for every set `Committing`: if the caller of
  `post_payment` commits, a payment the owner was told is recorded stays on
  record; if it does not, as the endpoint is written (finding 1), no payment is
  ever on record.

**The argument.** The properties of committed tables are not inductive: a
commit installs rows computed long before. `IInv` adds what makes the delay
harmless: a row is held by one session (`Exclusive`), a held row is still the
committed row (`LockedRowsAreCurrent`), and flushed writes are an effect of the
handler on the rows as they are now, all its checks still true
(`StagedWritesAreSound`). Each action is one step of the proof, and a session
that does nothing is a `Bystander`: others touch only rows they hold, and time
only makes `date <= today` truer. With `IInv` a commit is a step of the book,
which gives `Refinement`; and the five history theorems need only look at the
serial operations (`LoanStep`), with `HInv` as their joint invariant: payments
are unique by key because the lookup and the insert happen under one lock, and
the branch for a refused insert is never needed (`NoCollision`).

Four more parts make `LInv`, the invariant behind the ledger: the status tells
whether a loan was disbursed, and one that was not has no history (`Dated`),
each event has its two companions (`Together`), the interest paid and accrued is that of the periods charged
(`ChargedOnce`), and each account's sum over the journals is what row and
payments make of it (`InLedger`). A journal is identified by its event, so that
`InLedger` needs `Together` and the uniqueness of keys: adding a journal that is
already there would leave the sum as it was. `CommitDecidesAnswers` adds
`PostedByPayers`: only a session of `post_payment` has a payment to post, so that
what is answered is what its own commit has written.

Sums over sets are folds of the community modules, recursive functions on the
subsets of a set. The library states induction with an operator as a parameter,
which the provers cannot use; here it is stated on sets. `MinimalSubset`: if some
subset of a finite set fails a claim, there is one all of whose proper subsets
satisfy it. From it follow that the fold's equation has a solution and one only
(`FoldExists`, `FoldUnique`) and what a sum is of one more element, of a union,
of a constant, of a difference (`SumRemove`, `SumUnion`, `SumConstant`,
`SumMinus`).

**The outbox.** From `DispatchAssumption`, for any number of intents, runs,
retry requests and attempts and any batch size: `DispatchTypes`,
`DeliveredAtMostOnce`, `AttemptsAgree`, `AttemptsOnDueOnly`. What a run has
staged says nothing yet about the tables, so `Inv` relates the two: a claimed
row is still due until its run ends (`RunOK`), what is staged for it is one more
attempt than the table has (`Outcome`), and no two runs hold the same row
(`Exclusive`). Then a commit writes rows nobody else holds (`CommitRows`), and a
reset, even a stale one, only touches free rows (`FreeRowStep`).

**Origination.** From `OriginationAssumption`, for any number of borrowers, plans,
rates, requests and sessions: `Types`, `OnePending`, `LoansFollowApprovals`,
`EventsFollowDecisions`, `AnswersStay` and `Refinement` (`Origination` implements
`RequestLife`). The look-up of a submission proves nothing by the time it
inserts; what counts is the moment of the flush, from which the index keeps other
inserts waiting. `IInv` therefore says of a flushed session (`FlushedSound`) that
its whole effect is still allowed by the tables as they are, and of two sessions
(`Apart`) that they are not about one request, nor flush a pending row of one
borrower. A commit is then a step of the abstract life.

**Onboarding.** From `OnboardingAssumption`, for any number of registrations,
persons, codes, attempts and sessions: `OnboardingTypes`, `PersonsApart`,
`OneDecision`, `NoGuessIsFree`, `OneActivation`. `OInv` describes each kind of
session by what it has locked or flushed (`Registering`, `Deciding`, `Coding`) in
terms of the present tables, and keeps sessions `Separate`: two flushed inserts
are not of one person, because one would have waited. `CodesMove` is all that an
operation does to an account's codes.

**Refresh tokens.** From `RotationAssumption`, for any number of apps, accounts,
tokens and sessions: `RotationTypes`, `RotatedOnce`, `LoggedOutForGood`,
`HeldTokensWork`. The last one spans server and app, and its invariant `AppSound`
is the reason why the single flight is enough: an app waits for every session
that was sent the token it holds, unless it was restarted, so that nobody else
can end the token unheard; and of the calls it waits for one at most is a
refresh, so that no answer can be overtaken by a successor's. `Committed` states
the effect of all three commits at once.

**The composition.** `BorrowerAccess_proofs` combines the two invariants:
`NobodySignsInEarly` (the account of a token, or of a login past its look-up, is
activated or the existing owner's; accounts that can sign in only grow,
`SignableGrows`) and
`PartsKeepPromises`, with onboarding and the apps interleaved freely.

**Repayment.** From `ScheduleAssumption` (rates are multiples of 1 / `RateBase`)
and `RepaymentAssumption`, for all contracts the request accepts, with any
principal, rate, term, frequency and first due date, and payments of any size on
time or late. `RepaymentAssumption` says that contracts have a quote request's
fields and a date a week before the first due date, and bounds the calendar of
the model: it ends before the last due date listed.

- `RepaymentInvariant`: the inductive invariant `RInv`.
- `BalancesNeverNegative`, `SchedulePaysOff`, `DashboardNeverOverstates`: the
  invariants `RepaymentTypeOK`, `PaysOffOnTime` and `InterestShownIsOwed`.
- `DueDatesNeverDrift`: the action property `DueDatesOnSchedule`.

The argument has four parts. *The calendar*: on the definition of `DayNumber`,
months and years have the lengths they should (`MonthStep`, `YearStep`), so a
due date is followed by another at least 13 days later (`NextDueDate`: the 15th
to the end of a February), and the dates `build_due_dates` counts from the first
one are those `advance_due_date` steps through (`DueDatesAgree`). The loop that
charges therefore ends at the first due date after today (`ChargedThrough`),
within the iterations `Charged` has. *The schedule*: rounding keeps the order
of amounts (`QuantizedOrder`), and the rounded payment is at least the first
period's interest (`PaymentCoversInterest`, which compares powers of the
growth factor); so an installment never raises the balance while there is one, what the
installments repay adds up, and the last one leaves nothing (`ScheduleAmortizes`). *The
loan*: `RInv` says that it waits for one of the contract's due dates (`Awaits`),
that money is conserved (`Balanced`), and that while the installments have been
kept the principal is at most the schedule's, the interest paid and accrued at
most the quote's up to the due date that was last charged, with equality if
exactly the quote's amounts were paid (`OnTrack`). Paying more is harmless
because a smaller principal has a smaller interest (`PeriodInterestOrder`).

*The dashboard* adds `PInv`: what the second query finds due is the row the first
one has found, because charging, by the batch or by a payment, moves the next due
date past today (`ChargedUpToDate`) and both queries are of one day. The period
the dashboard adds is then one of those that `ChargedThrough` says are owed, on
the schedule's principal or a larger one.

The quote, the calendar and the loop are recursive functions. Their induction is
on sets of numbers too: `IntervalInduction` (a set that has the first number of
an interval and with each number the next one is the interval), and `Recursion`,
that an equation of the form f[k] = step(f[k - 1]) has a solution, from which
each of them gets its own (`DueDatesStep`, `Installments`).

**Model-checked only.** The liveness properties `RequestsEnd` and `IntentsSettle`:
fairness and ENABLED are outside the prover. Every invariant and action property
of a passing run, and both refinements, are theorems.

## 6. Not modelled

Overflow of `NUMERIC(18,2)`; the difference between the server's local
date and UTC; `reference` and `note` of a payment in the idempotency comparison;
the creation of the system accounts; journal reversal, which no journal the
code posts can undergo; marking notifications as read; the other counts by due date,
collections, balances and request counts in reports, each a sum of one query; list queries; the retry of a
payment by the owner's app, whose fresh key makes it another payment to the
server; password, PIN and code hashing and the signature and lifetime of access
tokens, which libraries decide; the apps' controllers, screens and routes, which
keep loading flags; schema migrations, whose constraints are modelled where the
tables are; configuration.

## 7. Plan

What is left, in this order.

1. Accounting by itself: two first journals that create the system accounts,
   and the reversal endpoint.
2. The owner's app: retries of a payment against `LoanServicing`, and the logout
   loop as a liveness question of `TokenRotation`.
3. One theory of interest: `LoanContract`'s `PeriodInterest` and `DueDate` as an
   instance of `RepaymentSchedule`, so that the schedule's theorems speak of
   `LoanServicing` as well.
