---------------------------- MODULE LoanServicing ----------------------------
(***************************************************************************)
(* Disbursement, cancellation, payment posting and interest accrual as     *)
(* concurrent database transactions.                                       *)
(*                                                                         *)
(* A session is one AsyncSession: it opens a transaction, locks loan rows  *)
(* with SELECT ... FOR UPDATE, one row after the other, waiting for rows   *)
(* another transaction holds; runs its handler on the rows it read;        *)
(* flushes its writes; and is then committed by its caller, or closed      *)
(* without a commit, which discards the writes (get_db).  Isolation is     *)
(* PostgreSQL's READ COMMITTED: a statement sees what was committed when   *)
(* it started.  A session may fail at any point before its commit.         *)
(***************************************************************************)
EXTENDS LoanContract

CONSTANTS Amounts,     \* amounts a request may carry, in thousandths of a centavo
          Session,     \* concurrent database sessions
          Requests,    \* bound: the kinds of operation that are requested
          Committing   \* kinds of operation whose caller commits before it answers

Kind == {"disburse", "cancel", "pay", "accrue"}

ASSUME ServicingAssumption ==
  /\ Amounts \subseteq Nat
  /\ Requests \subseteq Kind
  /\ Committing \subseteq Kind

VARIABLES loans, payments, journals, outbox, charges,  \* the committed tables
          today,    \* the server's date
          phase,    \* phase[s]: "idle", "locking" rows, or "flushed"
          kind,     \* kind[s]: the operation s runs
          asOf,     \* asOf[s]: the date an accrual runs for
          queue,    \* queue[s]: loans s has still to lock, in scan order
          read,     \* read[s]: the rows s has locked, as it read them
          written,  \* written[s]: what s has flushed, not committed
          acked     \* history: [loan, payment] of every successful answer

Book == INSTANCE LoanBook

tables   == <<loans, payments, journals, outbox, charges>>
sessions == <<phase, kind, asOf, queue, read, written>>
vars     == <<tables, today, sessions, acked>>

\* A function with an empty domain: no rows read, or nothing written.
Nothing == [l \in {} |-> NoKey]

Held(s) == DOMAIN read[s]

Init ==
  /\ Book!Init
  /\ phase   = [s \in Session |-> "idle"]
  /\ kind    = [s \in Session |-> "pay"]
  /\ asOf    = [s \in Session |-> 0]
  /\ queue   = [s \in Session |-> << >>]
  /\ read    = [s \in Session |-> Nothing]
  /\ written = [s \in Session |-> Nothing]
  /\ acked   = {}

---------------------------------------------------------------------------
(* Opening a transaction and locking rows.                                 *)

Tick == Book!Tick /\ UNCHANGED <<sessions, acked>>

Open(s, k, day, scan) ==
  /\ phase[s] = "idle"
  /\ phase' = [phase EXCEPT ![s] = "locking"]
  /\ kind'  = [kind EXCEPT ![s] = k]
  /\ asOf'  = [asOf EXCEPT ![s] = day]
  /\ queue' = [queue EXCEPT ![s] = scan]
  /\ UNCHANGED <<tables, today, read, written, acked>>

\* A request that names one loan.
OpenOnLoan(s, k, l) == k \in Requests \ {"accrue"} /\ Open(s, k, 0, <<l>>)

\* The orders in which a scan may visit the rows of S: the query has no ORDER BY.
ScanOrders(S) ==
  {q \in [1 .. Cardinality(S) -> S] : \A i, j \in DOMAIN q : q[i] = q[j] => i = j}

\* An accrual run selects the loans that are due as it starts.
OpenAccrual(s) ==
  /\ "accrue" \in Requests
  /\ \E scan \in ScanOrders({l \in Loan : Book!AccrualDue(l, loans[l], today)}) :
        Open(s, "accrue", today, scan)

\* (mutant) SELECT without FOR UPDATE: the row is read whoever holds it.
ReadWithoutLock(s) ==
  /\ phase[s] = "locking"
  /\ queue[s] # << >>
  /\ read' = [read EXCEPT ![s] =
                [x \in Held(s) \cup {Head(queue[s])} |->
                    IF x = Head(queue[s]) THEN loans[x] ELSE @[x]]]
  /\ queue' = [queue EXCEPT ![s] = Tail(@)]
  /\ UNCHANGED <<tables, today, phase, kind, asOf, written, acked>>

\* FOR UPDATE on the next row: wait until no session holds it, then read the
\* version committed last.
LockRow(s) ==
  /\ phase[s] = "locking"
  /\ queue[s] # << >>
  /\ \A t \in Session : Head(queue[s]) \notin Held(t)
  /\ read' = [read EXCEPT ![s] =
                [x \in Held(s) \cup {Head(queue[s])} |->
                    IF x = Head(queue[s]) THEN loans[x] ELSE @[x]]]
  /\ queue' = [queue EXCEPT ![s] = Tail(@)]
  /\ UNCHANGED <<tables, today, phase, kind, asOf, written, acked>>

---------------------------------------------------------------------------
(* The handlers, run once every row is locked.  Each either flushes its    *)
(* writes or ends the transaction without any.                             *)

Running(s, k) == phase[s] = "locking" /\ kind[s] = k /\ queue[s] = << >>

Flush(s, w) ==
  /\ phase'   = [phase EXCEPT ![s] = "flushed"]
  /\ written' = [written EXCEPT ![s] = w]
  /\ UNCHANGED <<tables, today, kind, asOf, queue, read, acked>>

\* (mutant) The connection goes back to the pool with its locks.
ClosedHoldingLocks(s) ==
  /\ phase'   = [phase EXCEPT ![s] = "idle"]
  /\ kind'    = [kind EXCEPT ![s] = "pay"]
  /\ asOf'    = [asOf EXCEPT ![s] = 0]
  /\ queue'   = [queue EXCEPT ![s] = << >>]
  /\ written' = [written EXCEPT ![s] = Nothing]
  /\ UNCHANGED read

\* The session is closed: locks released, uncommitted writes discarded.
Closed(s) ==
  /\ phase'   = [phase EXCEPT ![s] = "idle"]
  /\ kind'    = [kind EXCEPT ![s] = "pay"]
  /\ asOf'    = [asOf EXCEPT ![s] = 0]
  /\ queue'   = [queue EXCEPT ![s] = << >>]
  /\ read'    = [read EXCEPT ![s] = Nothing]
  /\ written' = [written EXCEPT ![s] = Nothing]

Refused(s) == Closed(s) /\ UNCHANGED <<tables, today, acked>>

\* disburse_loan: the row must still be pending; otherwise 409.
DisburseLoan(s) ==
  /\ Running(s, "disburse")
  /\ \E l \in Held(s) :
        IF read[s][l].status = "pending_disbursement"
        THEN Flush(s, [x \in {l} |-> Disbursement(l, read[s][l], today)])
        ELSE Refused(s)

\* cancel_loan: only before disbursement.
CancelLoan(s) ==
  /\ Running(s, "cancel")
  /\ \E l \in Held(s) :
        IF read[s][l].status = "pending_disbursement"
        THEN Flush(s, [x \in {l} |-> Cancellation(read[s][l])])
        ELSE Refused(s)

\* (mutant) The idempotency lookup is skipped.
NeverFound(l, row, key) == {}

\* _find_idempotent_payment, reached only by loans that were disbursed.
FindIdempotent(l, row, key) ==
  IF row.status \in {"pending_disbursement", "cancelled"} THEN {}
  ELSE {i \in DOMAIN payments[l] : payments[l][i].key = key}

\* _assert_idempotency_match: reference and note, opaque text, are left out.
Matches(p, cents, date) == p.amount = cents /\ p.date = date

\* A retry whose key is already posted is answered with the payment on record,
\* if its content is the same, with 409 otherwise.  Nothing is written.
ReplayPayment(s) ==
  /\ Running(s, "pay")
  /\ \E l \in Held(s), key \in Key, amount \in Amounts, date \in Day :
     \E i \in FindIdempotent(l, read[s][l], key) :
        /\ acked' = IF Matches(payments[l][i], QuantizeMoney(amount), date)
                    THEN acked \cup {[loan |-> l, payment |-> payments[l][i]]}
                    ELSE acked
        /\ Closed(s)
        /\ UNCHANGED <<tables, today>>

\* (mutant) The check against the latest payment date is missing.
AcceptableOutOfOrder(l, row, date) ==
  /\ row.status = "active"
  /\ date <= today
  /\ row.disbursed <= date

\* The checks of post_payment that follow the idempotency lookup.
Acceptable(l, row, date) ==
  /\ row.status = "active"
  /\ date <= today
  /\ row.disbursed <= date
  /\ \A i \in DOMAIN payments[l] : payments[l][i].date <= date

\* The amount rounds to a positive one (a CHECK of the payments table) and the
\* journal is one post_journal accepts (sets of one, so that TLC evaluates
\* payment and journal once).
Insertable(l, row, key, cents, date) ==
  /\ cents > 0
  /\ \E p \in {PaymentRow(Accrued(l, row, date), key, cents, date)} :
     \E j \in {PaymentJournal(p)} : Postable(j)

\* A new payment: accrue, allocate, insert payment, journal and intent.
PostPayment(s) ==
  /\ Running(s, "pay")
  /\ \E l \in Held(s), key \in Key, amount \in Amounts, date \in Day :
        /\ FindIdempotent(l, read[s][l], key) = {}
        /\ IF /\ Acceptable(l, read[s][l], date)
              /\ Insertable(l, read[s][l], key, QuantizeMoney(amount), date)
           THEN Flush(s, [x \in {l} |->
                            Posting(l, read[s][l], key, QuantizeMoney(amount), date)])
           ELSE Refused(s)

\* accrue_due_interest on the locked rows that still qualify: PostgreSQL
\* evaluates the WHERE clause again on the version it locked.
AccrueInterest(s) ==
  /\ Running(s, "accrue")
  /\ LET due == {l \in Held(s) : Book!AccrualDue(l, read[s][l], asOf[s])}
     IN  Flush(s, [l \in due |-> Accrual(l, read[s][l], asOf[s])])

---------------------------------------------------------------------------
(* The end of a transaction.                                               *)

\* The unique index on (loan_id, idempotency_key) refuses the inserted row:
\* post_payment rolls back, and looks the key up again.
Collides(s) ==
  \E l \in DOMAIN written[s] : \E i \in DOMAIN written[s][l].posted :
     ~Book!Unused(l, written[s][l].posted[i].key)

NewlyPosted(s) ==
  UNION {{[loan |-> l, payment |-> written[s][l].posted[i]] :
             i \in DOMAIN written[s][l].posted} : l \in DOMAIN written[s]}

\* The payments on record that a colliding request is answered with.
Recorded(s) ==
  UNION {{[loan |-> l, payment |-> payments[l][i]] :
             i \in {k \in DOMAIN payments[l] :
                      \E j \in DOMAIN written[s][l].posted :
                         /\ payments[l][k].key = written[s][l].posted[j].key
                         /\ Matches(payments[l][k], written[s][l].posted[j].amount,
                                    written[s][l].posted[j].date)}}
         : l \in DOMAIN written[s]}

\* (mutant) The caller of an operation on payments forgets to commit.
CommitsLoansOnly(s) ==
  IF kind[s] \in Committing \ {"pay"} THEN Book!Apply(written[s]) ELSE UNCHANGED tables

\* The handler has returned: its caller commits, if it is one that does.
Commit(s) ==
  IF kind[s] \in Committing /\ ~Collides(s)
  THEN Book!Apply(written[s])
  ELSE UNCHANGED tables

\* The caller commits and answers; the session is closed.
Respond(s) ==
  /\ phase[s] = "flushed"
  /\ Commit(s)
  /\ acked' = acked \cup (IF Collides(s) THEN Recorded(s) ELSE NewlyPosted(s))
  /\ Closed(s)
  /\ UNCHANGED today

\* As Respond, but the answer never reaches the client.
LoseAnswer(s) ==
  /\ phase[s] = "flushed"
  /\ Commit(s)
  /\ Closed(s)
  /\ UNCHANGED <<today, acked>>

\* The worker dies, the connection drops, or the request is cancelled.
Fail(s) == phase[s] # "idle" /\ Refused(s)

WaitsFor(s, t) ==
  phase[s] = "locking" /\ queue[s] # << >> /\ Head(queue[s]) \in Held(t)

\* s is part of a cycle of sessions, each waiting for a row the next one holds.
InDeadlock(s) ==
  \E C \in SUBSET Session :
     /\ s \in C
     /\ \A t \in C : (\E u \in C : WaitsFor(t, u)) /\ (\E u \in C : WaitsFor(u, t))

\* PostgreSQL's deadlock detector cancels one transaction of a cycle.
DeadlockVictim(s) == InDeadlock(s) /\ Refused(s)

---------------------------------------------------------------------------

SessionStep(s) ==
  \/ \E k \in Kind, l \in Loan : OpenOnLoan(s, k, l)
  \/ OpenAccrual(s)
  \/ LockRow(s)
  \/ DisburseLoan(s)
  \/ CancelLoan(s)
  \/ ReplayPayment(s)
  \/ PostPayment(s)
  \/ AccrueInterest(s)
  \/ Respond(s)
  \/ LoseAnswer(s)
  \/ Fail(s)
  \/ DeadlockVictim(s)

Next == Tick \/ \E s \in Session : SessionStep(s)

Spec == Init /\ [][Next]_vars

\* What the server and the database do for an open session.
Advance(s) ==
  \/ LockRow(s)
  \/ DisburseLoan(s) \/ CancelLoan(s) \/ ReplayPayment(s) \/ PostPayment(s)
  \/ AccrueInterest(s)
  \/ Respond(s)
  \/ DeadlockVictim(s)

\* A server that keeps running executes the handlers it has started; PostgreSQL
\* grants a row lock in the order of arrival, so that a session that finds its
\* row free again and again gets it, and breaks deadlocks.
Fairness == \A s \in Session : SF_vars(Advance(s))

FairSpec == Spec /\ Fairness
=============================================================================
