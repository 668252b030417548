------------------------ MODULE NotificationDispatch ------------------------
(***************************************************************************)
(* Delivery of the notification intents that business transactions leave   *)
(* in notification_outbox: concurrent runs of the dispatcher, which claim  *)
(* a batch of due rows with FOR UPDATE SKIP LOCKED, attempt them one after *)
(* the other and commit the whole batch, crashes of those runs, and the    *)
(* owner's manual retry of dead letters, which reads its row without a     *)
(* lock (notifications/dispatcher.py, providers.py, service.py).           *)
(*                                                                         *)
(* A time next_attempt_at is kept as the time still to wait for it.        *)
(***************************************************************************)
EXTENDS Integers, FiniteSets

CONSTANTS Intents,      \* bound: how many intents there are, numbered by created_at
          MaxAttempts,  \* max_attempts of every intent
          BatchSize,    \* batch_size of a run
          BaseDelay,    \* base_seconds of the backoff, in ticks
          MaxDelay,     \* max_seconds of the backoff, in ticks
          Worker,       \* processes that run the dispatcher
          MayCrash,     \* bound: the workers that may crash
          Retrier,      \* concurrent retry requests of the owner
          NoIntent,     \* a retry request that has read no row
          Oversized     \* intents whose text is too long for notifications.body

Intent == 1 .. Intents

ASSUME DispatchAssumption ==
  /\ Intents \in Nat
  /\ MaxAttempts \in 1 .. 20
  /\ BatchSize \in Nat \ {0}
  /\ BaseDelay \in Nat \ {0}
  /\ MaxDelay \in Nat \ {0}
  /\ MayCrash \subseteq Worker
  /\ NoIntent \notin Intent
  /\ Oversized \subseteq Intent

VARIABLES outbox,    \* outbox[o]: the committed row of intent o
          notified,  \* intents with a committed row in notifications
          todo,      \* todo[w]: claimed by the run of w, still to attempt
          staged,    \* staged[w]: the rows that run has changed
          inserted,  \* inserted[w]: the notifications it has inserted
          lapsed,    \* lapsed[w]: time since that run read the clock
          retry      \* retry[r]: the dead letter r has read and is about to reset

vars == <<outbox, notified, todo, staged, inserted, lapsed, retry>>

NoTime == -1         \* next_attempt_at is NULL

OutboxRow == [status : {"absent", "pending", "failed", "delivered", "dead_letter"},
              attempts : 0 .. MaxAttempts, wait : NoTime .. MaxDelay]

Absent   == [status |-> "absent", attempts |-> 0, wait |-> NoTime]
Pending  == [status |-> "pending", attempts |-> 0, wait |-> 0]
NoRows   == [o \in {} |-> Absent]

Held(w) == todo[w] \cup DOMAIN staged[w]
Free(o) == \A w \in Worker : o \notin Held(w)

\* What is left of a waiting time after t ticks.
Left(wait, t) == IF wait = NoTime THEN NoTime ELSE IF wait <= t THEN 0 ELSE wait - t

Init ==
  /\ outbox   = [o \in Intent |-> Absent]
  /\ notified = {}
  /\ todo     = [w \in Worker |-> {}]
  /\ staged   = [w \in Worker |-> NoRows]
  /\ inserted = [w \in Worker |-> {}]
  /\ lapsed   = [w \in Worker |-> 0]
  /\ retry    = [r \in Retrier |-> NoIntent]

---------------------------------------------------------------------------

\* Time passes; a wait that matters is never longer than MaxDelay.
Tick ==
  /\ outbox' = [o \in Intent |-> [outbox[o] EXCEPT !.wait = Left(@, 1)]]
  /\ lapsed' = [w \in Worker |-> IF lapsed[w] < MaxDelay /\ Held(w) # {}
                                 THEN lapsed[w] + 1 ELSE lapsed[w]]
  /\ UNCHANGED <<notified, todo, staged, inserted, retry>>

\* A business transaction commits its intent; enqueue_notification finds an
\* intent of the same identity and adds no second one.
Enqueue(o) ==
  /\ outbox[o].status = "absent"
  /\ outbox' = [outbox EXCEPT ![o] = Pending]
  /\ UNCHANGED <<notified, todo, staged, inserted, lapsed, retry>>

\* (mutant) Intents that have failed once are not selected again.
EligiblePendingOnly(row) == row.status = "pending" /\ row.wait <= 0

\* (mutant) The query asks for the time only, and NULL counts as due.
EligibleAnyStatus(row) == row.status # "absent" /\ row.wait <= 0

\* The query of dispatch_pending_notifications: next_attempt_at NULL is due.
Eligible(row) == row.status \in {"pending", "failed"} /\ row.wait <= 0

\* (mutant) Without FOR UPDATE a run also takes rows another run has claimed.
ClaimWithoutLock(w) ==
  LET due   == {o \in Intent : Eligible(outbox[o])}
      batch == {o \in due : Cardinality({p \in due : p < o}) < BatchSize}
  IN  /\ Held(w) = {}
      /\ batch # {}
      /\ todo'   = [todo EXCEPT ![w] = batch]
      /\ lapsed' = [lapsed EXCEPT ![w] = 0]
      /\ UNCHANGED <<outbox, notified, staged, inserted, retry>>

\* A run locks the oldest due rows that no other run holds.
Claim(w) ==
  LET due   == {o \in Intent : Eligible(outbox[o]) /\ Free(o)}
      batch == {o \in due : Cardinality({p \in due : p < o}) < BatchSize}
  IN  /\ Held(w) = {}
      /\ batch # {}
      /\ todo'   = [todo EXCEPT ![w] = batch]
      /\ lapsed' = [lapsed EXCEPT ![w] = 0]
      /\ UNCHANGED <<outbox, notified, staged, inserted, retry>>

\* calculate_next_attempt.
Backoff(attempts) ==
  LET delay == BaseDelay * 2 ^ (attempts - 1)
  IN  IF delay \in 1 .. MaxDelay THEN delay ELSE MaxDelay

\* (mutant) One attempt too many before an intent becomes a dead letter.
FailedLate(row) ==
  IF row.attempts > MaxAttempts
  THEN [row EXCEPT !.status = "dead_letter", !.wait = NoTime]
  ELSE [row EXCEPT !.status = "failed", !.wait = Backoff(row.attempts)]

\* _handle_dispatch_failure, the wait counted from the clock of the run.
Failed(row) ==
  IF row.attempts >= MaxAttempts
  THEN [row EXCEPT !.status = "dead_letter", !.wait = NoTime]
  ELSE [row EXCEPT !.status = "failed", !.wait = Backoff(row.attempts)]

Tried(o) == [outbox[o] EXCEPT !.attempts = @ + 1]

\* The next row of the batch, in the order of the query.
IsNext(w, o) == o \in todo[w] /\ \A p \in todo[w] : o <= p

\* The attempt on o is over, and row is what becomes of it.
Stage(w, o, row) ==
  /\ todo'   = [todo EXCEPT ![w] = @ \ {o}]
  /\ staged' = [staged EXCEPT ![w] =
                  [p \in DOMAIN @ \cup {o} |-> IF p = o THEN row ELSE @[p]]]

\* The run ends without a commit: rows unlocked, changes and inserts undone.
Rollback(w) ==
  /\ todo'     = [todo EXCEPT ![w] = {}]
  /\ staged'   = [staged EXCEPT ![w] = NoRows]
  /\ inserted' = [inserted EXCEPT ![w] = {}]
  /\ lapsed'   = [lapsed EXCEPT ![w] = 0]

\* (mutant) The provider reports success without an insert.
DeliverNothing(w, o) ==
  /\ IsNext(w, o)
  /\ o \notin Oversized \ notified
  /\ Stage(w, o, [Tried(o) EXCEPT !.status = "delivered"])
  /\ UNCHANGED <<outbox, notified, inserted, lapsed, retry>>

\* The provider delivers: it inserts the notification, unless there is one.
Deliver(w, o) ==
  /\ IsNext(w, o)
  /\ o \notin Oversized \ notified
  /\ Stage(w, o, [Tried(o) EXCEPT !.status = "delivered"])
  /\ inserted' = [inserted EXCEPT ![w] = IF o \in notified THEN @ ELSE @ \cup {o}]
  /\ UNCHANGED <<outbox, notified, lapsed, retry>>

\* The provider refuses or raises before it reaches the database.
Refuse(w, o) ==
  /\ IsNext(w, o)
  /\ o \notin Oversized
  /\ Stage(w, o, Failed(Tried(o)))
  /\ UNCHANGED <<outbox, notified, inserted, lapsed, retry>>

\* The INSERT itself is refused.  The flush has rolled the transaction back
\* and expired every row, so the handler that should count the failure raises
\* in its turn, and the run ends with the whole batch as it was.
BreakDown(w, o) ==
  /\ IsNext(w, o)
  /\ o \in Oversized \ notified
  /\ Rollback(w)
  /\ UNCHANGED <<outbox, notified, retry>>

Attempt(w, o) == Deliver(w, o) \/ Refuse(w, o) \/ BreakDown(w, o)

\* The run has attempted its batch and its caller commits.
Commit(w) ==
  /\ todo[w] = {}
  /\ Held(w) # {}
  /\ outbox' = [o \in Intent |->
                  IF o \in DOMAIN staged[w]
                  THEN [staged[w][o] EXCEPT !.wait = Left(@, lapsed[w])]
                  ELSE outbox[o]]
  /\ notified' = notified \cup inserted[w]
  /\ Rollback(w)
  /\ UNCHANGED retry

Crash(w) ==
  /\ w \in MayCrash
  /\ Held(w) # {}
  /\ Rollback(w)
  /\ UNCHANGED <<outbox, notified, retry>>

\* retry_dead_letter_outbox reads the row, without FOR UPDATE, and checks it ...
RetryRead(r, o) ==
  /\ retry[r] = NoIntent
  /\ outbox[o].status = "dead_letter"
  /\ retry' = [retry EXCEPT ![r] = o]
  /\ UNCHANGED <<outbox, notified, todo, staged, inserted, lapsed>>

\* ... and later its UPDATE, which waits for the row to be free, resets
\* whatever the row has become.
RetryReset(r) ==
  /\ retry[r] # NoIntent
  /\ Free(retry[r])
  /\ outbox' = [outbox EXCEPT ![retry[r]] = Pending]
  /\ retry'  = [retry EXCEPT ![r] = NoIntent]
  /\ UNCHANGED <<notified, todo, staged, inserted, lapsed>>

Next ==
  \/ Tick
  \/ \E o \in Intent : Enqueue(o)
  \/ \E w \in Worker :
        Claim(w) \/ Commit(w) \/ Crash(w) \/ (\E o \in Intent : Attempt(w, o))
  \/ \E r \in Retrier : RetryReset(r) \/ (\E o \in Intent : RetryRead(r, o))

Spec == Init /\ [][Next]_vars

\* Runs are started again and again, also after crashes, and no intent has
\* the bad luck of a crash in every run that attempts it; time passes.
Fairness ==
  /\ WF_vars(Tick)
  /\ \A w \in Worker : SF_vars(Claim(w))
  /\ \A o \in Intent :
        /\ SF_vars(\E w \in Worker : Attempt(w, o))
        /\ SF_vars(\E w \in Worker : o \in DOMAIN staged[w] /\ Commit(w))

FairSpec == Spec /\ Fairness

---------------------------------------------------------------------------
(* Properties.                                                             *)

\* Types of the variables; what a run has claimed is in one place only.
TypeOK ==
  /\ outbox \in [Intent -> OutboxRow]
  /\ notified \subseteq Intent
  /\ todo \in [Worker -> SUBSET Intent]
  /\ DOMAIN staged = Worker
  /\ inserted \in [Worker -> SUBSET Intent]
  /\ lapsed \in [Worker -> 0 .. MaxDelay]
  /\ retry \in [Retrier -> Intent \cup {NoIntent}]
  /\ \A w \in Worker :
        /\ DOMAIN staged[w] \subseteq Intent \ todo[w]
        /\ staged[w] \in [DOMAIN staged[w] -> OutboxRow]
        /\ inserted[w] \subseteq DOMAIN staged[w]

\* The unique index on source_outbox_id is never what prevents a second
\* notification: no run ever inserts one that another run has inserted or
\* committed, through crashes, retries of delivered intents and stale resets.
DeliveredOnce ==
  /\ \A w \in Worker : inserted[w] \cap notified = {}
  /\ \A v, w \in Worker : v # w => inserted[v] \cap inserted[w] = {}

\* The attempts on record fit the status, as the table's CHECK and
\* NOTIFICATION_RULES.md 5 have it: a failed intent has attempts left and a
\* time for the next one, a dead letter has used them all, and an intent is
\* delivered exactly when its notification was committed with it.
AttemptsAccounted ==
  \A o \in Intent :
     LET row == outbox[o] IN
     /\ row.status = "failed" => row.attempts \in 1 .. MaxAttempts - 1 /\ row.wait >= 0
     /\ row.status = "dead_letter" => row.attempts = MaxAttempts
     /\ row.status = "delivered" => row.attempts \in 1 .. MaxAttempts /\ o \in notified
     /\ row.status = "absent" => o \notin notified

\* An automatic attempt is only ever made on an intent that is pending or
\* failed and whose backoff has run out: never on a dead letter, whose
\* next_attempt_at is NULL, nor a second time by a run that was overtaken.
OnlyDueAttempts ==
  [][\A o \in Intent :
        outbox'[o].attempts > outbox[o].attempts =>
           /\ outbox[o].status \in {"pending", "failed"}
           /\ outbox[o].wait <= 0
           /\ outbox'[o].attempts = outbox[o].attempts + 1]_outbox

Settled(o) == outbox[o].status \in {"delivered", "dead_letter"}
Awaiting(o) == outbox[o].status \in {"pending", "failed"}

\* Every intent is delivered or becomes a dead letter, through backoff, crashes
\* and resets, as NOTIFICATION_RULES.md 5 promises of one whose attempts fail.
IntentsSettle == \A o \in Intent : Awaiting(o) ~> Settled(o)

\* A retry resets dead letters only ("Raised when attempting to retry an outbox
\* record that is not dead-lettered"): a delivered intent stays delivered.
DeliveredIsFinal ==
  [][\A o \in Intent :
        outbox[o].status = "delivered" => outbox'[o].status = "delivered"]_outbox
=============================================================================
