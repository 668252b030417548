--------------------- MODULE NotificationDispatch_proofs ---------------------
(***************************************************************************)
(* What holds of the dispatcher for any number of intents, runs, retries   *)
(* and attempts: types, the bookkeeping of attempts, delivery at most      *)
(* once, and that only due intents are attempted.                          *)
(***************************************************************************)
EXTENDS NotificationDispatch, TLAPS

\* A row whose attempts fit its status, notifications aside.
Fits(row) ==
  /\ row.status \in {"absent", "pending"} => row.attempts = 0
  /\ row.status = "failed" => row.attempts \in 1 .. MaxAttempts - 1 /\ row.wait >= 0
  /\ row.status = "dead_letter" => row.attempts = MaxAttempts
  /\ row.status = "delivered" => row.attempts \in 1 .. MaxAttempts

\* The committed row of o.
RowOK(o) ==
  /\ outbox[o] \in OutboxRow
  /\ Fits(outbox[o])
  /\ outbox[o].status = "delivered" => o \in notified
  /\ outbox[o].status = "absent" => o \notin notified

\* What a run may stage for o: one more attempt, and its outcome.
Outcome(w, o) ==
  LET row == staged[w][o] IN
  /\ row \in OutboxRow
  /\ Fits(row)
  /\ row.status \in {"failed", "delivered", "dead_letter"}
  /\ row.attempts = outbox[o].attempts + 1
  /\ row.status = "delivered" => o \in notified \cup inserted[w]

\* The run of w: what it has claimed is still due, what it has staged is an
\* outcome, and what it has inserted is not there yet.
RunOK(w) ==
  /\ todo[w] \subseteq Intent
  /\ DOMAIN staged[w] \subseteq Intent \ todo[w]
  /\ staged[w] = [o \in DOMAIN staged[w] |-> staged[w][o]]
  /\ inserted[w] \subseteq DOMAIN staged[w]
  /\ lapsed[w] \in 0 .. MaxDelay
  /\ \A o \in Held(w) : Eligible(outbox[o])
  /\ \A o \in DOMAIN staged[w] : Outcome(w, o)
  /\ inserted[w] \cap notified = {}

Shapes ==
  /\ outbox = [o \in Intent |-> outbox[o]]
  /\ notified \subseteq Intent
  /\ todo = [w \in Worker |-> todo[w]]
  /\ staged = [w \in Worker |-> staged[w]]
  /\ inserted = [w \in Worker |-> inserted[w]]
  /\ lapsed = [w \in Worker |-> lapsed[w]]
  /\ retry \in [Retrier -> Intent \cup {NoIntent}]

Exclusive == \A v, w \in Worker : v # w => Held(v) \cap Held(w) = {}

\* The inductive invariant.
Inv ==
  /\ Shapes
  /\ \A o \in Intent : RowOK(o)
  /\ \A w \in Worker : RunOK(w)
  /\ Exclusive

---------------------------------------------------------------------------

\* Inv gives the three invariants.
LEMMA InvImplies == Inv => TypeOK /\ DeliveredOnce /\ AttemptsAccounted
<1> SUFFICES ASSUME Inv PROVE TypeOK /\ DeliveredOnce /\ AttemptsAccounted
  OBVIOUS
<1>1. \A w \in Worker : staged[w] \in [DOMAIN staged[w] -> OutboxRow]
  BY DEF Inv, RunOK, Outcome
<1>2. outbox \in [Intent -> OutboxRow]
  BY DEF Inv, Shapes, RowOK
<1>3. TypeOK
  BY <1>1, <1>2 DEF Inv, Shapes, RunOK, TypeOK
<1>4. DeliveredOnce
  BY DEF Inv, RunOK, Exclusive, Held, DeliveredOnce
<1>5. AttemptsAccounted
  BY DEF Inv, RowOK, Fits, AttemptsAccounted
<1> QED BY <1>3, <1>4, <1>5

\* An empty outbox and no runs.
LEMMA InitInv == Init => Inv
<1> SUFFICES ASSUME Init PROVE Inv
  OBVIOUS
<1>1. Shapes
  BY DEF Init, Shapes
<1>2. \A o \in Intent : RowOK(o)
  BY DispatchAssumption DEF Init, RowOK, Fits, OutboxRow, Absent, NoTime
<1>3. \A w \in Worker : Held(w) = {}
  BY DEF Init, Held, NoRows
<1>4. \A w \in Worker : RunOK(w)
  BY <1>3, DispatchAssumption DEF Init, RunOK, NoRows
<1> QED BY <1>1, <1>2, <1>3, <1>4 DEF Inv, Exclusive

\* Less waiting is left after some time, and none of what was due.
LEMMA LeftType ==
  ASSUME NEW wait \in NoTime .. MaxDelay, NEW t \in Nat
  PROVE  /\ Left(wait, t) \in NoTime .. MaxDelay
         /\ wait <= 0 => Left(wait, t) <= 0
         /\ wait >= 0 => Left(wait, t) >= 0
  BY DispatchAssumption DEF Left, NoTime

---------------------------------------------------------------------------
(* The steps.                                                              *)

\* The step changes the run of w and no other.
OnlyRunOf(w) ==
  /\ todo' = [v \in Worker |-> todo'[v]]
  /\ staged' = [v \in Worker |-> staged'[v]]
  /\ inserted' = [v \in Worker |-> inserted'[v]]
  /\ lapsed' = [v \in Worker |-> lapsed'[v]]
  /\ \A v \in Worker \ {w} :
        /\ todo'[v] = todo[v] /\ staged'[v] = staged[v]
        /\ inserted'[v] = inserted[v] /\ lapsed'[v] = lapsed[v]

\* A run stays sound while it stands still, if the rows it holds keep their
\* attempts and stay due.
LEMMA RunKept ==
  ASSUME NEW w \in Worker, RunOK(w),
         todo'[w] = todo[w], staged'[w] = staged[w], inserted'[w] = inserted[w],
         lapsed'[w] \in 0 .. MaxDelay,
         notified \subseteq notified', inserted[w] \cap notified' = {},
         \A o \in Held(w) : /\ outbox'[o].attempts = outbox[o].attempts
                            /\ Eligible(outbox[o])'
  PROVE  RunOK(w)'
<1>1. Held(w)' = Held(w)
  BY DEF Held
<1>2. ASSUME NEW o \in DOMAIN staged'[w] PROVE Outcome(w, o)'
  <2>1. o \in DOMAIN staged[w] /\ o \in Held(w)
    BY DEF Held
  <2>2. Outcome(w, o)
    BY <2>1 DEF RunOK
  <2>3. outbox'[o].attempts = outbox[o].attempts
    BY <2>1
  <2> QED BY <2>2, <2>3 DEF Outcome
<1>3. \A o \in Held(w)' : Eligible(outbox[o])'
  BY <1>1
<1>4. staged'[w] = [o \in DOMAIN staged'[w] |-> staged'[w][o]]
  BY DEF RunOK
<1> QED BY <1>2, <1>3, <1>4 DEF RunOK

\* A step of one run keeps Inv if that run is left sound and holds nothing
\* that another run holds.
LEMMA RunStep ==
  ASSUME Inv, NEW w \in Worker, OnlyRunOf(w), UNCHANGED <<outbox, notified, retry>>,
         RunOK(w)', \A v \in Worker \ {w} : Held(w)' \cap Held(v) = {}
  PROVE  Inv'
<1>1. Shapes'
  BY DEF Inv, Shapes, OnlyRunOf
<1>2. \A o \in Intent : RowOK(o)'
  BY DEF Inv, RowOK
<1>3. ASSUME NEW v \in Worker \ {w} PROVE Held(v)' = Held(v) /\ RunOK(v)'
  <2>1. RunOK(v) /\ todo'[v] = todo[v] /\ staged'[v] = staged[v]
    BY DEF Inv, OnlyRunOf
  <2>2. inserted'[v] = inserted[v] /\ lapsed'[v] = lapsed[v]
    BY DEF OnlyRunOf
  <2>3. /\ lapsed[v] \in 0 .. MaxDelay /\ inserted[v] \cap notified = {}
        /\ \A o \in Held(v) : Eligible(outbox[o])
    BY <2>1 DEF RunOK
  <2>4. RunOK(v)'
    BY <2>1, <2>2, <2>3, RunKept DEF Eligible
  <2> QED BY <2>1, <2>4 DEF Held
<1>4. Exclusive'
  BY <1>3 DEF Inv, Exclusive
<1> QED BY <1>1, <1>2, <1>3, <1>4 DEF Inv

\* Rolling back touches one run and leaves it empty.
LEMMA RollbackStep ==
  ASSUME Inv, NEW w \in Worker, Rollback(w)
  PROVE  OnlyRunOf(w) /\ Held(w)' = {} /\ RunOK(w)'
<1>1. todo'[w] = {} /\ staged'[w] = NoRows /\ inserted'[w] = {} /\ lapsed'[w] = 0
  BY DEF Inv, Shapes, Rollback
<1>2. OnlyRunOf(w)
  BY DEF Inv, Shapes, Rollback, OnlyRunOf
<1>3. DOMAIN staged'[w] = {}
  BY <1>1 DEF NoRows
<1>4. staged'[w] = [o \in DOMAIN staged'[w] |-> staged'[w][o]]
  BY <1>1 DEF NoRows
<1> QED BY <1>1, <1>2, <1>3, <1>4, DispatchAssumption DEF Held, RunOK

\* Time only makes due rows more due.
LEMMA TickInv == ASSUME Inv, Tick PROVE Inv'
<1>1. \A o \in Intent :
        /\ outbox'[o] = [outbox[o] EXCEPT !.wait = Left(@, 1)]
        /\ outbox[o] \in OutboxRow
  BY DEF Inv, RowOK, Tick
<1>2. ASSUME NEW o \in Intent
      PROVE  /\ outbox'[o] \in OutboxRow
             /\ outbox'[o].status = outbox[o].status
             /\ outbox'[o].attempts = outbox[o].attempts
             /\ outbox[o].wait <= 0 => outbox'[o].wait <= 0
             /\ outbox[o].wait >= 0 => outbox'[o].wait >= 0
  <2>1. outbox[o].wait \in NoTime .. MaxDelay /\ 1 \in Nat
    BY <1>1 DEF OutboxRow
  <2>2. /\ Left(outbox[o].wait, 1) \in NoTime .. MaxDelay
        /\ outbox[o].wait <= 0 => Left(outbox[o].wait, 1) <= 0
        /\ outbox[o].wait >= 0 => Left(outbox[o].wait, 1) >= 0
    BY <2>1, LeftType
  <2>3. /\ outbox'[o] \in OutboxRow
        /\ outbox'[o].wait = Left(outbox[o].wait, 1)
        /\ outbox'[o].status = outbox[o].status
        /\ outbox'[o].attempts = outbox[o].attempts
    BY <1>1, <2>2 DEF OutboxRow
  <2> QED BY <2>2, <2>3
<1>3. Shapes'
  BY DEF Inv, Shapes, Tick
<1>4. \A o \in Intent : RowOK(o)'
  BY <1>2 DEF Inv, RowOK, Fits, Tick
<1>5. \A w \in Worker : Held(w)' = Held(w)
  BY DEF Held, Tick
<1>6. ASSUME NEW w \in Worker PROVE RunOK(w)'
  <2>1. RunOK(w) /\ Held(w) \subseteq Intent /\ lapsed[w] \in 0 .. MaxDelay
    BY DEF Inv, RunOK, Held
  <2>2. lapsed'[w] = IF lapsed[w] < MaxDelay /\ Held(w) # {} THEN lapsed[w] + 1 ELSE lapsed[w]
    BY DEF Tick
  <2>3. lapsed'[w] \in 0 .. MaxDelay
    BY <2>1, <2>2, DispatchAssumption
  <2>4. \A o \in Held(w) : /\ outbox'[o].attempts = outbox[o].attempts
                           /\ Eligible(outbox[o])'
    BY <1>2, <2>1 DEF RunOK, Eligible
  <2>5. UNCHANGED <<notified, todo, staged, inserted>> /\ inserted[w] \cap notified = {}
    BY <2>1 DEF Tick, RunOK
  <2> QED BY <2>1, <2>3, <2>4, <2>5, RunKept
<1> QED BY <1>3, <1>4, <1>5, <1>6 DEF Inv, Exclusive

\* A step that changes the row of a free intent only, to pending.
LEMMA FreeRowStep ==
  ASSUME Inv, NEW o \in Intent, Free(o), outbox' = [outbox EXCEPT ![o] = Pending],
         UNCHANGED <<notified, todo, staged, inserted, lapsed>>,
         retry' \in [Retrier -> Intent \cup {NoIntent}]
  PROVE  Inv'
<1>1. Shapes'
  BY DEF Inv, Shapes
<1>2. outbox'[o] = Pending /\ \A p \in Intent \ {o} : outbox'[p] = outbox[p]
  BY DEF Inv, Shapes
<1>3. \A p \in Intent : RowOK(p)'
  BY <1>2, DispatchAssumption DEF Inv, RowOK, Fits, Pending, OutboxRow, NoTime
<1>4. \A w \in Worker : Held(w)' = Held(w)
  BY DEF Held
<1>5. ASSUME NEW w \in Worker PROVE RunOK(w)'
  <2>1. /\ RunOK(w) /\ lapsed[w] \in 0 .. MaxDelay /\ inserted[w] \cap notified = {}
        /\ \A p \in Held(w) : p \in Intent \ {o} /\ Eligible(outbox[p])
    BY DEF Inv, RunOK, Held, Free
  <2>2. \A p \in Held(w) : outbox'[p] = outbox[p]
    BY <1>2, <2>1
  <2>3. \A p \in Held(w) : /\ outbox'[p].attempts = outbox[p].attempts
                           /\ Eligible(outbox[p])'
    BY <2>1, <2>2 DEF Eligible
  <2> QED BY <2>1, <2>3, RunKept
<1> QED BY <1>1, <1>3, <1>4, <1>5 DEF Inv, Exclusive

\* An absent row is held by nobody.
LEMMA EnqueueInv == ASSUME Inv, NEW o \in Intent, Enqueue(o) PROVE Inv'
<1>1. Free(o)
  BY DEF Inv, RunOK, Free, Eligible, Enqueue
<1> QED BY <1>1, FreeRowStep DEF Enqueue, Inv, Shapes

\* The new batch is due and free.
LEMMA ClaimInv == ASSUME Inv, NEW w \in Worker, Claim(w) PROVE Inv'
<1> DEFINE due   == {o \in Intent : Eligible(outbox[o]) /\ Free(o)}
           batch == {o \in due : Cardinality({p \in due : p < o}) < BatchSize}
<1>1. todo' = [todo EXCEPT ![w] = batch] /\ lapsed' = [lapsed EXCEPT ![w] = 0]
  BY DEF Claim
<1>2. \A o \in batch : o \in Intent /\ Eligible(outbox[o]) /\ Free(o)
  OBVIOUS
<1> HIDE DEF batch, due
<1>3. OnlyRunOf(w)
  BY <1>1 DEF Inv, Shapes, OnlyRunOf, Claim
<1>4. /\ todo'[w] = batch /\ staged'[w] = staged[w] /\ lapsed'[w] = 0
      /\ inserted'[w] = inserted[w]
  BY <1>1 DEF Inv, Shapes, Claim
<1>5. DOMAIN staged[w] = {}
  BY DEF Claim, Held
<1>6. Held(w)' = batch
  BY <1>4, <1>5 DEF Held
<1>7. RunOK(w)'
  <2>1. RunOK(w)
    BY DEF Inv
  <2>2. \A o \in Held(w)' : Eligible(outbox[o])'
    BY <1>2, <1>6 DEF Claim, Eligible
  <2>3. /\ staged'[w] = [o \in DOMAIN staged'[w] |-> staged'[w][o]]
        /\ inserted'[w] \subseteq DOMAIN staged'[w] /\ inserted'[w] \cap notified' = {}
    BY <1>4, <2>1 DEF RunOK, Claim
  <2>4. \A o \in DOMAIN staged'[w] : Outcome(w, o)'
    BY <1>4, <1>5
  <2>5. /\ todo'[w] \subseteq Intent /\ lapsed'[w] \in 0 .. MaxDelay
        /\ DOMAIN staged'[w] \subseteq Intent \ todo'[w]
    BY <1>2, <1>4, <1>5, DispatchAssumption
  <2> QED BY <2>2, <2>3, <2>4, <2>5 DEF RunOK
<1>8. \A v \in Worker \ {w} : Held(w)' \cap Held(v) = {}
  BY <1>2, <1>6 DEF Free
<1>9. UNCHANGED <<outbox, notified, retry>>
  BY DEF Claim
<1> QED BY <1>3, <1>7, <1>8, <1>9, RunStep
\* A backoff is a time to wait.
LEMMA BackoffType == ASSUME NEW n PROVE Backoff(n) \in 1 .. MaxDelay
<1>1. MaxDelay \in 1 .. MaxDelay
  BY DispatchAssumption
<1> QED BY <1>1, Zenon DEF Backoff

\* A row that a run is about to attempt has an attempt left.
LEMMA TriedRow ==
  ASSUME Inv, NEW w \in Worker, NEW o \in todo[w]
  PROVE  /\ Tried(o) \in OutboxRow
         /\ Tried(o).attempts = outbox[o].attempts + 1
         /\ Tried(o).attempts \in 1 .. MaxAttempts
<1>1. o \in Intent /\ Eligible(outbox[o])
  BY DEF Inv, RunOK, Held
<1>2. outbox[o] \in OutboxRow /\ Fits(outbox[o])
  BY <1>1 DEF Inv, RowOK
<1>3. outbox[o].attempts \in 0 .. MaxAttempts - 1
  BY <1>1, <1>2, DispatchAssumption DEF Eligible, Fits
<1> QED BY <1>2, <1>3, DispatchAssumption DEF Tried, OutboxRow

\* What becomes of a failed attempt fits its attempts.
LEMMA FailedRow ==
  ASSUME Inv, NEW w \in Worker, NEW o \in todo[w]
  PROVE  LET row == Failed(Tried(o)) IN
         /\ row \in OutboxRow /\ Fits(row)
         /\ row.status \in {"failed", "dead_letter"}
         /\ row.attempts = outbox[o].attempts + 1
<1> DEFINE t == Tried(o)
<1>1. /\ t \in OutboxRow /\ t.attempts = outbox[o].attempts + 1
      /\ t.attempts \in 1 .. MaxAttempts
  BY TriedRow
<1>2. Backoff(t.attempts) \in 1 .. MaxDelay
  BY BackoffType
<1> HIDE DEF t
<1>3. CASE t.attempts >= MaxAttempts
  <2>1. Failed(t) = [t EXCEPT !.status = "dead_letter", !.wait = NoTime]
    BY <1>3 DEF Failed
  <2>2. t.attempts = MaxAttempts
    BY <1>1, <1>3, DispatchAssumption
  <2>3. NoTime \in NoTime .. MaxDelay
    BY DispatchAssumption DEF NoTime
  <2> QED BY <1>1, <2>1, <2>2, <2>3 DEF OutboxRow, Fits, t
<1>4. CASE ~ t.attempts >= MaxAttempts
  <2>1. Failed(t) = [t EXCEPT !.status = "failed", !.wait = Backoff(t.attempts)]
    BY <1>4 DEF Failed
  <2>2. t.attempts \in 1 .. MaxAttempts - 1
    BY <1>1, <1>4, DispatchAssumption
  <2>3. Backoff(t.attempts) \in NoTime .. MaxDelay /\ Backoff(t.attempts) >= 0
    BY <1>2, DispatchAssumption DEF NoTime
  <2> QED BY <1>1, <2>1, <2>2, <2>3 DEF OutboxRow, Fits, t
<1> QED BY <1>3, <1>4

\* A run that stages a sound outcome of its next row stays sound.
LEMMA StageInv ==
  ASSUME Inv, NEW w \in Worker, NEW o \in todo[w], NEW row, Stage(w, o, row),
         UNCHANGED <<outbox, notified, lapsed, retry>>,
         inserted' = [v \in Worker |-> inserted'[v]],
         \A v \in Worker \ {w} : inserted'[v] = inserted[v],
         inserted[w] \subseteq inserted'[w],
         inserted'[w] \subseteq inserted[w] \cup ({o} \ notified),
         row \in OutboxRow, Fits(row), row.status \in {"failed", "delivered", "dead_letter"},
         row.attempts = outbox[o].attempts + 1,
         row.status = "delivered" => o \in notified \cup inserted'[w]
  PROVE  Inv'
<1>1. RunOK(w)
  BY DEF Inv
<1>2. /\ todo'[w] = todo[w] \ {o}
      /\ staged'[w] = [p \in DOMAIN staged[w] \cup {o} |-> IF p = o THEN row ELSE staged[w][p]]
      /\ lapsed'[w] = lapsed[w]
  BY DEF Inv, Shapes, Stage
<1>3. DOMAIN staged'[w] = DOMAIN staged[w] \cup {o}
  BY <1>2
<1>4. Held(w)' = Held(w)
  BY <1>2, <1>3 DEF Held
<1>5. OnlyRunOf(w)
  BY DEF Inv, Shapes, Stage, OnlyRunOf
<1>6. ASSUME NEW p \in DOMAIN staged'[w] PROVE Outcome(w, p)'
  <2>1. CASE p = o
    <3>1. staged'[w][p] = row
      BY <1>2, <1>3, <2>1
    <3> QED BY <2>1, <3>1 DEF Outcome
  <2>2. CASE p # o
    <3>1. p \in DOMAIN staged[w] /\ staged'[w][p] = staged[w][p]
      BY <1>2, <1>3, <2>2
    <3>2. Outcome(w, p)
      BY <1>1, <3>1 DEF RunOK
    <3> QED BY <3>1, <3>2 DEF Outcome
  <2> QED BY <2>1, <2>2
<1>7. staged'[w] = [p \in DOMAIN staged'[w] |-> staged'[w][p]]
  BY <1>2, <1>3
<1>8. /\ todo'[w] \subseteq Intent /\ DOMAIN staged'[w] \subseteq Intent \ todo'[w]
      /\ inserted'[w] \subseteq DOMAIN staged'[w] /\ inserted'[w] \cap notified' = {}
  BY <1>1, <1>2, <1>3 DEF RunOK
<1>9. \A p \in Held(w)' : Eligible(outbox[p])'
  BY <1>1, <1>4 DEF RunOK, Eligible
<1>10. RunOK(w)'
  BY <1>1, <1>2, <1>6, <1>7, <1>8, <1>9 DEF RunOK
<1>11. \A v \in Worker \ {w} : Held(w)' \cap Held(v) = {}
  BY <1>4 DEF Inv, Exclusive
<1> QED BY <1>5, <1>10, <1>11, RunStep

\* A delivery is staged together with its notification.
LEMMA DeliverInv == ASSUME Inv, NEW w \in Worker, NEW o \in Intent, Deliver(w, o) PROVE Inv'
<1> DEFINE row == [Tried(o) EXCEPT !.status = "delivered"]
<1>1. o \in todo[w]
  BY DEF Deliver, IsNext
<1>2. /\ Tried(o) \in OutboxRow /\ Tried(o).attempts = outbox[o].attempts + 1
      /\ Tried(o).attempts \in 1 .. MaxAttempts
  BY <1>1, TriedRow
<1>3. /\ row \in OutboxRow /\ row.status = "delivered" /\ row.attempts = Tried(o).attempts
  BY <1>2 DEF OutboxRow
<1>4. Stage(w, o, row) /\ UNCHANGED <<outbox, notified, lapsed, retry>>
  BY DEF Deliver
<1> HIDE DEF row
<1>5. Fits(row) /\ row.attempts = outbox[o].attempts + 1
  BY <1>2, <1>3 DEF Fits
<1>6. /\ inserted' = [v \in Worker |-> inserted'[v]]
      /\ \A v \in Worker \ {w} : inserted'[v] = inserted[v]
      /\ inserted'[w] = IF o \in notified THEN inserted[w] ELSE inserted[w] \cup {o}
  BY DEF Inv, Shapes, Deliver
<1> QED BY <1>1, <1>3, <1>4, <1>5, <1>6, StageInv

\* A refusal is staged as a failure.
LEMMA RefuseInv == ASSUME Inv, NEW w \in Worker, NEW o \in Intent, Refuse(w, o) PROVE Inv'
<1> DEFINE row == Failed(Tried(o))
<1>1. o \in todo[w]
  BY DEF Refuse, IsNext
<1>2. /\ row \in OutboxRow /\ Fits(row) /\ row.status \in {"failed", "dead_letter"}
      /\ row.attempts = outbox[o].attempts + 1
  BY <1>1, FailedRow
<1>3. Stage(w, o, row) /\ UNCHANGED <<outbox, notified, lapsed, retry, inserted>>
  BY DEF Refuse
<1> HIDE DEF row
<1>4. inserted' = [v \in Worker |-> inserted'[v]]
  BY <1>3 DEF Inv, Shapes
<1> QED BY <1>1, <1>2, <1>3, <1>4, StageInv

\* A run that breaks down or crashes leaves the outbox as it was.
LEMMA AbortInv ==
  ASSUME Inv, NEW w \in Worker, Rollback(w), UNCHANGED <<outbox, notified, retry>>
  PROVE  Inv'
BY RollbackStep, RunStep
\* What a commit makes of the rows.
LEMMA CommitRows ==
  ASSUME Inv, NEW w \in Worker, Commit(w), NEW o \in Intent
  PROVE  /\ o \notin DOMAIN staged[w] => outbox'[o] = outbox[o]
         /\ o \in DOMAIN staged[w] =>
              /\ Eligible(outbox[o])
              /\ outbox'[o] \in OutboxRow /\ Fits(outbox'[o])
              /\ outbox'[o].status \in {"failed", "delivered", "dead_letter"}
              /\ outbox'[o].attempts = outbox[o].attempts + 1
              /\ outbox'[o].status = "delivered" => o \in notified \cup inserted[w]
<1>1. outbox'[o] = IF o \in DOMAIN staged[w]
                   THEN [staged[w][o] EXCEPT !.wait = Left(@, lapsed[w])]
                   ELSE outbox[o]
  BY DEF Commit
<1>2. ASSUME o \in DOMAIN staged[w]
      PROVE  /\ Eligible(outbox[o])
             /\ outbox'[o] \in OutboxRow /\ Fits(outbox'[o])
             /\ outbox'[o].status \in {"failed", "delivered", "dead_letter"}
             /\ outbox'[o].attempts = outbox[o].attempts + 1
             /\ outbox'[o].status = "delivered" => o \in notified \cup inserted[w]
  <2> DEFINE row == staged[w][o]
  <2>1. RunOK(w) /\ o \in Held(w)
    BY <1>2 DEF Inv, Held
  <2>2. Outcome(w, o) /\ Eligible(outbox[o]) /\ lapsed[w] \in Nat
    BY <1>2, <2>1, DispatchAssumption DEF RunOK
  <2>3. /\ row \in OutboxRow /\ Fits(row)
        /\ row.status \in {"failed", "delivered", "dead_letter"}
        /\ row.attempts = outbox[o].attempts + 1
        /\ row.status = "delivered" => o \in notified \cup inserted[w]
    BY <2>2 DEF Outcome
  <2>4. outbox'[o] = [row EXCEPT !.wait = Left(row.wait, lapsed[w])]
    BY <1>1, <1>2
  <2> HIDE DEF row
  <2>5. /\ Left(row.wait, lapsed[w]) \in NoTime .. MaxDelay
        /\ row.wait >= 0 => Left(row.wait, lapsed[w]) >= 0
    BY <2>2, <2>3, LeftType DEF OutboxRow
  <2>6. /\ outbox'[o] \in OutboxRow
        /\ outbox'[o].status = row.status /\ outbox'[o].attempts = row.attempts
        /\ row.wait >= 0 => outbox'[o].wait >= 0
    BY <2>3, <2>4, <2>5 DEF OutboxRow
  <2>7. Fits(outbox'[o])
    BY <2>3, <2>6 DEF Fits
  <2> QED BY <2>2, <2>3, <2>6, <2>7
<1> QED BY <1>1, <1>2

\* A commit keeps Inv: the rows it writes are held by no other run, and so are
\* the notifications it adds.
LEMMA CommitInv == ASSUME Inv, NEW w \in Worker, Commit(w) PROVE Inv'
<1>1. Rollback(w) /\ notified' = notified \cup inserted[w] /\ UNCHANGED retry
  BY DEF Commit
<1>2. OnlyRunOf(w) /\ Held(w)' = {}
  BY <1>1, RollbackStep
<1>3. RunOK(w) /\ inserted[w] \subseteq DOMAIN staged[w] /\ DOMAIN staged[w] \subseteq Intent
  BY DEF Inv, RunOK
<1>4. Shapes'
  BY <1>1, <1>2, <1>3 DEF Inv, Shapes, OnlyRunOf, Commit
<1>5. ASSUME NEW o \in Intent PROVE RowOK(o)'
  <2>1. RowOK(o)
    BY DEF Inv
  <2>2. CASE o \in DOMAIN staged[w]
    BY <1>1, <2>2, CommitRows DEF RowOK
  <2>3. CASE o \notin DOMAIN staged[w]
    <3>1. outbox'[o] = outbox[o] /\ o \notin inserted[w]
      BY <1>3, <2>3, CommitRows
    <3> QED BY <1>1, <2>1, <3>1 DEF RowOK
  <2> QED BY <2>2, <2>3
<1>6. ASSUME NEW v \in Worker \ {w} PROVE Held(v)' = Held(v) /\ RunOK(v)'
  <2>1. /\ RunOK(v) /\ todo'[v] = todo[v] /\ staged'[v] = staged[v]
        /\ inserted'[v] = inserted[v] /\ lapsed'[v] = lapsed[v]
    BY <1>2 DEF Inv, OnlyRunOf
  <2>2. Held(v) \cap Held(w) = {}
    BY DEF Inv, Exclusive
  <2>3. /\ lapsed[v] \in 0 .. MaxDelay /\ inserted[v] \cap notified = {}
        /\ inserted[v] \subseteq DOMAIN staged[v] /\ Held(v) \subseteq Intent
        /\ \A o \in Held(v) : Eligible(outbox[o])
    BY <2>1 DEF RunOK, Held
  <2>4. inserted[v] \cap notified' = {}
    BY <1>1, <1>3, <2>2, <2>3 DEF Held
  <2>5. ASSUME NEW o \in Held(v) PROVE outbox'[o] = outbox[o]
    <3>1. o \in Intent /\ o \notin DOMAIN staged[w]
      BY <2>2, <2>3 DEF Held
    <3> QED BY <3>1, CommitRows
  <2>6. \A o \in Held(v) : /\ outbox'[o].attempts = outbox[o].attempts
                           /\ Eligible(outbox[o])'
    BY <2>3, <2>5 DEF Eligible
  <2>7. RunOK(v)'
    BY <1>1, <2>1, <2>3, <2>4, <2>6, RunKept
  <2> QED BY <2>1, <2>7 DEF Held
<1>7. RunOK(w)'
  BY <1>1, RollbackStep
<1>8. Exclusive'
  BY <1>2, <1>6 DEF Inv, Exclusive
<1> QED BY <1>4, <1>5, <1>6, <1>7, <1>8 DEF Inv

\* Reading a dead letter changes no row.
LEMMA RetryReadInv == ASSUME Inv, NEW r \in Retrier, NEW o \in Intent, RetryRead(r, o) PROVE Inv'
<1>1. Shapes'
  BY DEF Inv, Shapes, RetryRead
<1>2. \A p \in Intent : RowOK(p)'
  BY DEF Inv, RowOK, RetryRead
<1>3. ASSUME NEW w \in Worker PROVE Held(w)' = Held(w) /\ RunOK(w)'
  <2>1. RunOK(w) /\ UNCHANGED <<outbox, notified, todo, staged, inserted, lapsed>>
    BY DEF Inv, RetryRead
  <2>2. /\ lapsed[w] \in 0 .. MaxDelay /\ inserted[w] \cap notified = {}
        /\ \A p \in Held(w) : Eligible(outbox[p])
    BY <2>1 DEF RunOK
  <2>3. \A p \in Held(w) : Eligible(outbox[p])'
    BY <2>1, <2>2 DEF Eligible
  <2> QED BY <2>1, <2>2, <2>3, RunKept DEF Held
<1> QED BY <1>1, <1>2, <1>3 DEF Inv, Exclusive

\* A reset waits for the row to be free.
LEMMA RetryResetInv == ASSUME Inv, NEW r \in Retrier, RetryReset(r) PROVE Inv'
<1>1. retry[r] \in Intent /\ Free(retry[r]) /\ outbox' = [outbox EXCEPT ![retry[r]] = Pending]
  BY DEF Inv, Shapes, RetryReset
<1>2. retry' \in [Retrier -> Intent \cup {NoIntent}]
  BY DEF Inv, Shapes, RetryReset
<1>3. UNCHANGED <<notified, todo, staged, inserted, lapsed>>
  BY DEF RetryReset
<1> QED BY <1>1, <1>2, <1>3, FreeRowStep

\* Every step keeps Inv.
LEMMA NextInv == ASSUME Inv, [Next]_vars PROVE Inv'
<1>1. CASE Tick
  BY <1>1, TickInv
<1>2. CASE \E o \in Intent : Enqueue(o)
  BY <1>2, EnqueueInv
<1>3. ASSUME NEW w \in Worker,
             Claim(w) \/ Commit(w) \/ Crash(w) \/ (\E o \in Intent : Attempt(w, o))
      PROVE  Inv'
  <2>1. CASE Claim(w)
    BY <2>1, ClaimInv
  <2>2. CASE Commit(w)
    BY <2>2, CommitInv
  <2>3. CASE Crash(w)
    BY <2>3, AbortInv DEF Crash
  <2>4. ASSUME NEW o \in Intent, Attempt(w, o) PROVE Inv'
    <3>1. CASE Deliver(w, o)
      BY <3>1, DeliverInv
    <3>2. CASE Refuse(w, o)
      BY <3>2, RefuseInv
    <3>3. CASE BreakDown(w, o)
      BY <3>3, AbortInv DEF BreakDown
    <3> QED BY <2>4, <3>1, <3>2, <3>3 DEF Attempt
  <2> QED BY <1>3, <2>1, <2>2, <2>3, <2>4
<1>4. ASSUME NEW r \in Retrier, RetryReset(r) \/ (\E o \in Intent : RetryRead(r, o))
      PROVE  Inv'
  BY <1>4, RetryResetInv, RetryReadInv
<1>5. CASE UNCHANGED vars
  <2>1. Shapes' /\ \A o \in Intent : RowOK(o)'
    BY <1>5 DEF Inv, Shapes, RowOK, vars
  <2>2. ASSUME NEW w \in Worker PROVE Held(w)' = Held(w) /\ RunOK(w)'
    <3>1. RunOK(w) /\ UNCHANGED <<outbox, notified, todo, staged, inserted, lapsed>>
      BY <1>5 DEF Inv, vars
    <3>2. /\ lapsed[w] \in 0 .. MaxDelay /\ inserted[w] \cap notified = {}
          /\ \A p \in Held(w) : Eligible(outbox[p])
      BY <3>1 DEF RunOK
    <3>3. \A p \in Held(w) : Eligible(outbox[p])'
      BY <3>1, <3>2 DEF Eligible
    <3> QED BY <3>1, <3>2, <3>3, RunKept DEF Held
  <2> QED BY <2>1, <2>2 DEF Inv, Exclusive
<1> QED BY <1>1, <1>2, <1>3, <1>4, <1>5 DEF Next

\* Only a commit counts attempts, and only on rows that are still due.
LEMMA NextDue ==
  ASSUME Inv, [Next]_vars, NEW o \in Intent, outbox'[o].attempts > outbox[o].attempts
  PROVE  /\ outbox[o].status \in {"pending", "failed"} /\ outbox[o].wait <= 0
         /\ outbox'[o].attempts = outbox[o].attempts + 1
<1>1. outbox[o].attempts \in Nat /\ outbox = [p \in Intent |-> outbox[p]]
  BY DispatchAssumption DEF Inv, RowOK, OutboxRow, Shapes
<1>2. outbox'[o] # outbox[o]
  BY <1>1
<1>3. ASSUME Tick PROVE FALSE
  <2>1. outbox[o] \in OutboxRow /\ outbox'[o] = [outbox[o] EXCEPT !.wait = Left(@, 1)]
    BY <1>3 DEF Tick, Inv, RowOK
  <2>2. outbox'[o].attempts = outbox[o].attempts
    BY <2>1 DEF OutboxRow
  <2> QED BY <1>1, <2>2
<1>4. ASSUME NEW p \in Intent, outbox' = [outbox EXCEPT ![p] = Pending] PROVE FALSE
  <2>1. outbox'[o] = Pending
    BY <1>1, <1>2, <1>4
  <2> QED BY <1>1, <2>1 DEF Pending
<1>5. ASSUME NEW r \in Retrier, RetryReset(r) PROVE FALSE
  BY <1>4, <1>5 DEF RetryReset, Inv, Shapes
<1>6. PICK w \in Worker : Commit(w)
  BY <1>2, <1>3, <1>4, <1>5
  DEF Next, vars, Enqueue, Claim, Crash, Attempt, Deliver, Refuse, BreakDown, RetryRead
<1>7. o \in DOMAIN staged[w]
  BY <1>2, <1>6, CommitRows
<1> QED BY <1>6, <1>7, CommitRows DEF Eligible

---------------------------------------------------------------------------
(* The theorems.                                                           *)

\* The inductive invariant holds in every reachable state.
LEMMA Invariance == Spec => []Inv
<1>1. Inv /\ [Next]_vars => Inv'
  BY NextInv
<1> QED BY InitInv, <1>1, PTL DEF Spec

\* The variables of the dispatcher have their types, and what a run has
\* claimed, staged and inserted fits together (dispatch_pending_notifications).
THEOREM DispatchTypes == Spec => []TypeOK
<1>1. Inv => TypeOK
  BY InvImplies
<1> QED BY Invariance, <1>1, PTL

\* However many runs dispatch, crash and are retried, no notification is ever
\* inserted a second time (FOR UPDATE SKIP LOCKED and the provider's check).
THEOREM DeliveredAtMostOnce == Spec => []DeliveredOnce
<1>1. Inv => DeliveredOnce
  BY InvImplies
<1> QED BY Invariance, <1>1, PTL

\* Attempts, status and notification of an intent agree in every committed
\* state, whatever max_attempts is (_handle_dispatch_failure).
THEOREM AttemptsAgree == Spec => []AttemptsAccounted
<1>1. Inv => AttemptsAccounted
  BY InvImplies
<1> QED BY Invariance, <1>1, PTL

\* A commit counts an attempt only on an intent that is then still pending or
\* failed and due: no run works on a row that another one has changed.
THEOREM AttemptsOnDueOnly == Spec => OnlyDueAttempts
<1>1. Inv /\ [Next]_vars =>
        [\A o \in Intent :
           outbox'[o].attempts > outbox[o].attempts =>
             /\ outbox[o].status \in {"pending", "failed"}
             /\ outbox[o].wait <= 0
             /\ outbox'[o].attempts = outbox[o].attempts + 1]_outbox
  BY NextDue
<1> QED BY Invariance, <1>1, PTL DEF Spec, OnlyDueAttempts
=============================================================================
