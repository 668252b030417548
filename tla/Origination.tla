----------------------------- MODULE Origination -----------------------------
(***************************************************************************)
(* Loan requests as concurrent database transactions: borrowers submit and *)
(* cancel, the owner approves, rejects and converts approved requests into *)
(* loans, and the estimate rate is reconfigured meanwhile                  *)
(* (loan_requests/service.py, router.py, loans/service.py).                *)
(*                                                                         *)
(* A submission reads the rate, looks for a pending request, and inserts;  *)
(* it locks nothing before the insert, and only the partial unique index   *)
(* on pending requests keeps two of them apart.  Every other operation     *)
(* locks the request's row first.  Isolation is READ COMMITTED; a session  *)
(* may fail before its commit, and its answer may be lost after it.        *)
(***************************************************************************)
EXTENDS Naturals, FiniteSets, Sequences

CONSTANTS Borrower,  \* who submits
          Plan,      \* principal, term, frequency and first due date asked for
          Rate,      \* monthly rates the business may configure
          Request,   \* bound: the identities of requests
          None,      \* no borrower, no plan, no request; a rate that is NULL
          Session    \* concurrent database sessions

ASSUME OriginationAssumption ==
  None \notin Borrower \cup Plan \cup Rate \cup Request

VARIABLES rate,      \* business_settings.default_monthly_estimate_rate
          requests,  \* requests[r]: the committed row of request r
          loans,     \* loans[r]: the committed loans with loan_request_id r
          events,    \* events[r]: the committed notification intents about r
          phase,     \* phase[s]: how far session s is
          op,        \* op[s]: the operation it runs
          target,    \* target[s]: the request it is about
          row,       \* row[s]: the request's row as s has read or written it
          offered,   \* history: the rates configured so far
          answered   \* history: <<operation, request>> of the last successful answer

Life == INSTANCE RequestLife
          WITH requests <- requests, loans <- loans, events <- events, offered <- offered

tables   == <<rate, requests, loans, events>>
sessions == <<phase, op, target, row>>
vars     == <<tables, sessions, offered, answered>>

Absent   == Life!Absent
Review   == {"cancel", "approve", "reject"}
OnRow    == Review \cup {"convert"}

Init ==
  /\ rate = None
  /\ Life!Init
  /\ phase  = [s \in Session |-> "idle"]
  /\ op     = [s \in Session |-> "submit"]
  /\ target = [s \in Session |-> None]
  /\ row    = [s \in Session |-> Absent]
  /\ answered = << >>

---------------------------------------------------------------------------

\* The operator changes the configured rate, or clears it.
Configure(q) ==
  /\ q # rate
  /\ rate'    = q
  /\ offered' = offered \cup ({q} \ {None})
  /\ UNCHANGED <<requests, loans, events, sessions, answered>>

\* The session is closed: locks released, uncommitted writes discarded.
Closed(s) ==
  /\ phase'  = [phase EXCEPT ![s] = "idle"]
  /\ op'     = [op EXCEPT ![s] = "submit"]
  /\ target' = [target EXCEPT ![s] = None]
  /\ row'    = [row EXCEPT ![s] = Absent]

Refused(s) == Closed(s) /\ UNCHANGED <<tables, offered, answered>>

Goes(s, p) ==
  /\ phase' = [phase EXCEPT ![s] = p]
  /\ UNCHANGED <<op, tables, offered, answered>>

\* Bound: there is an identity left for every submission under way.
RoomToSubmit ==
  Cardinality({r \in Request : requests[r] # Absent})
    + Cardinality({s \in Session : phase[s] # "idle" /\ op[s] = "submit"})
    < Cardinality(Request)

\* submit_loan_request reads the rate; NULL is answered with 400.
ReadRate(s, b, p) ==
  /\ phase[s] = "idle"
  /\ rate # None
  /\ RoomToSubmit
  /\ Goes(s, "rated")
  /\ row' = [row EXCEPT ![s] = Life!Asked(b, p, rate)]
  /\ UNCHANGED target

HasPending(b) == \E r \in Request : Life!IsPending(r, b)

\* ... looks for a pending request of the borrower (409 if there is one) ...
CheckPending(s) ==
  /\ phase[s] = "rated"
  /\ IF HasPending(row[s].borrower)
     THEN Refused(s)
     ELSE Goes(s, "checked") /\ UNCHANGED <<target, row>>

Fresh(r) == requests[r] = Absent /\ \A t \in Session : target[t] # r

\* Another transaction has inserted, or is deciding, a request of the same
\* borrower and has not ended: PostgreSQL makes the insert wait for it.
HeldUp(s) ==
  \E t \in Session :
     /\ phase[t] = "flushed"
     /\ row[t].borrower = row[s].borrower
     /\ op[t] = "submit" \/ requests[target[t]].status = "pending"

\* (mutant) There is no partial unique index: the look-up alone decides.
InsertUnindexed(s) ==
  /\ phase[s] = "checked"
  /\ \E r \in Request : Fresh(r) /\ target' = [target EXCEPT ![s] = r]
  /\ Goes(s, "flushed")
  /\ UNCHANGED row

\* ... and inserts, when the index has found no pending request: a collision
\* is rolled back and answered with 409.
InsertRequest(s) ==
  /\ phase[s] = "checked"
  /\ ~HeldUp(s)
  /\ IF HasPending(row[s].borrower)
     THEN Refused(s)
     ELSE /\ \E r \in Request : Fresh(r) /\ target' = [target EXCEPT ![s] = r]
          /\ Goes(s, "flushed")
          /\ UNCHANGED row

\* A cancellation by the request's borrower, or a request of the owner.
Open(s, k, r) ==
  /\ phase[s] = "idle"
  /\ requests[r] # Absent
  /\ phase'  = [phase EXCEPT ![s] = "locking"]
  /\ op'     = [op EXCEPT ![s] = k]
  /\ target' = [target EXCEPT ![s] = r]
  /\ UNCHANGED <<row, tables, offered, answered>>

Holds(t, r) == phase[t] \in {"locked", "flushed"} /\ op[t] # "submit" /\ target[t] = r

\* (mutant) SELECT without FOR UPDATE: the row is read whoever holds it.
ReadWithoutLock(s) ==
  /\ phase[s] = "locking"
  /\ row' = [row EXCEPT ![s] = requests[target[s]]]
  /\ Goes(s, "locked")
  /\ UNCHANGED target

\* SELECT ... FOR UPDATE waits until the row is free and reads it.
LockRequest(s) ==
  /\ phase[s] = "locking"
  /\ \A t \in Session : ~Holds(t, target[s])
  /\ row' = [row EXCEPT ![s] = requests[target[s]]]
  /\ Goes(s, "locked")
  /\ UNCHANGED target

DecisionOf == [approve |-> "approved", reject |-> "rejected", cancel |-> "cancelled"]

\* Only a pending request is decided; otherwise 409.
ReviewRequest(s) ==
  /\ phase[s] = "locked"
  /\ IF row[s].status = "pending"
     THEN /\ row' = [row EXCEPT ![s].status = DecisionOf[op[s]]]
          /\ Goes(s, "flushed")
          /\ UNCHANGED target
     ELSE Refused(s)

CancelRequest(s)  == op[s] = "cancel" /\ ReviewRequest(s)
ApproveRequest(s) == op[s] = "approve" /\ ReviewRequest(s)
RejectRequest(s)  == op[s] = "reject" /\ ReviewRequest(s)

\* (mutant) The conversion does not look for a loan that exists already.
ConvertRepeatedly(s) ==
  /\ phase[s] = "locked"
  /\ op[s] = "convert"
  /\ IF row[s].status = "approved"
     THEN Goes(s, "flushed") /\ UNCHANGED <<target, row>>
     ELSE Refused(s)

\* create_loan_from_request: an approved request (400) without a loan (409).
ConvertRequest(s) ==
  /\ phase[s] = "locked"
  /\ op[s] = "convert"
  /\ IF row[s].status = "approved" /\ loans[target[s]] = << >>
     THEN Goes(s, "flushed") /\ UNCHANGED <<target, row>>
     ELSE Refused(s)

---------------------------------------------------------------------------

\* (mutant) A cancellation is announced too, like a decision of the owner.
AnnouncedAlways(k) ==
  IF k = "submit" THEN {"submitted"} ELSE IF k \in Review THEN {DecisionOf[k]} ELSE {}

\* (mutant) Only an approval is announced, not a rejection.
AnnouncedApproval(k) ==
  IF k = "submit" THEN {"submitted"} ELSE IF k = "approve" THEN {DecisionOf[k]} ELSE {}

\* The intents an operation enqueues with its change.
Announced(k) ==
  IF k = "submit" THEN {"submitted"}
  ELSE IF k \in {"approve", "reject"} THEN {DecisionOf[k]} ELSE {}

\* (mutant) The loan takes the rate that is configured when it is created.
CommitAtCurrentRate(s) ==
  LET r == target[s] IN
  /\ requests' = IF op[s] = "convert" THEN requests ELSE [requests EXCEPT ![r] = row[s]]
  /\ loans'    = IF op[s] # "convert" THEN loans
                 ELSE [loans EXCEPT ![r] =
                         Append(@, Life!Contract([row[s] EXCEPT !.rate = rate]))]
  /\ events'   = [events EXCEPT ![r] = @ \cup Announced(op[s])]
  /\ UNCHANGED rate

\* The row, the loan and the intent become visible together.
Commit(s) ==
  LET r == target[s] IN
  /\ requests' = IF op[s] = "convert" THEN requests ELSE [requests EXCEPT ![r] = row[s]]
  /\ loans'    = IF op[s] # "convert" THEN loans
                 ELSE [loans EXCEPT ![r] = Append(@, Life!Contract(row[s]))]
  /\ events'   = [events EXCEPT ![r] = @ \cup Announced(op[s])]
  /\ UNCHANGED rate

\* The endpoint commits, reads the row again and answers.
Respond(s) ==
  /\ phase[s] = "flushed"
  /\ Commit(s)
  /\ answered' = <<op[s], target[s]>>
  /\ Closed(s)
  /\ UNCHANGED offered

\* Committed, but reading the row again fails or the answer is lost.
LoseAnswer(s) ==
  /\ phase[s] = "flushed"
  /\ Commit(s)
  /\ Closed(s)
  /\ UNCHANGED <<offered, answered>>

\* The worker dies, the connection drops, or the request is cancelled.
Fail(s) == phase[s] # "idle" /\ Refused(s)

---------------------------------------------------------------------------

SessionStep(s) ==
  \/ \E b \in Borrower, p \in Plan : ReadRate(s, b, p)
  \/ \E k \in OnRow, r \in Request : Open(s, k, r)
  \/ CheckPending(s) \/ InsertRequest(s)
  \/ LockRequest(s) \/ CancelRequest(s) \/ ApproveRequest(s) \/ RejectRequest(s)
  \/ ConvertRequest(s)
  \/ Respond(s) \/ LoseAnswer(s) \/ Fail(s)

Next ==
  \/ \E q \in Rate \cup {None} : Configure(q)
  \/ \E s \in Session : SessionStep(s)

Spec == Init /\ [][Next]_vars

---------------------------------------------------------------------------
(* Properties.                                                             *)

\* Types of the variables.
TypeOK ==
  /\ rate \in Rate \cup {None}
  /\ offered \subseteq Rate
  /\ requests \in [Request -> Life!Row]
  /\ DOMAIN loans = Request
  /\ events \in [Request -> SUBSET {"submitted", "approved", "rejected"}]
  /\ phase \in [Session -> {"idle", "rated", "checked", "locking", "locked", "flushed"}]
  /\ op \in [Session -> OnRow \cup {"submit"}]
  /\ target \in [Session -> Request \cup {None}]
  /\ row \in [Session -> Life!Row]
  /\ answered \in {<< >>} \cup ((OnRow \cup {"submit"}) \X Request)

\* A borrower never has two pending requests, although two submissions may
\* both have found none before either inserted (service.py:67-74).
OnePendingPerBorrower ==
  \A q, r \in Request, b \in Borrower :
     Life!IsPending(q, b) /\ Life!IsPending(r, b) => q = r

\* A loan exists for approved requests only, one for each, and its borrower,
\* plan and rate are those of the request: no cancellation that races the
\* approval, repeated conversion or change of the configured rate ("subsequent
\* rate setting changes do not alter historical request terms") comes between.
LoansAsApproved ==
  \A r \in Request :
     \/ loans[r] = << >>
     \/ requests[r].status = "approved" /\ loans[r] = <<Life!Contract(requests[r])>>

\* The intents on record are those of what was decided: an announcement of a
\* decision that another transaction replaced, or a decision without its
\* announcement, cannot be left behind.
EventsMatchDecisions ==
  \A r \in Request :
     events[r] = IF requests[r] = Absent THEN {}
                 ELSE {"submitted"} \cup ({requests[r].status} \cap {"approved", "rejected"})

\* What a borrower or the owner was told has happened stays on record: a
\* decision answered with 200 is never replaced by a concurrent one.
AnswersHold ==
  \A r \in Request :
     /\ answered = <<"submit", r>> => requests[r] # Absent
     /\ answered = <<"convert", r>> => loans[r] # << >>
     /\ \A k \in Review : answered = <<k, r>> => requests[r].status = DecisionOf[k]

\* The transactions implement the life of requests in which each operation
\* happens at one instant.
ImplementsLife == Life!Spec
=============================================================================
