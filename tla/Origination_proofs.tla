------------------------- MODULE Origination_proofs -------------------------
(***************************************************************************)
(* Origination implements RequestLife, and what its runs check of the      *)
(* committed tables, for any number of borrowers, requests, sessions,      *)
(* plans and rates.                                                        *)
(***************************************************************************)
EXTENDS Origination, TLAPS

USE OriginationAssumption

---------------------------------------------------------------------------
(* The inductive invariant.                                                *)

\* A row that has been inserted is a complete one.
RowsComplete ==
  \A r \in Request :
     \/ requests[r] = Absent
     \/ /\ requests[r].status # "absent"
        /\ requests[r].borrower \in Borrower

TablesSound ==
  /\ RowsComplete
  /\ OnePendingPerBorrower
  /\ LoansAsApproved
  /\ EventsMatchDecisions

\* A draft of a request that may be inserted.
Draft(x) ==
  \E b \in Borrower, p \in Plan, q \in offered : x = Life!Asked(b, p, q)

\* What a session has flushed is what its operation would write now.
FlushedSound(s) ==
  /\ target[s] \in Request
  /\ op[s] = "submit" =>
        /\ Draft(row[s])
        /\ requests[target[s]] = Absent
        /\ ~HasPending(row[s].borrower)
  /\ op[s] \in Review =>
        /\ requests[target[s]].status = "pending"
        /\ row[s] = [requests[target[s]] EXCEPT !.status = DecisionOf[op[s]]]
  /\ op[s] = "convert" =>
        /\ requests[target[s]].status = "approved"
        /\ row[s] = requests[target[s]]
        /\ loans[target[s]] = << >>

SessionSound(s) ==
  /\ phase[s] = "idle" => op[s] = "submit"
  /\ phase[s] \in {"rated", "checked"} => op[s] = "submit" /\ Draft(row[s])
  /\ phase[s] \in {"locking", "locked"} =>
        op[s] \in OnRow /\ target[s] \in Request /\ requests[target[s]] # Absent
  /\ phase[s] = "locked" => row[s] = requests[target[s]]
  /\ phase[s] = "flushed" => FlushedSound(s)

\* Row locks, and the index on pending requests, keep sessions apart.
Apart(s, t) ==
  /\ \A r \in Request : ~(Holds(s, r) /\ Holds(t, r))
  /\ phase[s] = "flushed" /\ op[s] = "submit" /\ phase[t] = "flushed" /\ op[t] = "submit"
       => target[s] # target[t] /\ row[s].borrower # row[t].borrower

Excluded == \A s, t \in Session : s # t => Apart(s, t)

IInv ==
  /\ TypeOK
  /\ TablesSound
  /\ \A s \in Session : SessionSound(s)
  /\ Excluded
  /\ AnswersHold
  /\ rate # None => rate \in offered

---------------------------------------------------------------------------
(* A commit is a step of RequestLife, and such steps keep the tables sound. *)

\* The reviews are the decisions a request can receive.
LEMMA ReviewNames ==
  /\ \A k \in Review : DecisionOf[k] \in Life!Decision
  /\ \A k \in Review : DecisionOf[k] # "pending" /\ DecisionOf[k] # "absent"
  /\ OnRow = {"cancel", "approve", "reject", "convert"}
  /\ Review = {"cancel", "approve", "reject"}
  BY DEF Review, OnRow, DecisionOf, Life!Decision

\* A flushed submission inserts its draft.
LEMMA CommitSubmits ==
  ASSUME TypeOK, EventsMatchDecisions, NEW s \in Session, op[s] = "submit",
         FlushedSound(s), Commit(s), offered' = offered
  PROVE  \E b \in Borrower, p \in Plan, q \in Rate : Life!Submit(target[s], b, p, q)
<1>1. PICK b \in Borrower, p \in Plan, q \in offered : row[s] = Life!Asked(b, p, q)
  BY DEF FlushedSound, Draft
<1>2. /\ row[s].borrower = b
      /\ q \in Rate
  BY <1>1 DEF TypeOK, Life!Asked
<1>3. requests[target[s]] = Absent /\ ~HasPending(b) /\ target[s] \in Request
  BY <1>2 DEF FlushedSound
<1>4. events[target[s]] = {} /\ events \in [Request -> SUBSET {"submitted", "approved", "rejected"}]
  BY <1>3 DEF EventsMatchDecisions, TypeOK
<1>5. /\ requests' = [requests EXCEPT ![target[s]] = Life!Asked(b, p, q)]
      /\ loans' = loans
      /\ events' = [events EXCEPT ![target[s]] = {"submitted"}]
  BY <1>1, <1>3, <1>4 DEF Commit, Announced
<1>6. Life!Submit(target[s], b, p, q)
  BY <1>2, <1>3, <1>5 DEF Life!Submit, HasPending, Absent
<1> QED
  BY <1>2, <1>6

\* A flushed review decides the request.
LEMMA CommitDecides ==
  ASSUME TypeOK, NEW s \in Session, op[s] \in Review, FlushedSound(s), Commit(s),
         offered' = offered
  PROVE  Life!Decide(target[s], DecisionOf[op[s]])
<1>1. /\ requests[target[s]].status = "pending"
      /\ row[s] = [requests[target[s]] EXCEPT !.status = DecisionOf[op[s]]]
      /\ target[s] \in Request
      /\ requests \in [Request -> Life!Row]
      /\ events \in [Request -> SUBSET {"submitted", "approved", "rejected"}]
  BY DEF FlushedSound, TypeOK
<1>2. requests' = [requests EXCEPT ![target[s]].status = DecisionOf[op[s]]]
  BY <1>1, ReviewNames DEF Commit
<1>3. loans' = loans
  BY ReviewNames DEF Commit
<1>4. Announced(op[s]) = {DecisionOf[op[s]]} \ {"cancelled"}
  BY ReviewNames DEF Announced, DecisionOf
<1>5. events' = [events EXCEPT ![target[s]] = @ \cup ({DecisionOf[op[s]]} \ {"cancelled"})]
  BY <1>4 DEF Commit
<1> QED
  BY <1>1, <1>2, <1>3, <1>5 DEF Life!Decide

\* A flushed conversion creates the loan.
LEMMA CommitConverts ==
  ASSUME TypeOK, NEW s \in Session, op[s] = "convert", FlushedSound(s), Commit(s),
         offered' = offered
  PROVE  Life!Convert(target[s])
<1>1. /\ requests[target[s]].status = "approved"
      /\ row[s] = requests[target[s]]
      /\ loans[target[s]] = << >>
      /\ target[s] \in Request
      /\ DOMAIN loans = Request
      /\ events \in [Request -> SUBSET {"submitted", "approved", "rejected"}]
  BY DEF FlushedSound, TypeOK
<1>2. loans' = [loans EXCEPT ![target[s]] = <<Life!Contract(requests[target[s]])>>]
  BY <1>1 DEF Commit
<1>3. requests' = requests
  BY DEF Commit
<1>4. events' = events
  BY <1>1 DEF Commit, Announced, Review
<1> QED
  BY <1>1, <1>2, <1>3, <1>4 DEF Life!Convert

\* So every commit is one step of RequestLife.
LEMMA CommitIsLifeStep ==
  ASSUME TypeOK, EventsMatchDecisions, NEW s \in Session, FlushedSound(s), Commit(s),
         offered' = offered
  PROVE  Life!Next
<1>1. CASE op[s] = "submit"
  BY <1>1, CommitSubmits DEF FlushedSound, Life!Next
<1>2. CASE op[s] \in Review
  <2>1. target[s] \in Request /\ Life!Decide(target[s], DecisionOf[op[s]])
    BY <1>2, CommitDecides DEF FlushedSound
  <2> QED
    BY <1>2, <2>1 DEF Review, DecisionOf, Life!Approve, Life!Reject, Life!Cancel, Life!Next
<1>3. CASE op[s] = "convert"
  BY <1>3, CommitConverts DEF FlushedSound, Life!Next
<1> QED
  BY <1>1, <1>2, <1>3, ReviewNames DEF TypeOK

TableTypes ==
  /\ requests \in [Request -> Life!Row]
  /\ DOMAIN loans = Request
  /\ events \in [Request -> SUBSET {"submitted", "approved", "rejected"}]

\* A submission keeps the tables sound.
LEMMA SubmitKeepsTables ==
  ASSUME TableTypes, TablesSound, offered \subseteq Rate,
         NEW r \in Request, NEW b \in Borrower, NEW p \in Plan, NEW q \in Rate,
         Life!Submit(r, b, p, q)
  PROVE  TableTypes' /\ TablesSound'
<1> DEFINE new == Life!Asked(b, p, q)
<1>1. /\ new.status = "pending"
      /\ new.borrower = b
      /\ new \in Life!Row
      /\ new # Absent
  BY DEF Life!Asked, Life!Row, Absent, Life!Absent
<1>2. /\ requests[r] = Absent
      /\ \A x \in Request : ~Life!IsPending(x, b)
      /\ requests' = [requests EXCEPT ![r] = new]
      /\ events' = [events EXCEPT ![r] = {"submitted"}]
      /\ loans' = loans
  BY DEF Life!Submit, Absent
<1> HIDE DEF new
<1>3. TableTypes'
  BY <1>1, <1>2 DEF TableTypes
<1>4. RowsComplete'
  BY <1>1, <1>2 DEF RowsComplete, TableTypes, TablesSound, Absent, Life!Absent
<1>5. OnePendingPerBorrower'
  <2> SUFFICES ASSUME NEW x \in Request, NEW y \in Request, NEW c \in Borrower,
                      Life!IsPending(x, c)', Life!IsPending(y, c)'
               PROVE  x = y
    BY DEF OnePendingPerBorrower
  <2>1. \A z \in Request : z # r => requests'[z] = requests[z]
    BY <1>2 DEF TableTypes
  <2>2. requests'[r] = new
    BY <1>2 DEF TableTypes
  <2>3. \A z \in Request : z # r /\ Life!IsPending(z, c)' => Life!IsPending(z, c)
    BY <2>1 DEF Life!IsPending
  <2>4. CASE x # r /\ y # r
    BY <2>3, <2>4 DEF OnePendingPerBorrower, TablesSound
  <2>5. CASE x = r /\ y # r
    BY <1>1, <1>2, <2>2, <2>3, <2>5 DEF Life!IsPending
  <2>6. CASE x # r /\ y = r
    BY <1>1, <1>2, <2>2, <2>3, <2>6 DEF Life!IsPending
  <2> QED
    BY <2>4, <2>5, <2>6
<1>6. LoansAsApproved'
  <2>1. loans[r] = << >>
    BY <1>2 DEF TablesSound, LoansAsApproved, Absent, Life!Absent
  <2> QED
    BY <1>2, <2>1 DEF LoansAsApproved, TablesSound, TableTypes
<1>7. EventsMatchDecisions'
  BY <1>1, <1>2 DEF EventsMatchDecisions, TablesSound, TableTypes, Absent, Life!Absent
<1> QED
  BY <1>3, <1>4, <1>5, <1>6, <1>7 DEF TablesSound

\* A decision keeps the tables sound.
LEMMA DecideKeepsTables ==
  ASSUME TableTypes, TablesSound, NEW r \in Request, NEW d \in Life!Decision,
         Life!Decide(r, d)
  PROVE  TableTypes' /\ TablesSound'
<1>1. /\ requests[r].status = "pending"
      /\ requests' = [requests EXCEPT ![r].status = d]
      /\ events' = [events EXCEPT ![r] = @ \cup ({d} \ {"cancelled"})]
      /\ loans' = loans
      /\ d \in {"approved", "rejected", "cancelled"}
  BY DEF Life!Decide, Life!Decision
<1>2. /\ requests[r] \in Life!Row
      /\ requests[r] # Absent
      /\ requests'[r] = [requests[r] EXCEPT !.status = d]
      /\ \A x \in Request : x # r => requests'[x] = requests[x]
  BY <1>1 DEF TableTypes, Absent, Life!Absent
<1>3. /\ requests'[r].status = d
      /\ requests'[r].borrower = requests[r].borrower
      /\ requests'[r] \in Life!Row
      /\ requests'[r] # Absent
  BY <1>1, <1>2 DEF Life!Row, Life!Decision, Absent, Life!Absent
<1>4. events'[r] = events[r] \cup ({d} \ {"cancelled"})
  BY <1>1 DEF TableTypes
<1>5. TableTypes'
  BY <1>1, <1>3, <1>4 DEF TableTypes
<1>6. RowsComplete'
  BY <1>1, <1>2, <1>3 DEF RowsComplete, TablesSound
<1>7. OnePendingPerBorrower'
  <2>1. \A x \in Request, c \in Borrower : Life!IsPending(x, c)' => Life!IsPending(x, c)
    BY <1>1, <1>2, <1>3 DEF Life!IsPending
  <2> QED
    BY <2>1 DEF OnePendingPerBorrower, TablesSound
<1>8. LoansAsApproved'
  <2>1. loans[r] = << >>
    BY <1>1 DEF TablesSound, LoansAsApproved
  <2> QED
    BY <1>1, <1>2, <2>1 DEF LoansAsApproved, TablesSound
<1>9. EventsMatchDecisions'
  <2>1. events[r] = {"submitted"}
    BY <1>1, <1>2 DEF TablesSound, EventsMatchDecisions
  <2>2. events'[r] = {"submitted"} \cup ({d} \cap {"approved", "rejected"})
    BY <1>1, <1>4, <2>1
  <2>3. \A x \in Request : x # r => events'[x] = events[x]
    BY <1>1 DEF TableTypes
  <2> QED
    BY <1>2, <1>3, <2>2, <2>3 DEF TablesSound, EventsMatchDecisions, Absent
<1> QED
  BY <1>5, <1>6, <1>7, <1>8, <1>9 DEF TablesSound

\* A conversion keeps the tables sound.
LEMMA ConvertKeepsTables ==
  ASSUME TableTypes, TablesSound, NEW r \in Request, Life!Convert(r)
  PROVE  TableTypes' /\ TablesSound'
<1>1. /\ requests[r].status = "approved"
      /\ loans' = [loans EXCEPT ![r] = <<Life!Contract(requests[r])>>]
      /\ requests' = requests
      /\ events' = events
  BY DEF Life!Convert
<1>2. TableTypes'
  BY <1>1 DEF TableTypes
<1>3. RowsComplete' /\ OnePendingPerBorrower' /\ EventsMatchDecisions'
  BY <1>1 DEF TablesSound, RowsComplete, OnePendingPerBorrower, EventsMatchDecisions,
              Life!IsPending
<1>4. LoansAsApproved'
  BY <1>1 DEF TablesSound, LoansAsApproved, TableTypes
<1> QED
  BY <1>2, <1>3, <1>4 DEF TablesSound

---------------------------------------------------------------------------
(* Steps of one session that write no table.                               *)

\* Only session s moves, and what it becomes is of the declared types.
Moves(s) ==
  /\ \A t \in Session \ {s} : /\ phase'[t] = phase[t] /\ op'[t] = op[t]
                              /\ target'[t] = target[t] /\ row'[t] = row[t]
  /\ phase' \in [Session -> {"idle", "rated", "checked", "locking", "locked", "flushed"}]
  /\ op' \in [Session -> OnRow \cup {"submit"}]
  /\ target' \in [Session -> Request \cup {None}]
  /\ row' \in [Session -> Life!Row]

\* A step of s that leaves the tables alone only has to keep s sound and apart
\* from the others.
LEMMA LocalStep ==
  ASSUME IInv, NEW s \in Session, Moves(s), SessionSound(s)',
         \A t \in Session \ {s} : Apart(s, t)',
         UNCHANGED <<tables, offered, answered>>
  PROVE  IInv'
<1>1. TypeOK'
  BY DEF IInv, TypeOK, Moves, tables
<1>2. TablesSound'
  BY DEF IInv, TablesSound, RowsComplete, OnePendingPerBorrower, LoansAsApproved,
         EventsMatchDecisions, Life!IsPending, tables
<1>3. ASSUME NEW t \in Session PROVE SessionSound(t)'
  <2>1. CASE t = s
    BY <2>1
  <2>2. CASE t # s
    <3>1. /\ phase'[t] = phase[t] /\ op'[t] = op[t]
          /\ target'[t] = target[t] /\ row'[t] = row[t]
          /\ requests' = requests /\ loans' = loans /\ offered' = offered
      BY <2>2 DEF Moves, tables
    <3>2. Draft(row[t])' <=> Draft(row[t])
      BY <3>1 DEF Draft
    <3>3. HasPending(row[t].borrower)' <=> HasPending(row[t].borrower)
      BY <3>1 DEF HasPending, Life!IsPending
    <3>4. FlushedSound(t)' <=> FlushedSound(t)
      BY <3>1, <3>2, <3>3 DEF FlushedSound
    <3> QED
      BY <3>1, <3>2, <3>4 DEF IInv, SessionSound
  <2> QED
    BY <2>1, <2>2
<1>4. Excluded'
  <2> SUFFICES ASSUME NEW t \in Session, NEW u \in Session, t # u
               PROVE  Apart(t, u)'
    BY DEF Excluded
  <2>1. CASE t = s
    BY <2>1
  <2>2. CASE u = s
    <3>1. Apart(u, t)'
      BY <2>2
    <3> QED
      BY <3>1 DEF Apart
  <2>3. CASE t # s /\ u # s
    BY <2>3 DEF IInv, Excluded, Apart, Holds, Moves
  <2> QED
    BY <2>1, <2>2, <2>3
<1>5. AnswersHold' /\ (rate # None => rate \in offered)'
  BY DEF IInv, AnswersHold, tables
<1> QED
  BY <1>1, <1>2, <1>3, <1>4, <1>5 DEF IInv

\* The row of a request that was not made is a row of the abstract specification.
LEMMA AbsentIsRow == Absent \in Life!Row /\ Absent.status = "absent"
  BY DEF Absent, Life!Absent, Life!Row

\* Closing a session moves it to where it holds nothing.
LEMMA ClosedMoves ==
  ASSUME TypeOK, NEW s \in Session, Closed(s)
  PROVE  /\ Moves(s) /\ phase'[s] = "idle"
         /\ SessionSound(s)'
         /\ \A t \in Session \ {s} : Apart(s, t)'
<1>1. Moves(s) /\ phase'[s] = "idle" /\ op'[s] = "submit"
  BY AbsentIsRow DEF TypeOK, Closed, Moves
<1> QED
  BY <1>1 DEF SessionSound, Apart, Holds

\* A transaction that is rolled back changes no table.
LEMMA RefusedStep ==
  ASSUME IInv, NEW s \in Session, Refused(s)
  PROVE  IInv'
<1>1. TypeOK /\ Closed(s) /\ UNCHANGED <<tables, offered, answered>>
  BY DEF IInv, Refused
<1> QED
  BY <1>1, ClosedMoves, LocalStep

\* A submission reads the interest rate.
LEMMA ReadRateStep ==
  ASSUME IInv, NEW s \in Session, NEW b \in Borrower, NEW p \in Plan, ReadRate(s, b, p)
  PROVE  IInv'
<1>1. TypeOK
  BY DEF IInv
<1>2. /\ phase' = [phase EXCEPT ![s] = "rated"]
      /\ row' = [row EXCEPT ![s] = Life!Asked(b, p, rate)]
      /\ op' = op /\ target' = target
      /\ phase[s] = "idle" /\ rate # None
      /\ UNCHANGED <<tables, offered, answered>>
  BY DEF ReadRate, Goes
<1>3. Life!Asked(b, p, rate) \in Life!Row
  BY <1>1 DEF TypeOK, Life!Asked, Life!Row
<1>4. Moves(s)
  BY <1>1, <1>2, <1>3 DEF TypeOK, Moves
<1>5. phase'[s] = "rated" /\ row'[s] = Life!Asked(b, p, rate) /\ op'[s] = op[s]
  BY <1>1, <1>2 DEF TypeOK
<1>6. op[s] = "submit" /\ rate \in offered
  BY <1>2 DEF IInv, SessionSound
<1>7. SessionSound(s)'
  BY <1>2, <1>5, <1>6 DEF SessionSound, Draft
<1>8. \A t \in Session \ {s} : Apart(s, t)'
  BY <1>5 DEF Apart, Holds
<1> QED
  BY <1>2, <1>4, <1>7, <1>8, LocalStep

\* A submission looks for a pending request of its borrower.
LEMMA CheckPendingStep ==
  ASSUME IInv, NEW s \in Session, CheckPending(s)
  PROVE  IInv'
<1>1. CASE Refused(s)
  BY <1>1, RefusedStep
<1>2. CASE Goes(s, "checked") /\ UNCHANGED <<target, row>>
  <2>1. /\ Moves(s) /\ phase'[s] = "checked"
        /\ phase[s] = "rated"
        /\ UNCHANGED <<op, row, target, tables, offered, answered>>
    BY <1>2 DEF IInv, TypeOK, Moves, Goes, CheckPending
  <2>2. SessionSound(s)'
    BY <2>1 DEF IInv, SessionSound, Draft
  <2>3. \A t \in Session \ {s} : Apart(s, t)'
    BY <2>1 DEF Apart, Holds
  <2> QED
    BY <2>1, <2>2, <2>3, LocalStep
<1> QED
  BY <1>1, <1>2 DEF CheckPending

\* An insert that the index lets through is of a fresh identity, and of a
\* borrower without a pending request, committed or about to be.
LEMMA InsertStep ==
  ASSUME IInv, NEW s \in Session, InsertRequest(s)
  PROVE  IInv'
<1>1. CASE Refused(s)
  BY <1>1, RefusedStep
<1>2. CASE /\ ~HasPending(row[s].borrower)
           /\ \E r \in Request : Fresh(r) /\ target' = [target EXCEPT ![s] = r]
           /\ Goes(s, "flushed")
           /\ UNCHANGED row
  <2>1. PICK r \in Request : Fresh(r) /\ target' = [target EXCEPT ![s] = r]
    BY <1>2
  <2>2. /\ phase' = [phase EXCEPT ![s] = "flushed"]
        /\ UNCHANGED <<op, row, tables, offered, answered>>
        /\ phase[s] = "checked" /\ ~HeldUp(s)
    BY <1>2 DEF Goes, InsertRequest
  <2>3. Moves(s) /\ phase'[s] = "flushed" /\ target'[s] = r
    BY <2>1, <2>2 DEF IInv, TypeOK, Moves
  <2>4. op[s] = "submit" /\ Draft(row[s])
    BY <2>2 DEF IInv, SessionSound
  <2>5. SessionSound(s)'
    <3>1. Draft(row[s])'
      BY <2>2, <2>4 DEF Draft
    <3>2. ~HasPending(row[s].borrower)'
      BY <1>2, <2>2 DEF HasPending, Life!IsPending, tables
    <3>3. requests'[r] = Absent
      BY <2>1, <2>2 DEF Fresh, tables
    <3> QED
      BY <2>2, <2>3, <2>4, <3>1, <3>2, <3>3 DEF SessionSound, FlushedSound, Review
  <2>6. ASSUME NEW t \in Session \ {s} PROVE Apart(s, t)'
    <3>1. /\ phase'[t] = phase[t] /\ op'[t] = op[t] /\ op'[s] = op[s]
          /\ target'[t] = target[t] /\ row'[t] = row[t] /\ row'[s] = row[s]
      BY <2>2, <2>3 DEF Moves
    <3>2. phase[t] = "flushed" /\ op[t] = "submit" => row[t].borrower # row[s].borrower
      BY <2>2 DEF HeldUp
    <3>3. target[t] # r
      BY <2>1 DEF Fresh
    <3> QED
      BY <2>3, <2>4, <3>1, <3>2, <3>3 DEF Apart, Holds
  <2> QED
    BY <2>2, <2>3, <2>5, <2>6, LocalStep
<1> QED
  BY <1>1, <1>2 DEF InsertRequest

\* A review or conversion opens its transaction.
LEMMA OpenStep ==
  ASSUME IInv, NEW s \in Session, NEW k \in OnRow, NEW r \in Request, Open(s, k, r)
  PROVE  IInv'
<1>1. /\ Moves(s) /\ phase'[s] = "locking" /\ op'[s] = k /\ target'[s] = r
      /\ requests[r] # Absent
      /\ UNCHANGED <<row, tables, offered, answered>>
  BY DEF IInv, TypeOK, Moves, Open
<1>2. SessionSound(s)'
  BY <1>1 DEF SessionSound, tables, Absent, Life!Absent
<1>3. \A t \in Session \ {s} : Apart(s, t)'
  BY <1>1 DEF Apart, Holds
<1> QED
  BY <1>1, <1>2, <1>3, LocalStep

\* A row lock is granted to one session only, which then reads the row.
LEMMA LockStep ==
  ASSUME IInv, NEW s \in Session, LockRequest(s)
  PROVE  IInv'
<1>1. /\ phase[s] = "locking"
      /\ \A t \in Session : ~Holds(t, target[s])
      /\ row' = [row EXCEPT ![s] = requests[target[s]]]
      /\ phase' = [phase EXCEPT ![s] = "locked"]
      /\ UNCHANGED <<op, target, tables, offered, answered>>
  BY DEF LockRequest, Goes
<1>2. op[s] \in OnRow /\ target[s] \in Request /\ requests[target[s]] # Absent
  BY <1>1 DEF IInv, SessionSound
<1>3. Moves(s) /\ phase'[s] = "locked" /\ row'[s] = requests[target[s]]
  BY <1>1, <1>2 DEF IInv, TypeOK, Moves
<1>4. SessionSound(s)'
  BY <1>1, <1>2, <1>3 DEF SessionSound, tables, Absent, Life!Absent
<1>5. ASSUME NEW t \in Session \ {s} PROVE Apart(s, t)'
  <2>1. ~Holds(t, target[s])'
    BY <1>1, <1>3 DEF Holds, Moves
  <2> QED
    BY <1>1, <1>3, <2>1 DEF Apart, Holds
<1> QED
  BY <1>1, <1>3, <1>4, <1>5, LocalStep

\* A session that holds a row and flushes holds it still.
LEMMA FlushApart ==
  ASSUME IInv, NEW s \in Session, phase[s] = "locked", op[s] # "submit",
         phase'[s] = "flushed", UNCHANGED <<op, target>>, Moves(s)
  PROVE  \A t \in Session \ {s} : Apart(s, t)'
<1> SUFFICES ASSUME NEW t \in Session \ {s} PROVE Apart(s, t)'
  OBVIOUS
<1>1. Apart(s, t)
  BY DEF IInv, Excluded
<1>2. phase'[t] = phase[t]
  BY DEF Moves
<1> QED
  BY <1>1, <1>2 DEF Apart, Holds

\* A review decides the pending request it has locked.
LEMMA ReviewStep ==
  ASSUME IInv, NEW s \in Session, op[s] \in Review, ReviewRequest(s)
  PROVE  IInv'
<1>1. CASE Refused(s)
  BY <1>1, RefusedStep
<1>2. CASE /\ row[s].status = "pending"
           /\ row' = [row EXCEPT ![s].status = DecisionOf[op[s]]]
           /\ Goes(s, "flushed")
           /\ UNCHANGED target
  <2>1. /\ phase[s] = "locked" /\ op[s] \in Review /\ row[s].status = "pending"
        /\ row' = [row EXCEPT ![s].status = DecisionOf[op[s]]]
        /\ phase' = [phase EXCEPT ![s] = "flushed"]
        /\ UNCHANGED <<op, target, tables, offered, answered>>
    BY <1>2 DEF ReviewRequest, Goes
  <2>2. /\ target[s] \in Request
        /\ row[s] = requests[target[s]]
        /\ requests[target[s]] \in Life!Row
    BY <2>1 DEF IInv, SessionSound, TypeOK
  <2>3. /\ phase'[s] = "flushed"
        /\ row'[s] = [requests[target[s]] EXCEPT !.status = DecisionOf[op[s]]]
    BY <2>1, <2>2 DEF IInv, TypeOK
  <2>4. row'[s] \in Life!Row
    BY <2>1, <2>2, <2>3, ReviewNames DEF Life!Row
  <2>5. Moves(s)
    BY <2>1, <2>4 DEF IInv, TypeOK, Moves
  <2>6. op[s] # "submit" /\ op[s] # "convert"
    BY <2>1, ReviewNames
  <2>7. SessionSound(s)'
    BY <2>1, <2>2, <2>3, <2>6 DEF SessionSound, FlushedSound, tables
  <2> QED
    BY <2>1, <2>3, <2>5, <2>6, <2>7, FlushApart, LocalStep
<1> QED
  BY <1>1, <1>2 DEF ReviewRequest

\* A conversion writes a loan for the approved request it has locked.
LEMMA ConvertStep ==
  ASSUME IInv, NEW s \in Session, ConvertRequest(s)
  PROVE  IInv'
<1>1. CASE Refused(s)
  BY <1>1, RefusedStep
<1>2. CASE /\ row[s].status = "approved" /\ loans[target[s]] = << >>
           /\ Goes(s, "flushed")
           /\ UNCHANGED <<target, row>>
  <2>1. /\ phase[s] = "locked" /\ op[s] = "convert"
        /\ phase' = [phase EXCEPT ![s] = "flushed"]
        /\ UNCHANGED <<op, target, row, tables, offered, answered>>
    BY <1>2 DEF ConvertRequest, Goes
  <2>2. target[s] \in Request /\ row[s] = requests[target[s]]
    BY <2>1 DEF IInv, SessionSound
  <2>3. Moves(s) /\ phase'[s] = "flushed"
    BY <2>1 DEF IInv, TypeOK, Moves
  <2>4. SessionSound(s)'
    BY <1>2, <2>1, <2>2, <2>3 DEF SessionSound, FlushedSound, tables, Review
  <2> QED
    BY <2>1, <2>3, <2>4, FlushApart, LocalStep
<1> QED
  BY <1>1, <1>2 DEF ConvertRequest

\* A new rate adds to the rates offered and touches no session.
LEMMA ConfigureStep ==
  ASSUME IInv, NEW q \in Rate \cup {None}, Configure(q)
  PROVE  IInv'
<1>1. /\ rate' = q /\ offered' = offered \cup ({q} \ {None})
      /\ UNCHANGED <<requests, loans, events, sessions, answered>>
  BY DEF Configure
<1>2. TypeOK'
  BY <1>1 DEF IInv, TypeOK, sessions
<1>3. TablesSound'
  BY <1>1 DEF IInv, TablesSound, RowsComplete, OnePendingPerBorrower, LoansAsApproved,
         EventsMatchDecisions, Life!IsPending
<1>4. ASSUME NEW s \in Session PROVE SessionSound(s)'
  <2>1. Draft(row[s]) => Draft(row[s])'
    BY <1>1 DEF Draft, sessions
  <2>2. HasPending(row[s].borrower)' <=> HasPending(row[s].borrower)
    BY <1>1 DEF HasPending, Life!IsPending, sessions
  <2>3. FlushedSound(s) => FlushedSound(s)'
    BY <1>1, <2>1, <2>2 DEF FlushedSound, sessions
  <2> QED
    BY <1>1, <2>1, <2>3 DEF IInv, SessionSound, sessions
<1>5. Excluded'
  BY <1>1 DEF IInv, Excluded, Apart, Holds, sessions
<1>6. AnswersHold'
  BY <1>1 DEF IInv, AnswersHold
<1>7. (rate # None => rate \in offered)'
  BY <1>1
<1> QED
  BY <1>2, <1>3, <1>4, <1>5, <1>6, <1>7 DEF IInv

---------------------------------------------------------------------------
(* Commits.                                                                *)

\* What the commit of a flushed session does to the rows and the loans.
LEMMA CommitEffects ==
  ASSUME TypeOK, NEW s \in Session, FlushedSound(s), Commit(s)
  PROVE  /\ \A r \in Request \ {target[s]} :
               requests'[r] = requests[r] /\ loans'[r] = loans[r]
         /\ op[s] = "convert" => requests' = requests /\ loans'[target[s]] # << >>
         /\ op[s] # "convert" => requests'[target[s]] = row[s] /\ loans' = loans
<1>1. target[s] \in Request /\ requests \in [Request -> Life!Row] /\ DOMAIN loans = Request
  BY DEF TypeOK, FlushedSound
<1>2. CASE op[s] = "convert"
  <2>1. /\ requests' = requests
        /\ loans' = [loans EXCEPT ![target[s]] = Append(@, Life!Contract(row[s]))]
        /\ loans[target[s]] = << >>
    BY <1>2 DEF Commit, FlushedSound
  <2>2. loans'[target[s]] = <<Life!Contract(row[s])>>
    BY <1>1, <2>1
  <2> QED
    BY <1>1, <1>2, <2>1, <2>2
<1>3. CASE op[s] # "convert"
  <2>1. requests' = [requests EXCEPT ![target[s]] = row[s]] /\ loans' = loans
    BY <1>3 DEF Commit
  <2> QED
    BY <1>1, <1>3, <2>1
<1> QED
  BY <1>2, <1>3

\* A commit keeps the tables sound.
LEMMA CommitTables ==
  ASSUME IInv, NEW s \in Session, FlushedSound(s), Commit(s), offered' = offered
  PROVE  TableTypes' /\ TablesSound'
<1>1. TypeOK /\ TablesSound /\ EventsMatchDecisions /\ TableTypes /\ offered \subseteq Rate
  BY DEF IInv, TablesSound, TypeOK, TableTypes
<1>2. target[s] \in Request
  BY DEF FlushedSound
<1>3. CASE op[s] = "submit"
  <2>1. PICK b \in Borrower, p \in Plan, q \in Rate : Life!Submit(target[s], b, p, q)
    BY <1>1, <1>3, CommitSubmits
  <2> QED
    BY <1>1, <1>2, <2>1, SubmitKeepsTables
<1>4. CASE op[s] \in Review
  BY <1>1, <1>2, <1>4, CommitDecides, DecideKeepsTables, ReviewNames
<1>5. CASE op[s] = "convert"
  BY <1>1, <1>2, <1>5, CommitConverts, ConvertKeepsTables
<1> QED
  BY <1>1, <1>3, <1>4, <1>5, ReviewNames DEF TypeOK

\* The row of another session's request, and what that session has flushed,
\* survive the commit of s.
LEMMA CommitSparesOthers ==
  ASSUME IInv, NEW s \in Session, phase[s] = "flushed", Commit(s), Closed(s),
         offered' = offered, NEW t \in Session \ {s}
  PROVE  SessionSound(t)'
<1>1. TypeOK /\ FlushedSound(s) /\ SessionSound(t) /\ Apart(s, t) /\ RowsComplete
  BY DEF IInv, SessionSound, Excluded, TablesSound
<1>2. /\ phase'[t] = phase[t] /\ op'[t] = op[t]
      /\ target'[t] = target[t] /\ row'[t] = row[t]
  BY <1>1, ClosedMoves DEF Moves
<1>3. /\ target[s] \in Request /\ requests[target[s]] \in Life!Row
      /\ op[s] \in {"submit", "convert"} \cup Review
      /\ row[s] \in Life!Row
  BY <1>1, ReviewNames DEF TypeOK, FlushedSound
<1>4. op[s] # "submit" => Holds(s, target[s])
  BY DEF Holds
<1>5. ASSUME NEW r \in Request, requests[r] # Absent PROVE requests'[r] # Absent
  <2>1. CASE r # target[s]
    BY <1>1, <1>5, <2>1, CommitEffects
  <2>2. CASE r = target[s] /\ op[s] = "convert"
    BY <1>1, <1>5, <2>2, CommitEffects
  <2>3. CASE r = target[s] /\ op[s] \in Review
    <3>1. requests'[r].status = DecisionOf[op[s]]
      BY <1>1, <1>3, <2>3, CommitEffects, ReviewNames DEF FlushedSound, Life!Row
    <3> QED
      BY <2>3, <3>1, ReviewNames, AbsentIsRow
  <2>4. CASE r = target[s] /\ op[s] = "submit"
    BY <1>1, <1>5, <2>4 DEF FlushedSound
  <2> QED
    BY <1>3, <2>1, <2>2, <2>3, <2>4
<1>6. Draft(row[t])' <=> Draft(row[t])
  BY <1>2 DEF Draft
<1>7. ASSUME phase[t] \in {"locked", "flushed"}, op[t] # "submit", target[t] \in Request
      PROVE  target[t] = target[s] => op[s] = "submit"
  BY <1>1, <1>4, <1>7 DEF Apart, Holds
<1>8. ASSUME phase[t] = "locked"
      PROVE  row'[t] = requests'[target[t]]
  <2>1. /\ op[t] # "submit" /\ target[t] \in Request
        /\ row[t] = requests[target[t]] /\ requests[target[t]] # Absent
    BY <1>1, <1>8, ReviewNames DEF SessionSound
  <2>2. target[t] # target[s]
    BY <1>1, <1>7, <1>8, <2>1 DEF FlushedSound
  <2> QED
    BY <1>1, <1>2, <2>1, <2>2, CommitEffects
<1>9. ASSUME phase[t] = "flushed"
      PROVE  FlushedSound(t)'
  <2>1. FlushedSound(t) /\ target[t] \in Request
    BY <1>1, <1>9 DEF SessionSound, FlushedSound
  <2>2. target[t] # target[s]
    <3>1. CASE op[t] # "submit"
      <4>1. requests[target[t]].status # "absent"
        BY <1>1, <2>1, <3>1, ReviewNames DEF FlushedSound, TypeOK
      <4> QED
        BY <1>1, <1>7, <1>9, <2>1, <3>1, <4>1, AbsentIsRow DEF FlushedSound
    <3>2. CASE op[t] = "submit" /\ op[s] = "submit"
      BY <1>1, <1>9, <3>2 DEF Apart
    <3>3. CASE op[t] = "submit" /\ op[s] # "submit"
      <4>1. requests[target[s]].status # "absent"
        BY <1>1, <1>3, <3>3, ReviewNames DEF FlushedSound
      <4> QED
        BY <2>1, <3>3, <4>1, AbsentIsRow DEF FlushedSound
    <3> QED
      BY <3>1, <3>2, <3>3
  <2>3. requests'[target[t]] = requests[target[t]] /\ loans'[target[t]] = loans[target[t]]
    BY <1>1, <2>1, <2>2, CommitEffects
  <2>4. ASSUME op[t] = "submit" PROVE ~HasPending(row[t].borrower)'
    <3>1. ~HasPending(row[t].borrower)
      BY <2>1, <2>4 DEF FlushedSound
    <3>2. ASSUME NEW r \in Request PROVE ~Life!IsPending(r, row[t].borrower)'
      <4>1. CASE r # target[s]
        BY <1>1, <1>2, <3>1, <4>1, CommitEffects DEF HasPending, Life!IsPending
      <4>2. CASE r = target[s] /\ op[s] = "convert"
        BY <1>1, <1>2, <3>1, <4>2, CommitEffects DEF HasPending, Life!IsPending
      <4>3. CASE r = target[s] /\ op[s] \in Review
        <5>1. requests'[r].status = DecisionOf[op[s]]
          BY <1>1, <1>3, <4>3, CommitEffects, ReviewNames DEF FlushedSound, Life!Row
        <5> QED
          BY <4>3, <5>1, ReviewNames DEF Life!IsPending
      <4>4. CASE r = target[s] /\ op[s] = "submit"
        <5>1. requests'[r].borrower = row[s].borrower
          BY <1>1, <4>4, CommitEffects
        <5>2. row[s].borrower # row[t].borrower
          BY <1>1, <1>9, <2>4, <4>4 DEF Apart
        <5> QED
          BY <1>2, <5>1, <5>2 DEF Life!IsPending
      <4> QED
        BY <1>3, <4>1, <4>2, <4>3, <4>4
    <3> QED
      BY <3>2 DEF HasPending
  <2> QED
    BY <1>2, <1>6, <2>1, <2>3, <2>4 DEF FlushedSound
<1> QED
  BY <1>1, <1>2, <1>5, <1>6, <1>8, <1>9 DEF SessionSound

\* An answer that was given stays true, and the one given now is.
LEMMA CommitAnswers ==
  ASSUME IInv, NEW s \in Session, FlushedSound(s), Commit(s),
         answered' \in {answered, <<op[s], target[s]>>}
  PROVE  AnswersHold'
<1>1. TypeOK /\ AnswersHold /\ RowsComplete
  BY DEF IInv, TablesSound
<1>2. /\ target[s] \in Request /\ requests[target[s]] \in Life!Row
      /\ op[s] \in {"submit", "convert"} \cup Review
  BY <1>1, ReviewNames DEF TypeOK, FlushedSound
<1>3. op[s] = "submit" => requests'[target[s]] # Absent
  <2> SUFFICES ASSUME op[s] = "submit" PROVE requests'[target[s]] # Absent
    OBVIOUS
  <2>1. requests'[target[s]] = row[s]
    BY <1>1, CommitEffects
  <2>2. row[s].status = "pending"
    <3>1. Draft(row[s])
      BY DEF FlushedSound
    <3> QED
      BY <3>1 DEF Draft, Life!Asked
  <2> QED
    BY <2>1, <2>2, AbsentIsRow
<1>4. op[s] \in Review => /\ requests[target[s]].status = "pending"
                          /\ requests'[target[s]].status = DecisionOf[op[s]]
  BY <1>1, <1>2, CommitEffects, ReviewNames DEF FlushedSound, Life!Row
<1>5. op[s] = "convert" => loans'[target[s]] # << >>
  BY <1>1, CommitEffects
<1>6. CASE answered' = answered
  <2>1. ASSUME NEW r \in Request, answered = <<"submit", r>> PROVE requests'[r] # Absent
    <3>1. requests[r] # Absent
      BY <1>1, <2>1 DEF AnswersHold
    <3>2. CASE r # target[s] \/ op[s] = "convert"
      BY <1>1, <3>1, <3>2, CommitEffects
    <3>3. CASE r = target[s] /\ op[s] # "convert"
      BY <1>2, <1>3, <1>4, <3>3, ReviewNames, AbsentIsRow
    <3> QED
      BY <3>2, <3>3
  <2>2. ASSUME NEW r \in Request, answered = <<"convert", r>> PROVE loans'[r] # << >>
    BY <1>1, <1>5, <2>2, CommitEffects DEF AnswersHold
  <2>3. ASSUME NEW r \in Request, NEW k \in Review, answered = <<k, r>>
        PROVE  requests'[r].status = DecisionOf[k]
    <3>1. requests[r].status = DecisionOf[k]
      BY <1>1, <2>3 DEF AnswersHold
    <3>2. CASE r # target[s] \/ op[s] = "convert"
      BY <1>1, <3>1, <3>2, CommitEffects
    <3>3. CASE r = target[s] /\ op[s] \in Review
      BY <1>4, <3>1, <3>3, ReviewNames
    <3>4. CASE r = target[s] /\ op[s] = "submit"
      BY <3>1, <3>4, ReviewNames, AbsentIsRow DEF FlushedSound
    <3> QED
      BY <1>2, <3>2, <3>3, <3>4
  <2> QED
    BY <1>6, <2>1, <2>2, <2>3 DEF AnswersHold
<1>7. CASE answered' = <<op[s], target[s]>>
  <2>1. ASSUME NEW k, NEW r \in Request, answered' = <<k, r>>
        PROVE  k = op[s] /\ r = target[s]
    BY <1>7, <2>1
  <2>2. "submit" \notin Review /\ "convert" \notin Review
    BY ReviewNames
  <2> QED
    BY <1>3, <1>4, <1>5, <2>1, <2>2 DEF AnswersHold
<1> QED
  BY <1>6, <1>7

\* A flushed transaction becomes visible.
LEMMA CommitStep ==
  ASSUME IInv, NEW s \in Session, phase[s] = "flushed", Commit(s), Closed(s),
         offered' = offered, answered' \in {answered, <<op[s], target[s]>>}
  PROVE  IInv'
<1>1. TypeOK /\ FlushedSound(s) /\ rate' = rate
  BY DEF IInv, SessionSound, Commit
<1>2. Moves(s) /\ SessionSound(s)' /\ \A t \in Session \ {s} : Apart(s, t)'
  BY <1>1, ClosedMoves
<1>3. TableTypes' /\ TablesSound'
  BY <1>1, CommitTables
<1>4. AnswersHold'
  BY <1>1, CommitAnswers
<1>5. TypeOK'
  <2>1. answered' \in {<< >>} \cup ((OnRow \cup {"submit"}) \X Request)
    BY <1>1 DEF TypeOK, FlushedSound
  <2> QED
    BY <1>1, <1>2, <1>3, <2>1 DEF TypeOK, TableTypes, Moves
<1>6. \A t \in Session : SessionSound(t)'
  BY <1>2, CommitSparesOthers
<1>7. Excluded'
  <2> SUFFICES ASSUME NEW t \in Session, NEW u \in Session, t # u
               PROVE  Apart(t, u)'
    BY DEF Excluded
  <2>1. CASE t = s
    BY <1>2, <2>1
  <2>2. CASE u = s
    <3>1. Apart(u, t)'
      BY <1>2, <2>2
    <3> QED
      BY <3>1 DEF Apart
  <2>3. CASE t # s /\ u # s
    BY <1>2, <2>3 DEF IInv, Excluded, Apart, Holds, Moves
  <2> QED
    BY <2>1, <2>2, <2>3
<1>8. (rate # None => rate \in offered)'
  BY <1>1 DEF IInv
<1> QED
  BY <1>3, <1>4, <1>5, <1>6, <1>7, <1>8 DEF IInv

---------------------------------------------------------------------------
(* The invariant.                                                          *)

\* The invariant holds initially.
LEMMA InitInvariant == Init => IInv
<1> SUFFICES ASSUME Init PROVE IInv
  OBVIOUS
<1>1. /\ \A r \in Request : requests[r] = Absent /\ loans[r] = << >> /\ events[r] = {}
      /\ requests = [r \in Request |-> Absent]
      /\ loans = [r \in Request |-> << >>]
      /\ events = [r \in Request |-> {}]
      /\ offered = {} /\ rate = None /\ answered = << >>
  BY DEF Init, Life!Init, Absent
<1>2. \A s \in Session : phase[s] = "idle" /\ op[s] = "submit"
  BY DEF Init
<1>3. TypeOK
  BY <1>1, AbsentIsRow DEF Init, TypeOK
<1>4. TablesSound
  BY <1>1, AbsentIsRow DEF TablesSound, RowsComplete, OnePendingPerBorrower,
        LoansAsApproved, EventsMatchDecisions, Life!IsPending
<1>5. (\A s \in Session : SessionSound(s)) /\ Excluded
  BY <1>2 DEF SessionSound, Excluded, Apart, Holds
<1>6. AnswersHold
  BY <1>1 DEF AnswersHold
<1> QED
  BY <1>1, <1>3, <1>4, <1>5, <1>6 DEF IInv

\* Every step keeps the invariant.
LEMMA NextKeepsInvariant == IInv /\ [Next]_vars => IInv'
<1> SUFFICES ASSUME IInv, [Next]_vars PROVE IInv'
  OBVIOUS
<1>1. ASSUME NEW q \in Rate \cup {None}, Configure(q) PROVE IInv'
  BY <1>1, ConfigureStep
<1>2. ASSUME NEW s \in Session, SessionStep(s) PROVE IInv'
  <2>1. ASSUME NEW b \in Borrower, NEW p \in Plan, ReadRate(s, b, p) PROVE IInv'
    BY <2>1, ReadRateStep
  <2>2. ASSUME NEW k \in OnRow, NEW r \in Request, Open(s, k, r) PROVE IInv'
    BY <2>2, OpenStep
  <2>3. CASE CheckPending(s)
    BY <2>3, CheckPendingStep
  <2>4. CASE InsertRequest(s)
    BY <2>4, InsertStep
  <2>5. CASE LockRequest(s)
    BY <2>5, LockStep
  <2>6. CASE CancelRequest(s) \/ ApproveRequest(s) \/ RejectRequest(s)
    BY <2>6, ReviewStep DEF CancelRequest, ApproveRequest, RejectRequest, Review
  <2>7. CASE ConvertRequest(s)
    BY <2>7, ConvertStep
  <2>8. CASE Respond(s)
    BY <2>8, CommitStep DEF Respond
  <2>9. CASE LoseAnswer(s)
    BY <2>9, CommitStep DEF LoseAnswer
  <2>10. CASE Fail(s)
    BY <2>10, RefusedStep DEF Fail
  <2> QED
    BY <1>2, <2>1, <2>2, <2>3, <2>4, <2>5, <2>6, <2>7, <2>8, <2>9, <2>10 DEF SessionStep
<1>3. CASE UNCHANGED vars
  <2>1. TypeOK'
    BY <1>3 DEF IInv, TypeOK, vars, tables, sessions
  <2>2. TablesSound'
    BY <1>3 DEF IInv, TablesSound, RowsComplete, OnePendingPerBorrower, LoansAsApproved,
           EventsMatchDecisions, Life!IsPending, vars, tables
  <2>3. \A s \in Session : SessionSound(s)'
    BY <1>3 DEF IInv, SessionSound, FlushedSound, Draft, HasPending, Life!IsPending,
           vars, tables, sessions
  <2>4. Excluded' /\ AnswersHold' /\ (rate # None => rate \in offered)'
    BY <1>3 DEF IInv, Excluded, Apart, Holds, AnswersHold, vars, tables, sessions
  <2> QED
    BY <2>1, <2>2, <2>3, <2>4 DEF IInv
<1> QED
  BY <1>1, <1>2, <1>3 DEF Next

\* The invariant holds in every reachable state.
THEOREM Invariance == Spec => []IInv
  BY InitInvariant, NextKeepsInvariant, PTL DEF Spec

\* The variables always have their types.
THEOREM Types == Spec => []TypeOK
<1>1. IInv => TypeOK
  BY DEF IInv
<1> QED
  BY <1>1, Invariance, PTL

\* Of any number of submissions that all found no pending request of the
\* borrower, one is recorded.
THEOREM OnePending == Spec => []OnePendingPerBorrower
<1>1. IInv => OnePendingPerBorrower
  BY DEF IInv, TablesSound
<1> QED
  BY <1>1, Invariance, PTL

\* One loan for each converted request, of an approved one, on its terms.
THEOREM LoansFollowApprovals == Spec => []LoansAsApproved
<1>1. IInv => LoansAsApproved
  BY DEF IInv, TablesSound
<1> QED
  BY <1>1, Invariance, PTL

\* The intents on record are those of the decisions taken.
THEOREM EventsFollowDecisions == Spec => []EventsMatchDecisions
<1>1. IInv => EventsMatchDecisions
  BY DEF IInv, TablesSound
<1> QED
  BY <1>1, Invariance, PTL

\* What was answered as done stays done.
THEOREM AnswersStay == Spec => []AnswersHold
<1>1. IInv => AnswersHold
  BY DEF IInv
<1> QED
  BY <1>1, Invariance, PTL

---------------------------------------------------------------------------
(* Refinement.                                                             *)

\* A step that leaves the tables and the offered rates alone is a stutter.
LEMMA Unseen ==
  ASSUME UNCHANGED <<tables, offered, answered>>
  PROVE  UNCHANGED Life!vars
  BY DEF tables, Life!vars

\* Every step is a step of the abstract life cycle, or changes nothing it shows.
LEMMA StepIsLifeStep == IInv /\ [Next]_vars => [Life!Next]_Life!vars
<1> SUFFICES ASSUME IInv, [Next]_vars PROVE Life!Next \/ UNCHANGED Life!vars
  OBVIOUS
<1>1. ASSUME NEW q \in Rate \cup {None}, Configure(q)
      PROVE  Life!Next \/ UNCHANGED Life!vars
  <2>1. CASE q = None
    <3>1. offered' = offered
      BY <1>1, <2>1 DEF Configure
    <3> QED
      BY <1>1, <3>1 DEF Configure, Life!vars
  <2>2. CASE q \in Rate
    <3>1. q # None
      BY <2>2
    <3>2. Life!Offer(q)
      BY <1>1, <3>1 DEF Configure, Life!Offer
    <3> QED
      BY <2>2, <3>2 DEF Life!Next
  <2> QED
    BY <2>1, <2>2
<1>2. ASSUME NEW s \in Session, SessionStep(s)
      PROVE  Life!Next \/ UNCHANGED Life!vars
  <2>1. CASE Respond(s) \/ LoseAnswer(s)
    <3>1. phase[s] = "flushed" /\ Commit(s) /\ offered' = offered
      BY <2>1 DEF Respond, LoseAnswer
    <3>2. TypeOK /\ EventsMatchDecisions /\ FlushedSound(s)
      BY <3>1 DEF IInv, TablesSound, SessionSound
    <3> QED
      BY <3>1, <3>2, CommitIsLifeStep
  <2>2. CASE ~(Respond(s) \/ LoseAnswer(s))
    <3>1. UNCHANGED <<tables, offered, answered>>
      BY <1>2, <2>2 DEF SessionStep, ReadRate, Open, CheckPending, InsertRequest, LockRequest,
            CancelRequest, ApproveRequest, RejectRequest, ReviewRequest, ConvertRequest, Fail, Refused, Goes
    <3> QED
      BY <3>1, Unseen
  <2> QED
    BY <2>1, <2>2
<1>3. CASE UNCHANGED vars
  BY <1>3, Unseen DEF vars
<1> QED
  BY <1>1, <1>2, <1>3 DEF Next

\* The concurrent transactions implement the life of requests.
THEOREM Refinement == Spec => ImplementsLife
<1>1. Init => Life!Init
  BY DEF Init
<1> QED
  BY <1>1, Invariance, StepIsLifeStep, PTL DEF Spec, ImplementsLife, Life!Spec

=============================================================================
