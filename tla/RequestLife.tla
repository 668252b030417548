----------------------------- MODULE RequestLife -----------------------------
(***************************************************************************)
(* What loan requests promise, each operation happening at one instant: a  *)
(* borrower has at most one request pending, a pending request is decided  *)
(* once, its terms are those it was submitted with, and an approved one    *)
(* becomes one loan of the same terms.  Origination implements this with   *)
(* concurrent transactions.                                                *)
(***************************************************************************)
EXTENDS Sequences

CONSTANTS Borrower,  \* who submits
          Plan,      \* principal, term, frequency and first due date asked for
          Rate,      \* monthly rates the business may configure
          Request,   \* bound: the identities of requests
          None       \* no borrower, no plan, a rate that is NULL

VARIABLES requests,  \* requests[r]: the row of request r
          loans,     \* loans[r]: the loans created from r
          events,    \* events[r]: the notification intents about r
          offered    \* the rates that have been configured so far

vars == <<requests, loans, events, offered>>

Decision == {"approved", "rejected", "cancelled"}

Row == [status   : {"absent", "pending"} \cup Decision,
        borrower : Borrower \cup {None},
        plan     : Plan \cup {None},
        rate     : Rate \cup {None}]

Absent == [status |-> "absent", borrower |-> None, plan |-> None, rate |-> None]

Asked(b, p, q) == [status |-> "pending", borrower |-> b, plan |-> p, rate |-> q]

IsPending(r, b) == requests[r].status = "pending" /\ requests[r].borrower = b

\* The contract terms that a loan copies from its request.
Contract(row) == [borrower |-> row.borrower, plan |-> row.plan, rate |-> row.rate]

Init ==
  /\ requests = [r \in Request |-> Absent]
  /\ loans    = [r \in Request |-> << >>]
  /\ events   = [r \in Request |-> {}]
  /\ offered  = {}

Offer(q) == offered' = offered \cup {q} /\ UNCHANGED <<requests, loans, events>>

\* At a rate that is, or once was, the configured one.
Submit(r, b, p, q) ==
  /\ requests[r] = Absent
  /\ q \in offered
  /\ \A x \in Request : ~IsPending(x, b)
  /\ requests' = [requests EXCEPT ![r] = Asked(b, p, q)]
  /\ events'   = [events EXCEPT ![r] = {"submitted"}]
  /\ UNCHANGED <<loans, offered>>

\* The borrower's own cancellation is not announced to him.
Decide(r, d) ==
  /\ requests[r].status = "pending"
  /\ requests' = [requests EXCEPT ![r].status = d]
  /\ events'   = [events EXCEPT ![r] = @ \cup ({d} \ {"cancelled"})]
  /\ UNCHANGED <<loans, offered>>

Approve(r) == Decide(r, "approved")
Reject(r)  == Decide(r, "rejected")
Cancel(r)  == Decide(r, "cancelled")

Convert(r) ==
  /\ requests[r].status = "approved"
  /\ loans[r] = << >>
  /\ loans' = [loans EXCEPT ![r] = <<Contract(requests[r])>>]
  /\ UNCHANGED <<requests, events, offered>>

Next ==
  \/ \E q \in Rate : Offer(q)
  \/ \E r \in Request :
        \/ \E b \in Borrower, p \in Plan, q \in Rate : Submit(r, b, p, q)
        \/ Approve(r) \/ Reject(r) \/ Cancel(r)
        \/ Convert(r)

Spec == Init /\ [][Next]_vars
=============================================================================
