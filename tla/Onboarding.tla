----------------------------- MODULE Onboarding -----------------------------
(***************************************************************************)
(* How a person becomes a borrower who can sign in: a public registration, *)
(* the owner's decision, which creates the borrower with its account, and  *)
(* the activation of the account with a code of limited attempts           *)
(* (borrowers/registration_service.py, auth_service.py; the owner himself  *)
(* is created by owner_identity/service.py).                               *)
(*                                                                         *)
(* Every operation is a database transaction.  A registration and an       *)
(* approval look for the identity first and insert later, and only unique  *)
(* indexes keep two of them apart; a decision locks its registration,      *)
(* issuing a code and activating lock the account.  A step here is as much *)
(* of a transaction as no other transaction can tell apart.                *)
(***************************************************************************)
EXTENDS Naturals

CONSTANTS Registration,  \* bound: the identities of registrations
          NationalId,    \* national ids of persons
          Phone,         \* their telephone numbers, normalized
          Pin,           \* PINs that may be chosen
          MaxAttempts,   \* borrower_activation_code_max_attempts
          MaxCodes,      \* bound: codes issued for an account
          Clerk,         \* concurrent database sessions
          None           \* no national id, no telephone number, no PIN

ASSUME OnboardingAssumption ==
  /\ MaxAttempts \in Nat \ {0}
  /\ MaxCodes \in Nat
  /\ None \notin NationalId \cup Phone \cup Pin \cup Registration

VARIABLES owner,          \* the owner exists
          registrations,  \* registrations[r]: the row of registration r
          accounts,       \* accounts[r]: borrower and account created from r
          codes,          \* codes[r][k]: the k-th activation code of that account
          expired,        \* expired[r]: those of its codes whose time is over
          desk,           \* desk[c]: what session c is doing
          guesses,        \* history: guesses[r][k] wrong tries against code k
          activated       \* history: <<r, pin>> of the last activation answered

onboardingRows == <<owner, registrations, accounts, codes, expired, guesses>>
onboardingVars == <<onboardingRows, desk, activated>>

CodeNumber == 1 .. MaxCodes

Unregistered == [status |-> "absent", national_id |-> None, phone |-> None]
NoAccount    == [status |-> "none", pin |-> None]
NoCodes      == [k \in CodeNumber |-> [state |-> "none", failed |-> 0]]

AtRest == [op |-> "none", at |-> "rest", on |-> None, row |-> Unregistered,
           pin |-> None, codes |-> NoCodes, code |-> 0]

OnboardingInit ==
  /\ owner = FALSE
  /\ registrations = [r \in Registration |-> Unregistered]
  /\ accounts  = [r \in Registration |-> NoAccount]
  /\ codes     = [r \in Registration |-> NoCodes]
  /\ expired   = [r \in Registration |-> {}]
  /\ desk      = [c \in Clerk |-> AtRest]
  /\ guesses   = [r \in Registration |-> [k \in CodeNumber |-> 0]]
  /\ activated = << >>

---------------------------------------------------------------------------

SamePerson(x, y) == x.national_id = y.national_id \/ x.phone = y.phone

\* Session c begins a transaction, goes on with it, or is closed.
Begins(c, work) == desk[c].op = "none" /\ desk' = [desk EXCEPT ![c] = work]
Goes(c, at)     == desk' = [desk EXCEPT ![c].at = at]
Closed(c)       == desk' = [desk EXCEPT ![c] = AtRest]

\* bootstrap_owner holds an advisory lock and counts the owners.
BootstrapOwner(c) ==
  /\ ~owner
  /\ \A d \in Clerk : desk[d].op # "bootstrap"
  /\ Begins(c, [AtRest EXCEPT !.op = "bootstrap", !.at = "flushed"])
  /\ UNCHANGED <<onboardingRows, activated>>

HasAccount(x) ==
  \E r \in Registration : accounts[r].status # "none" /\ SamePerson(registrations[r], x)

HasPending(x) ==
  \E r \in Registration : registrations[r].status = "pending" /\ SamePerson(registrations[r], x)

\* create_registration finds no borrower with the national id and no account
\* with the number (otherwise 409) ...
Register(c, n, p) ==
  LET x == [status |-> "pending", national_id |-> n, phone |-> p] IN
  /\ ~HasAccount(x)
  /\ Begins(c, [AtRest EXCEPT !.op = "register", !.at = "unknown", !.row = x])
  /\ UNCHANGED <<onboardingRows, activated>>

\* ... finds no pending registration with either (otherwise 409) ...
LookUpPending(c) ==
  /\ desk[c].op = "register" /\ desk[c].at = "unknown"
  /\ IF HasPending(desk[c].row) THEN Closed(c) ELSE Goes(c, "cleared")
  /\ UNCHANGED <<onboardingRows, activated>>

\* An insert waits for a transaction that has inserted, or is deciding, a
\* registration with one of its two unique values.
RegistrationHeldUp(c) ==
  \E d \in Clerk :
     /\ desk[d].at = "flushed" /\ desk[d].op \in {"register", "approve", "reject"}
     /\ SamePerson(desk[d].row, desk[c].row)

Unused(r) == registrations[r] = Unregistered /\ \A d \in Clerk : desk[d].on # r

\* (mutant) The partial unique indexes of pending registrations are missing.
InsertRegistrationUnindexed(c) ==
  /\ desk[c].op = "register" /\ desk[c].at = "cleared"
  /\ \E r \in Registration :
       /\ Unused(r)
       /\ desk' = [desk EXCEPT ![c].at = "flushed", ![c].on = r]
  /\ UNCHANGED <<onboardingRows, activated>>

\* ... and inserts it, unless an index has the values (409).
InsertRegistration(c) ==
  /\ desk[c].op = "register" /\ desk[c].at = "cleared"
  /\ ~RegistrationHeldUp(c)
  /\ IF HasPending(desk[c].row)
     THEN Closed(c)
     ELSE \E r \in Registration :
            /\ Unused(r)
            /\ desk' = [desk EXCEPT ![c].at = "flushed", ![c].on = r]
  /\ UNCHANGED <<onboardingRows, activated>>

\* (mutant) SELECT without FOR UPDATE: the registration is read by everyone.
FreeRegistrationUnlocked(r) == TRUE

\* No transaction holds the row lock of the registration.
FreeRegistration(r) ==
  \A d \in Clerk : ~(desk[d].op \in {"approve", "reject"} /\ desk[d].on = r)

\* approve_registration locks a pending registration (otherwise 409) and finds
\* neither borrower nor account for the person (otherwise 409) ...
Approve(c, r) ==
  /\ owner
  /\ FreeRegistration(r)
  /\ registrations[r].status = "pending"
  /\ ~HasAccount(registrations[r])
  /\ Begins(c, [AtRest EXCEPT !.op = "approve", !.at = "cleared", !.on = r,
                               !.row = [registrations[r] EXCEPT !.status = "approved"]])
  /\ UNCHANGED <<onboardingRows, activated>>

\* An insert waits for another borrower, or account, with a unique value of it.
AccountHeldUp(c) ==
  \E d \in Clerk \ {c} :
     desk[d].op = "approve" /\ desk[d].at = "flushed" /\ SamePerson(desk[d].row, desk[c].row)

\* ... and inserts both, with the intent to notify; a collision is a 409.
InsertAccount(c) ==
  /\ desk[c].op = "approve" /\ desk[c].at = "cleared"
  /\ ~AccountHeldUp(c)
  /\ IF HasAccount(desk[c].row) THEN Closed(c) ELSE Goes(c, "flushed")
  /\ UNCHANGED <<onboardingRows, activated>>

\* reject_registration locks a pending registration and decides it.
Reject(c, r) ==
  /\ owner
  /\ FreeRegistration(r)
  /\ registrations[r].status = "pending"
  /\ Begins(c, [AtRest EXCEPT !.op = "reject", !.at = "flushed", !.on = r,
                               !.row = [registrations[r] EXCEPT !.status = "rejected"]])
  /\ UNCHANGED <<onboardingRows, activated>>

---------------------------------------------------------------------------

\* (mutant) SELECT without FOR UPDATE: the account is read by everyone.
FreeAccountUnlocked(r) == TRUE

\* No transaction holds the row lock of the account.
FreeAccount(r) ==
  \A d \in Clerk : ~(desk[d].op \in {"issue", "guess", "activate"} /\ desk[d].on = r)

\* (mutant) Earlier codes stay usable.
ReissuedKeeping(old, k) == [old EXCEPT ![k].state = "usable"]

\* Code k is new, and every other usable one is revoked.
Reissued(old, k) ==
  [j \in CodeNumber |->
     IF j = k THEN [state |-> "usable", failed |-> 0]
     ELSE IF old[j].state = "usable" THEN [old[j] EXCEPT !.state = "revoked"] ELSE old[j]]

\* issue_activation_code, for an account that is not activated yet (else 409).
IssueCode(c, r, k) ==
  /\ owner
  /\ FreeAccount(r)
  /\ accounts[r].status = "approved"
  /\ \A j \in CodeNumber : codes[r][j].state = "none" <=> j >= k
  /\ Begins(c, [AtRest EXCEPT !.op = "issue", !.at = "flushed", !.on = r,
                              !.codes = Reissued(codes[r], k)])
  /\ UNCHANGED <<onboardingRows, activated>>

\* Time passes beyond expires_at of code k.
ExpireCode(r, k) ==
  /\ codes[r][k].state = "usable" /\ k \notin expired[r]
  /\ expired' = [expired EXCEPT ![r] = @ \cup {k}]
  /\ UNCHANGED <<owner, registrations, accounts, codes, guesses, desk, activated>>

\* Code k is the newest usable one, and still valid (otherwise 401).
Current(r, k) ==
  /\ codes[r][k].state = "usable" /\ codes[r][k].failed < MaxAttempts
  /\ \A j \in CodeNumber : codes[r][j].state = "usable" => j <= k
  /\ k \notin expired[r]

\* A wrong try counts, and the last permitted one revokes the code.
Missed(code) ==
  [state  |-> IF code.failed + 1 >= MaxAttempts THEN "revoked" ELSE code.state,
   failed |-> code.failed + 1]

\* activate_borrower with a wrong code: it counts against the current one ...
GuessCode(c, r, k) ==
  /\ FreeAccount(r)
  /\ accounts[r].status = "approved"
  /\ Current(r, k)
  /\ Begins(c, [AtRest EXCEPT !.op = "guess", !.at = "flushed", !.on = r, !.code = k,
                              !.codes = [codes[r] EXCEPT ![k] = Missed(@)]])
  /\ UNCHANGED <<onboardingRows, activated>>

\* ... and with the right one.
Activate(c, r, k, pin) ==
  /\ FreeAccount(r)
  /\ accounts[r].status = "approved"
  /\ Current(r, k)
  /\ Begins(c, [AtRest EXCEPT !.op = "activate", !.at = "flushed", !.on = r, !.pin = pin,
                              !.codes = [codes[r] EXCEPT ![k].state = "used"]])
  /\ UNCHANGED <<onboardingRows, activated>>

---------------------------------------------------------------------------

\* What a flushed transaction has written becomes visible.
CommitDesk(c) ==
  LET w == desk[c] IN
  /\ w.at = "flushed"
  /\ owner' = (owner \/ w.op = "bootstrap")
  /\ registrations' = IF w.op \in {"register", "approve", "reject"}
                      THEN [registrations EXCEPT ![w.on] = w.row] ELSE registrations
  /\ accounts' = CASE w.op = "approve" ->
                        [accounts EXCEPT ![w.on] = [status |-> "approved", pin |-> None]]
                   [] w.op = "activate" ->
                        [accounts EXCEPT ![w.on] = [status |-> "activated", pin |-> w.pin]]
                   [] OTHER -> accounts
  /\ codes'    = IF w.op \in {"issue", "guess", "activate"}
                 THEN [codes EXCEPT ![w.on] = w.codes] ELSE codes
  /\ guesses'  = IF w.op = "guess" THEN [guesses EXCEPT ![w.on][w.code] = @ + 1] ELSE guesses
  /\ UNCHANGED expired
  /\ Closed(c)

\* The endpoint commits and answers.
AnswerDesk(c) ==
  /\ CommitDesk(c)
  /\ activated' = IF desk[c].op = "activate" THEN <<desk[c].on, desk[c].pin>> ELSE activated

\* Committed, but the answer is lost.
LoseDeskAnswer(c) == CommitDesk(c) /\ UNCHANGED activated

\* The worker dies, the connection drops, or the request is cancelled.
FailDesk(c) ==
  desk[c].op # "none" /\ Closed(c) /\ UNCHANGED <<onboardingRows, activated>>

ClerkStep(c) ==
  \/ BootstrapOwner(c)
  \/ \E n \in NationalId, p \in Phone : Register(c, n, p)
  \/ LookUpPending(c) \/ InsertRegistration(c) \/ InsertAccount(c)
  \/ \E r \in Registration :
       \/ Approve(c, r) \/ Reject(c, r)
       \/ \E k \in CodeNumber :
            \/ IssueCode(c, r, k) \/ GuessCode(c, r, k)
            \/ \E pin \in Pin : Activate(c, r, k, pin)
  \/ AnswerDesk(c) \/ LoseDeskAnswer(c) \/ FailDesk(c)

OnboardingNext ==
  \/ \E c \in Clerk : ClerkStep(c)
  \/ \E r \in Registration, k \in CodeNumber : ExpireCode(r, k)

OnboardingSpec == OnboardingInit /\ [][OnboardingNext]_onboardingVars

---------------------------------------------------------------------------
(* Properties.                                                             *)

CodeRow == [state : {"none", "usable", "used", "revoked"}, failed : 0 .. MaxAttempts]

\* Types of the variables.
OnboardingTypeOK ==
  /\ owner \in BOOLEAN
  /\ registrations \in [Registration -> [status : {"absent", "pending", "approved", "rejected"},
                                         national_id : NationalId \cup {None},
                                         phone : Phone \cup {None}]]
  /\ accounts \in [Registration -> [status : {"none", "approved", "activated"},
                                    pin : Pin \cup {None}]]
  /\ codes \in [Registration -> [CodeNumber -> CodeRow]]
  /\ expired \in [Registration -> SUBSET CodeNumber]
  /\ guesses \in [Registration -> [CodeNumber -> 0 .. MaxAttempts]]
  /\ \A c \in Clerk : desk[c].on \in Registration \cup {None} /\ desk[c].code \in 0 .. MaxCodes
  /\ activated \in {<< >>} \cup (Registration \X Pin)

\* A national id and a telephone number have one account, and one pending
\* registration, although look-ups and inserts of several transactions mix.
OneAccountPerPerson ==
  \A q, r \in Registration :
     /\ SamePerson(registrations[q], registrations[r])
     /\ \/ accounts[q].status # "none" /\ accounts[r].status # "none"
        \/ registrations[q].status = "pending" /\ registrations[r].status = "pending"
     => q = r

\* A registration is decided once: one that is rejected never has an account,
\* one that is approved always does, though two reviews may race.
DecidedOnce ==
  \A r \in Registration :
     accounts[r].status # "none" <=> registrations[r].status = "approved"

\* Every wrong try is counted, concurrent ones too, and the last permitted one
\* makes the code useless.
GuessesAreCounted ==
  \A r \in Registration, k \in CodeNumber :
     /\ codes[r][k].failed = guesses[r][k]
     /\ codes[r][k].state = "usable" => guesses[r][k] < MaxAttempts

\* An account is activated by one code, and has one code at a time; the PIN is
\* the one of the person who was told that the activation succeeded.
ActivatedOnce ==
  /\ \A r \in Registration :
       /\ accounts[r].status = "activated" <=> \E k \in CodeNumber : codes[r][k].state = "used"
       /\ \A j, k \in CodeNumber :
            codes[r][j].state \in {"usable", "used"} /\ codes[r][k].state \in {"usable", "used"}
            => j = k
  /\ activated # << >> =>
       accounts[activated[1]] = [status |-> "activated", pin |-> activated[2]]
=============================================================================
