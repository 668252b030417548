------------------------- MODULE Onboarding_proofs -------------------------
(***************************************************************************)
(* What Onboarding promises, for any number of registrations, persons,     *)
(* codes, permitted attempts and sessions.                                 *)
(***************************************************************************)
EXTENDS Onboarding, TLAPS

USE OnboardingAssumption

---------------------------------------------------------------------------
(* The inductive invariant.                                                *)

RegistrationRow == [status      : {"absent", "pending", "approved", "rejected"},
                    national_id : NationalId \cup {None},
                    phone       : Phone \cup {None}]

\* What a session may be doing.
Work == [op    : {"none", "bootstrap", "register", "approve", "reject", "issue", "guess", "activate"},
         at    : {"rest", "unknown", "cleared", "flushed"},
         on    : Registration \cup {None},
         row   : RegistrationRow,
         pin   : Pin \cup {None},
         codes : [CodeNumber -> CodeRow],
         code  : 0 .. MaxCodes]

\* A registration that goes in has an unused identity, and nobody of that
\* identity is pending.
Registering(c) ==
  /\ desk[c].at \in {"unknown", "cleared", "flushed"}
  /\ desk[c].row.status = "pending"
  /\ desk[c].at # "flushed" => desk[c].on = None
  /\ desk[c].at = "flushed" =>
       /\ desk[c].on \in Registration
       /\ registrations[desk[c].on] = Unregistered
       /\ ~HasPending(desk[c].row)

\* The registration under decision stays pending, and an account that goes in
\* is of somebody who has none.
Deciding(c) ==
  /\ desk[c].at \in {"cleared", "flushed"}
  /\ desk[c].on \in Registration /\ registrations[desk[c].on].status = "pending"
  /\ \E d \in {"approved", "rejected"} :
       /\ desk[c].row = [registrations[desk[c].on] EXCEPT !.status = d]
       /\ desk[c].op = "approve" <=> d = "approved"
  /\ desk[c].at = "flushed" /\ desk[c].op = "approve" => ~HasAccount(desk[c].row)

\* The codes of an account that is not activated yet, as one of the three
\* operations on codes leaves them.
Coding(c) ==
  LET old == codes[desk[c].on] IN
  /\ desk[c].at = "flushed"
  /\ desk[c].on \in Registration /\ accounts[desk[c].on].status = "approved"
  /\ \E k \in CodeNumber :
       \/ /\ desk[c].op = "issue" /\ old[k].state = "none"
          /\ desk[c].codes = Reissued(old, k)
       \/ /\ old[k].state = "usable"
          /\ \/ /\ desk[c].op = "guess" /\ k = desk[c].code
                /\ desk[c].codes = [old EXCEPT ![k] = Missed(@)]
             \/ /\ desk[c].op = "activate" /\ desk[c].pin \in Pin
                /\ desk[c].codes = [old EXCEPT ![k].state = "used"]

DeskSound(c) ==
  /\ desk[c].op = "none" => desk[c] = AtRest
  /\ desk[c].op = "bootstrap" => desk[c].on = None
  /\ desk[c].op = "register" => Registering(c)
  /\ desk[c].op \in {"approve", "reject"} => Deciding(c)
  /\ desk[c].op \in {"issue", "guess", "activate"} => Coding(c)

\* Two sessions never decide one registration, change one account, insert one
\* row, or insert for one person.
Separate(c, d) ==
  /\ desk[c].op \in {"approve", "reject"} /\ desk[d].op \in {"approve", "reject"}
       => desk[c].on # desk[d].on
  /\ desk[c].op \in {"issue", "guess", "activate"} /\ desk[d].op \in {"issue", "guess", "activate"}
       => desk[c].on # desk[d].on
  /\ (/\ desk[c].op \in {"register", "approve"} /\ desk[d].op = desk[c].op
      /\ desk[c].at = "flushed" /\ desk[d].at = "flushed")
       => desk[c].on # desk[d].on /\ ~SamePerson(desk[c].row, desk[d].row)

\* A code that was not issued has no wrong tries.
Blank == \A r \in Registration, k \in CodeNumber : codes[r][k].state = "none" => codes[r][k].failed = 0

OInv ==
  /\ OnboardingTypeOK
  /\ desk \in [Clerk -> Work]
  /\ \A c \in Clerk : DeskSound(c)
  /\ \A c, d \in Clerk : c # d => Separate(c, d)
  /\ Blank
  /\ OneAccountPerPerson
  /\ DecidedOnce
  /\ GuessesAreCounted
  /\ ActivatedOnce

\* A session at rest is a piece of work.
LEMMA RestIsWork ==
  /\ AtRest \in Work /\ Unregistered \in RegistrationRow /\ NoCodes \in [CodeNumber -> CodeRow]
  /\ AtRest.op = "none" /\ AtRest.at = "rest" /\ AtRest.on = None /\ AtRest.row = Unregistered
  /\ AtRest.pin = None /\ AtRest.codes = NoCodes /\ AtRest.code = 0
<1>1. Unregistered \in RegistrationRow /\ NoCodes \in [CodeNumber -> CodeRow]
  BY DEF Unregistered, RegistrationRow, NoCodes, CodeRow
<1> QED
  BY <1>1 DEF AtRest, Work

\* The initial state.
LEMMA InitOnboarding ==
  ASSUME OnboardingInit
  PROVE  OInv
<1>1. /\ \A c \in Clerk : desk[c] = AtRest
      /\ \A r \in Registration : /\ registrations[r] = Unregistered /\ accounts[r] = NoAccount
                                /\ \A k \in CodeNumber : /\ codes[r][k] = [state |-> "none", failed |-> 0]
                                                        /\ guesses[r][k] = 0
      /\ activated = << >>
  BY DEF OnboardingInit, NoCodes
<1>2. /\ Unregistered.status = "absent" /\ NoAccount.status = "none"
      /\ Unregistered \in RegistrationRow
  BY RestIsWork DEF Unregistered, NoAccount
<1>3. OnboardingTypeOK /\ desk \in [Clerk -> Work]
  <2>1. desk \in [Clerk -> Work]
    BY RestIsWork DEF OnboardingInit
  <2>2. \A c \in Clerk : desk[c].on \in Registration \cup {None} /\ desk[c].code \in 0 .. MaxCodes
    BY <1>1, RestIsWork
  <2>3. codes \in [Registration -> [CodeNumber -> CodeRow]]
    BY RestIsWork DEF OnboardingInit
  <2>4. guesses \in [Registration -> [CodeNumber -> 0 .. MaxAttempts]]
    BY DEF OnboardingInit
  <2>5. registrations \in [Registration -> RegistrationRow]
    BY <1>2 DEF OnboardingInit
  <2> QED
    BY <2>1, <2>2, <2>3, <2>4, <2>5 DEF OnboardingInit, OnboardingTypeOK, RegistrationRow, NoAccount
<1>4. (\A c \in Clerk : DeskSound(c)) /\ \A c, d \in Clerk : Separate(c, d)
  BY <1>1, RestIsWork DEF DeskSound, Separate
<1>5. Blank /\ GuessesAreCounted /\ DecidedOnce /\ OneAccountPerPerson /\ ActivatedOnce
  BY <1>1, <1>2 DEF Blank, GuessesAreCounted, DecidedOnce, OneAccountPerPerson, ActivatedOnce
<1> QED
  BY <1>3, <1>4, <1>5 DEF OInv

---------------------------------------------------------------------------
(* Steps that write nothing yet.                                           *)

\* A session goes on to sound work that is separate from all others'.
LEMMA DeskStep ==
  ASSUME OInv, NEW c \in Clerk, NEW s \in Work, desk' = [desk EXCEPT ![c] = s],
         UNCHANGED <<onboardingRows, activated>>, DeskSound(c)',
         \A d \in Clerk : d # c => (Separate(c, d) /\ Separate(d, c))'
  PROVE  OInv'
<1>1. UNCHANGED <<owner, registrations, accounts, codes, expired, guesses, activated>>
  BY DEF onboardingRows
<1>2. /\ desk' \in [Clerk -> Work]
      /\ \A d \in Clerk : desk'[d] = IF d = c THEN s ELSE desk[d]
  BY DEF OInv
<1>3. OnboardingTypeOK'
  <2>1. \A d \in Clerk : desk'[d].on \in Registration \cup {None} /\ desk'[d].code \in 0 .. MaxCodes
    BY <1>2 DEF Work
  <2> QED
    BY <1>1, <2>1 DEF OInv, OnboardingTypeOK
<1>4. ASSUME NEW d \in Clerk  PROVE  DeskSound(d)'
  <2>1. CASE d # c
    <3>1. DeskSound(d) /\ desk'[d] = desk[d]
      BY <1>2, <2>1 DEF OInv
    <3>3. HasAccount(desk[d].row)' <=> HasAccount(desk[d].row)
      BY <1>1, <3>1 DEF HasAccount
    <3>4. Registering(d) => Registering(d)'
      BY <1>1, <3>1 DEF Registering, HasPending
    <3>5. Deciding(d) => Deciding(d)'
      BY <1>1, <3>1, <3>3 DEF Deciding
    <3>6. Coding(d) => Coding(d)'
      BY <1>1, <3>1 DEF Coding
    <3> QED
      BY <3>1, <3>4, <3>5, <3>6 DEF DeskSound
  <2> QED
    BY <2>1
<1>5. ASSUME NEW d \in Clerk, NEW e \in Clerk, d # e  PROVE  Separate(d, e)'
  <2>1. CASE d # c /\ e # c
    BY <1>2, <1>5, <2>1 DEF OInv, Separate
  <2> QED
    BY <1>5, <2>1
<1>6. Blank' /\ OneAccountPerPerson' /\ DecidedOnce' /\ GuessesAreCounted' /\ ActivatedOnce'
  BY <1>1 DEF OInv, Blank, OneAccountPerPerson, DecidedOnce, GuessesAreCounted, ActivatedOnce
<1> QED
  BY <1>2, <1>3, <1>4, <1>5, <1>6 DEF OInv

\* A session is closed without a trace.
LEMMA ClosedStep ==
  ASSUME OInv, NEW c \in Clerk, Closed(c), UNCHANGED <<onboardingRows, activated>>
  PROVE  OInv'
<1>1. desk' = [desk EXCEPT ![c] = AtRest] /\ desk'[c] = AtRest /\ AtRest \in Work
  BY RestIsWork DEF Closed, OInv
<1>2. DeskSound(c)' /\ \A d \in Clerk : d # c => (Separate(c, d) /\ Separate(d, c))'
  BY <1>1, RestIsWork DEF DeskSound, Separate
<1> QED
  BY <1>1, <1>2, DeskStep

\* The first owner is inserted.
LEMMA BootstrapStep ==
  ASSUME OInv, NEW c \in Clerk, BootstrapOwner(c)
  PROVE  OInv'
<1> DEFINE s == [AtRest EXCEPT !.op = "bootstrap", !.at = "flushed"]
<1>1. desk' = [desk EXCEPT ![c] = s] /\ s \in Work /\ s.op = "bootstrap" /\ s.on = None
  BY RestIsWork DEF BootstrapOwner, Begins, Work
<1>2. desk'[c] = s
  BY <1>1 DEF OInv
<1> HIDE DEF s
<1>3. DeskSound(c)' /\ \A d \in Clerk : d # c => (Separate(c, d) /\ Separate(d, c))'
  BY <1>1, <1>2 DEF DeskSound, Separate
<1> QED
  BY <1>1, <1>3, DeskStep DEF BootstrapOwner

\* A registration passes the first look-up.
LEMMA RegisterStep ==
  ASSUME OInv, NEW c \in Clerk, NEW n \in NationalId, NEW p \in Phone, Register(c, n, p)
  PROVE  OInv'
<1> DEFINE x == [status |-> "pending", national_id |-> n, phone |-> p]
<1> DEFINE s == [AtRest EXCEPT !.op = "register", !.at = "unknown", !.row = x]
<1>1. /\ desk' = [desk EXCEPT ![c] = s] /\ s \in Work /\ s.op = "register" /\ s.on = None
      /\ s.at = "unknown" /\ s.row.status = "pending"
  BY RestIsWork DEF Register, Begins, Work, RegistrationRow
<1>2. desk'[c] = s
  BY <1>1 DEF OInv
<1> HIDE DEF s
<1>3. DeskSound(c)' /\ \A d \in Clerk : d # c => (Separate(c, d) /\ Separate(d, c))'
  BY <1>1, <1>2 DEF DeskSound, Registering, Separate
<1> QED
  BY <1>1, <1>3, DeskStep DEF Register

\* A registration passes the second look-up, or is refused.
LEMMA LookUpPendingStep ==
  ASSUME OInv, NEW c \in Clerk, LookUpPending(c)
  PROVE  OInv'
<1>1. CASE Closed(c)
  BY <1>1, ClosedStep DEF LookUpPending
<1>2. CASE Goes(c, "cleared")
  <2> DEFINE s == [desk[c] EXCEPT !.at = "cleared"]
  <2>1. desk[c] \in Work /\ DeskSound(c) /\ desk[c].op = "register" /\ desk[c].at = "unknown"
    BY DEF OInv, LookUpPending
  <2>2. /\ desk' = [desk EXCEPT ![c] = s] /\ s \in Work /\ s.op = "register" /\ s.on = desk[c].on
        /\ s.at = "cleared" /\ s.row = desk[c].row
    BY <1>2, <2>1 DEF Goes, Work
  <2>3. desk'[c] = s
    BY <2>2 DEF OInv
  <2> HIDE DEF s
  <2>4. DeskSound(c)' /\ \A d \in Clerk : d # c => (Separate(c, d) /\ Separate(d, c))'
    BY <2>1, <2>2, <2>3 DEF DeskSound, Registering, Separate
  <2> QED
    BY <2>2, <2>4, DeskStep DEF LookUpPending
<1> QED
  BY <1>1, <1>2 DEF LookUpPending

\* A registration is inserted: its person has no pending one, and nobody else
\* is inserting one.
LEMMA InsertRegistrationStep ==
  ASSUME OInv, NEW c \in Clerk, InsertRegistration(c)
  PROVE  OInv'
<1>1. CASE Closed(c)
  BY <1>1, ClosedStep DEF InsertRegistration
<1>2. ASSUME ~HasPending(desk[c].row), NEW r \in Registration, Unused(r),
             desk' = [desk EXCEPT ![c].at = "flushed", ![c].on = r]
      PROVE  OInv'
  <2> DEFINE s == [desk[c] EXCEPT !.at = "flushed", !.on = r]
  <2>1. /\ desk[c] \in Work /\ DeskSound(c) /\ desk[c].op = "register" /\ desk[c].at = "cleared"
        /\ UNCHANGED registrations
    BY DEF OInv, InsertRegistration, onboardingRows
  <2>2. /\ desk' = [desk EXCEPT ![c] = s] /\ s \in Work /\ s.op = "register" /\ s.on = r
        /\ s.at = "flushed" /\ s.row = desk[c].row
    BY <1>2, <2>1 DEF Work, OInv
  <2>3. \A d \in Clerk : desk'[d] = IF d = c THEN s ELSE desk[d]
    BY <2>2 DEF OInv
  <2> HIDE DEF s
  <2>4. DeskSound(c)'
    BY <1>2, <2>1, <2>2, <2>3 DEF DeskSound, Registering, HasPending, Unused
  <2>5. ASSUME NEW d \in Clerk, d # c  PROVE  (Separate(c, d) /\ Separate(d, c))'
    <3>1. desk[d].at = "flushed" /\ desk[d].op = "register" =>
            ~SamePerson(desk[d].row, desk[c].row)
      BY DEF InsertRegistration, RegistrationHeldUp
    <3>2. desk[d].on # r
      BY <1>2 DEF Unused
    <3> QED
      BY <2>2, <2>3, <2>5, <3>1, <3>2 DEF Separate, SamePerson
  <2> QED
    BY <2>2, <2>4, <2>5, DeskStep DEF InsertRegistration
<1> QED
  BY <1>1, <1>2 DEF InsertRegistration

\* A registration is locked for a decision, and no account of its person is found.
LEMMA ApproveStep ==
  ASSUME OInv, NEW c \in Clerk, NEW r \in Registration, Approve(c, r)
  PROVE  OInv'
<1> DEFINE x == [registrations[r] EXCEPT !.status = "approved"]
<1> DEFINE s == [AtRest EXCEPT !.op = "approve", !.at = "cleared", !.on = r, !.row = x]
<1>1. registrations[r] \in RegistrationRow /\ registrations[r].status = "pending"
      /\ UNCHANGED registrations
  BY DEF Approve, OInv, OnboardingTypeOK, RegistrationRow, onboardingRows
<1>2. /\ desk' = [desk EXCEPT ![c] = s] /\ s \in Work /\ s.op = "approve" /\ s.on = r
      /\ s.at = "cleared" /\ s.row = x
  <2>1. x \in RegistrationRow
    BY <1>1 DEF RegistrationRow
  <2> QED
    BY <2>1, RestIsWork DEF Approve, Begins, Work
<1>3. \A d \in Clerk : desk'[d] = IF d = c THEN s ELSE desk[d]
  BY <1>2 DEF OInv
<1> HIDE DEF s
<1>4. DeskSound(c)'
  BY <1>1, <1>2, <1>3 DEF DeskSound, Deciding
<1>5. \A d \in Clerk : d # c => (Separate(c, d) /\ Separate(d, c))'
  BY <1>2, <1>3 DEF Separate, Approve, FreeRegistration
<1> QED
  BY <1>2, <1>4, <1>5, DeskStep DEF Approve

\* The borrower and account are inserted: nobody else is inserting them.
LEMMA InsertAccountStep ==
  ASSUME OInv, NEW c \in Clerk, InsertAccount(c)
  PROVE  OInv'
<1>1. CASE Closed(c)
  BY <1>1, ClosedStep DEF InsertAccount
<1>2. CASE ~HasAccount(desk[c].row) /\ Goes(c, "flushed")
  <2> DEFINE s == [desk[c] EXCEPT !.at = "flushed"]
  <2>1. /\ desk[c] \in Work /\ DeskSound(c) /\ desk[c].op = "approve" /\ desk[c].at = "cleared"
        /\ UNCHANGED <<registrations, accounts>>
    BY DEF OInv, InsertAccount, onboardingRows
  <2>2. /\ desk' = [desk EXCEPT ![c] = s] /\ s \in Work /\ s.op = "approve" /\ s.on = desk[c].on
        /\ s.at = "flushed" /\ s.row = desk[c].row
    BY <1>2, <2>1 DEF Goes, Work
  <2>3. \A d \in Clerk : desk'[d] = IF d = c THEN s ELSE desk[d]
    BY <2>2 DEF OInv
  <2> HIDE DEF s
  <2>4. DeskSound(c)'
    <3>1. Deciding(c) /\ desk'[c] = s
      BY <2>1, <2>3 DEF DeskSound
    <3>2. ~HasAccount(desk[c].row)'
      BY <1>2, <2>1, <2>2, <3>1 DEF HasAccount
    <3>3. Deciding(c)'
      BY <2>1, <2>2, <3>1, <3>2 DEF Deciding
    <3> QED
      BY <2>2, <3>1, <3>3 DEF DeskSound
  <2>5. ASSUME NEW d \in Clerk, d # c  PROVE  (Separate(c, d) /\ Separate(d, c))'
    <3>1. desk[d].at = "flushed" /\ desk[d].op = "approve" =>
            ~SamePerson(desk[d].row, desk[c].row)
      BY <2>5 DEF InsertAccount, AccountHeldUp
    <3>2. Separate(c, d) /\ Separate(d, c)
      BY <2>5 DEF OInv
    <3> QED
      BY <2>1, <2>2, <2>3, <2>5, <3>1, <3>2 DEF Separate, SamePerson
  <2> QED
    BY <2>2, <2>4, <2>5, DeskStep DEF InsertAccount
<1> QED
  BY <1>1, <1>2 DEF InsertAccount

\* A registration is locked and rejected.
LEMMA RejectStep ==
  ASSUME OInv, NEW c \in Clerk, NEW r \in Registration, Reject(c, r)
  PROVE  OInv'
<1> DEFINE x == [registrations[r] EXCEPT !.status = "rejected"]
<1> DEFINE s == [AtRest EXCEPT !.op = "reject", !.at = "flushed", !.on = r, !.row = x]
<1>1. registrations[r] \in RegistrationRow /\ registrations[r].status = "pending"
      /\ UNCHANGED registrations
  BY DEF Reject, OInv, OnboardingTypeOK, RegistrationRow, onboardingRows
<1>2. /\ desk' = [desk EXCEPT ![c] = s] /\ s \in Work /\ s.op = "reject" /\ s.on = r
      /\ s.at = "flushed" /\ s.row = x
  <2>1. x \in RegistrationRow
    BY <1>1 DEF RegistrationRow
  <2> QED
    BY <2>1, RestIsWork DEF Reject, Begins, Work
<1>3. \A d \in Clerk : desk'[d] = IF d = c THEN s ELSE desk[d]
  BY <1>2 DEF OInv
<1> HIDE DEF s
<1>4. DeskSound(c)'
  BY <1>1, <1>2, <1>3 DEF DeskSound, Deciding
<1>5. \A d \in Clerk : d # c => (Separate(c, d) /\ Separate(d, c))'
  BY <1>2, <1>3 DEF Separate, Reject, FreeRegistration
<1> QED
  BY <1>2, <1>4, <1>5, DeskStep DEF Reject

\* An operation on codes begins under the lock of an account that is not
\* activated yet.
LEMMA CodesStep ==
  ASSUME OInv, NEW c \in Clerk, NEW r \in Registration, NEW s \in Work, FreeAccount(r),
         desk' = [desk EXCEPT ![c] = s], UNCHANGED <<onboardingRows, activated>>,
         s.op \in {"issue", "guess", "activate"}, s.on = r, Coding(c)'
  PROVE  OInv'
<1>1. \A d \in Clerk : desk'[d] = IF d = c THEN s ELSE desk[d]
  BY DEF OInv
<1>2. DeskSound(c)'
  BY <1>1 DEF DeskSound
<1>3. \A d \in Clerk : d # c => (Separate(c, d) /\ Separate(d, c))'
  BY <1>1 DEF Separate, FreeAccount
<1> QED
  BY <1>2, <1>3, DeskStep

\* The table of an account's codes, as each operation leaves it.
LEMMA CodeTables ==
  ASSUME OInv, NEW r \in Registration, NEW k \in CodeNumber
  PROVE  /\ codes[r] \in [CodeNumber -> CodeRow]
         /\ Reissued(codes[r], k) \in [CodeNumber -> CodeRow]
         /\ codes[r][k].failed < MaxAttempts =>
              [codes[r] EXCEPT ![k] = Missed(@)] \in [CodeNumber -> CodeRow]
         /\ [codes[r] EXCEPT ![k].state = "used"] \in [CodeNumber -> CodeRow]
<1>1. codes[r] \in [CodeNumber -> CodeRow]
  BY DEF OInv, OnboardingTypeOK
<1>2. \A j \in CodeNumber : codes[r][j] \in CodeRow
  BY <1>1
<1>3. Reissued(codes[r], k) \in [CodeNumber -> CodeRow]
  BY <1>2 DEF Reissued, CodeRow
<1>4. codes[r][k].failed < MaxAttempts => Missed(codes[r][k]) \in CodeRow
  BY <1>2 DEF Missed, CodeRow
<1>5. [codes[r][k] EXCEPT !.state = "used"] \in CodeRow
  BY <1>2 DEF CodeRow
<1> QED
  BY <1>1, <1>3, <1>4, <1>5

\* A code is issued.
LEMMA IssueCodeStep ==
  ASSUME OInv, NEW c \in Clerk, NEW r \in Registration, NEW k \in CodeNumber, IssueCode(c, r, k)
  PROVE  OInv'
<1> DEFINE s == [AtRest EXCEPT !.op = "issue", !.at = "flushed", !.on = r,
                               !.codes = Reissued(codes[r], k)]
<1>1. /\ accounts[r].status = "approved" /\ codes[r][k].state = "none"
      /\ UNCHANGED <<accounts, codes>>
  <2>1. k \in Nat
    BY DEF CodeNumber
  <2> QED
    BY <2>1 DEF IssueCode, onboardingRows
<1>2. /\ desk' = [desk EXCEPT ![c] = s] /\ s \in Work /\ s.op = "issue" /\ s.on = r
      /\ s.at = "flushed" /\ s.codes = Reissued(codes[r], k)
  BY RestIsWork, CodeTables DEF IssueCode, Begins, Work
<1>3. desk'[c] = s
  BY <1>2 DEF OInv
<1> HIDE DEF s
<1>4. Coding(c)'
  BY <1>1, <1>2, <1>3 DEF Coding
<1> QED
  BY <1>2, <1>4, CodesStep DEF IssueCode

\* A wrong code is tried against a usable one.
LEMMA GuessCodeStep ==
  ASSUME OInv, NEW c \in Clerk, NEW r \in Registration, NEW k \in CodeNumber, GuessCode(c, r, k)
  PROVE  OInv'
<1> DEFINE m == [codes[r] EXCEPT ![k] = Missed(@)]
<1> DEFINE s == [AtRest EXCEPT !.op = "guess", !.at = "flushed", !.on = r, !.code = k, !.codes = m]
<1>1. /\ accounts[r].status = "approved" /\ codes[r][k].state = "usable"
      /\ codes[r][k].failed < MaxAttempts
      /\ UNCHANGED <<accounts, codes>>
  BY DEF GuessCode, Current, onboardingRows
<1>2. /\ desk' = [desk EXCEPT ![c] = s] /\ s \in Work /\ s.op = "guess" /\ s.on = r
      /\ s.at = "flushed" /\ s.codes = m /\ s.code = k
  <2>1. m \in [CodeNumber -> CodeRow]
    BY <1>1, CodeTables
  <2>2. k \in 0 .. MaxCodes
    BY DEF CodeNumber
  <2> QED
    BY <2>1, <2>2, RestIsWork DEF GuessCode, Begins, Work
<1>3. desk'[c] = s
  BY <1>2 DEF OInv
<1> HIDE DEF s
<1>4. Coding(c)'
  BY <1>1, <1>2, <1>3 DEF Coding
<1> QED
  BY <1>2, <1>4, CodesStep DEF GuessCode

\* The right code is used.
LEMMA ActivateStep ==
  ASSUME OInv, NEW c \in Clerk, NEW r \in Registration, NEW k \in CodeNumber, NEW pin \in Pin,
         Activate(c, r, k, pin)
  PROVE  OInv'
<1> DEFINE m == [codes[r] EXCEPT ![k].state = "used"]
<1> DEFINE s == [AtRest EXCEPT !.op = "activate", !.at = "flushed", !.on = r, !.pin = pin, !.codes = m]
<1>1. /\ accounts[r].status = "approved" /\ codes[r][k].state = "usable"
      /\ UNCHANGED <<accounts, codes>>
  BY DEF Activate, Current, onboardingRows
<1>2. /\ desk' = [desk EXCEPT ![c] = s] /\ s \in Work /\ s.op = "activate" /\ s.on = r
      /\ s.at = "flushed" /\ s.codes = m /\ s.pin = pin
  BY RestIsWork, CodeTables DEF Activate, Begins, Work
<1>3. desk'[c] = s
  BY <1>2 DEF OInv
<1> HIDE DEF s
<1>4. Coding(c)'
  BY <1>1, <1>2, <1>3 DEF Coding
<1> QED
  BY <1>2, <1>4, CodesStep DEF Activate

---------------------------------------------------------------------------
(* Commits.                                                                *)

\* What every commit leaves to prove: its own session is at rest, the others
\* were separate from it.
LEMMA CommitFrame ==
  ASSUME OInv, NEW c \in Clerk, CommitDesk(c)
  PROVE  /\ \A d \in Clerk : desk'[d] = IF d = c THEN AtRest ELSE desk[d]
         /\ desk' \in [Clerk -> Work]
         /\ DeskSound(c)'
         /\ \A d, e \in Clerk : d # e => Separate(d, e)'
         /\ \A d \in Clerk : desk'[d].on \in Registration \cup {None} /\ desk'[d].code \in 0 .. MaxCodes
         /\ owner' \in BOOLEAN
<1>1. /\ \A d \in Clerk : desk'[d] = IF d = c THEN AtRest ELSE desk[d]
      /\ desk' \in [Clerk -> Work]
  BY RestIsWork DEF CommitDesk, Closed, OInv
<1>2. DeskSound(c)'
  BY <1>1, RestIsWork DEF DeskSound
<1>3. ASSUME NEW d \in Clerk, NEW e \in Clerk, d # e  PROVE  Separate(d, e)'
  BY <1>1, <1>3, RestIsWork DEF OInv, Separate
<1>4. \A d \in Clerk : desk'[d].on \in Registration \cup {None} /\ desk'[d].code \in 0 .. MaxCodes
  BY <1>1 DEF Work
<1>5. owner' \in BOOLEAN
  BY DEF CommitDesk, OInv, OnboardingTypeOK
<1> QED
  BY <1>1, <1>2, <1>3, <1>4, <1>5

\* The owner becomes visible.
LEMMA CommitBootstrap ==
  ASSUME OInv, NEW c \in Clerk, CommitDesk(c), desk[c].op \in {"none", "bootstrap"},
         activated' = activated
  PROVE  OInv'
<1>1. UNCHANGED <<registrations, accounts, codes, expired, guesses, activated>>
  BY DEF CommitDesk
<1>2. OnboardingTypeOK'
  BY <1>1, CommitFrame DEF OInv, OnboardingTypeOK
<1>3. ASSUME NEW d \in Clerk, d # c  PROVE  DeskSound(d)'
  <2>1. DeskSound(d) /\ desk'[d] = desk[d]
    BY <1>3, CommitFrame DEF OInv
  <2>2. Registering(d) => Registering(d)'
    BY <1>1, <2>1 DEF Registering, HasPending
  <2>3. HasAccount(desk[d].row)' <=> HasAccount(desk[d].row)
    BY <1>1, <2>1 DEF HasAccount
  <2>4. Deciding(d) => Deciding(d)'
    BY <1>1, <2>1, <2>3 DEF Deciding
  <2>5. Coding(d) => Coding(d)'
    BY <1>1, <2>1 DEF Coding
  <2> QED
    BY <2>1, <2>2, <2>4, <2>5 DEF DeskSound
<1>4. Blank' /\ OneAccountPerPerson' /\ DecidedOnce' /\ GuessesAreCounted' /\ ActivatedOnce'
  BY <1>1 DEF OInv, Blank, OneAccountPerPerson, DecidedOnce, GuessesAreCounted, ActivatedOnce
<1> QED
  BY <1>2, <1>3, <1>4, CommitFrame DEF OInv

\* A registration becomes visible: its identity was unused.
LEMMA CommitRegistration ==
  ASSUME OInv, NEW c \in Clerk, CommitDesk(c), desk[c].op = "register", activated' = activated
  PROVE  OInv'
<1> DEFINE r == desk[c].on
<1> DEFINE x == desk[c].row
<1>1. /\ r \in Registration /\ registrations[r] = Unregistered /\ ~HasPending(x)
      /\ x.status = "pending" /\ x \in RegistrationRow /\ desk[c].at = "flushed"
  BY DEF CommitDesk, OInv, DeskSound, Registering, Work
<1>2. /\ registrations' = [registrations EXCEPT ![r] = x]
      /\ UNCHANGED <<accounts, codes, expired, guesses, activated>>
  BY DEF CommitDesk
<1>3. /\ registrations \in [Registration -> RegistrationRow]
      /\ \A q \in Registration : registrations'[q] = IF q = r THEN x ELSE registrations[q]
      /\ accounts[r].status = "none" /\ registrations[r].status = "absent"
  BY <1>1, <1>2 DEF OInv, OnboardingTypeOK, RegistrationRow, DecidedOnce, Unregistered
<1>4. OnboardingTypeOK'
  <2>1. registrations' \in [Registration -> RegistrationRow]
    BY <1>1, <1>2, <1>3
  <2> QED
    BY <1>2, <2>1, CommitFrame DEF OInv, OnboardingTypeOK, RegistrationRow
<1>5. ASSUME NEW d \in Clerk, d # c  PROVE  DeskSound(d)'
  <2>1. DeskSound(d) /\ desk'[d] = desk[d] /\ Separate(c, d) /\ desk[d] \in Work
    BY <1>5, CommitFrame DEF OInv
  <2>2. desk[d].op = "register" /\ Registering(d) => Registering(d)'
    BY <1>1, <1>3, <2>1 DEF Registering, HasPending, Separate
  <2>3. \A y \in RegistrationRow : HasAccount(y)' <=> HasAccount(y)
    BY <1>2, <1>3 DEF HasAccount
  <2>4. Deciding(d) => Deciding(d)'
    <3>1. ASSUME Deciding(d)
          PROVE  desk[d].on # r /\ registrations'[desk[d].on] = registrations[desk[d].on]
      BY <1>3, <3>1 DEF Deciding
    <3>2. desk[d].row \in RegistrationRow
      BY <2>1 DEF Work
    <3> QED
      BY <2>1, <2>3, <3>1, <3>2 DEF Deciding
  <2>5. Coding(d) => Coding(d)'
    BY <1>2, <2>1 DEF Coding
  <2> QED
    BY <2>1, <2>2, <2>4, <2>5 DEF DeskSound
<1>6. OneAccountPerPerson'
  BY <1>1, <1>2, <1>3 DEF OInv, OneAccountPerPerson, HasPending, SamePerson
<1>7. DecidedOnce'
  BY <1>1, <1>2, <1>3 DEF OInv, DecidedOnce
<1>8. Blank' /\ GuessesAreCounted' /\ ActivatedOnce'
  BY <1>2 DEF OInv, Blank, GuessesAreCounted, ActivatedOnce
<1> QED
  BY <1>4, <1>5, <1>6, <1>7, <1>8, CommitFrame DEF OInv

\* A decision becomes visible, an approval with its account: the person had none.
LEMMA CommitDecision ==
  ASSUME OInv, NEW c \in Clerk, CommitDesk(c), desk[c].op \in {"approve", "reject"},
         activated' = activated
  PROVE  OInv'
<1> DEFINE r == desk[c].on
<1> DEFINE x == desk[c].row
<1> DEFINE Account == [status : {"none", "approved", "activated"}, pin : Pin \cup {None}]
<1>1. /\ Deciding(c) /\ r \in Registration /\ registrations[r].status = "pending"
      /\ x \in RegistrationRow /\ desk[c].at = "flushed"
      /\ registrations \in [Registration -> RegistrationRow]
      /\ accounts \in [Registration -> Account]
  BY DEF CommitDesk, OInv, OnboardingTypeOK, DeskSound, Deciding, Work, RegistrationRow
<1>2. /\ registrations' = [registrations EXCEPT ![r] = x]
      /\ accounts' = IF desk[c].op = "approve"
                     THEN [accounts EXCEPT ![r] = [status |-> "approved", pin |-> None]]
                     ELSE accounts
      /\ UNCHANGED <<codes, expired, guesses, activated>>
  BY DEF CommitDesk
<1>3. /\ x.national_id = registrations[r].national_id /\ x.phone = registrations[r].phone
      /\ x.status \in {"approved", "rejected"} /\ (x.status = "approved" <=> desk[c].op = "approve")
      /\ (desk[c].op = "approve" => ~HasAccount(x))
  <2>1. registrations[r] \in RegistrationRow
    BY <1>1
  <2> QED
    BY <1>1, <2>1 DEF Deciding, RegistrationRow
<1>4. /\ \A q \in Registration : registrations'[q] = IF q = r THEN x ELSE registrations[q]
      /\ \A q \in Registration :
           accounts'[q] = IF q = r /\ desk[c].op = "approve"
                          THEN [status |-> "approved", pin |-> None] ELSE accounts[q]
      /\ accounts[r].status = "none"
  BY <1>1, <1>2 DEF OInv, DecidedOnce
<1>5. OnboardingTypeOK'
  <2>1. registrations' \in [Registration -> RegistrationRow] /\ accounts' \in [Registration -> Account]
    BY <1>1, <1>2
  <2> QED
    BY <1>2, <2>1, CommitFrame DEF OInv, OnboardingTypeOK, RegistrationRow
<1>6. ASSUME NEW d \in Clerk, d # c  PROVE  DeskSound(d)'
  <2>1. DeskSound(d) /\ desk'[d] = desk[d] /\ Separate(c, d) /\ desk[d] \in Work
    BY <1>6, CommitFrame DEF OInv
  <2>2. Registering(d) => Registering(d)'
    <3>1. ASSUME Registering(d), desk[d].at = "flushed"
          PROVE  /\ registrations'[desk[d].on] = Unregistered
                 /\ ~HasPending(desk[d].row)'
      <4>1. /\ desk[d].on \in Registration /\ registrations[desk[d].on] = Unregistered
            /\ ~HasPending(desk[d].row)
        BY <3>1 DEF Registering
      <4>2. desk[d].on # r
        BY <1>1, <4>1 DEF Unregistered
      <4> QED
        BY <1>3, <1>4, <2>1, <4>1, <4>2 DEF HasPending
    <3> QED
      BY <2>1, <3>1 DEF Registering
  <2>3. desk[d].op \in {"approve", "reject"} /\ Deciding(d) => Deciding(d)'
    <3>1. ASSUME desk[d].op \in {"approve", "reject"}, Deciding(d)
          PROVE  registrations'[desk[d].on] = registrations[desk[d].on]
      BY <1>4, <2>1, <3>1 DEF Deciding, Separate
    <3>2. ASSUME desk[d].op = "approve", desk[d].at = "flushed", Deciding(d)
          PROVE  ~HasAccount(desk[d].row)'
      <4>1. ~HasAccount(desk[d].row)
        BY <3>2 DEF Deciding
      <4>2. desk[c].op = "approve" => ~SamePerson(x, desk[d].row)
        BY <1>1, <2>1, <3>2 DEF Separate
      <4> QED
        BY <1>4, <2>1, <4>1, <4>2 DEF HasAccount
    <3> QED
      BY <2>1, <3>1, <3>2 DEF Deciding
  <2>4. Coding(d) => Coding(d)'
    <3>1. ASSUME Coding(d)  PROVE  accounts'[desk[d].on] = accounts[desk[d].on]
      BY <1>4, <3>1 DEF Coding
    <3> QED
      BY <1>2, <2>1, <3>1 DEF Coding
  <2> QED
    BY <2>1, <2>2, <2>3, <2>4 DEF DeskSound
<1>7. OneAccountPerPerson'
  <2> SUFFICES ASSUME NEW q \in Registration, NEW p \in Registration, q # p,
                      SamePerson(registrations[q], registrations[p])',
                      \/ accounts'[q].status # "none" /\ accounts'[p].status # "none"
                      \/ registrations'[q].status = "pending" /\ registrations'[p].status = "pending"
               PROVE  FALSE
    BY DEF OneAccountPerPerson
  <2>1. SamePerson(registrations[q], registrations[p])
    BY <1>3, <1>4 DEF SamePerson
  <2>2. ~(registrations'[q].status = "pending" /\ registrations'[p].status = "pending")
    BY <1>3, <1>4, <2>1 DEF OInv, OneAccountPerPerson
  <2>3. desk[c].op = "approve" /\ r \in {q, p}
    BY <1>4, <2>1, <2>2 DEF OInv, OneAccountPerPerson
  <2>4. \E z \in {q, p} : z # r /\ accounts[z].status # "none" /\ SamePerson(registrations[z], x)
    BY <1>3, <1>4, <2>1, <2>2, <2>3 DEF SamePerson
  <2> QED
    BY <1>3, <2>3, <2>4 DEF HasAccount
<1>8. DecidedOnce'
  BY <1>3, <1>4 DEF OInv, DecidedOnce
<1>9. ActivatedOnce'
  <2>1. activated # << >> => activated[1] \in Registration
    BY DEF OInv, OnboardingTypeOK
  <2>2. /\ \A q \in Registration : accounts'[q].status = "activated" <=> accounts[q].status = "activated"
        /\ \A q \in Registration : accounts[q].status = "activated" => accounts'[q] = accounts[q]
    BY <1>4
  <2>3. activated # << >> => accounts[activated[1]].status = "activated"
    BY DEF OInv, ActivatedOnce
  <2> QED
    BY <1>2, <2>1, <2>2, <2>3 DEF OInv, ActivatedOnce
<1>10. Blank' /\ GuessesAreCounted'
  BY <1>2 DEF OInv, Blank, GuessesAreCounted
<1> QED
  BY <1>5, <1>6, <1>7, <1>8, <1>9, <1>10, CommitFrame DEF OInv

\* What the three operations do to the codes of an account: a new code replaces
\* the usable ones, a wrong try is counted, the right one uses the code up.
CodesMove(c, k) ==
  /\ \A j \in CodeNumber \ {k} :
       /\ desk[c].codes[j].failed = codes[desk[c].on][j].failed
       /\ \/ desk[c].codes[j].state = codes[desk[c].on][j].state
          \/ /\ desk[c].op = "issue" /\ codes[desk[c].on][j].state = "usable"
             /\ desk[c].codes[j].state = "revoked"
       /\ desk[c].op = "issue" => desk[c].codes[j].state # "usable"
  /\ desk[c].op = "issue" =>
       /\ codes[desk[c].on][k].state = "none"
       /\ desk[c].codes[k].state = "usable" /\ desk[c].codes[k].failed = 0
  /\ desk[c].op = "guess" =>
       /\ codes[desk[c].on][k].state = "usable" /\ k = desk[c].code
       /\ desk[c].codes[k].failed = codes[desk[c].on][k].failed + 1
       /\ desk[c].codes[k].state \in {"usable", "revoked"}
       /\ desk[c].codes[k].state = "usable" => desk[c].codes[k].failed < MaxAttempts
  /\ desk[c].op = "activate" =>
       /\ codes[desk[c].on][k].state = "usable" /\ desk[c].codes[k].state = "used"
       /\ desk[c].codes[k].failed = codes[desk[c].on][k].failed

\* That is all they do.
LEMMA CodesMoved ==
  ASSUME OInv, NEW c \in Clerk, desk[c].op \in {"issue", "guess", "activate"}, Coding(c)
  PROVE  \E k \in CodeNumber : CodesMove(c, k)
<1> DEFINE r == desk[c].on
<1>1. r \in Registration /\ codes[r] \in [CodeNumber -> CodeRow]
  BY DEF Coding, OInv, OnboardingTypeOK
<1>2. \A j \in CodeNumber : codes[r][j] \in CodeRow /\ codes[r][j].failed \in Nat
  BY <1>1 DEF CodeRow
<1>3. CASE desk[c].op = "issue"
  <2>1. PICK k \in CodeNumber : codes[r][k].state = "none" /\ desk[c].codes = Reissued(codes[r], k)
    BY <1>3 DEF Coding
  <2>2. \A j \in CodeNumber :
          desk[c].codes[j] =
            IF j = k THEN [state |-> "usable", failed |-> 0]
            ELSE IF codes[r][j].state = "usable" THEN [codes[r][j] EXCEPT !.state = "revoked"]
                 ELSE codes[r][j]
    BY <2>1 DEF Reissued
  <2>3. \A j \in CodeNumber \ {k} :
          /\ desk[c].codes[j].failed = codes[r][j].failed
          /\ desk[c].codes[j].state =
               IF codes[r][j].state = "usable" THEN "revoked" ELSE codes[r][j].state
    BY <1>2, <2>2 DEF CodeRow
  <2>4. desk[c].codes[k].state = "usable" /\ desk[c].codes[k].failed = 0
    <3>1. desk[c].codes[k] = [state |-> "usable", failed |-> 0]
      BY <2>2
    <3> QED
      BY <3>1
  <2>5. CodesMove(c, k)
    BY <1>3, <2>1, <2>3, <2>4 DEF CodesMove
  <2> QED
    BY <2>5
<1>4. CASE desk[c].op = "guess"
  <2>1. PICK k \in CodeNumber : /\ codes[r][k].state = "usable" /\ k = desk[c].code
                                /\ desk[c].codes = [codes[r] EXCEPT ![k] = Missed(@)]
    BY <1>4 DEF Coding
  <2>2. \A j \in CodeNumber :
          desk[c].codes[j] = IF j = k THEN Missed(codes[r][k]) ELSE codes[r][j]
    BY <1>1, <2>1
  <2>3. /\ desk[c].codes[k].failed = codes[r][k].failed + 1
        /\ desk[c].codes[k].state \in {"usable", "revoked"}
        /\ desk[c].codes[k].state = "usable" => desk[c].codes[k].failed < MaxAttempts
    <3>1. desk[c].codes[k] = Missed(codes[r][k])
      BY <2>2
    <3>2. codes[r][k].failed \in Nat /\ codes[r][k].state = "usable"
      BY <1>2, <2>1
    <3> QED
      BY <3>1, <3>2 DEF Missed
  <2>4. CodesMove(c, k)
    BY <1>4, <2>1, <2>2, <2>3 DEF CodesMove
  <2> QED
    BY <2>4
<1>5. CASE desk[c].op = "activate"
  <2>1. PICK k \in CodeNumber : /\ codes[r][k].state = "usable"
                                /\ desk[c].codes = [codes[r] EXCEPT ![k].state = "used"]
    BY <1>5 DEF Coding
  <2>2. \A j \in CodeNumber :
          desk[c].codes[j] = IF j = k THEN [codes[r][k] EXCEPT !.state = "used"] ELSE codes[r][j]
    BY <1>1, <2>1
  <2>3. desk[c].codes[k].state = "used" /\ desk[c].codes[k].failed = codes[r][k].failed
    BY <1>2, <2>2 DEF CodeRow
  <2> QED
    <3>1. CodesMove(c, k)
      BY <1>5, <2>1, <2>2, <2>3 DEF CodesMove
    <3> QED
      BY <3>1
<1> QED
  BY <1>3, <1>4, <1>5

\* The codes of an account become visible, and with the right one its PIN; the
\* answer, which may be lost, names them.
LEMMA CommitCodes ==
  ASSUME OInv, NEW c \in Clerk, CommitDesk(c), desk[c].op \in {"issue", "guess", "activate"},
         \/ activated' = activated
         \/ desk[c].op = "activate" /\ activated' = <<desk[c].on, desk[c].pin>>
  PROVE  OInv'
<1> DEFINE r == desk[c].on
<1> DEFINE Account == [status : {"none", "approved", "activated"}, pin : Pin \cup {None}]
<1>1. /\ Coding(c) /\ r \in Registration /\ accounts[r].status = "approved"
      /\ desk[c].codes \in [CodeNumber -> CodeRow]
      /\ accounts \in [Registration -> Account]
      /\ codes \in [Registration -> [CodeNumber -> CodeRow]]
      /\ guesses \in [Registration -> [CodeNumber -> 0 .. MaxAttempts]]
      /\ desk[c].op = "activate" => desk[c].pin \in Pin
  BY DEF OInv, OnboardingTypeOK, DeskSound, Coding, Work
<1>2. /\ registrations' = registrations /\ expired' = expired
      /\ accounts' = IF desk[c].op = "activate"
                     THEN [accounts EXCEPT ![r] = [status |-> "activated", pin |-> desk[c].pin]]
                     ELSE accounts
      /\ codes' = [codes EXCEPT ![r] = desk[c].codes]
      /\ guesses' = IF desk[c].op = "guess"
                    THEN [guesses EXCEPT ![r][desk[c].code] = @ + 1] ELSE guesses
  BY DEF CommitDesk
<1>3. /\ \A q \in Registration : codes'[q] = IF q = r THEN desk[c].codes ELSE codes[q]
      /\ \A q \in Registration :
           accounts'[q] = IF q = r /\ desk[c].op = "activate"
                          THEN [status |-> "activated", pin |-> desk[c].pin] ELSE accounts[q]
      /\ codes' \in [Registration -> [CodeNumber -> CodeRow]]
      /\ accounts' \in [Registration -> Account]
  BY <1>1, <1>2
<1>4. \A q \in Registration : accounts'[q].status # "none" <=> accounts[q].status # "none"
  BY <1>1, <1>3
<1>5. PICK k \in CodeNumber : CodesMove(c, k)
  BY <1>1, CodesMoved
<1> USE DEF CodesMove
<1>6. Blank'
  <2>1. \A j \in CodeNumber : desk[c].codes[j].state = "none" => codes[r][j].failed = 0
                                                            /\ desk[c].codes[j].failed = codes[r][j].failed
    BY <1>1, <1>5 DEF OInv, Blank
  <2> QED
    BY <1>3, <2>1 DEF OInv, Blank
<1>7. \A q \in Registration : \A j \in CodeNumber :
        guesses'[q][j] = IF q = r /\ desk[c].op = "guess" /\ j = k
                         THEN guesses[q][j] + 1 ELSE guesses[q][j]
  <2>1. CASE desk[c].op = "guess"
    <3>1. guesses' = [guesses EXCEPT ![r][k] = @ + 1]
      BY <1>2, <1>5, <2>1
    <3> QED
      BY <1>1, <2>1, <3>1
  <2>2. CASE desk[c].op # "guess"
    BY <1>2, <2>2
  <2> QED
    BY <2>1, <2>2
<1>8. GuessesAreCounted'
  <2>1. ASSUME NEW j \in CodeNumber
        PROVE  /\ desk[c].codes[j].failed = guesses'[r][j]
               /\ desk[c].codes[j].state = "usable" => guesses'[r][j] < MaxAttempts
    <3>1. /\ codes[r][j].failed = guesses[r][j]
          /\ codes[r][j].state = "usable" => guesses[r][j] < MaxAttempts
          /\ codes[r][j].state = "none" => codes[r][j].failed = 0
      BY <1>1 DEF OInv, GuessesAreCounted, Blank
    <3>2. CASE j # k
      BY <1>1, <1>5, <1>7, <3>1, <3>2
    <3>3. CASE j = k
      BY <1>1, <1>5, <1>7, <3>1, <3>3
    <3> QED
      BY <3>2, <3>3
  <2>2. ASSUME NEW q \in Registration, q # r, NEW j \in CodeNumber
        PROVE  /\ codes'[q][j].failed = guesses'[q][j]
               /\ codes'[q][j].state = "usable" => guesses'[q][j] < MaxAttempts
    BY <1>3, <1>7, <2>2 DEF OInv, GuessesAreCounted
  <2> QED
    BY <1>3, <2>1, <2>2 DEF GuessesAreCounted
<1>9. guesses' \in [Registration -> [CodeNumber -> 0 .. MaxAttempts]]
  <2>1. CASE desk[c].op = "guess"
    <3>1. guesses' = [guesses EXCEPT ![r][k] = @ + 1]
      BY <1>2, <1>5, <2>1
    <3>2. codes[r][k].failed = guesses[r][k] /\ guesses[r][k] < MaxAttempts
      BY <1>1, <1>5, <2>1 DEF OInv, GuessesAreCounted
    <3>3. guesses[r][k] \in Nat /\ guesses[r][k] + 1 \in 0 .. MaxAttempts
      BY <1>1, <3>2
    <3> QED
      BY <1>1, <3>1, <3>3
  <2>2. CASE desk[c].op # "guess"
    BY <1>1, <1>2, <2>2
  <2> QED
    BY <2>1, <2>2
<1>10. activated' \in {<< >>} \cup (Registration \X Pin)
  BY <1>1 DEF OInv, OnboardingTypeOK
<1>11. OnboardingTypeOK'
  BY <1>2, <1>3, <1>9, <1>10, CommitFrame DEF OInv, OnboardingTypeOK
<1>12. ASSUME NEW d \in Clerk, d # c  PROVE  DeskSound(d)'
  <2>1. DeskSound(d) /\ desk'[d] = desk[d] /\ Separate(c, d) /\ desk[d] \in Work
    BY <1>12, CommitFrame DEF OInv
  <2>2. Registering(d) => Registering(d)'
    BY <1>2, <2>1 DEF Registering, HasPending
  <2>3. HasAccount(desk[d].row)' <=> HasAccount(desk[d].row)
    BY <1>2, <1>4, <2>1 DEF HasAccount
  <2>4. Deciding(d) => Deciding(d)'
    BY <1>2, <2>1, <2>3 DEF Deciding
  <2>5. ASSUME desk[d].op \in {"issue", "guess", "activate"}, Coding(d)
        PROVE  Coding(d)'
    <3>1. desk[d].on \in Registration /\ desk[d].on # r
      BY <2>1, <2>5 DEF Coding, Separate
    <3>2. /\ codes'[desk[d].on] = codes[desk[d].on]
          /\ accounts'[desk[d].on] = accounts[desk[d].on]
      BY <1>3, <3>1
    <3> DEFINE old == codes[desk[d].on]
    <3>3. PICK j \in CodeNumber :
            \/ desk[d].op = "issue" /\ old[j].state = "none" /\ desk[d].codes = Reissued(old, j)
            \/ /\ old[j].state = "usable"
               /\ \/ /\ desk[d].op = "guess" /\ j = desk[d].code
                     /\ desk[d].codes = [old EXCEPT ![j] = Missed(@)]
                  \/ /\ desk[d].op = "activate" /\ desk[d].pin \in Pin
                     /\ desk[d].codes = [old EXCEPT ![j].state = "used"]
      BY <2>5 DEF Coding
    <3>4. codes'[desk'[d].on] = old /\ accounts'[desk'[d].on].status = "approved"
      BY <2>1, <2>5, <3>2 DEF Coding
    <3>5. desk'[d].at = "flushed" /\ desk'[d].on \in Registration
      BY <2>1, <2>5 DEF Coding
    <3> QED
      BY <2>1, <3>3, <3>4, <3>5 DEF Coding
  <2> QED
    BY <2>1, <2>2, <2>4, <2>5 DEF DeskSound
<1>13. OneAccountPerPerson' /\ DecidedOnce'
  BY <1>2, <1>4 DEF OInv, OneAccountPerPerson, DecidedOnce
<1>14. ActivatedOnce'
  <2>1. ASSUME NEW q \in Registration
        PROVE  accounts'[q].status = "activated" <=> \E j \in CodeNumber : codes'[q][j].state = "used"
    <3>1. accounts[q].status = "activated" <=> \E j \in CodeNumber : codes[q][j].state = "used"
      BY DEF OInv, ActivatedOnce
    <3>2. CASE q # r
      BY <1>3, <3>1, <3>2
    <3>3. CASE q = r /\ desk[c].op = "activate"
      BY <1>3, <1>5, <3>3
    <3>4. CASE q = r /\ desk[c].op # "activate"
      <4>1. \A j \in CodeNumber : desk[c].codes[j].state # "used"
        BY <1>1, <1>5, <3>1, <3>4
      <4> QED
        BY <1>1, <1>3, <3>4, <4>1
    <3> QED
      BY <3>2, <3>3, <3>4
  <2>2. ASSUME NEW q \in Registration, NEW i \in CodeNumber, NEW j \in CodeNumber,
               codes'[q][i].state \in {"usable", "used"}, codes'[q][j].state \in {"usable", "used"}
        PROVE  i = j
    <3>1. /\ codes[q][i].state \in {"usable", "used"} /\ codes[q][j].state \in {"usable", "used"} => i = j
          /\ codes[q][i].state \in {"usable", "used"} /\ codes[q][k].state \in {"usable", "used"} => i = k
          /\ codes[q][j].state \in {"usable", "used"} /\ codes[q][k].state \in {"usable", "used"} => j = k
      BY DEF OInv, ActivatedOnce
    <3>2. CASE q # r
      BY <1>3, <2>2, <3>1, <3>2
    <3>3. CASE q = r
      <4>1. \A m \in CodeNumber : codes[r][m].state # "used"
        BY <1>1 DEF OInv, ActivatedOnce
      <4> QED
        BY <1>3, <1>5, <2>2, <3>1, <3>3, <4>1
    <3> QED
      BY <3>2, <3>3
  <2>3. activated' # << >> =>
          accounts'[activated'[1]] = [status |-> "activated", pin |-> activated'[2]]
    <3>1. CASE desk[c].op = "activate" /\ activated' = <<r, desk[c].pin>>
      BY <1>1, <1>3, <3>1
    <3>2. CASE activated' = activated
      <4>1. activated # << >> =>
              /\ activated[1] \in Registration
              /\ accounts[activated[1]] = [status |-> "activated", pin |-> activated[2]]
        BY DEF OInv, OnboardingTypeOK, ActivatedOnce
      <4> QED
        BY <1>1, <1>3, <3>2, <4>1
    <3> QED
      BY <3>1, <3>2
  <2> QED
    BY <2>1, <2>2, <2>3 DEF ActivatedOnce
<1> QED
  BY <1>6, <1>8, <1>11, <1>12, <1>13, <1>14, CommitFrame DEF OInv

\* Whatever a session commits, whether or not its answer arrives.
LEMMA CommitStep ==
  ASSUME OInv, NEW c \in Clerk, AnswerDesk(c) \/ LoseDeskAnswer(c)
  PROVE  OInv'
<1>1. /\ CommitDesk(c)
      /\ \/ activated' = activated
         \/ desk[c].op = "activate" /\ activated' = <<desk[c].on, desk[c].pin>>
  BY DEF AnswerDesk, LoseDeskAnswer
<1>2. desk[c].op \in {"none", "bootstrap", "register", "approve", "reject", "issue", "guess", "activate"}
  BY DEF OInv, Work
<1> QED
  BY <1>1, <1>2, CommitBootstrap, CommitRegistration, CommitDecision, CommitCodes

\* Time passes.
LEMMA ExpireCodeStep ==
  ASSUME OInv, NEW r \in Registration, NEW k \in CodeNumber, ExpireCode(r, k)
  PROVE  OInv'
<1>1. /\ expired' = [expired EXCEPT ![r] = @ \cup {k}]
      /\ UNCHANGED <<owner, registrations, accounts, codes, guesses, desk, activated>>
  BY DEF ExpireCode
<1>2. OnboardingTypeOK'
  BY <1>1 DEF OInv, OnboardingTypeOK
<1>3. ASSUME NEW d \in Clerk  PROVE  DeskSound(d)'
  <2>1. DeskSound(d)
    BY DEF OInv
  <2>2. Registering(d) => Registering(d)'
    BY <1>1 DEF Registering, HasPending
  <2>3. Deciding(d) => Deciding(d)'
    BY <1>1 DEF Deciding, HasAccount
  <2>4. Coding(d) => Coding(d)'
    BY <1>1 DEF Coding
  <2> QED
    BY <1>1, <2>1, <2>2, <2>3, <2>4 DEF DeskSound
<1>4. \A d, e \in Clerk : d # e => Separate(d, e)'
  BY <1>1 DEF OInv, Separate
<1>5. Blank' /\ OneAccountPerPerson' /\ DecidedOnce' /\ GuessesAreCounted' /\ ActivatedOnce'
  BY <1>1 DEF OInv, Blank, OneAccountPerPerson, DecidedOnce, GuessesAreCounted, ActivatedOnce
<1> QED
  BY <1>1, <1>2, <1>3, <1>4, <1>5 DEF OInv

---------------------------------------------------------------------------
(* The theorems.                                                           *)

\* Every step keeps the invariant.
LEMMA OnboardingKeeps ==
  ASSUME OInv, [OnboardingNext]_onboardingVars
  PROVE  OInv'
<1>1. ASSUME NEW c \in Clerk, ClerkStep(c)  PROVE  OInv'
  <2>1. ASSUME NEW n \in NationalId, NEW p \in Phone, Register(c, n, p)  PROVE  OInv'
    BY <2>1, RegisterStep
  <2>2. CASE BootstrapOwner(c) \/ LookUpPending(c) \/ InsertRegistration(c) \/ InsertAccount(c)
    BY <2>2, BootstrapStep, LookUpPendingStep, InsertRegistrationStep, InsertAccountStep
  <2>3. ASSUME NEW r \in Registration, Approve(c, r) \/ Reject(c, r)  PROVE  OInv'
    BY <2>3, ApproveStep, RejectStep
  <2>4. ASSUME NEW r \in Registration, NEW k \in CodeNumber, IssueCode(c, r, k) \/ GuessCode(c, r, k)
        PROVE  OInv'
    BY <2>4, IssueCodeStep, GuessCodeStep
  <2>5. ASSUME NEW r \in Registration, NEW k \in CodeNumber, NEW pin \in Pin, Activate(c, r, k, pin)
        PROVE  OInv'
    BY <2>5, ActivateStep
  <2>6. CASE AnswerDesk(c) \/ LoseDeskAnswer(c)
    BY <2>6, CommitStep
  <2>7. CASE FailDesk(c)
    BY <2>7, ClosedStep DEF FailDesk
  <2> QED
    BY <1>1, <2>1, <2>2, <2>3, <2>4, <2>5, <2>6, <2>7 DEF ClerkStep
<1>2. ASSUME NEW r \in Registration, NEW k \in CodeNumber, ExpireCode(r, k)  PROVE  OInv'
  BY <1>2, ExpireCodeStep
<1>3. CASE UNCHANGED onboardingVars
  <2>1. UNCHANGED <<owner, registrations, accounts, codes, expired, guesses, desk, activated>>
    BY <1>3 DEF onboardingVars, onboardingRows
  <2>2. OnboardingTypeOK' /\ \A d, e \in Clerk : d # e => Separate(d, e)'
    BY <2>1 DEF OInv, OnboardingTypeOK, Separate
  <2>3. ASSUME NEW d \in Clerk  PROVE  DeskSound(d)'
    <3>1. DeskSound(d)
      BY DEF OInv
    <3>2. (Registering(d) => Registering(d)') /\ (Deciding(d) => Deciding(d)') /\ (Coding(d) => Coding(d)')
      BY <2>1 DEF Registering, HasPending, Deciding, HasAccount, Coding
    <3> QED
      BY <2>1, <3>1, <3>2 DEF DeskSound
  <2>4. Blank' /\ OneAccountPerPerson' /\ DecidedOnce' /\ GuessesAreCounted' /\ ActivatedOnce'
    BY <2>1 DEF OInv, Blank, OneAccountPerPerson, DecidedOnce, GuessesAreCounted, ActivatedOnce
  <2> QED
    BY <2>1, <2>2, <2>3, <2>4 DEF OInv
<1> QED
  BY <1>1, <1>2, <1>3 DEF OnboardingNext

\* The inductive invariant holds of every behaviour.
THEOREM OnboardingInvariant == OnboardingSpec => []OInv
<1>1. OnboardingInit => OInv
  BY InitOnboarding
<1>2. OInv /\ [OnboardingNext]_onboardingVars => OInv'
  BY OnboardingKeeps
<1> QED
  BY <1>1, <1>2, PTL DEF OnboardingSpec

\* The variables have their types; counters of wrong tries stay within bounds.
THEOREM OnboardingTypes == OnboardingSpec => []OnboardingTypeOK
<1>1. OInv => OnboardingTypeOK
  BY DEF OInv
<1> QED
  BY <1>1, OnboardingInvariant, PTL

\* The unique indexes, and the waits they cause, keep two accounts and two
\* pending registrations of a person apart, whatever create_registration and
\* approve_registration looked up before they inserted.
THEOREM PersonsApart == OnboardingSpec => []OneAccountPerPerson
<1>1. OInv => OneAccountPerPerson
  BY DEF OInv
<1> QED
  BY <1>1, OnboardingInvariant, PTL

\* The row lock of approve_registration and reject_registration makes a
\* decision final, and an account exist exactly for the approved.
THEOREM OneDecision == OnboardingSpec => []DecidedOnce
<1>1. OInv => DecidedOnce
  BY DEF OInv
<1> QED
  BY <1>1, OnboardingInvariant, PTL

\* Under the account's row lock activate_borrower loses no wrong try.
THEOREM NoGuessIsFree == OnboardingSpec => []GuessesAreCounted
<1>1. OInv => GuessesAreCounted
  BY DEF OInv
<1> QED
  BY <1>1, OnboardingInvariant, PTL

\* One code activates an account, once, with the PIN that was confirmed.
THEOREM OneActivation == OnboardingSpec => []ActivatedOnce
<1>1. OInv => ActivatedOnce
  BY DEF OInv
<1> QED
  BY <1>1, OnboardingInvariant, PTL
=============================================================================
