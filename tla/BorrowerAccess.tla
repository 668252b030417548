--------------------------- MODULE BorrowerAccess ---------------------------
(***************************************************************************)
(* Onboarding and token rotation together, as one server runs them: the    *)
(* owner signs in once he has been created, a borrower once his account    *)
(* has been activated.  Each part behaves as its own specification says.   *)
(***************************************************************************)
EXTENDS Onboarding, TokenRotation

ASSUME AccessAssumption == Borrower = Registration

accessVars == <<onboardingVars, rotationVars>>

\* (mutant) An account counts as soon as it has been approved.
SignableApproved ==
  {r \in Registration : accounts[r].status # "none"} \cup (IF owner THEN {Owner} ELSE {})

\* get_current_owner, login_owner and login_borrower look for these accounts.
SignableNow ==
  {r \in Registration : accounts[r].status = "activated"} \cup (IF owner THEN {Owner} ELSE {})

AccessInit == OnboardingInit /\ RotationInit

OnboardingStep ==
  /\ OnboardingNext
  /\ signable' = SignableNow'
  /\ UNCHANGED <<devices, tokens, serving, appVars, ended>>

AccessNext == OnboardingStep \/ (TokenStep /\ UNCHANGED onboardingVars)

AccessSpec == AccessInit /\ [][AccessNext]_accessVars

---------------------------------------------------------------------------
(* Properties.                                                             *)

\* Types of the variables of both parts.
AccessTypeOK == OnboardingTypeOK /\ RotationTypeOK

\* Every token, and every login about to be committed, is of an account that is
\* activated, or of the owner who exists: no session starts before that, however
\* a login, a refresh and the transactions of onboarding overlap.
SessionsOfActivatedOnly ==
  LET InUse(u) == IF u = Owner THEN owner ELSE accounts[u].status = "activated" IN
  /\ \A t \in Token : tokens[t].status # "none" => InUse(tokens[t].account)
  /\ \A w \in Worker :
       serving[w].op = "login" /\ serving[w].at # "asked" => InUse(serving[w].account)
=============================================================================
