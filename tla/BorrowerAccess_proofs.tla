----------------------- MODULE BorrowerAccess_proofs -----------------------
(***************************************************************************)
(* The two parts together: what each promises by itself holds of their     *)
(* composition, and only activated accounts and the owner have sessions.   *)
(***************************************************************************)
EXTENDS BorrowerAccess, Onboarding_proofs, TokenRotation_proofs

USE AccessAssumption

\* The invariants of both parts, and what the one tells the other.
AInv == OInv /\ RInv /\ signable = SignableNow

\* An account that is activated stays so, and the owner stays.
LEMMA SignableGrows ==
  ASSUME OInv, [OnboardingNext]_onboardingVars
  PROVE  SignableNow \subseteq SignableNow'
<1>1. ASSUME NEW c \in Clerk, CommitDesk(c)
      PROVE  /\ owner => owner'
             /\ \A r \in Registration :
                  accounts[r].status = "activated" => accounts'[r].status = "activated"
  <2>1. desk[c].op = "approve" => desk[c].on \in Registration /\ accounts[desk[c].on].status = "none"
    BY DEF OInv, DeskSound, Deciding, DecidedOnce
  <2>2. \A r \in Registration :
          \/ accounts'[r] = accounts[r]
          \/ accounts'[r].status = "activated"
          \/ desk[c].op = "approve" /\ r = desk[c].on
    <3>1. accounts \in [Registration -> [status : {"none", "approved", "activated"}, pin : Pin \cup {None}]]
      BY DEF OInv, OnboardingTypeOK
    <3> QED
      BY <1>1, <3>1 DEF CommitDesk
  <2>3. owner => owner'
    BY <1>1 DEF CommitDesk
  <2> QED
    BY <2>1, <2>2, <2>3
<1>2. CASE \E c \in Clerk : CommitDesk(c)
  BY <1>1, <1>2 DEF SignableNow
<1>3. CASE owner' = owner /\ accounts' = accounts
  BY <1>3 DEF SignableNow
<1>4. (\E c \in Clerk : CommitDesk(c)) \/ (owner' = owner /\ accounts' = accounts)
  <2>1. ASSUME NEW c \in Clerk, ClerkStep(c)
        PROVE  CommitDesk(c) \/ (owner' = owner /\ accounts' = accounts)
    <3>1. CASE BootstrapOwner(c) \/ LookUpPending(c) \/ InsertRegistration(c) \/ InsertAccount(c)
      BY <3>1 DEF BootstrapOwner, LookUpPending, InsertRegistration, InsertAccount, onboardingRows
    <3>2. CASE \E n \in NationalId, p \in Phone : Register(c, n, p)
      BY <3>2 DEF Register, onboardingRows
    <3>3. CASE \E r \in Registration : Approve(c, r) \/ Reject(c, r)
      BY <3>3 DEF Approve, Reject, onboardingRows
    <3>4. CASE \E r \in Registration, k \in CodeNumber : IssueCode(c, r, k) \/ GuessCode(c, r, k)
      BY <3>4 DEF IssueCode, GuessCode, onboardingRows
    <3>5. CASE \E r \in Registration, k \in CodeNumber, pin \in Pin : Activate(c, r, k, pin)
      BY <3>5 DEF Activate, onboardingRows
    <3>6. CASE AnswerDesk(c) \/ LoseDeskAnswer(c) \/ FailDesk(c)
      BY <3>6 DEF AnswerDesk, LoseDeskAnswer, FailDesk, onboardingRows
    <3> QED
      BY <2>1, <3>1, <3>2, <3>3, <3>4, <3>5, <3>6 DEF ClerkStep
  <2>2. CASE \E r \in Registration, k \in CodeNumber : ExpireCode(r, k)
    BY <2>2 DEF ExpireCode
  <2>3. CASE UNCHANGED onboardingVars
    BY <2>3 DEF onboardingVars, onboardingRows
  <2> QED
    BY <2>1, <2>2, <2>3 DEF OnboardingNext
<1> QED
  BY <1>2, <1>3, <1>4

\* No step of an app, of a token's transaction or of time enables an account.
LEMMA TokensEnableNobody ==
  ASSUME TokenStep
  PROVE  signable' = signable
<1>1. ASSUME NEW a \in App, AppStep(a)  PROVE  signable' = signable
  BY <1>1 DEF AppStep, AskLogout, Restart, CallRefresh, CallLogout, CallLogin, Calls, rotationRows
<1>2. ASSUME NEW w \in Worker, WorkerStep(w)  PROVE  signable' = signable
  BY <1>2 DEF WorkerStep, Login, InsertDevice, Refresh, Logout, Answer, GiveUp, Fail, Refused,
              Flushes, rotationRows
<1>3. ASSUME NEW t \in Token, Expire(t)  PROVE  signable' = signable
  BY <1>3 DEF Expire
<1> QED
  BY <1>1, <1>2, <1>3 DEF TokenStep

\* Every step of the composition is one of a part, which keeps its invariant.
LEMMA AccessStep ==
  ASSUME AInv, [AccessNext]_accessVars
  PROVE  AInv'
<1>1. CASE OnboardingStep
  <2>1. OInv'
    BY <1>1, OnboardingKeeps DEF AInv, OnboardingStep
  <2>2. signable \subseteq signable'
    BY <1>1, SignableGrows DEF AInv, OnboardingStep
  <2>3. signable' \subseteq Account
    BY <1>1 DEF OnboardingStep, SignableNow, Account
  <2>4. RInv'
    BY <1>1, <2>2, <2>3, GrowSound DEF AInv, OnboardingStep
  <2> QED
    BY <1>1, <2>1, <2>4 DEF AInv, OnboardingStep
<1>2. CASE TokenStep /\ UNCHANGED onboardingVars
  <2>1. OInv'
    BY <1>2, OnboardingKeeps DEF AInv
  <2>2. RInv'
    BY <1>2, StepSound DEF AInv, RotationNext
  <2>3. (signable = SignableNow)'
    BY <1>2, TokensEnableNobody DEF AInv, SignableNow, onboardingVars, onboardingRows
  <2> QED
    BY <2>1, <2>2, <2>3 DEF AInv
<1>3. CASE UNCHANGED accessVars
  <2>1. OInv' /\ RInv'
    BY <1>3, OnboardingKeeps, StepSound DEF AInv, accessVars
  <2>2. (signable = SignableNow)'
    BY <1>3 DEF AInv, accessVars, SignableNow, onboardingVars, onboardingRows, rotationVars, rotationRows
  <2> QED
    BY <2>1, <2>2 DEF AInv
<1> QED
  BY <1>1, <1>2, <1>3 DEF AccessNext

\* The invariant holds of every behaviour of the composition.
THEOREM AccessInvariant == AccessSpec => []AInv
<1>1. AccessInit => AInv
  <2> SUFFICES ASSUME AccessInit PROVE AInv
    OBVIOUS
  <2>1. OInv /\ RInv
    BY InitOnboarding, InitSound DEF AccessInit
  <2>2. signable = SignableNow
    BY DEF AccessInit, OnboardingInit, RotationInit, SignableNow, NoAccount
  <2> QED
    BY <2>1, <2>2 DEF AInv
<1>2. AInv /\ [AccessNext]_accessVars => AInv'
  BY AccessStep
<1> QED
  BY <1>1, <1>2, PTL DEF AccessSpec

\* The variables of both parts have their types.
THEOREM AccessTypes == AccessSpec => []AccessTypeOK
<1>1. AInv => AccessTypeOK
  BY DEF AInv, OInv, RInv, AccessTypeOK
<1> QED
  BY <1>1, AccessInvariant, PTL

\* login_borrower, login_owner and the two refreshes give sessions to activated
\* borrowers and the owner only, whatever is in flight while an account changes.
THEOREM NobodySignsInEarly == AccessSpec => []SessionsOfActivatedOnly
<1>1. AInv => SessionsOfActivatedOnly
  <2> SUFFICES ASSUME AInv PROVE SessionsOfActivatedOnly
    OBVIOUS
  <2> DEFINE InUse(u) == IF u = Owner THEN owner ELSE accounts[u].status = "activated"
  <2>1. ASSUME NEW u \in SignableNow
        PROVE  InUse(u)
    <3>1. CASE u \in Registration /\ accounts[u].status = "activated"
      <4>1. u # Owner
        BY <3>1, AccessAssumption, RotationAssumption
      <4> QED
        BY <3>1, <4>1
    <3>2. CASE u = Owner /\ owner
      BY <3>2
    <3> QED
      BY <2>1, <3>1, <3>2 DEF SignableNow
  <2>2. ASSUME NEW w \in Worker, serving[w].op = "login", serving[w].at # "asked"
        PROVE  serving[w].account \in SignableNow
    BY <2>2 DEF AInv, RInv, Serving, LoggingIn
  <2>3. ASSUME NEW t \in Token, tokens[t].status # "none"
        PROVE  tokens[t].account \in SignableNow
    BY <2>3 DEF AInv, RInv, TokenSound
  <2> QED
    BY <2>1, <2>2, <2>3 DEF SessionsOfActivatedOnly
<1> QED
  BY <1>1, AccessInvariant, PTL

\* Running together, the parts keep what each promised alone.
THEOREM PartsKeepPromises ==
  AccessSpec => [](/\ OneAccountPerPerson /\ DecidedOnce /\ GuessesAreCounted /\ ActivatedOnce
                   /\ TokensRotateOnce /\ LogoutIsFinal /\ HeldTokenIsGood)
<1>1. AInv => /\ OneAccountPerPerson /\ DecidedOnce /\ GuessesAreCounted /\ ActivatedOnce
              /\ TokensRotateOnce /\ LogoutIsFinal /\ HeldTokenIsGood
  BY DEF AInv, OInv, RInv, AppSound, HeldTokenIsGood
<1> QED
  BY <1>1, AccessInvariant, PTL
=============================================================================
