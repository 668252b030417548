-------------------------- MODULE MCBorrowerAccess --------------------------
(* BorrowerAccess for TLC.  No constant set has a member that the code      *)
(* treats otherwise than the rest.                                         *)
EXTENDS BorrowerAccess, FiniteSets, TLC

\* Onboarding has come to rest: every registration is decided and every account
\* activated, with its first code and an answer.
Settled ==
  /\ activated # << >>
  /\ \A c \in Clerk : desk[c].op = "none"
  /\ \A r \in Registration :
       /\ registrations[r].status = "rejected" \/ accounts[r].status = "activated"
       /\ expired[r] = {}
       /\ codes[r] \in {NoCodes, [NoCodes EXCEPT ![1].state = "used"]}

\* Onboarding has one person so far, at whatever point of his way to a session,
\* one clerk at a time, and no code was lost or missed.
Early ==
  /\ \A c, d \in Clerk : desk[c].op # "none" /\ desk[d].op # "none" => c = d
  /\ \A q, r \in Registration :
       registrations[q] # Unregistered /\ registrations[r] # Unregistered => q = r
  /\ \A r \in Registration :
       /\ expired[r] = {}
       /\ codes[r] \in {[NoCodes EXCEPT ![1].state = x] : x \in {"none", "usable", "used"}}

\* Apps have called for one token and perhaps its replacement, one call at a time.
FewTokens ==
  /\ Cardinality({t \in Token : tokens[t] # Unissued}) <= 2
  /\ Cardinality({w \in Worker : serving[w] # AtEase}) <= 1
  /\ \A a \in App : ~broken[a]

NoTokens ==
  /\ \A t \in Token : tokens[t] = Unissued
  /\ \A w \in Worker : serving[w] = AtEase

\* Bound: while onboarding is early, it and the apps' calls for few tokens go on
\* in any order; apps call without that limit once onboarding has come to rest.
BoundedNext ==
  \/ OnboardingStep /\ (NoTokens \/ (Early' /\ FewTokens))
  \/ TokenStep /\ UNCHANGED onboardingVars /\ (Settled \/ (Early /\ FewTokens'))

BoundedSpec == AccessInit /\ [][BoundedNext]_accessVars

AccessSymmetry ==
  Permutations(Clerk) \cup Permutations(Registration) \cup Permutations(Pin)
  \cup Permutations(Phone) \cup Permutations(Token) \cup Permutations(Worker)
=============================================================================
