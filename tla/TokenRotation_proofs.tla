------------------------ MODULE TokenRotation_proofs ------------------------
(***************************************************************************)
(* What TokenRotation promises, for any number of apps, accounts, tokens   *)
(* and sessions.                                                           *)
(***************************************************************************)
EXTENDS TokenRotation, TLAPS

USE RotationAssumption

Account == Borrower \cup {Owner}

---------------------------------------------------------------------------
(* The inductive invariant.                                                *)

\* A token that was issued to an app.
Owned(a, t) == tokens[t].status # "none" /\ tokens[t].app = a

\* A login that is past its look-up is of an account that can sign in; a
\* refresh or logout was sent a token of the app's device, and once it has
\* flushed that token is still unrevoked.
LoggingIn(w) ==
  /\ serving[w].at \in {"asked", "unknown device", "flushed"}
  /\ serving[w].app \in App /\ serving[w].account \in Account /\ serving[w].token = Null
  /\ serving[w].at # "asked" => serving[w].account \in signable

Using(w) ==
  /\ serving[w].at \in {"asked", "flushed"}
  /\ serving[w].app \in App /\ serving[w].account = Null /\ serving[w].token \in Token
  /\ Owned(serving[w].app, serving[w].token)
  /\ serving[w].at = "flushed" => tokens[serving[w].token].status \in {"live", "expired"}

Serving(w) ==
  /\ serving[w].op \in {"none", "login", "refresh", "logout"}
  /\ serving[w].op = "none" => serving[w] = AtEase
  /\ serving[w].op = "login" => LoggingIn(w)
  /\ serving[w].op \in {"refresh", "logout"} => Using(w)

\* The token a flushed session is about to insert.
Reserving(w) ==
  IF serving[w].at = "flushed" /\ serving[w].op \in {"login", "refresh"}
  THEN serving[w].new \in Token /\ tokens[serving[w].new] = Unissued
  ELSE serving[w].new = Null

\* Two sessions never insert one token, nor flush changes of one token.
Apart(w, x) ==
  /\ serving[w].new # Null => serving[w].new # serving[x].new
  /\ /\ serving[w].at = "flushed" /\ serving[w].token # Null
     /\ serving[x].at = "flushed"
     => serving[w].token # serving[x].token

TokenSound(t) ==
  /\ tokens[t].status = "none" => tokens[t] = Unissued
  /\ tokens[t].status # "none" => tokens[t].account \in signable /\ tokens[t].app \in App
  /\ tokens[t].from # t

\* An app keeps tokens of its own device, has one refresh under way, and waits
\* for every session that was sent the token it holds, unless it was restarted.
AppSound(a) ==
  /\ \A w \in calls[a] : serving[w].op # "none" /\ serving[w].app = a
  /\ \A v, w \in calls[a] : serving[v].op = "refresh" /\ serving[w].op = "refresh" => v = w
  /\ leaving[a] # Null => Owned(a, leaving[a])
  /\ held[a] # Null =>
       /\ Owned(a, held[a])
       /\ broken[a] \/ tokens[held[a]].status = "live"
       /\ \A w \in Worker : serving[w].token = held[a] => w \in calls[a] \/ broken[a]
       /\ \A w \in calls[a] :
            serving[w].op = "refresh" => tokens[held[a]].from # serving[w].token

RInv ==
  /\ RotationTypeOK
  /\ \A w \in Worker : Serving(w) /\ Reserving(w)
  /\ \A w, x \in Worker : w # x => Apart(w, x)
  /\ \A t \in Token : TokenSound(t)
  /\ TokensRotateOnce
  /\ LogoutIsFinal
  /\ \A a \in App : AppSound(a)

\* What a session may be doing.
Task == [op      : {"none", "login", "refresh", "logout"},
         at      : {"rest", "asked", "unknown device", "flushed"},
         app     : App \cup {Null},
         account : Borrower \cup {Owner, Null},
         token   : Token \cup {Null},
         new     : Token \cup {Null}]

\* Every session does one of the tasks, or is at rest.
LEMMA Tasks ==
  ASSUME RInv
  PROVE  /\ serving \in [Worker -> Task] /\ AtEase \in Task
         /\ \A w \in Worker :
              /\ serving[w].op = "none" <=> serving[w] = AtEase
              /\ serving[w] # AtEase => serving[w].app \in App
<1>1. serving \in [Worker -> Task]
  BY DEF RInv, RotationTypeOK, Task
<1>2. AtEase \in Task /\ AtEase.op = "none"
  BY DEF AtEase, Task
<1>3. ASSUME NEW w \in Worker
      PROVE  /\ serving[w].op = "none" <=> serving[w] = AtEase
             /\ serving[w] # AtEase => serving[w].app \in App
  <2>1. Serving(w)
    BY DEF RInv
  <2> QED
    BY <1>2, <2>1 DEF Serving, LoggingIn, Using
<1> QED
  BY <1>1, <1>2, <1>3

\* Only a refresh and a logout have been sent a token, and a session at rest has
\* flushed nothing.
LEMMA Sent ==
  ASSUME NEW w \in Worker, Serving(w)
  PROVE  /\ serving[w].token # Null => serving[w].op \in {"refresh", "logout"}
         /\ serving[w].at = "flushed" => serving[w].op # "none"
<1>1. CASE serving[w].op = "none"
  <2>1. serving[w] = AtEase /\ AtEase.token = Null /\ AtEase.at = "rest"
    BY <1>1 DEF Serving, AtEase
  <2> QED
    BY <2>1
<1>2. CASE serving[w].op # "none"
  BY <1>2 DEF Serving, LoggingIn
<1> QED
  BY <1>1, <1>2

\* The initial state.
LEMMA InitSound ==
  ASSUME RotationInit
  PROVE  RInv
<1>1. /\ \A w \in Worker : serving[w] = AtEase
      /\ \A t \in Token : tokens[t] = Unissued
      /\ \A a \in App : calls[a] = {} /\ held[a] = Null /\ leaving[a] = Null
      /\ ended = {}
  BY DEF RotationInit
<1>2. /\ AtEase.op = "none" /\ AtEase.at = "rest" /\ AtEase.new = Null /\ AtEase.token = Null
      /\ Unissued.status = "none" /\ Unissued.from = Null
  BY DEF AtEase, Unissued
<1>3. RotationTypeOK
  BY DEF RotationInit, RotationTypeOK, AtEase, Unissued
<1>4. \A w \in Worker : Serving(w) /\ Reserving(w) /\ \A x \in Worker : Apart(w, x)
  BY <1>1, <1>2 DEF Serving, Reserving, Apart
<1>5. (\A t \in Token : TokenSound(t)) /\ TokensRotateOnce /\ LogoutIsFinal
  BY <1>1, <1>2 DEF TokenSound, TokensRotateOnce, LogoutIsFinal
<1>6. \A a \in App : AppSound(a)
  BY <1>1 DEF AppSound
<1> QED
  BY <1>3, <1>4, <1>5, <1>6 DEF RInv

\* A session that goes on as before, while others change tokens it neither
\* holds nor is about to insert.
LEMMA Bystander ==
  ASSUME NEW w \in Worker, Serving(w), Reserving(w), serving'[w] = serving[w],
         signable \subseteq signable',
         \A t \in Token : tokens[t].status # "none" =>
            tokens'[t].status # "none" /\ tokens'[t].app = tokens[t].app,
         serving[w].new # Null => tokens'[serving[w].new] = tokens[serving[w].new],
         serving[w].token # Null /\ serving[w].at = "flushed"
           => tokens'[serving[w].token].status \in {tokens[serving[w].token].status, "expired"}
  PROVE  (Serving(w) /\ Reserving(w))'
  BY DEF Serving, LoggingIn, Using, Reserving, Owned, AtEase, Unissued

---------------------------------------------------------------------------
(* Calls of the app.                                                       *)

\* An app that calls with a token of its own leaves everyone sound.
LEMMA CallSound ==
  ASSUME RInv, NEW a \in App, NEW w \in Worker, NEW k, NEW u, NEW t,
         Calls(a, w, k, u, t),
         \/ k = "login" /\ u \in Account /\ t = Null
         \/ /\ k \in {"refresh", "logout"} /\ u = Null
            /\ t \in {held[a], leaving[a]} \ {Null}
            /\ k = "refresh" => t = held[a] /\ ~Waits(a, "refresh")
  PROVE  RInv'
<1> DEFINE s == [op |-> k, at |-> "asked", app |-> a, account |-> u, token |-> t, new |-> Null]
<1>1. /\ serving[w] = AtEase
      /\ serving' = [serving EXCEPT ![w] = s]
      /\ calls' = [calls EXCEPT ![a] = @ \cup {w}]
      /\ UNCHANGED <<signable, devices, tokens, held, leaving, refused, broken, ended>>
  BY DEF Calls, rotationRows
<1>2. /\ s.op = k /\ s.at = "asked" /\ s.app = a /\ s.account = u /\ s.token = t /\ s.new = Null
      /\ s # AtEase
  BY DEF AtEase
<1>3. t \in Token \cup {Null} /\ u \in Account \cup {Null} /\ k \in {"login", "refresh", "logout"}
  BY DEF RInv, RotationTypeOK
<1>4. t # Null => t \in Token /\ tokens[t].status # "none" /\ tokens[t].app = a
  BY <1>3 DEF RInv, AppSound, Owned
<1>5. RotationTypeOK'
  BY <1>1, <1>2, <1>3 DEF RInv, RotationTypeOK, Account, AtEase
<1>6. \A x \in Worker : serving'[x] = IF x = w THEN s ELSE serving[x]
  BY <1>1 DEF RInv, RotationTypeOK
<1>7. ASSUME NEW x \in Worker  PROVE  (Serving(x) /\ Reserving(x))'
  <2>1. CASE x = w
    BY <1>1, <1>2, <1>3, <1>4, <1>6, <2>1 DEF Serving, LoggingIn, Using, Reserving, Owned, AtEase
  <2>2. CASE x # w
    <3>1. Serving(x) /\ Reserving(x) /\ serving'[x] = serving[x]
      BY <1>6, <2>2 DEF RInv
    <3> QED
      BY <1>1, <3>1, Bystander
  <2> QED
    BY <2>1, <2>2
<1>8. ASSUME NEW x \in Worker, NEW y \in Worker, x # y  PROVE  Apart(x, y)'
  BY <1>1, <1>2, <1>6, <1>8 DEF RInv, Apart
<1>9. (\A x \in Token : TokenSound(x))' /\ TokensRotateOnce' /\ LogoutIsFinal'
  BY <1>1 DEF RInv, TokenSound, TokensRotateOnce, LogoutIsFinal
<1>10. ASSUME NEW b \in App  PROVE  AppSound(b)'
  <2>1. AppSound(b)
    BY DEF RInv
  <2>a. /\ calls'[b] = IF b = a THEN calls[a] \cup {w} ELSE calls[b]
        /\ calls[b] \subseteq Worker
    BY <1>1 DEF RInv, RotationTypeOK
  <2>2. calls[b] \subseteq Worker /\ calls'[b] \subseteq Worker /\ w \notin calls[b]
    BY <1>1, <2>1, <2>a DEF AppSound, AtEase
  <2>3. \A x \in calls'[b] : serving'[x].op # "none" /\ serving'[x].app = b
    BY <1>2, <1>3, <1>6, <2>1, <2>2, <2>a DEF AppSound
  <2>4. \A v, x \in calls'[b] : serving'[v].op = "refresh" /\ serving'[x].op = "refresh" => v = x
    BY <1>2, <1>3, <1>6, <2>1, <2>2, <2>a DEF AppSound, Waits
  <2>5. leaving'[b] # Null => Owned(b, leaving[b])'
    BY <1>1, <2>1 DEF AppSound, Owned
  <2>6. ASSUME held'[b] # Null
        PROVE  /\ Owned(b, held[b])'
               /\ broken'[b] \/ tokens'[held'[b]].status = "live"
               /\ \A x \in Worker : serving'[x].token = held'[b] => x \in calls'[b] \/ broken'[b]
               /\ \A x \in calls'[b] :
                    serving'[x].op = "refresh" => tokens'[held'[b]].from # serving'[x].token
    <3>1. held[b] # Null /\ held[b] \in Token /\ tokens[held[b]].app = b
      <4>1. held[b] \in Token
        BY <1>1, <2>6 DEF RInv, RotationTypeOK
      <4> QED
        BY <1>1, <2>1, <2>6, <4>1 DEF AppSound, Owned
    <3>2. tokens[held[b]].from # held[b]
      BY <3>1 DEF RInv, TokenSound
    <3>3. t = held[b] => b = a
      BY <1>4, <3>1
    <3> QED
      BY <1>1, <1>2, <1>3, <1>6, <2>1, <2>2, <2>a, <3>1, <3>2, <3>3 DEF AppSound, Owned
  <2> QED
    BY <2>3, <2>4, <2>5, <2>6 DEF AppSound
<1> QED
  BY <1>5, <1>7, <1>8, <1>9, <1>10 DEF RInv

---------------------------------------------------------------------------
(* Steps that change no token: the app decides, gives up, or is refused.   *)

\* An app that keeps or drops what it stores, while its sessions go on or end,
\* stays sound if it waits for all that go on, or was restarted.
LEMMA AppStays ==
  ASSUME NEW b \in App, AppSound(b), calls'[b] \subseteq calls[b], calls[b] \subseteq Worker,
         held'[b] \in {held[b], Null}, held[b] \in Token \cup {Null},
         leaving'[b] # Null => Owned(b, leaving[b])',
         \A w \in Worker :
            \/ /\ serving'[w].op = serving[w].op /\ serving'[w].app = serving[w].app
               /\ serving'[w].token = serving[w].token
            \/ serving'[w] = AtEase /\ w \notin calls'[b],
         \A t \in Token : tokens[t].status # "none" =>
            /\ tokens'[t].status # "none" /\ tokens'[t].app = tokens[t].app
            /\ tokens'[t].from = tokens[t].from,
         held'[b] # Null =>
            /\ broken[b] => broken'[b]
            /\ tokens[held[b]].status = "live" => broken'[b] \/ tokens'[held[b]].status = "live"
            /\ \A w \in calls[b] \ calls'[b] : broken'[b] \/ serving'[w] = AtEase
  PROVE  AppSound(b)'
<1>1. \A w \in calls'[b] : serving'[w].op # "none" /\ serving'[w].app = b
  BY DEF AppSound
<1>2. \A v, w \in calls'[b] : serving'[v].op = "refresh" /\ serving'[w].op = "refresh" => v = w
  BY DEF AppSound
<1>3. ASSUME held'[b] # Null
      PROVE  /\ Owned(b, held[b])'
             /\ broken'[b] \/ tokens'[held'[b]].status = "live"
             /\ \A w \in Worker : serving'[w].token = held'[b] => w \in calls'[b] \/ broken'[b]
             /\ \A w \in calls'[b] :
                  serving'[w].op = "refresh" => tokens'[held'[b]].from # serving'[w].token
  <2>1. held'[b] = held[b] /\ held[b] \in Token /\ Owned(b, held[b])
    BY <1>3 DEF AppSound
  <2>2. Owned(b, held[b])' /\ tokens'[held[b]].from = tokens[held[b]].from
    BY <2>1 DEF Owned
  <2>3. broken'[b] \/ tokens'[held'[b]].status = "live"
    BY <1>3, <2>1 DEF AppSound
  <2>4. ASSUME NEW w \in Worker, serving'[w].token = held'[b]
        PROVE  w \in calls'[b] \/ broken'[b]
    BY <1>3, <2>1, <2>4 DEF AppSound, AtEase
  <2>5. ASSUME NEW w \in calls'[b], serving'[w].op = "refresh"
        PROVE  tokens'[held'[b]].from # serving'[w].token
    BY <1>3, <2>1, <2>2, <2>5 DEF AppSound
  <2> QED
    BY <2>2, <2>3, <2>4, <2>5
<1> QED
  BY <1>1, <1>2, <1>3 DEF AppSound

\* Sessions that end without a change of the tables keep what concerns tables only.
LEMMA RowsStay ==
  ASSUME RInv, UNCHANGED <<rotationRows, ended>>, RotationTypeOK',
         \A w \in Worker : serving'[w] \in {serving[w], AtEase},
         \A b \in App : AppSound(b)'
  PROVE  RInv'
<1>1. UNCHANGED <<signable, tokens, ended>>
  BY DEF rotationRows
<1>2. ASSUME NEW w \in Worker  PROVE  (Serving(w) /\ Reserving(w))'
  <2>1. CASE serving'[w] = serving[w]
    <3>1. Serving(w) /\ Reserving(w)
      BY DEF RInv
    <3> QED
      BY <1>1, <2>1, <3>1, Bystander
  <2>2. CASE serving'[w] = AtEase
    BY <2>2 DEF Serving, LoggingIn, Using, Reserving, AtEase
  <2> QED
    BY <2>1, <2>2
<1>3. ASSUME NEW w \in Worker, NEW x \in Worker, w # x  PROVE  Apart(w, x)'
  <2>1. Apart(w, x)
    BY <1>3 DEF RInv
  <2> QED
    BY <2>1 DEF Apart, AtEase
<1>4. (\A t \in Token : TokenSound(t))' /\ TokensRotateOnce' /\ LogoutIsFinal'
  BY <1>1 DEF RInv, TokenSound, TokensRotateOnce, LogoutIsFinal, Unissued
<1> QED
  BY <1>2, <1>3, <1>4 DEF RInv

\* The user asks to be signed out.
LEMMA AskLogoutSound ==
  ASSUME RInv, NEW a \in App, AskLogout(a)
  PROVE  RInv'
<1>1. /\ held[a] # Null /\ leaving' = [leaving EXCEPT ![a] = held[a]]
      /\ UNCHANGED <<rotationRows, serving, calls, held, broken, refused, ended>>
      /\ UNCHANGED tokens
  BY DEF AskLogout, rotationRows
<1>2. RotationTypeOK'
  BY <1>1 DEF RInv, RotationTypeOK, rotationRows
<1>3. ASSUME NEW b \in App  PROVE  AppSound(b)'
  <2>1. AppSound(b)
    BY DEF RInv
  <2>2. leaving'[b] = IF b = a THEN held[b] ELSE leaving[b]
    BY <1>1 DEF RInv, RotationTypeOK
  <2> QED
    BY <1>1, <2>1, <2>2 DEF AppSound, Owned
<1> QED
  BY <1>1, <1>2, <1>3, RowsStay

\* A restarted app no longer waits for the calls it had made.
LEMMA RestartSound ==
  ASSUME RInv, NEW a \in App, Restart(a)
  PROVE  RInv'
<1>1. /\ calls' = [calls EXCEPT ![a] = {}]
      /\ leaving' = [leaving EXCEPT ![a] = Null]
      /\ refused' = [refused EXCEPT ![a] = FALSE]
      /\ broken' = [broken EXCEPT ![a] = TRUE]
      /\ UNCHANGED <<rotationRows, serving, held, ended>>
      /\ UNCHANGED tokens
  BY DEF Restart, rotationRows
<1>2. RotationTypeOK'
  BY <1>1 DEF RInv, RotationTypeOK, rotationRows
<1>3. ASSUME NEW b \in App  PROVE  AppSound(b)'
  <2>1. AppSound(b)
    BY DEF RInv
  <2>2. /\ calls'[b] = IF b = a THEN {} ELSE calls[b]
        /\ leaving'[b] = IF b = a THEN Null ELSE leaving[b]
        /\ broken[b] => broken'[b]
        /\ calls'[b] # calls[b] => broken'[b]
        /\ calls[b] \subseteq Worker /\ held[b] \in Token \cup {Null}
    BY <1>1 DEF RInv, RotationTypeOK
  <2>3. leaving'[b] # Null => Owned(b, leaving[b])'
    BY <1>1, <2>1, <2>2 DEF AppSound, Owned
  <2> QED
    BY <1>1, <2>1, <2>2, <2>3, AppStays
<1> QED
  BY <1>1, <1>2, <1>3, RowsStay

\* Who still waits hears that the session ended, and keeps or drops its token;
\* it drops it if the session goes on.
LEMMA HearsSound ==
  ASSUME RInv, NEW w \in Worker, NEW h, NEW l, NEW again \in BOOLEAN,
         UNCHANGED <<rotationRows, ended>>, serving[w].op # "none",
         serving' = [serving EXCEPT ![w] = AtEase] \/ (serving' = serving /\ h = Null),
         Hears(w, h, l, again, broken[serving[w].app]),
         h \in {held[serving[w].app], Null}, l \in {leaving[serving[w].app], Null},
         serving' = serving => w \in calls[serving[w].app]
  PROVE  RInv'
<1> DEFINE a == serving[w].app
<1>1. a \in App
  BY Tasks
<1>2. /\ \A x \in Worker : serving'[x] \in {serving[x], AtEase} /\ (x # w => serving'[x] = serving[x])
      /\ serving' \in [Worker -> Task]
      /\ UNCHANGED <<signable, devices, tokens, ended>>
  BY Tasks DEF rotationRows
<1>3. ASSUME w \in calls[a]  PROVE  RInv'
  <2>1. /\ calls'   = [calls EXCEPT ![a] = @ \ {w}]
        /\ held'    = [held EXCEPT ![a] = h]
        /\ leaving' = [leaving EXCEPT ![a] = l]
        /\ refused' = [refused EXCEPT ![a] = again]
        /\ broken'  = [broken EXCEPT ![a] = broken[a]]
    BY <1>3 DEF Hears
  <2>2. RotationTypeOK'
    BY <1>1, <1>2, <2>1 DEF RInv, RotationTypeOK, Task
  <2>3. ASSUME NEW b \in App  PROVE  AppSound(b)'
    <3>1. AppSound(b)
      BY DEF RInv
    <3>2. /\ calls'[b] = IF b = a THEN calls[b] \ {w} ELSE calls[b]
          /\ held'[b] = IF b = a THEN h ELSE held[b]
          /\ leaving'[b] = IF b = a THEN l ELSE leaving[b]
          /\ broken' = broken
          /\ calls[b] \subseteq Worker /\ held[b] \in Token \cup {Null}
      BY <2>1 DEF RInv, RotationTypeOK
    <3>3. leaving'[b] # Null => Owned(b, leaving[b])'
      BY <1>2, <3>1, <3>2 DEF AppSound, Owned
    <3>4. \A x \in Worker :
            \/ /\ serving'[x].op = serving[x].op /\ serving'[x].app = serving[x].app
               /\ serving'[x].token = serving[x].token
            \/ serving'[x] = AtEase /\ x \notin calls'[b]
      <4>1. b # a => w \notin calls[b]
        BY <3>1 DEF AppSound
      <4> QED
        BY <1>2, <3>2, <4>1
    <3>5. held'[b] # Null => \A x \in calls[b] \ calls'[b] : serving'[x] = AtEase
      BY <1>1, <1>2, <3>2 DEF RInv, RotationTypeOK
    <3> QED
      BY <1>2, <3>1, <3>2, <3>3, <3>4, <3>5, AppStays
  <2> QED
    BY <1>2, <2>2, <2>3, RowsStay
<1>4. ASSUME w \notin calls[a]  PROVE  RInv'
  <2>1. UNCHANGED <<calls, held, leaving, refused, broken>>
    BY <1>4 DEF Hears, appVars
  <2>2. RotationTypeOK'
    BY <1>2, <2>1 DEF RInv, RotationTypeOK, Task
  <2>3. ASSUME NEW b \in App  PROVE  AppSound(b)'
    <3>1. AppSound(b) /\ calls[b] \subseteq Worker /\ held[b] \in Token \cup {Null}
      BY DEF RInv, RotationTypeOK
    <3>2. w \notin calls[b]
      BY <1>4, <3>1 DEF AppSound
    <3>3. leaving'[b] # Null => Owned(b, leaving[b])'
      BY <1>2, <2>1, <3>1 DEF AppSound, Owned
    <3> QED
      BY <1>2, <2>1, <3>1, <3>2, <3>3, AppStays
  <2> QED
    BY <1>2, <2>2, <2>3, RowsStay
<1> QED
  BY <1>3, <1>4

\* An error clears what the app has stored.
LEMMA FailureSound ==
  ASSUME RInv, NEW w \in Worker, HearsFailure(w), serving[w].op # "none",
         UNCHANGED <<rotationRows, ended>>,
         \/ serving' = [serving EXCEPT ![w] = AtEase]
         \/ serving' = serving /\ w \in calls[serving[w].app]
  PROVE  RInv'
<1>1. serving' = serving => w \in calls[serving[w].app]
  BY Tasks
<1> QED
  BY <1>1, HearsSound DEF HearsFailure

\* The app stops waiting while its session goes on.
LEMMA GiveUpSound ==
  ASSUME RInv, NEW w \in Worker, GiveUp(w)
  PROVE  RInv'
  BY FailureSound DEF GiveUp

\* A session that is rolled back and answered with an error.
LEMMA RefusedSound ==
  ASSUME RInv, NEW w \in Worker, serving[w].op # "none", Refused(w)
  PROVE  RInv'
<1>1. serving' # serving
  BY Tasks DEF Refused
<1>2. CASE serving[w].op = "logout" /\ held[serving[w].app] # Null
  BY <1>1, <1>2, HearsSound DEF Refused, HearsRefusal
<1>3. CASE ~(serving[w].op = "logout" /\ held[serving[w].app] # Null)
  BY <1>3, FailureSound DEF Refused, HearsRefusal
<1> QED
  BY <1>2, <1>3

\* A session that nobody waits for ends.
LEMMA FailSound ==
  ASSUME RInv, NEW w \in Worker, Fail(w)
  PROVE  RInv'
<1>1. serving' # serving /\ Hears(w, Null, Null, FALSE, broken[serving[w].app])
  BY Tasks DEF Fail, Hears
<1> QED
  BY <1>1, HearsSound DEF Fail

---------------------------------------------------------------------------
(* A transaction goes on.                                                  *)

\* A session that goes on to a sound task, apart from all others.
LEMMA ProgressSound ==
  ASSUME RInv, NEW w \in Worker, NEW s \in Task, serving' = [serving EXCEPT ![w] = s],
         s.op = serving[w].op, s.app = serving[w].app, s.token = serving[w].token,
         UNCHANGED <<rotationRows, appVars, ended>>,
         (Serving(w) /\ Reserving(w))',
         \A x \in Worker : x # w => (Apart(w, x) /\ Apart(x, w))'
  PROVE  RInv'
<1>1. UNCHANGED <<signable, devices, tokens, calls, held, leaving, refused, broken, ended>>
  BY DEF rotationRows, appVars
<1>2. serving' \in [Worker -> Task] /\ \A x \in Worker : serving'[x] = IF x = w THEN s ELSE serving[x]
  BY Tasks
<1>3. RotationTypeOK'
  BY <1>1, <1>2 DEF RInv, RotationTypeOK, Task
<1>4. ASSUME NEW x \in Worker  PROVE  (Serving(x) /\ Reserving(x))'
  <2>1. CASE x # w
    <3>1. Serving(x) /\ Reserving(x) /\ serving'[x] = serving[x]
      BY <1>2, <2>1 DEF RInv
    <3> QED
      BY <1>1, <3>1, Bystander
  <2> QED
    BY <2>1
<1>5. ASSUME NEW x \in Worker, NEW y \in Worker, x # y  PROVE  Apart(x, y)'
  <2>1. CASE x # w /\ y # w
    BY <1>2, <1>5, <2>1 DEF RInv, Apart
  <2> QED
    BY <1>5, <2>1
<1>6. (\A t \in Token : TokenSound(t))' /\ TokensRotateOnce' /\ LogoutIsFinal'
  BY <1>1 DEF RInv, TokenSound, TokensRotateOnce, LogoutIsFinal, Unissued
<1>7. ASSUME NEW b \in App  PROVE  AppSound(b)'
  <2>1. AppSound(b) /\ calls[b] \subseteq Worker /\ held[b] \in Token \cup {Null}
    BY DEF RInv, RotationTypeOK
  <2>2. leaving'[b] # Null => Owned(b, leaving[b])'
    BY <1>1, <2>1 DEF AppSound, Owned
  <2> QED
    BY <1>1, <1>2, <2>1, <2>2, AppStays
<1> QED
  BY <1>3, <1>4, <1>5, <1>6, <1>7 DEF RInv

\* A login or refresh that inserts an unused token, and has looked at the account
\* or locked the token it was sent, becomes flushed.
LEMMA FlushesSound ==
  ASSUME RInv, NEW w \in Worker, NEW t \in Token, Flushes(w, t),
         serving[w].op \in {"login", "refresh"}, serving[w].at # "flushed",
         serving[w].op = "login" => serving[w].account \in signable,
         serving[w].op = "refresh" =>
            tokens[serving[w].token].status = "live" /\ FreeToken(serving[w].token)
  PROVE  RInv'
<1> DEFINE s == [serving[w] EXCEPT !.at = "flushed", !.new = t]
<1>1. serving[w] \in Task /\ s \in Task /\ serving' = [serving EXCEPT ![w] = s]
  BY Tasks DEF Flushes, Task
<1>2. /\ s.op = serving[w].op /\ s.app = serving[w].app /\ s.token = serving[w].token
      /\ s.account = serving[w].account /\ s.at = "flushed" /\ s.new = t
  BY <1>1 DEF Task
<1>a. \A x \in Worker : serving'[x] = IF x = w THEN s ELSE serving[x]
  BY <1>1, Tasks
<1> HIDE DEF s
<1>3. tokens' = tokens /\ signable' = signable /\ tokens[t] = Unissued
      /\ \A x \in Worker : serving[x].new # t
  BY DEF Flushes, rotationRows
<1>5. Serving(w) /\ \A x \in Worker : Serving(x)
  BY DEF RInv
<1>6. (Serving(w) /\ Reserving(w))'
  <2>1. serving'[w] = s
    BY <1>a
  <2>2. CASE serving[w].op = "login"
    <3>1. LoggingIn(w)
      BY <1>5, <2>2 DEF Serving
    <3> QED
      BY <1>2, <1>3, <2>1, <2>2, <3>1 DEF Serving, LoggingIn, Reserving, Unissued
  <2>3. CASE serving[w].op = "refresh"
    <3>1. Using(w)
      BY <1>5, <2>3 DEF Serving
    <3> QED
      BY <1>2, <1>3, <2>1, <2>3, <3>1 DEF Serving, Using, Owned, Reserving, Unissued
  <2> QED
    BY <2>2, <2>3
<1>7. ASSUME NEW x \in Worker, x # w  PROVE  (Apart(w, x) /\ Apart(x, w))'
  <2>1. serving[w].token # Null =>
          ~(serving[x].at = "flushed" /\ serving[x].token = serving[w].token)
    <3>1. serving[w].token # Null => FreeToken(serving[w].token)
      BY <1>5 DEF Serving, LoggingIn, Using, AtEase
    <3> QED
      <4>1. serving[x].token # Null /\ serving[x].at = "flushed" =>
              serving[x].op \in {"refresh", "logout"}
        BY <1>5, Sent
      <4> QED
        BY <3>1, <4>1 DEF FreeToken
  <2>2. t # Null
    OBVIOUS
  <2> QED
    BY <1>2, <1>3, <1>a, <1>7, <2>1, <2>2 DEF Apart
<1> QED
  BY <1>1, <1>2, <1>6, <1>7, ProgressSound DEF Flushes

\* The look-up of the account and its device.
LEMMA LoginSound ==
  ASSUME RInv, NEW w \in Worker, Login(w)
  PROVE  RInv'
<1>1. CASE serving[w].account \notin signable
  BY <1>1, RefusedSound DEF Login
<1>2. CASE serving[w].account \in signable /\ \E t \in Token : Flushes(w, t)
  BY <1>2, FlushesSound DEF Login
<1>3. CASE /\ serving[w].account \in signable
           /\ serving' = [serving EXCEPT ![w].at = "unknown device"]
           /\ UNCHANGED <<rotationRows, appVars, ended>>
  <2> DEFINE s == [serving[w] EXCEPT !.at = "unknown device"]
  <2>1. serving[w] \in Task /\ s \in Task /\ serving' = [serving EXCEPT ![w] = s]
    BY <1>3, Tasks DEF Task
  <2>2. /\ s.op = serving[w].op /\ s.app = serving[w].app /\ s.token = serving[w].token
        /\ s.account = serving[w].account /\ s.at = "unknown device" /\ s.new = serving[w].new
    BY <2>1 DEF Task
  <2>3. tokens' = tokens /\ signable' = signable /\ serving[w].op = "login" /\ serving[w].at = "asked"
    BY <1>3 DEF Login, rotationRows
  <2>4. \A x \in Worker : serving'[x] = IF x = w THEN s ELSE serving[x]
    BY <2>1, Tasks
  <2> HIDE DEF s
  <2>5. Serving(w) /\ Reserving(w)
    BY DEF RInv
  <2>6. (Serving(w) /\ Reserving(w))'
    <3>1. LoggingIn(w) /\ serving'[w] = s /\ s.new = Null /\ s.op = "login"
      BY <2>2, <2>3, <2>4, <2>5 DEF Serving, Reserving
    <3>2. LoggingIn(w)'
      BY <1>3, <2>2, <2>3, <2>4, <3>1 DEF LoggingIn, rotationRows
    <3>3. Serving(w)'
      BY <3>1, <3>2 DEF Serving
    <3>4. Reserving(w)'
      BY <2>2, <3>1 DEF Reserving
    <3> QED
      BY <3>3, <3>4
  <2>7. ASSUME NEW x \in Worker, x # w  PROVE  (Apart(w, x) /\ Apart(x, w))'
    <3>1. Apart(w, x) /\ Apart(x, w) /\ serving[w].token = Null /\ serving[w].new = Null
      BY <2>3, <2>5, <2>7 DEF RInv, Serving, LoggingIn, Reserving
    <3> QED
      BY <2>2, <2>4, <2>7, <3>1 DEF Apart
  <2> QED
    BY <1>3, <2>1, <2>2, <2>6, <2>7, ProgressSound
<1> QED
  BY <1>1, <1>2, <1>3 DEF Login

\* The insert of a device that a login did not find.
LEMMA InsertDeviceSound ==
  ASSUME RInv, NEW w \in Worker, InsertDevice(w)
  PROVE  RInv'
<1>1. serving[w].op = "login" /\ serving[w].at = "unknown device" /\ Serving(w)
  BY DEF InsertDevice, RInv
<1>2. serving[w].account \in signable
  BY <1>1 DEF Serving, LoggingIn, Using, AtEase
<1>3. Refused(w) \/ \E t \in Token : Flushes(w, t)
  BY DEF InsertDevice
<1> QED
  BY <1>1, <1>2, <1>3, RefusedSound, FlushesSound

\* The look-up of a refreshed token, under its row lock.
LEMMA RefreshSound ==
  ASSUME RInv, NEW w \in Worker, Refresh(w)
  PROVE  RInv'
<1>1. serving[w].op = "refresh" /\ serving[w].at = "asked" /\ FreeToken(serving[w].token)
  BY DEF Refresh
<1>2. \/ Refused(w)
      \/ tokens[serving[w].token].status = "live" /\ \E n \in Token : Flushes(w, n)
  BY DEF Refresh
<1> QED
  BY <1>1, <1>2, RefusedSound, FlushesSound

\* The look-up of the token to log out, under its row lock.
LEMMA LogoutSound ==
  ASSUME RInv, NEW w \in Worker, Logout(w)
  PROVE  RInv'
<1>1. serving[w].op = "logout" /\ serving[w].at = "asked" /\ FreeToken(serving[w].token)
  BY DEF Logout
<1>2. CASE Refused(w)
  BY <1>1, <1>2, RefusedSound
<1>3. CASE /\ tokens[serving[w].token].status = "live"
           /\ serving' = [serving EXCEPT ![w].at = "flushed"]
           /\ UNCHANGED <<rotationRows, appVars, ended>>
  <2> DEFINE s == [serving[w] EXCEPT !.at = "flushed"]
  <2>1. serving[w] \in Task /\ s \in Task /\ serving' = [serving EXCEPT ![w] = s]
    BY <1>3, Tasks DEF Task
  <2>2. /\ s.op = serving[w].op /\ s.app = serving[w].app /\ s.token = serving[w].token
        /\ s.account = serving[w].account /\ s.at = "flushed" /\ s.new = serving[w].new
    BY <2>1 DEF Task
  <2>3. tokens' = tokens /\ signable' = signable
    BY <1>3 DEF rotationRows
  <2>4. \A x \in Worker : serving'[x] = IF x = w THEN s ELSE serving[x]
    BY <2>1, Tasks
  <2> HIDE DEF s
  <2>5. Reserving(w) /\ \A x \in Worker : Serving(x)
    BY DEF RInv
  <2>6. (Serving(w) /\ Reserving(w))'
    <3>1. Using(w) /\ serving'[w] = s
      BY <1>1, <2>4, <2>5 DEF Serving
    <3> QED
      BY <1>1, <1>3, <2>2, <2>3, <2>5, <3>1 DEF Serving, Using, Owned, Reserving
  <2>7. ASSUME NEW x \in Worker, x # w  PROVE  (Apart(w, x) /\ Apart(x, w))'
    <3>1. ~(serving[x].at = "flushed" /\ serving[x].token = serving[w].token)
      <4>1. serving[w].token # Null
        BY <1>1, <2>5 DEF Serving, Using
      <4>2. serving[x].token # Null /\ serving[x].at = "flushed" =>
              serving[x].op \in {"refresh", "logout"}
        BY <2>5, Sent
      <4> QED
        BY <1>1, <4>1, <4>2 DEF FreeToken
    <3>2. Apart(w, x) /\ Apart(x, w)
      BY <2>7 DEF RInv
    <3> QED
      BY <2>2, <2>4, <2>7, <3>1, <3>2 DEF Apart
  <2> QED
    BY <1>3, <2>1, <2>2, <2>6, <2>7, ProgressSound
<1> QED
  BY <1>2, <1>3 DEF Logout

---------------------------------------------------------------------------
(* The transaction commits.                                                *)

\* What a commit does to the tokens: the one it was sent is revoked, and the
\* one it reserved is inserted as its successor.
Committed(w) ==
  /\ \A t \in Token \ {serving[w].new, serving[w].token} : tokens'[t] = tokens[t]
  /\ serving[w].new # Null =>
       /\ serving[w].new \in Token /\ tokens[serving[w].new] = Unissued
       /\ tokens'[serving[w].new].status = "live"
       /\ tokens'[serving[w].new].account \in signable
       /\ tokens'[serving[w].new].app = serving[w].app
       /\ tokens'[serving[w].new].from = serving[w].token
  /\ serving[w].token # Null =>
       /\ serving[w].token \in Token /\ serving[w].token # serving[w].new
       /\ tokens[serving[w].token].status \in {"live", "expired"}
       /\ tokens[serving[w].token].app = serving[w].app
       /\ tokens'[serving[w].token].status = "revoked"
       /\ tokens'[serving[w].token].account = tokens[serving[w].token].account
       /\ tokens'[serving[w].token].app = tokens[serving[w].token].app
       /\ tokens'[serving[w].token].from = tokens[serving[w].token].from

\* Every commit of a sound state is one of these changes.
LEMMA Commits ==
  ASSUME RInv, NEW w \in Worker, Answer(w)
  PROVE  /\ Committed(w) /\ serving[w].app \in App /\ RotationTypeOK'
         /\ serving[w].op \in {"login", "refresh", "logout"}
         /\ serving[w].op = "logout" => serving[w].new = Null /\ serving[w].token # Null
         /\ serving[w].op # "logout" => serving[w].new # Null
         /\ \A x \in Worker : serving'[x] = IF x = w THEN AtEase ELSE serving[x]
<1> DEFINE s == serving[w]
<1> DEFINE Row == [status  : {"none", "live", "revoked", "expired"},
                   account : Borrower \cup {Owner, Null},
                   app     : App \cup {Null},
                   from    : Token \cup {Null}]
<1>1. s.at = "flushed" /\ Serving(w) /\ Reserving(w) /\ tokens \in [Token -> Row]
  BY DEF Answer, RInv, RotationTypeOK
<1>2. s.op \in {"login", "refresh", "logout"} /\ s \in Task
  BY <1>1, Sent, Tasks DEF Serving
<1>3. s.app \in App
  BY <1>1, <1>2 DEF Serving, LoggingIn, Using
<1>4. ASSUME s.op = "login"
      PROVE  Committed(w) /\ tokens' \in [Token -> Row]
  <2>1. LoggingIn(w) /\ s.new \in Token /\ tokens[s.new] = Unissued
    BY <1>1, <1>4 DEF Serving, Reserving
  <2>2. tokens' = [tokens EXCEPT ![s.new] = Issued(s.account, s.app, Null)]
    BY <1>4 DEF Answer
  <2>a. s.account \in signable /\ s.account \in Account /\ s.token = Null
    BY <1>1, <2>1 DEF LoggingIn
  <2>3. tokens' \in [Token -> Row]
    BY <1>1, <1>3, <2>1, <2>2, <2>a DEF Issued, Account
  <2>4. /\ tokens'[s.new] = Issued(s.account, s.app, Null)
        /\ \A t \in Token \ {s.new} : tokens'[t] = tokens[t]
    BY <1>1, <2>1, <2>2
  <2>5. Committed(w)
    BY <2>1, <2>4, <2>a DEF Committed, Issued
  <2> QED
    BY <1>4, <2>1, <2>3, <2>5
<1>5. ASSUME s.op = "refresh"
      PROVE  Committed(w) /\ tokens' \in [Token -> Row]
  <2>1. /\ Using(w) /\ s.new \in Token /\ tokens[s.new] = Unissued
        /\ s.token \in Token /\ tokens[s.token].status \in {"live", "expired"}
        /\ tokens[s.token].app = s.app
    BY <1>1, <1>5 DEF Serving, Reserving, Using, Owned
  <2>2. s.token # s.new /\ tokens[s.token].account \in signable
    BY <2>1 DEF Unissued, RInv, TokenSound
  <2>3. tokens' = Rotated(s)
    BY <1>5 DEF Answer
  <2>4. tokens' \in [Token -> Row]
    BY <1>1, <1>3, <2>1, <2>2, <2>3 DEF Rotated, Issued
  <2>5. /\ tokens'[s.new] = Issued(tokens[s.token].account, tokens[s.token].app, s.token)
        /\ tokens'[s.token] = [tokens[s.token] EXCEPT !.status = "revoked"]
        /\ \A t \in Token \ {s.new, s.token} : tokens'[t] = tokens[t]
    BY <1>1, <2>1, <2>2, <2>3 DEF Rotated
  <2>6. tokens[s.token] \in Row
    BY <1>1, <2>1
  <2>7. Committed(w)
    BY <2>1, <2>2, <2>5, <2>6 DEF Committed, Issued
  <2> QED
    BY <1>5, <2>1, <2>4, <2>7
<1>6. ASSUME s.op = "logout"
      PROVE  Committed(w) /\ tokens' \in [Token -> Row]
  <2>1. /\ Using(w) /\ s.new = Null
        /\ s.token \in Token /\ tokens[s.token].status \in {"live", "expired"}
        /\ tokens[s.token].app = s.app
    BY <1>1, <1>6 DEF Serving, Reserving, Using, Owned
  <2>2. tokens' = [tokens EXCEPT ![s.token].status = "revoked"]
    BY <1>6 DEF Answer
  <2>3. tokens' \in [Token -> Row]
    BY <1>1, <2>1, <2>2
  <2>4. /\ tokens'[s.token] = [tokens[s.token] EXCEPT !.status = "revoked"]
        /\ \A t \in Token \ {s.token} : tokens'[t] = tokens[t]
        /\ tokens[s.token] \in Row
    BY <1>1, <2>1, <2>2
  <2>5. Committed(w)
    BY <2>1, <2>4 DEF Committed
  <2> QED
    BY <1>6, <2>1, <2>3, <2>5
<1>7. Committed(w) /\ tokens' \in [Token -> Row] /\ s.new \in Token \cup {Null}
  BY <1>2, <1>4, <1>5, <1>6 DEF Task
<1>8. /\ serving' \in [Worker -> Task]
      /\ \A x \in Worker : serving'[x] = IF x = w THEN AtEase ELSE serving[x]
  BY Tasks DEF Answer
<1>9. signable' = signable /\ devices' \subseteq Borrower \X App /\ ended' \subseteq Token
  <2>1. devices \subseteq Borrower \X App /\ ended \subseteq Token
    BY DEF RInv, RotationTypeOK
  <2>2. s.op = "login" /\ s.account # Owner => s.account \in Borrower
    BY <1>1 DEF Serving, LoggingIn, Account
  <2>3. s.op = "logout" => s.token \in Token
    BY <1>1 DEF Serving, Using
  <2> QED
    BY <1>3, <2>1, <2>2, <2>3 DEF Answer
<1>10. ASSUME NEW t \in Token, tokens'[t].status # "none"
       PROVE  tokens'[t].account # Null /\ tokens'[t].app # Null
  <2>1. TokenSound(t) /\ signable \subseteq Account /\ Null \notin Account /\ Null \notin App
        /\ (tokens[t].status # "none" => tokens[t].account # Null /\ tokens[t].app # Null)
    BY DEF RInv, RotationTypeOK, Account
  <2> QED
    BY <1>3, <1>7, <1>10, <2>1 DEF Committed
<1>11. /\ calls' \in [App -> SUBSET Worker] /\ held' \in [App -> Token \cup {Null}]
       /\ leaving' \in [App -> Token \cup {Null}] /\ refused' \in [App -> BOOLEAN]
       /\ broken' \in [App -> BOOLEAN]
  <2>1. /\ calls \in [App -> SUBSET Worker] /\ held \in [App -> Token \cup {Null}]
        /\ leaving \in [App -> Token \cup {Null}] /\ refused \in [App -> BOOLEAN]
        /\ broken \in [App -> BOOLEAN]
    BY DEF RInv, RotationTypeOK
  <2>2. HearsSuccess(w)
    BY DEF Answer
  <2>3. CASE w \notin calls[s.app]
    BY <1>2, <2>1, <2>2, <2>3 DEF HearsSuccess, Hears, appVars
  <2>4. CASE w \in calls[s.app]
    <3>1. \E l \in Token \cup {Null}, r \in BOOLEAN, m \in BOOLEAN : Hears(w, s.new, l, r, m)
      <4>1. /\ leaving[s.app] \in Token \cup {Null} /\ refused[s.app] \in BOOLEAN
            /\ broken[s.app] \in BOOLEAN
        BY <1>3, <2>1
      <4>2. s.op = "logout" => s.new = Null
        BY <1>1 DEF Reserving
      <4> QED
        BY <1>2, <2>2, <4>1, <4>2 DEF HearsSuccess
    <3>2. PICK l \in Token \cup {Null}, r \in BOOLEAN, m \in BOOLEAN : Hears(w, s.new, l, r, m)
      BY <3>1
    <3>3. /\ calls'   = [calls EXCEPT ![s.app] = @ \ {w}]
          /\ held'    = [held EXCEPT ![s.app] = s.new]
          /\ leaving' = [leaving EXCEPT ![s.app] = l]
          /\ refused' = [refused EXCEPT ![s.app] = r]
          /\ broken'  = [broken EXCEPT ![s.app] = m]
      BY <2>4, <3>2 DEF Hears
    <3> QED
      BY <1>3, <1>7, <2>1, <3>3
  <2> QED
    BY <2>3, <2>4
<1>12. RotationTypeOK'
  BY <1>7, <1>8, <1>9, <1>10, <1>11 DEF RInv, RotationTypeOK, Task
<1>13. /\ s.op = "logout" => s.new = Null /\ s.token # Null
       /\ s.op # "logout" => s.new # Null
  BY <1>1, <1>2 DEF Serving, Using, Reserving
<1> QED
  BY <1>2, <1>3, <1>7, <1>8, <1>12, <1>13

\* A commit keeps every promise: nobody else was about to insert the new token
\* or to change the old one, and the app that hears the answer waited for no
\* other refresh.
LEMMA AnswerSound ==
  ASSUME RInv, NEW w \in Worker, Answer(w)
  PROVE  RInv'
<1> DEFINE new == serving[w].new
<1> DEFINE old == serving[w].token
<1> DEFINE a == serving[w].app
<1>1. /\ Committed(w) /\ a \in App /\ RotationTypeOK'
      /\ serving[w].op \in {"login", "refresh", "logout"} /\ serving[w].at = "flushed"
      /\ serving[w].op = "logout" => new = Null /\ old # Null
      /\ serving[w].op # "logout" => new # Null
      /\ \A x \in Worker : serving'[x] = IF x = w THEN AtEase ELSE serving[x]
  BY Commits DEF Answer
<1>2. /\ Serving(w) /\ Reserving(w) /\ signable' = signable
      /\ \A t \in Token : TokenSound(t)
      /\ TokensRotateOnce /\ LogoutIsFinal /\ \A t \in Token : tokens[t].from \in Token \cup {Null}
  BY DEF Answer, RInv, RotationTypeOK
<1>3. /\ AtEase.op = "none" /\ AtEase.new = Null /\ AtEase.token = Null /\ AtEase.at = "rest"
      /\ Unissued.status = "none" /\ Unissued.from = Null
  BY DEF AtEase, Unissued
<1>4. \A t \in Token : tokens[t].status # "none" =>
        /\ tokens'[t].status # "none" /\ tokens'[t].app = tokens[t].app
        /\ tokens'[t].account = tokens[t].account /\ tokens'[t].from = tokens[t].from
  BY <1>1, <1>3 DEF Committed
<1>5. ASSUME NEW x \in Worker  PROVE  (Serving(x) /\ Reserving(x))'
  <2>1. CASE x = w
    BY <1>1, <1>3, <2>1 DEF Serving, Reserving
  <2>2. CASE x # w
    <3>1. Serving(x) /\ Reserving(x) /\ serving'[x] = serving[x] /\ Apart(w, x)
      BY <1>1, <2>2 DEF RInv
    <3>2. serving[x].new # Null => tokens'[serving[x].new] = tokens[serving[x].new]
      BY <1>1, <1>3, <3>1 DEF Committed, Reserving, Apart
    <3>3. serving[x].token # Null /\ serving[x].at = "flushed"
            => tokens'[serving[x].token] = tokens[serving[x].token]
      <4>1. ASSUME serving[x].token # Null  PROVE  Using(x)
        BY <3>1, <4>1, Sent DEF Serving
      <4> QED
        BY <1>1, <1>3, <3>1, <4>1 DEF Committed, Using, Owned, Apart
    <3> QED
      BY <1>2, <1>4, <3>1, <3>2, <3>3, Bystander
  <2> QED
    BY <2>1, <2>2
<1>6. ASSUME NEW x \in Worker, NEW y \in Worker, x # y  PROVE  Apart(x, y)'
  <2>1. Apart(x, y)
    BY <1>6 DEF RInv
  <2> QED
    BY <1>1, <1>3, <2>1 DEF Apart
<1>7. ASSUME NEW t \in Token  PROVE  TokenSound(t)'
  BY <1>1, <1>2, <1>3 DEF Committed, TokenSound
<1>8. TokensRotateOnce'
  <2> SUFFICES ASSUME NEW t \in Token, NEW u \in Token, tokens'[t].from # Null
               PROVE  /\ tokens'[tokens'[t].from].status = "revoked"
                      /\ tokens'[u].from = tokens'[t].from => u = t
    BY DEF TokensRotateOnce
  <2>1. \A x \in Token : x # new => tokens'[x].from = tokens[x].from
    BY <1>1 DEF Committed
  <2>2. old # Null => \A x \in Token : tokens[x].from # old
    BY <1>1, <1>2 DEF Committed, TokensRotateOnce
  <2>3. CASE t = new
    BY <1>1, <2>1, <2>2, <2>3 DEF Committed
  <2>4. CASE t # new
    <3>1. tokens'[t].from = tokens[t].from /\ tokens[t].from \in Token
      BY <1>2, <2>1, <2>4
    <3>2. tokens[tokens[t].from].status = "revoked"
      BY <1>2, <3>1 DEF TokensRotateOnce
    <3>3. tokens'[tokens[t].from] = tokens[tokens[t].from] /\ tokens[t].from # old
      BY <1>1, <1>3, <3>1, <3>2 DEF Committed
    <3>4. CASE u = new
      BY <1>1, <3>1, <3>2, <3>3, <3>4 DEF Committed
    <3>5. CASE u # new
      <4>1. tokens[t].from # Null /\ (tokens[u].from = tokens[t].from => u = t)
        BY <1>2, <3>1 DEF TokensRotateOnce
      <4>2. tokens'[u].from = tokens[u].from
        BY <2>1, <3>5
      <4> QED
        BY <3>1, <3>2, <3>3, <4>1, <4>2
    <3> QED
      BY <3>1, <3>2, <3>3, <3>4, <3>5
  <2> QED
    BY <2>3, <2>4
<1>9. LogoutIsFinal'
  <2> SUFFICES ASSUME NEW t \in ended'
               PROVE  tokens'[t].status = "revoked" /\ \A u \in Token : tokens'[u].from # t
    BY DEF LogoutIsFinal
  <2>0. ended \subseteq Token
    BY DEF RInv, RotationTypeOK
  <2>1. CASE t \in ended
    <3>1. t \in Token /\ tokens[t].status = "revoked" /\ \A u \in Token : tokens[u].from # t
      BY <1>2, <2>0, <2>1 DEF LogoutIsFinal
    <3>2. t # old /\ t # new
      BY <1>1, <1>3, <3>1 DEF Committed
    <3> QED
      BY <1>1, <3>1, <3>2 DEF Committed
  <2>2. CASE t \notin ended
    <3>1. serving[w].op = "logout" /\ t = old
      BY <2>2 DEF Answer
    <3>2. \A x \in Token : tokens[x].from # old
      BY <1>1, <1>2, <3>1 DEF Committed, TokensRotateOnce
    <3> QED
      BY <1>1, <3>1, <3>2 DEF Committed
  <2> QED
    BY <2>1, <2>2
<1>10. ASSUME NEW b \in App  PROVE  AppSound(b)'
  <2>1. /\ AppSound(b) /\ calls \in [App -> SUBSET Worker] /\ held \in [App -> Token \cup {Null}]
        /\ leaving \in [App -> Token \cup {Null}] /\ broken \in [App -> BOOLEAN]
        /\ held \in [App -> Token \cup {Null}] /\ refused \in [App -> BOOLEAN]
    BY DEF RInv, RotationTypeOK
  <2>2. HearsSuccess(w)
    BY DEF Answer
  <2>3. \A t \in Token : Owned(b, t) => Owned(b, t)'
    BY <1>4 DEF Owned
  <2>4. CASE b # a \/ w \notin calls[a]
    <3>1. /\ calls'[b] = calls[b] /\ held'[b] = held[b] /\ broken'[b] = broken[b]
          /\ leaving'[b] = leaving[b]
      BY <1>1, <2>1, <2>2, <2>4 DEF HearsSuccess, Hears, appVars
    <3>2. leaving'[b] # Null => Owned(b, leaving[b])'
      BY <2>1, <2>3, <3>1 DEF AppSound, Owned
    <3>3. w \notin calls[b]
      BY <2>1, <2>4 DEF AppSound
    <3>4. held'[b] # Null /\ tokens[held[b]].status = "live"
            => broken'[b] \/ tokens'[held[b]].status = "live"
      <4>1. held[b] # Null /\ held[b] = old => broken[b]
        BY <2>1, <3>3 DEF AppSound
      <4>2. held[b] # Null => held[b] \in Token /\ held[b] # new
        BY <1>1, <1>3, <2>1 DEF Committed, AppSound, Owned
      <4> QED
        BY <1>1, <3>1, <4>1, <4>2 DEF Committed
    <3> QED
      BY <1>1, <1>4, <2>1, <3>1, <3>2, <3>3, <3>4, AppStays
  <2>5. CASE b = a /\ w \in calls[a]
    <3>1. /\ calls'[b] = calls[b] \ {w} /\ held'[b] = new
          /\ leaving'[b] \in {leaving[b], Null}
      BY <1>1, <2>1, <2>2, <2>5 DEF HearsSuccess, Hears
    <3>2. leaving'[b] # Null => Owned(b, leaving[b])'
      BY <2>1, <2>3, <3>1 DEF AppSound, Owned
    <3>3. CASE new = Null
      BY <1>1, <1>4, <2>1, <3>1, <3>2, <3>3, AppStays
    <3>4. CASE new # Null
      <4>1. Owned(b, held[b])' /\ tokens'[held'[b]].status = "live"
        BY <1>1, <2>5, <3>1, <3>4 DEF Committed, Owned
      <4>2. ASSUME NEW x \in Worker, serving'[x].token = new  PROVE  FALSE
        <5>1. x # w /\ serving[x].token = new
          BY <1>1, <1>3, <3>4, <4>2
        <5>2. Using(x)
          BY <3>4, <5>1, Sent DEF RInv, Serving
        <5> QED
          BY <1>1, <1>3, <3>4, <5>1, <5>2 DEF Committed, Using, Owned
      <4>3. ASSUME NEW x \in calls'[b], serving'[x].op = "refresh"
            PROVE  tokens'[new].from # serving'[x].token
        <5>1. x \in Worker /\ x # w /\ serving'[x] = serving[x] /\ x \in calls[b]
          BY <1>1, <2>1, <3>1, <4>3
        <5>2. serving[w].op # "refresh"
          BY <2>1, <2>5, <4>3, <5>1 DEF AppSound
        <5>3. serving[w].op = "login"
          BY <1>1, <3>4, <5>2
        <5>4. old = Null /\ serving[x].token # Null
          BY <1>2, <4>3, <5>1, <5>3 DEF RInv, Serving, LoggingIn, Using
        <5> QED
          BY <1>1, <3>4, <5>1, <5>4 DEF Committed
      <4>4. /\ \A x \in calls'[b] : serving'[x].op # "none" /\ serving'[x].app = b
            /\ \A v, x \in calls'[b] :
                 serving'[v].op = "refresh" /\ serving'[x].op = "refresh" => v = x
        BY <1>1, <2>1, <3>1 DEF AppSound
      <4> QED
        BY <3>1, <3>2, <4>1, <4>2, <4>3, <4>4 DEF AppSound
    <3> QED
      BY <3>3, <3>4
  <2> QED
    BY <2>4, <2>5
<1> QED
  BY <1>1, <1>5, <1>6, <1>7, <1>8, <1>9, <1>10 DEF RInv

\* A token runs out of time: who holds it may find the account signed out.
LEMMA ExpireSound ==
  ASSUME RInv, NEW t \in Token, Expire(t)
  PROVE  RInv'
<1> DEFINE Row == [status  : {"none", "live", "revoked", "expired"},
                   account : Borrower \cup {Owner, Null},
                   app     : App \cup {Null},
                   from    : Token \cup {Null}]
<1>a. tokens \in [Token -> Row] /\ ended \subseteq Token
  BY DEF RInv, RotationTypeOK
<1>1. /\ tokens[t].status = "live" /\ tokens' = [tokens EXCEPT ![t].status = "expired"]
      /\ broken' = [b \in App |-> broken[b] \/ held[b] = t]
      /\ UNCHANGED <<signable, devices, serving, calls, held, leaving, refused, ended>>
  BY DEF Expire
<1>2. \A u \in Token :
        /\ tokens'[u].status = IF u = t THEN "expired" ELSE tokens[u].status
        /\ tokens'[u].account = tokens[u].account /\ tokens'[u].app = tokens[u].app
        /\ tokens'[u].from = tokens[u].from
        /\ u # t => tokens'[u] = tokens[u]
  <2>1. ASSUME NEW u \in Token
        PROVE  tokens'[u] = IF u = t THEN [tokens[t] EXCEPT !.status = "expired"] ELSE tokens[u]
    BY <1>a, <1>1
  <2>2. tokens[t] \in Row
    BY <1>a
  <2> QED
    BY <2>1, <2>2
<1>3. RotationTypeOK'
  <2>1. RotationTypeOK
    BY DEF RInv
  <2>2. broken' \in [App -> BOOLEAN]
    BY <1>1, <2>1 DEF RotationTypeOK
  <2>3. tokens' \in [Token -> Row]
    BY <1>a, <1>1
  <2>4. \A u \in Token :
          tokens'[u].status # "none" => tokens'[u].account # Null /\ tokens'[u].app # Null
    BY <1>1, <1>2, <2>1 DEF RotationTypeOK
  <2> QED
    BY <1>1, <2>1, <2>2, <2>3, <2>4 DEF RotationTypeOK
<1>4. ASSUME NEW w \in Worker  PROVE  (Serving(w) /\ Reserving(w))'
  <2>1. Serving(w) /\ Reserving(w)
    BY DEF RInv
  <2>2. serving[w].new # Null => serving[w].new \in Token /\ serving[w].new # t
    BY <1>1, <2>1 DEF Reserving, Unissued
  <2>3. serving[w].token # Null => serving[w].token \in Token
    BY <2>1, Sent DEF Serving, Using
  <2> QED
    BY <1>1, <1>2, <2>1, <2>2, <2>3, Bystander
<1>5. \A w, x \in Worker : w # x => Apart(w, x)'
  BY <1>1 DEF RInv, Apart
<1>6. \A u \in Token : TokenSound(u)'
  BY <1>1, <1>2 DEF RInv, TokenSound
<1>7. TokensRotateOnce'
  <2>1. \A u \in Token : tokens[u].from # Null =>
          tokens[u].from \in Token /\ tokens[tokens[u].from].status = "revoked"
    BY <1>a DEF RInv, TokensRotateOnce
  <2> QED
    BY <1>1, <1>2, <2>1 DEF RInv, TokensRotateOnce
<1>8. LogoutIsFinal'
  <2>1. \A u \in ended : u \in Token /\ u # t
    BY <1>a, <1>1 DEF RInv, LogoutIsFinal
  <2> QED
    BY <1>1, <1>2, <2>1 DEF RInv, LogoutIsFinal
<1>9. ASSUME NEW b \in App  PROVE  AppSound(b)'
  <2>1. AppSound(b) /\ calls[b] \subseteq Worker /\ held[b] \in Token \cup {Null}
        /\ leaving[b] \in Token \cup {Null}
    BY DEF RInv, RotationTypeOK
  <2>2. leaving'[b] # Null => Owned(b, leaving[b])'
    BY <1>1, <1>2, <2>1 DEF AppSound, Owned
  <2>3. (broken[b] => broken'[b]) /\ (held[b] = t => broken'[b])
    BY <1>1
  <2> QED
    BY <1>1, <1>2, <2>1, <2>2, <2>3, AppStays
<1> QED
  BY <1>3, <1>4, <1>5, <1>6, <1>7, <1>8, <1>9 DEF RInv

\* More accounts can sign in.
LEMMA GrowSound ==
  ASSUME RInv, signable \subseteq signable', signable' \subseteq Account,
         UNCHANGED <<devices, tokens, serving, appVars, ended>>
  PROVE  RInv'
<1>1. UNCHANGED <<devices, tokens, serving, calls, held, leaving, refused, broken, ended>>
  BY DEF appVars
<1>2. RotationTypeOK'
  BY <1>1 DEF RInv, RotationTypeOK, Account
<1>3. ASSUME NEW w \in Worker  PROVE  (Serving(w) /\ Reserving(w))'
  <2>1. Serving(w) /\ Reserving(w)
    BY DEF RInv
  <2> QED
    BY <1>1, <2>1, Bystander
<1>4. /\ \A w, x \in Worker : w # x => Apart(w, x)'
      /\ (\A t \in Token : TokenSound(t)') /\ TokensRotateOnce' /\ LogoutIsFinal'
  BY <1>1 DEF RInv, Apart, TokenSound, TokensRotateOnce, LogoutIsFinal
<1>5. \A b \in App : AppSound(b)'
  BY <1>1 DEF RInv, AppSound, Owned
<1> QED
  BY <1>2, <1>3, <1>4, <1>5 DEF RInv

\* One more account can sign in.
LEMMA EnableSound ==
  ASSUME RInv, NEW u \in Account, Enable(u)
  PROVE  RInv'
<1>1. signable \subseteq Account
  BY DEF RInv, RotationTypeOK, Account
<1> QED
  BY <1>1, GrowSound DEF Enable

---------------------------------------------------------------------------
(* The theorems.                                                           *)

\* Every step keeps the invariant.
LEMMA StepSound ==
  ASSUME RInv, [RotationNext]_rotationVars
  PROVE  RInv'
<1>1. ASSUME NEW a \in App, AppStep(a)  PROVE  RInv'
  <2>1. CASE AskLogout(a) \/ Restart(a)
    BY <2>1, AskLogoutSound, RestartSound
  <2>2. ASSUME NEW w \in Worker, CallRefresh(a, w)  PROVE  RInv'
    BY <2>2, CallSound DEF CallRefresh
  <2>3. ASSUME NEW w \in Worker, CallLogout(a, w)  PROVE  RInv'
    BY <2>3, CallSound DEF CallLogout
  <2>4. ASSUME NEW w \in Worker, NEW u \in Borrower \cup {Owner}, CallLogin(a, w, u)
        PROVE  RInv'
    BY <2>4, CallSound DEF CallLogin, Account
  <2> QED
    BY <1>1, <2>1, <2>2, <2>3, <2>4 DEF AppStep
<1>2. ASSUME NEW w \in Worker, WorkerStep(w)  PROVE  RInv'
  BY <1>2, LoginSound, InsertDeviceSound, RefreshSound, LogoutSound, AnswerSound,
     GiveUpSound, FailSound DEF WorkerStep
<1>3. ASSUME NEW t \in Token, Expire(t)  PROVE  RInv'
  BY <1>3, ExpireSound
<1>4. ASSUME NEW u \in Borrower \cup {Owner}, Enable(u)  PROVE  RInv'
  BY <1>4, EnableSound DEF Account
<1>5. CASE UNCHANGED rotationVars
  <2>1. UNCHANGED <<rotationRows, ended>> /\ UNCHANGED <<signable, devices, tokens, serving, calls, held, leaving, refused, broken, ended>>
    BY <1>5 DEF rotationVars, rotationRows, appVars
  <2>2. RotationTypeOK'
    BY <2>1 DEF RInv, RotationTypeOK
  <2>3. \A b \in App : AppSound(b)'
    BY <2>1 DEF RInv, AppSound, Owned
  <2> QED
    BY <2>1, <2>2, <2>3, RowsStay
<1> QED
  BY <1>1, <1>2, <1>3, <1>4, <1>5 DEF RotationNext, TokenStep

\* The inductive invariant holds of every behaviour.
THEOREM Invariant == RotationSpec => []RInv
<1>1. RotationInit => RInv
  BY InitSound
<1>2. RInv /\ [RotationNext]_rotationVars => RInv'
  BY StepSound
<1> QED
  BY <1>1, <1>2, PTL DEF RotationSpec

\* The variables have their types, and every issued token has an account and an app.
THEOREM RotationTypes == RotationSpec => []RotationTypeOK
<1>1. RInv => RotationTypeOK
  BY DEF RInv
<1> QED
  BY <1>1, Invariant, PTL

\* However many refreshes of a token are under way, in borrowers/auth_service.py
\* or owner_identity/service.py, at most one replacement of it is ever issued.
THEOREM RotatedOnce == RotationSpec => []TokensRotateOnce
<1>1. RInv => TokensRotateOnce
  BY DEF RInv
<1> QED
  BY <1>1, Invariant, PTL

\* No refresh outlives the logout of its token.
THEOREM LoggedOutForGood == RotationSpec => []LogoutIsFinal
<1>1. RInv => LogoutIsFinal
  BY DEF RInv
<1> QED
  BY <1>1, Invariant, PTL

\* The single flight of api_client.dart suffices: an app that hears all its
\* answers never stores, and never still presents, a token that was replaced.
THEOREM HeldTokensWork == RotationSpec => []HeldTokenIsGood
<1>1. RInv => HeldTokenIsGood
  BY DEF RInv, AppSound, HeldTokenIsGood
<1> QED
  BY <1>1, Invariant, PTL
=============================================================================
