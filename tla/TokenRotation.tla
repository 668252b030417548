---------------------------- MODULE TokenRotation ----------------------------
(***************************************************************************)
(* Refresh tokens of borrowers and of the owner, and the apps that hold    *)
(* them: login, rotation and logout as transactions of the server          *)
(* (borrowers/auth_service.py, owner_identity/service.py), and an app that *)
(* stores one token, refreshes in a single flight, may give up waiting for *)
(* an answer and may be restarted (api_client.dart, auth_controller.dart). *)
(*                                                                         *)
(* A refresh and a logout lock the row of the token they were sent; a      *)
(* login locks nothing and records the app's device when it finds none.    *)
(***************************************************************************)
EXTENDS Naturals

CONSTANTS App,      \* installed apps, each on a device of its own
          Borrower, \* accounts of borrowers
          Owner,    \* the owner's account, which has no devices
          Token,    \* bound: refresh tokens ever issued
          Worker,   \* concurrent database sessions
          Null      \* no app, no account, no token

ASSUME RotationAssumption ==
  Null \notin App \cup Borrower \cup {Owner} \cup Token /\ Owner \notin Borrower

VARIABLES signable, \* accounts that can sign in
          devices,  \* rows of borrower_devices, as <<borrower, app>>
          tokens,   \* tokens[t]: the row of refresh token t
          serving,  \* serving[w]: what session w is doing
          calls,    \* calls[a]: the sessions whose answer app a waits for
          held,     \* held[a]: the refresh token that app a has stored
          leaving,  \* leaving[a]: the token whose logout the user has asked for
          refused,  \* refused[a]: that logout was answered with 401
          broken,   \* history: broken[a]: a may have missed the end of its token
          ended     \* history: tokens that were logged out

rotationRows == <<signable, devices, tokens>>
appVars      == <<calls, held, leaving, refused, broken>>
rotationVars == <<rotationRows, serving, appVars, ended>>

Unissued == [status |-> "none", account |-> Null, app |-> Null, from |-> Null]
AtEase   == [op |-> "none", at |-> "rest", app |-> Null, account |-> Null,
             token |-> Null, new |-> Null]

RotationInit ==
  /\ signable = {}
  /\ devices  = {}
  /\ tokens   = [t \in Token |-> Unissued]
  /\ serving  = [w \in Worker |-> AtEase]
  /\ calls    = [a \in App |-> {}]
  /\ held     = [a \in App |-> Null]
  /\ leaving  = [a \in App |-> Null]
  /\ refused  = [a \in App |-> FALSE]
  /\ broken   = [a \in App |-> FALSE]
  /\ ended    = {}

---------------------------------------------------------------------------
(* The app calls.                                                          *)

Waits(a, op) == \E w \in calls[a] : serving[w].op = op

Calls(a, w, op, u, t) ==
  /\ serving[w] = AtEase
  /\ serving' = [serving EXCEPT ![w] = [op |-> op, at |-> "asked", app |-> a, account |-> u,
                                        token |-> t, new |-> Null]]
  /\ calls'   = [calls EXCEPT ![a] = @ \cup {w}]
  /\ UNCHANGED <<rotationRows, held, leaving, refused, broken, ended>>

\* The user signs in with the right password or PIN.
CallLogin(a, w, u) ==
  held[a] = Null /\ ~Waits(a, "login") /\ Calls(a, w, "login", u, Null)

\* (mutant) Every request that is answered with 401 refreshes on its own.
CallRefreshEach(a, w) == held[a] # Null /\ Calls(a, w, "refresh", Null, held[a])

\* A request was answered with 401 or the app has been started; in a single
\* flight, "to prevent token rotation race conditions".
CallRefresh(a, w) ==
  held[a] # Null /\ ~Waits(a, "refresh") /\ Calls(a, w, "refresh", Null, held[a])

\* The user signs out ...
AskLogout(a) ==
  /\ held[a] # Null /\ leaving[a] = Null
  /\ leaving' = [leaving EXCEPT ![a] = held[a]]
  /\ UNCHANGED <<rotationRows, serving, calls, held, refused, broken, ended>>

\* ... which sends the token stored at that moment, and after a 401 sends it
\* again once a refresh has succeeded.
CallLogout(a, w) ==
  /\ leaving[a] # Null /\ ~refused[a] /\ ~Waits(a, "logout")
  /\ Calls(a, w, "logout", Null, leaving[a])

---------------------------------------------------------------------------
(* The app hears the answer, or an error, when it still waits for it.      *)

Hears(w, token, asked, again, missed) ==
  LET a == serving[w].app IN
  IF w \in calls[a]
  THEN /\ calls'   = [calls EXCEPT ![a] = @ \ {w}]
       /\ held'    = [held EXCEPT ![a] = token]
       /\ leaving' = [leaving EXCEPT ![a] = asked]
       /\ refused' = [refused EXCEPT ![a] = again]
       /\ broken'  = [broken EXCEPT ![a] = missed]
  ELSE UNCHANGED appVars

\* Tokens of a login or a refresh are stored; after a logout all is cleared.
HearsSuccess(w) ==
  LET a == serving[w].app IN
  CASE serving[w].op = "login"   -> Hears(w, serving[w].new, leaving[a], refused[a], FALSE)
    [] serving[w].op = "refresh" -> Hears(w, serving[w].new, leaving[a], FALSE, FALSE)
    [] serving[w].op = "logout"  -> Hears(w, Null, Null, FALSE, broken[a])

\* Any error clears the storage; an error of the refresh that a refused logout
\* waits for ends the logout too.
HearsFailure(w) ==
  LET a == serving[w].app IN
  Hears(w, Null, IF serving[w].op = "logout" \/ refused[a] THEN Null ELSE leaving[a],
        FALSE, broken[a])

\* A logout that is answered with 401 is tried again after a refresh, if there
\* is a token to refresh with.
HearsRefusal(w) ==
  LET a == serving[w].app IN
  IF serving[w].op = "logout" /\ held[a] # Null
  THEN Hears(w, held[a], leaving[a], TRUE, broken[a])
  ELSE HearsFailure(w)

\* A timeout or a broken connection; the server goes on.
GiveUp(w) ==
  /\ serving[w].op # "none" /\ w \in calls[serving[w].app]
  /\ HearsFailure(w)
  /\ UNCHANGED <<rotationRows, serving, ended>>

\* The app is killed and started again; the stored token survives.
Restart(a) ==
  /\ calls[a] # {}
  /\ calls'   = [calls EXCEPT ![a] = {}]
  /\ leaving' = [leaving EXCEPT ![a] = Null]
  /\ refused' = [refused EXCEPT ![a] = FALSE]
  /\ broken'  = [broken EXCEPT ![a] = TRUE]
  /\ UNCHANGED <<rotationRows, serving, held, ended>>

---------------------------------------------------------------------------
(* The server's transactions.                                              *)

\* Rolled back, and answered with 401 or, for a collision, 500.
Refused(w) ==
  /\ serving' = [serving EXCEPT ![w] = AtEase]
  /\ HearsRefusal(w)
  /\ UNCHANGED <<rotationRows, ended>>

Flushes(w, t) ==
  /\ tokens[t] = Unissued /\ \A x \in Worker : serving[x].new # t
  /\ serving' = [serving EXCEPT ![w].at = "flushed", ![w].new = t]
  /\ UNCHANGED <<rotationRows, appVars, ended>>

\* The account can sign in, and its device, if it needs one, is known or not.
Login(w) ==
  LET u == serving[w].account
      a == serving[w].app IN
  /\ serving[w].op = "login" /\ serving[w].at = "asked"
  /\ IF u \notin signable THEN Refused(w)
     ELSE IF u = Owner \/ <<u, a>> \in devices THEN \E t \in Token : Flushes(w, t)
     ELSE /\ serving' = [serving EXCEPT ![w].at = "unknown device"]
          /\ UNCHANGED <<rotationRows, appVars, ended>>

\* The device is inserted, which waits for another insert of it and collides
\* with a committed one (the handler turns that into no answer of its own: 500).
InsertDevice(w) ==
  /\ serving[w].op = "login" /\ serving[w].at = "unknown device"
  /\ ~ \E x \in Worker : /\ serving[x].op = "login" /\ serving[x].at = "flushed"
                         /\ serving[x].account = serving[w].account
                         /\ serving[x].app = serving[w].app
  /\ IF <<serving[w].account, serving[w].app>> \in devices
     THEN Refused(w)
     ELSE \E t \in Token : Flushes(w, t)

\* (mutant) SELECT without FOR UPDATE: the token is read by everyone.
FreeTokenUnlocked(t) == TRUE

\* No transaction holds the row lock of the token.
FreeToken(t) ==
  \A x \in Worker : ~(serving[x].op \in {"refresh", "logout"} /\ serving[x].at = "flushed"
                      /\ serving[x].token = t)

\* The token is good for a replacement of the same account and device.
Refresh(w) ==
  LET t == serving[w].token IN
  /\ serving[w].op = "refresh" /\ serving[w].at = "asked"
  /\ FreeToken(t)
  /\ IF /\ tokens[t].status = "live"
        /\ tokens[t].account \in signable
        /\ tokens[t].app = serving[w].app
        /\ tokens[t].account # Owner => <<tokens[t].account, tokens[t].app>> \in devices
     THEN \E n \in Token : Flushes(w, n)
     ELSE Refused(w)

Logout(w) ==
  LET t == serving[w].token IN
  /\ serving[w].op = "logout" /\ serving[w].at = "asked"
  /\ FreeToken(t)
  /\ IF tokens[t].status = "live"
     THEN /\ serving' = [serving EXCEPT ![w].at = "flushed"]
          /\ UNCHANGED <<rotationRows, appVars, ended>>
     ELSE Refused(w)

Issued(u, a, t) == [status |-> "live", account |-> u, app |-> a, from |-> t]

\* (mutant) The refreshed token is left as it is.
RotatedKeeping(s) ==
  [tokens EXCEPT ![s.new] = Issued(tokens[s.token].account, tokens[s.token].app, s.token)]

\* (mutant) The replacement is for whom the request names: a refresh names nobody.
RotatedForCaller(s) ==
  [tokens EXCEPT ![s.new] = Issued(s.account, s.app, s.token), ![s.token].status = "revoked"]

\* The replacement is inserted and the refreshed token revoked.
Rotated(s) ==
  [tokens EXCEPT ![s.new] = Issued(tokens[s.token].account, tokens[s.token].app, s.token),
                 ![s.token].status = "revoked"]

\* The transaction commits, and its answer is on its way.
Answer(w) ==
  LET s == serving[w] IN
  /\ s.at = "flushed"
  /\ tokens'  = CASE s.op = "login"   -> [tokens EXCEPT ![s.new] = Issued(s.account, s.app, Null)]
                  [] s.op = "refresh" -> Rotated(s)
                  [] s.op = "logout"  -> [tokens EXCEPT ![s.token].status = "revoked"]
  /\ devices' = IF s.op = "login" /\ s.account # Owner
                THEN devices \cup {<<s.account, s.app>>} ELSE devices
  /\ ended'   = IF s.op = "logout" THEN ended \cup {s.token} ELSE ended
  /\ serving' = [serving EXCEPT ![w] = AtEase]
  /\ HearsSuccess(w)
  /\ UNCHANGED signable

\* A transaction that nobody waits for fails.
Fail(w) ==
  /\ serving[w].op # "none" /\ w \notin calls[serving[w].app]
  /\ serving' = [serving EXCEPT ![w] = AtEase]
  /\ UNCHANGED <<rotationRows, appVars, ended>>

\* Time passes beyond the expires_at of a token.
Expire(t) ==
  /\ tokens[t].status = "live"
  /\ tokens' = [tokens EXCEPT ![t].status = "expired"]
  /\ broken' = [a \in App |-> broken[a] \/ held[a] = t]
  /\ UNCHANGED <<signable, devices, serving, calls, held, leaving, refused, ended>>

\* An account is activated, or the owner created.
Enable(u) ==
  /\ signable' = signable \cup {u}
  /\ UNCHANGED <<devices, tokens, serving, appVars, ended>>

---------------------------------------------------------------------------

AppStep(a) ==
  \/ AskLogout(a) \/ Restart(a)
  \/ \E w \in Worker : \/ CallRefresh(a, w) \/ CallLogout(a, w)
                       \/ \E u \in Borrower \cup {Owner} : CallLogin(a, w, u)

WorkerStep(w) ==
  \/ Login(w) \/ InsertDevice(w) \/ Refresh(w) \/ Logout(w)
  \/ Answer(w) \/ GiveUp(w) \/ Fail(w)

TokenStep ==
  \/ \E a \in App : AppStep(a)
  \/ \E w \in Worker : WorkerStep(w)
  \/ \E t \in Token : Expire(t)

RotationNext == TokenStep \/ \E u \in Borrower \cup {Owner} : Enable(u)

RotationSpec == RotationInit /\ [][RotationNext]_rotationVars

---------------------------------------------------------------------------
(* Properties.                                                             *)

\* Types of the variables; a token that was issued is somebody's, on some device.
RotationTypeOK ==
  /\ signable \subseteq Borrower \cup {Owner}
  /\ devices \subseteq Borrower \X App
  /\ tokens \in [Token -> [status  : {"none", "live", "revoked", "expired"},
                           account : Borrower \cup {Owner, Null},
                           app     : App \cup {Null},
                           from    : Token \cup {Null}]]
  /\ \A t \in Token :
       tokens[t].status # "none" => tokens[t].account # Null /\ tokens[t].app # Null
  /\ serving \in [Worker -> [op      : {"none", "login", "refresh", "logout"},
                             at      : {"rest", "asked", "unknown device", "flushed"},
                             app     : App \cup {Null},
                             account : Borrower \cup {Owner, Null},
                             token   : Token \cup {Null},
                             new     : Token \cup {Null}]]
  /\ calls \in [App -> SUBSET Worker]
  /\ held \in [App -> Token \cup {Null}]
  /\ leaving \in [App -> Token \cup {Null}]
  /\ refused \in [App -> BOOLEAN]
  /\ broken \in [App -> BOOLEAN]
  /\ ended \subseteq Token

\* A token is exchanged for one other, and is then of no more use: two
\* refreshes that were sent the same token do not both succeed.
TokensRotateOnce ==
  \A t, u \in Token :
     tokens[t].from # Null =>
        /\ tokens[tokens[t].from].status = "revoked"
        /\ tokens[u].from = tokens[t].from => u = t

\* A token that was logged out is revoked and has no successor, also when a
\* refresh of it was under way.
LogoutIsFinal ==
  \A t \in ended : tokens[t].status = "revoked" /\ \A u \in Token : tokens[u].from # t

\* An app that waits for no answer, and was not restarted while it waited for
\* one, holds a live token; and no refresh under way was sent the token that
\* the stored one replaced: its refusal would sign the user out.
HeldTokenIsGood ==
  \A a \in App :
     held[a] # Null =>
        /\ ~broken[a] /\ calls[a] = {} => tokens[held[a]].status = "live"
        /\ \A w \in calls[a] :
             serving[w].op = "refresh" => tokens[held[a]].from # serving[w].token
=============================================================================
