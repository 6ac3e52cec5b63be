------------------------------ MODULE Sessions ------------------------------
(***************************************************************************)
(* One operator account and its browsers: session rows and 2FA              *)
(* (services/auth.ts, services/admins.ts, security/totp.ts), the emailed    *)
(* login code kept in one settings row (services/mailer.ts), the cookies,   *)
(* and the idle gate (lib/auth.ts, middleware.ts, api/auth).  A password   *)
(* check and the session row it leads to are one step.                      *)
(***************************************************************************)
EXTENDS Integers, FiniteSets

CONSTANTS Browsers,
          CodeTries,    \* wrong codes before the code is dropped (5)
          MaxCodes, MaxPasswords \* bounds: codes mailed, password changes

ASSUME SessionsAssumption == CodeTries \in Nat \ {0} /\ MaxCodes \in Nat /\ MaxPasswords \in Nat

VARIABLES account,   \* password version, isActive, 2FA, codes mailed
          session,   \* Session row of the last sign-in from each browser
          cookie,    \* srp_session and srp_idle of each browser
          codeRow,   \* the login_codes entry of the account; no = 0: none
          signing,   \* sign-ins that passed the password, and the code they will show
          opened     \* ghost: how many sign-ins each code has opened

sessionVars == <<account, session, cookie, codeRow, signing, opened>>

NoCode == [no |-> 0, live |-> FALSE, tries |-> 0]
SignedOut == [on |-> FALSE, pw |-> 0]
NoCookie == [session |-> FALSE, idle |-> FALSE]

SessionsInit ==
  /\ account = [pw |-> 1, active |-> TRUE, totp |-> "off", codes |-> 0]
  /\ session = [b \in Browsers |-> SignedOut] /\ cookie = [b \in Browsers |-> NoCookie]
  /\ codeRow = NoCode /\ signing = [b \in Browsers |-> -1] /\ opened = [c \in 1..MaxCodes |-> 0]

(* -------------------------------- signing in ---------------------------- *)

\* verifyTotp: the code of the current 30 s step or of a neighbour; a correct
\* authenticator always passes, so what matters is whether one is shown.
\* loginWithPassword with the right password: a disabled account, or 2FA without
\* its code, is refused; else a session row appears, no cookie yet.
openSession(b, shown, otp) ==
  /\ signing[b] = -1 /\ ~cookie[b].session /\ account.active /\ (account.totp = "on" => otp)
  /\ session' = [session EXCEPT ![b] = [on |-> TRUE, pw |-> account.pw]]
  /\ signing' = [signing EXCEPT ![b] = shown]
  /\ UNCHANGED <<account, cookie, codeRow, opened>>

\* requestLoginCode: a fresh code replaces the account's entry, expired ones go.
requestLoginCode ==
  /\ account.active /\ account.codes < MaxCodes /\ account' = [account EXCEPT !.codes = @ + 1]
  /\ codeRow' = [no |-> account.codes + 1, live |-> TRUE, tries |-> 0]
  /\ UNCHANGED <<session, cookie, signing, opened>>

codeExpires ==
  /\ codeRow.live /\ codeRow' = [codeRow EXCEPT !.live = FALSE]
  /\ UNCHANGED <<account, session, cookie, signing, opened>>

\* consumeLoginCode and the rest of POST /api/auth/login: an expired or used-up
\* code is dropped, a wrong one counted, the right one dropped and the cookies set;
\* a sign-in without its code loses the fresh session row again.
consumeLoginCode(b) ==
  LET refused == session' = [session EXCEPT ![b] = SignedOut] /\ UNCHANGED <<cookie, opened>>
      spent == ~codeRow.live \/ codeRow.tries >= CodeTries
      right == codeRow.no # 0 /\ ~spent /\ signing[b] = codeRow.no IN
  /\ signing[b] # -1 /\ signing' = [signing EXCEPT ![b] = -1]
  /\ \/ (signing[b] = 0 \/ codeRow.no = 0) /\ refused /\ UNCHANGED codeRow
     \/ signing[b] # 0 /\ codeRow.no # 0 /\ spent /\ refused /\ codeRow' = NoCode
     \/ signing[b] # 0 /\ codeRow.no # 0 /\ ~spent /\ ~right /\ refused /\ codeRow' = [codeRow EXCEPT !.tries = @ + 1]
     \/ /\ right /\ codeRow' = NoCode /\ opened' = [opened EXCEPT ![codeRow.no] = @ + 1]
        /\ cookie' = [cookie EXCEPT ![b] = [session |-> TRUE, idle |-> TRUE]] /\ UNCHANGED session
  /\ UNCHANGED account

(* --------------------------- a signed-in browser ------------------------ *)

\* getSessionAdmin behind requireAdmin.
getSessionAdmin(b) == cookie[b].session /\ session[b].on /\ account.active

\* drop of the logout route: the row is revoked and both cookies deleted.
Drop(b) == cookie' = [cookie EXCEPT ![b] = NoCookie] /\ session' = [session EXCEPT ![b] = SignedOut]
logout(b) == cookie[b].session /\ Drop(b) /\ UNCHANGED <<account, codeRow, signing, opened>>

\* middleware: a page load without the idle marker is sent to the logout route;
\* with it (or from the heartbeat) the marker's lifetime starts again.
middleware(b) ==
  /\ cookie[b].session /\ ~cookie[b].idle /\ Drop(b) /\ UNCHANGED <<account, codeRow, signing, opened>>

\* The idle window passes; a heartbeat, which only requireAdmin guards, renews
\* the marker, even one that is gone already.
idleRunsOut(b) ==
  /\ cookie[b].idle /\ cookie' = [cookie EXCEPT ![b].idle = FALSE]
  /\ UNCHANGED <<account, session, codeRow, signing, opened>>
heartbeat(b) ==
  /\ getSessionAdmin(b) /\ ~cookie[b].idle /\ cookie' = [cookie EXCEPT ![b].idle = TRUE]
  /\ UNCHANGED <<account, session, codeRow, signing, opened>>

\* No maxAge: a closed window drops the session cookie, and no row.
browserCloses(b) ==
  /\ cookie[b].session /\ cookie' = [cookie EXCEPT ![b].session = FALSE]
  /\ UNCHANGED <<account, session, codeRow, signing, opened>>

\* Mutant of changeOwnPassword: the other sessions stay.
changePasswordOnly(b) ==
  /\ getSessionAdmin(b) /\ account.pw <= MaxPasswords
  /\ account' = [account EXCEPT !.pw = @ + 1]
  /\ session' = [c \in Browsers |-> IF c = b THEN [session[b] EXCEPT !.pw = account.pw + 1] ELSE session[c]]
  /\ UNCHANGED <<cookie, codeRow, signing, opened>>

\* POST /api/auth/password: changeOwnPassword, then revokeOtherSessions.
changeOwnPassword(b) ==
  /\ getSessionAdmin(b) /\ account.pw <= MaxPasswords
  /\ account' = [account EXCEPT !.pw = @ + 1]
  /\ session' = [c \in Browsers |-> IF c = b THEN [session[b] EXCEPT !.pw = account.pw + 1] ELSE SignedOut]
  /\ UNCHANGED <<cookie, codeRow, signing, opened>>

\* beginTotpSetup stores a pending secret and switches 2FA off until confirmTotp
\* has seen a live code; disableTotp clears it.
totp(b, to) ==
  /\ getSessionAdmin(b) /\ to # account.totp /\ (to # "pending" => account.totp # "off")
  /\ account' = [account EXCEPT !.totp = to] /\ UNCHANGED <<session, cookie, codeRow, signing, opened>>

\* updateAdmin by the owner: deactivating or a new password revokes every session.
updateAdmin(active, newPw) ==
  /\ (newPw => account.pw <= MaxPasswords) /\ (newPw \/ active # account.active)
  /\ account' = [account EXCEPT !.active = active, !.pw = IF newPw THEN @ + 1 ELSE @]
  /\ session' = IF newPw \/ ~active THEN [c \in Browsers |-> SignedOut] ELSE session
  /\ UNCHANGED <<cookie, codeRow, signing, opened>>

SessionsNext ==
  \/ \E b \in Browsers :
       \/ \E c \in 0..MaxCodes, otp \in BOOLEAN : openSession(b, c, otp)
       \/ consumeLoginCode(b) \/ changeOwnPassword(b) \/ browserCloses(b)
       \/ logout(b) \/ middleware(b) \/ idleRunsOut(b) \/ heartbeat(b)
       \/ \E to \in {"pending", "on", "off"} : totp(b, to)
  \/ requestLoginCode \/ codeExpires
  \/ \E active, newPw \in BOOLEAN : updateAdmin(active, newPw)

SessionsSpec == SessionsInit /\ [][SessionsNext]_sessionVars

(* ------------------------------ properties ------------------------------ *)

\* Account, code and browsers stay within their types.
SessionsTypeOK ==
  /\ account.totp \in {"off", "pending", "on"} /\ account.pw \in 1..(MaxPasswords + 1)
  /\ codeRow.no \in 0..MaxCodes /\ codeRow.tries \in 0..CodeTries
  /\ signing \in [Browsers -> -1..MaxCodes]

\* "a changed password must not leave old browsers signed in"
\* (api/auth/password/route.ts:14): after a change by the operator or the owner
\* only sign-ins with the new password, and the browser that made the change,
\* pass requireAdmin, also when a sign-in was waiting for its emailed code.
OldPasswordSignedOut == \A b \in Browsers : getSessionAdmin(b) => session[b].pw = account.pw

\* "One shot" (mailer.ts:247): a mailed code opens at most one sign-in, and only
\* the newest one mailed opens any.
CodeOpensOnce ==
  /\ \A c \in 1..MaxCodes : opened[c] <= 1
  /\ codeRow.no # 0 => codeRow.no = account.codes /\ opened[codeRow.no] = 0

\* What sign-in promises while passwords, codes and accounts change under it.
SessionsSound == SessionsTypeOK /\ OldPasswordSignedOut /\ CodeOpensOnce
=============================================================================
