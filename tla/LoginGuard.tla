----------------------------- MODULE LoginGuard -----------------------------
(***************************************************************************)
(* services/loginGuard.ts in front of services/auth.ts loginWithPassword:   *)
(* failures are counted from the audit log, per username and per address,   *)
(* and too many of them lock the account for a while.  Requests of several  *)
(* browsers on one address overlap; somebody else signs in from it too.     *)
(***************************************************************************)
EXTENDS Integers, Sequences, FiniteSets

CONSTANTS Callers,                         \* concurrent login requests for one account
          MaxFailures, WindowMin, LockMin, \* the security policy
          TakeRows,                        \* the take: 300 of the query
          LastMinute, MaxAttempts          \* bounds: the clock, audit rows

ASSUME LoginGuardAssumption ==
  {MaxFailures, WindowMin, LockMin, TakeRows} \subseteq Nat \ {0} /\ {LastMinute, MaxAttempts} \subseteq Nat

VARIABLES minute,
          auditRows,   \* auth.login_failed and auth.login rows, oldest first
          lockNoted,   \* minutes at which auth.login_locked was audited, newest first
          trying       \* requests between the guard and the password check

loginGuardVars == <<minute, auditRows, lockNoted, trying>>

LoginGuardInit == minute = 0 /\ auditRows = <<>> /\ lockNoted = <<>> /\ trying = {}

\* The rows, by their place in the log, that are not older than windowMin, and the
\* newest of them, which the query returns.
InWindow == {k \in DOMAIN auditRows : auditRows[k].at >= minute - WindowMin}
Queried == {k \in InWindow : k > Len(auditRows) - TakeRows}
OfUser(rows) == {k \in rows : auditRows[k].who = "me"}

\* streak: the failures newer than the latest success of the same scope, and the
\* time of the newest row.
Streak(rows) == {k \in rows : \A j \in rows : j >= k => auditRows[j].what = "failed"}
streak(rows) == [failures |-> Cardinality(Streak(rows)), last |-> {auditRows[k].at : k \in {n \in Streak(rows) : \A j \in rows : j <= n}}]

\* Mutant of loginGuardState: the lock comes one failure late.
guardOffByOne ==
  LET byUser == streak(OfUser(Queried))
      byIp == streak(Queried)
      hit == IF byIp.failures > byUser.failures THEN byIp ELSE byUser
  IN [failures |-> hit.failures, locked |-> hit.failures > MaxFailures /\ \E t \in hit.last : t + LockMin > minute]

\* loginGuardState of the account's owner: the longer streak of his name and of
\* his address, and a lock counted from that scope's newest failure.
loginGuardState ==
  LET byUser == streak(OfUser(Queried))
      byIp == streak(Queried)
      hit == IF byIp.failures > byUser.failures THEN byIp ELSE byUser
  IN [failures |-> hit.failures, locked |-> hit.failures >= MaxFailures /\ \E t \in hit.last : t + LockMin > minute]

AddRow(who, what) == auditRows' = Append(auditRows, [who |-> who, what |-> what, at |-> minute])

\* POST /api/auth/login: a locked caller is refused before the password is looked
\* at, and noteLoginLocked audits (and alerts) once per lock window.
loginGuard(c) ==
  /\ c \notin trying
  /\ IF loginGuardState.locked
     THEN /\ \A k \in DOMAIN lockNoted : lockNoted[k] < minute - LockMin
          /\ lockNoted' = <<minute>> \o lockNoted /\ UNCHANGED trying
     ELSE trying' = trying \union {c} /\ UNCHANGED lockNoted
  /\ UNCHANGED <<minute, auditRows>>

\* loginWithPassword: a wrong password and a sign-in are audited; a disabled
\* account or a missing one-time password is refused without a row.
loginWithPassword(c, what) ==
  /\ c \in trying /\ trying' = trying \ {c} /\ Len(auditRows) < MaxAttempts
  /\ IF what = "refused" THEN UNCHANGED auditRows ELSE AddRow("me", what)
  /\ UNCHANGED <<minute, lockNoted>>

\* Somebody else behind the same address signs in, or fails to.
otherUser(what) ==
  /\ Len(auditRows) < MaxAttempts /\ AddRow("other", what) /\ UNCHANGED <<minute, lockNoted, trying>>

minutePasses == minute < LastMinute /\ minute' = minute + 1 /\ UNCHANGED <<auditRows, lockNoted, trying>>

LoginGuardNext ==
  \/ \E c \in Callers : loginGuard(c) \/ \E w \in {"failed", "login", "refused"} : loginWithPassword(c, w)
  \/ \E w \in {"failed", "login"} : otherUser(w)
  \/ minutePasses

LoginGuardSpec == LoginGuardInit /\ [][LoginGuardNext]_loginGuardVars

(* ------------------------------ properties ------------------------------ *)

\* The clock, the requests and the audit rows stay within their types.
LoginGuardTypeOK ==
  /\ minute \in 0..LastMinute /\ trying \subseteq Callers /\ Len(auditRows) <= MaxAttempts
  /\ \A k \in DOMAIN auditRows : auditRows[k].at \in 0..minute

\* What loginGuardState is for: since the last success no more than maxFailures
\* wrong passwords of one account are looked at within the counting window, plus
\* one for each request that had passed the guard already when the lock began, as
\* long as the window holds no more rows than the query takes.
FailuresBounded ==
  LockMin > WindowMin /\ Cardinality(InWindow) <= TakeRows => streak(OfUser(InWindow)).failures <= MaxFailures + Cardinality(Callers) - 1

\* "Audits + alerts once per lock window" (loginGuard.ts:90): two alerts are more
\* than lockMin apart, unless two refused requests are inside noteLoginLocked at
\* the same moment (its look-up and its insert are one step here).
AlertsSpaced == \A k \in 1..(Len(lockNoted) - 1) : lockNoted[k] - lockNoted[k + 1] > LockMin

\* What the login guard promises while sign-ins overlap and the window slides.
GuardSound == LoginGuardTypeOK /\ FailuresBounded /\ AlertsSpaced
=============================================================================
