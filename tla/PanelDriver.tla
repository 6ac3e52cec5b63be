----------------------------- MODULE PanelDriver -----------------------------
(***************************************************************************)
(* panels/xui: operations on a 3x-ui panel.  Every operation is a list of   *)
(* routes (the v3 one first), each a call over a cookie session that logs   *)
(* in when needed and is replayed once when the answer is not the panel's   *)
(* (http.ts).  Calls to panels with self-signed certificates switch a       *)
(* process-wide flag for as long as they last (tls.ts).                     *)
(***************************************************************************)
EXTENDS Integers, FiniteSets

CONSTANTS PanelCalls,   \* operations under way, each with an adapter of its own
          Insecure,     \* those whose server has insecureTls
          Bearer,       \* those whose server uses an API token
          Legacy,       \* those whose panel only knows the legacy routes
          MaxOps        \* bound on operations per caller

ASSUME PanelDriverAssumption ==
  /\ Insecure \subseteq PanelCalls /\ Bearer \subseteq PanelCalls /\ Legacy \subseteq PanelCalls
  /\ IsFiniteSet(PanelCalls) /\ MaxOps \in Nat \ {0}

VARIABLES op,       \* each operation: where it is, its route, retry, what it asks for
          jar,      \* cookie and csrf of its XuiHttpClient
          tls,      \* insecureDepth, and whether certificates are verified
          applied,  \* ghost: times the panel carried the operation out
          garbled   \* ghost: times it did and the answer did not look like the panel's

driverVars == <<op, jar, tls, applied, garbled>>

NoOp == [at |-> "idle", route |-> 1, routes |-> 1, retry |-> TRUE, wants |-> "call", ops |-> 0]
NoJar == [cookie |-> "none", csrf |-> FALSE]

PanelDriverInit ==
  /\ op = [c \in PanelCalls |-> NoOp] /\ jar = [c \in PanelCalls |-> NoJar]
  /\ tls = [depth |-> 0, verify |-> TRUE]
  /\ applied = [c \in PanelCalls |-> 0] /\ garbled = [c \in PanelCalls |-> 0]

\* addClient, updateClient, deleteClient, resetClientTraffic, wipeClientIps...: a
\* fresh adapter, and one route for the v3-only reads or a v3 and a legacy one.
attempt(c, n) ==
  /\ op[c].at \in {"idle", "ok", "failed"} /\ op[c].ops < MaxOps
  /\ op' = [op EXCEPT ![c] = [NoOp EXCEPT !.at = "ready", !.routes = n, !.ops = op[c].ops + 1]]
  /\ jar' = [jar EXCEPT ![c] = NoJar]
  /\ applied' = [applied EXCEPT ![c] = 0] /\ garbled' = [garbled EXCEPT ![c] = 0]
  /\ UNCHANGED tls

\* ensureSession: without a cookie (and without a token) the login goes first.
ensureSession(c) == c \in Bearer \/ jar[c].cookie # "none"

\* withTls around fetch: the first insecure call switches verification off, the
\* last one puts it back.
enterTls(c) ==
  tls' = IF c \in Insecure THEN [depth |-> tls.depth + 1, verify |-> FALSE] ELSE tls
\* Mutant of leaveTls: the first call to end restores verification.
leaveTlsEarly(c) ==
  tls' = IF c \in Insecure THEN [depth |-> tls.depth - 1, verify |-> TRUE] ELSE tls

leaveTls(c) ==
  tls' = IF c \in Insecure THEN [depth |-> tls.depth - 1, verify |-> tls.depth = 1] ELSE tls

\* raw: the request leaves.
raw(c) ==
  /\ op[c].at = "ready"
  /\ op' = [op EXCEPT ![c].at = "sent", ![c].wants = IF ensureSession(c) THEN "call" ELSE "login"]
  /\ enterTls(c) /\ UNCHANGED <<jar, applied, garbled>>

\* login: a refused or unreachable login ends the operation; else the cookies are
\* kept and loadCsrf may or may not find a token.
login(c) ==
  /\ op[c].at = "sent" /\ op[c].wants = "login" /\ leaveTls(c)
  /\ \/ op' = [op EXCEPT ![c].at = "failed"] /\ UNCHANGED jar
     \/ /\ op' = [op EXCEPT ![c].at = "ready"]
        /\ \E t \in BOOLEAN : jar' = [jar EXCEPT ![c] = [cookie |-> "good", csrf |-> t]]
  /\ UNCHANGED <<applied, garbled>>

\* The panel knows this route.  External.
RouteExists(c) == c \notin Legacy \/ op[c].route > 1
Accepts(c) == c \in Bearer \/ jar[c].cookie = "good"

\* MissingEndpointError: the next route of the list, if there is one.
missingEndpoint(c) ==
  /\ op[c].at = "sent" /\ op[c].wants = "call" /\ ~RouteExists(c) /\ leaveTls(c)
  /\ op' = [op EXCEPT ![c].at = IF op[c].route < op[c].routes THEN "ready" ELSE "failed",
                      ![c].route = @ + 1, ![c].retry = TRUE]
  /\ UNCHANGED <<jar, applied, garbled>>

\* A redirect, a 401/403 or a body that is not JSON: with a cookie session the
\* client logs in again and replays the call once, whether or not the first one was
\* carried out (a gateway may replace the panel's answer).
replay(c, done) ==
  /\ op[c].at = "sent" /\ op[c].wants = "call" /\ RouteExists(c) /\ (done => Accepts(c)) /\ leaveTls(c)
  /\ applied' = [applied EXCEPT ![c] = @ + (IF done THEN 1 ELSE 0)]
  /\ garbled' = [garbled EXCEPT ![c] = @ + (IF done THEN 1 ELSE 0)]
  /\ IF op[c].retry /\ c \notin Bearer
     THEN op' = [op EXCEPT ![c].at = "ready", ![c].retry = FALSE] /\ jar' = [jar EXCEPT ![c] = NoJar]
     ELSE op' = [op EXCEPT ![c].at = "failed"] /\ UNCHANGED jar

\* The panel's own answer: carried out, or refused with success = false.
answer(c, ok) ==
  /\ op[c].at = "sent" /\ op[c].wants = "call" /\ RouteExists(c) /\ Accepts(c) /\ leaveTls(c)
  /\ applied' = [applied EXCEPT ![c] = @ + (IF ok THEN 1 ELSE 0)]
  /\ op' = [op EXCEPT ![c].at = IF ok THEN "ok" ELSE "failed"] /\ UNCHANGED <<jar, garbled>>

\* The abort timer or a broken connection: PanelError, carried out or not.
connectionFails(c, done) ==
  /\ op[c].at = "sent" /\ op[c].wants = "call" /\ (done => RouteExists(c) /\ Accepts(c)) /\ leaveTls(c)
  /\ applied' = [applied EXCEPT ![c] = @ + (IF done THEN 1 ELSE 0)]
  /\ op' = [op EXCEPT ![c].at = "failed"] /\ UNCHANGED <<jar, garbled>>

\* The panel restarts or ends the session: the cookie is no longer accepted.
sessionEnds(c) ==
  /\ jar[c].cookie = "good" /\ jar' = [jar EXCEPT ![c].cookie = "stale"] /\ UNCHANGED <<op, tls, applied, garbled>>

CallStep(c) ==
  \/ raw(c) \/ login(c) \/ missingEndpoint(c)
  \/ \E b \in BOOLEAN : replay(c, b) \/ answer(c, b) \/ connectionFails(c, b)

PanelDriverNext ==
  \E c \in PanelCalls : CallStep(c) \/ sessionEnds(c) \/ \E n \in 1..2 : attempt(c, n)

\* The abort timer ends every request, so every call step is eventually taken.
PanelDriverFairness == \A c \in PanelCalls : WF_driverVars(CallStep(c))

PanelDriverSpec == PanelDriverInit /\ [][PanelDriverNext]_driverVars

(* ------------------------------ properties ------------------------------ *)
\* Calls, cookies and the TLS switch stay within their types.
PanelDriverTypeOK ==
  /\ tls.depth \in 0..Cardinality(PanelCalls) /\ tls.verify \in BOOLEAN
  /\ \A c \in PanelCalls : /\ op[c].at \in {"idle", "ready", "sent", "ok", "failed"}
                           /\ op[c].route \in 1..3 /\ jar[c].cookie \in {"none", "good", "stale"}

\* An operation is carried out once, and a second time only when the first answer
\* was garbled; one that reports success was carried out; the fallback route is
\* tried only when the first one did nothing.
AppliedOnce ==
  \A c \in PanelCalls : /\ applied[c] <= 1 + garbled[c] /\ garbled[c] <= 2 /\ applied[c] <= 2
                        /\ op[c].at = "ok" => applied[c] >= 1
                        /\ op[c].route = 2 /\ op[c].at = "ready" /\ op[c].retry => applied[c] = 0

\* "for the duration of the call (ref-counted)" (tls.ts:3): verification is off
\* exactly while a request to a self-signed panel is out, whatever order
\* overlapping requests end in.
VerifyRestored == tls.verify <=> \A c \in Insecure : op[c].at # "sent"

\* Every operation ends, whatever the panel answers.
OperationEnds == \A c \in PanelCalls : op[c].at \in {"ready", "sent"} ~> op[c].at \in {"ok", "failed"}

\* What a call to a panel promises, whatever the panel answers.
PanelCallsSound == [](PanelDriverTypeOK /\ AppliedOnce /\ VerifyRestored) /\ OperationEnds
=============================================================================
