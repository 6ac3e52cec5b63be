------------------------------ MODULE AdminDesk -----------------------------
(***************************************************************************)
(* Reseller accounts as the owner edits them (services/admins.ts, the bulk  *)
(* actions of services/adminAdmin.ts) and their API keys (apikeys.ts).      *)
(* Checks and the writes they guard are separate steps; each member of Desks *)
(* is one request handler.                                                   *)
(***************************************************************************)
EXTENDS Integers, Sequences

CONSTANTS Resellers, Desks,
          MaxKeys,       \* active API keys per admin (20)
          LastDay, MaxDeskOps \* bounds: the clock, the number of requests

ASSUME AdminDeskAssumption == MaxKeys \in Nat \ {0} /\ LastDay \in Nat /\ MaxDeskOps \in Nat

VARIABLES reseller,  \* exists, isActive, expiresAt (a day, or Never), client rows, API keys
          panelClients, \* clients each reseller has on the panels
          desk,      \* what each request handler is doing
          deskDay, deskOps,
          promised   \* ghost: the expiry a reseller had plus the days granted since

adminDeskVars == <<reseller, panelClients, desk, deskDay, deskOps, promised>>

\* No end date: later than any day the clock and the extensions reach.
Never == LastDay + 2 * MaxDeskOps + 3
NoReseller == [exists |-> FALSE, active |-> FALSE, expires |-> Never, clients |-> 0, keys |-> 0]
IdleDesk == [at |-> "idle", who |-> CHOOSE a \in Resellers : TRUE, todo |-> {}, action |-> "none", days |-> 0,
             read |-> [a \in Resellers |-> NoReseller]]
AdminDeskInit ==
  /\ reseller = [a \in Resellers |-> NoReseller] /\ panelClients = [a \in Resellers |-> 0]
  /\ desk = [k \in Desks |-> IdleDesk] /\ deskDay = 1 /\ deskOps = 0 /\ promised = [a \in Resellers |-> 0]

Begin(k, d) == desk[k].at = "idle" /\ deskOps < MaxDeskOps /\ deskOps' = deskOps + 1 /\ desk' = [desk EXCEPT ![k] = d]
Done(k) == desk' = [desk EXCEPT ![k] = IdleDesk] /\ UNCHANGED deskOps

\* createAdmin: the username is unique in the table.
createAdmin(k, a, expires) ==
  /\ Begin(k, IdleDesk) /\ ~reseller[a].exists
  /\ reseller' = [reseller EXCEPT ![a] = [NoReseller EXCEPT !.exists = TRUE, !.active = TRUE, !.expires = expires]]
  /\ promised' = [promised EXCEPT ![a] = IF expires = Never THEN 0 ELSE expires]
  /\ UNCHANGED <<panelClients, deskDay>>

\* Mutant of beginDeleteAdmin: the clients are not counted.
beginDeleteAnyway(k, a) ==
  /\ reseller[a].exists /\ Begin(k, [IdleDesk EXCEPT !.at = "delete", !.who = a])
  /\ UNCHANGED <<reseller, panelClients, deskDay, promised>>

\* deleteAdmin: the client count is read with the row; the delete that follows
\* cascades to whatever client rows exist by then, and to the keys.
beginDeleteAdmin(k, a) ==
  /\ reseller[a].exists /\ reseller[a].clients = 0 /\ Begin(k, [IdleDesk EXCEPT !.at = "delete", !.who = a])
  /\ UNCHANGED <<reseller, panelClients, deskDay, promised>>
deleteAdminRow(k) ==
  /\ desk[k].at = "delete" /\ Done(k)
  /\ reseller' = [reseller EXCEPT ![desk[k].who] = NoReseller] /\ UNCHANGED <<panelClients, deskDay, promised>>

\* createClient and deleteClient, as far as they matter here: the row and the
\* client on the panel come and go together (external to this component).
clientCreated(k, a) ==
  /\ desk[k].at = "idle" /\ reseller[a].exists /\ reseller[a].active /\ reseller[a].expires >= deskDay /\ panelClients[a] = 0
  /\ reseller' = [reseller EXCEPT ![a].clients = 1] /\ panelClients' = [panelClients EXCEPT ![a] = 1]
  /\ UNCHANGED <<desk, deskDay, deskOps, promised>>
clientDeleted(k, a) ==
  /\ desk[k].at = "idle" /\ reseller[a].clients = 1
  /\ reseller' = [reseller EXCEPT ![a].clients = 0] /\ panelClients' = [panelClients EXCEPT ![a] = 0]
  /\ UNCHANGED <<desk, deskDay, deskOps, promised>>

\* bulkAdminAction: the rows are read once; then one updateAdmin per admin, which
\* is skipped when the row has gone.  extend counts from the later of now and the
\* expiry that was read.
beginBulk(k, ids, action, days) ==
  /\ ids # {} /\ (action = "extend" <=> days # 0)
  /\ Begin(k, [IdleDesk EXCEPT !.at = "bulk", !.todo = ids, !.action = action, !.days = days, !.read = reseller])
  /\ UNCHANGED <<reseller, panelClients, deskDay, promised>>

Later(day) == IF day # Never /\ day > deskDay THEN day ELSE deskDay
Patched(row, d, a) ==
  [row EXCEPT !.active = IF d.action = "extend" THEN @ ELSE d.action = "activate",
              !.expires = IF d.action = "extend" THEN Later(d.read[a].expires) + d.days ELSE @]
bulkOne(k, a) ==
  LET d == desk[k] IN
  /\ d.at = "bulk" /\ a \in d.todo /\ desk' = [desk EXCEPT ![k].todo = @ \ {a}]
  /\ \/ /\ d.read[a].exists /\ reseller[a].exists
        /\ reseller' = [reseller EXCEPT ![a] = Patched(@, d, a)]
        /\ promised' = [promised EXCEPT ![a] = IF d.action # "extend" \/ reseller[a].expires = Never THEN @ ELSE @ + d.days]
     \/ (~d.read[a].exists \/ ~reseller[a].exists) /\ UNCHANGED <<reseller, promised>>
  /\ UNCHANGED <<panelClients, deskDay, deskOps>>
endBulk(k) == desk[k].at = "bulk" /\ desk[k].todo = {} /\ Done(k) /\ UNCHANGED <<reseller, panelClients, deskDay, promised>>

\* createApiKey: the active keys are counted, then the key is created.
beginCreateKey(k, a) ==
  /\ reseller[a].exists /\ reseller[a].active /\ reseller[a].keys < MaxKeys
  /\ Begin(k, [IdleDesk EXCEPT !.at = "key", !.who = a]) /\ UNCHANGED <<reseller, panelClients, deskDay, promised>>
createApiKey(k) ==
  LET a == desk[k].who IN
  /\ desk[k].at = "key" /\ Done(k)
  /\ reseller' = [reseller EXCEPT ![a].keys = IF reseller[a].exists THEN @ + 1 ELSE @]
  /\ UNCHANGED <<panelClients, deskDay, promised>>
revokeApiKey(k, a) ==
  /\ reseller[a].keys > 0 /\ Begin(k, IdleDesk) /\ reseller' = [reseller EXCEPT ![a].keys = @ - 1]
  /\ UNCHANGED <<panelClients, deskDay, promised>>

\* authenticateApiKey lets a request through for an active, unexpired admin; the
\* request may then create a client like the panel does.
authenticateApiKey(k, a) == reseller[a].keys > 0 /\ clientCreated(k, a)

deskDayPasses == deskDay < LastDay /\ deskDay' = deskDay + 1 /\ UNCHANGED <<reseller, panelClients, desk, deskOps, promised>>

AdminDeskNext ==
  \/ \E k \in Desks :
       \/ \E a \in Resellers :
            \/ \E e \in {2, Never} : createAdmin(k, a, e)
            \/ beginDeleteAdmin(k, a) \/ bulkOne(k, a) \/ beginCreateKey(k, a) \/ revokeApiKey(k, a)
            \/ clientCreated(k, a) \/ clientDeleted(k, a) \/ authenticateApiKey(k, a)
       \/ \E ids \in SUBSET Resellers : \E action \in {"activate", "deactivate", "extend"} : \E days \in {-1, 0, 2} :
            beginBulk(k, ids, action, days)
       \/ deleteAdminRow(k) \/ endBulk(k) \/ createApiKey(k)
  \/ deskDayPasses

AdminDeskSpec == AdminDeskInit /\ [][AdminDeskNext]_adminDeskVars

(* ------------------------------ properties ------------------------------ *)

\* Reseller rows and request handlers stay within their types.
AdminDeskTypeOK ==
  /\ \A a \in Resellers : reseller[a].clients \in {0, 1} /\ reseller[a].keys \in Nat /\ reseller[a].expires \in Int
  /\ \A k \in Desks : desk[k].at \in {"idle", "delete", "bulk", "key"} /\ desk[k].todo \subseteq Resellers

\* An admin never has more than the allowed number of active API keys.
KeysBounded == \A a \in Resellers : reseller[a].keys <= MaxKeys

\* An account with an end date never ends before the date it had plus the days
\* bulk actions granted since: an extension is counted from the current expiry,
\* or from now when that is later, and none overwrites another.
ExtensionsAdd == \A a \in Resellers : reseller[a].exists /\ reseller[a].expires # Never => reseller[a].expires >= promised[a]

\* A client on the panels belongs to a row of the panel: deleting a reseller, whose
\* client rows go with it, never leaves one behind.
NoClientLeftBehind == \A a \in Resellers : panelClients[a] = reseller[a].clients

\* What the administration of resellers promises while bulk actions, deletions and
\* key requests work on rows they read earlier.
AdminsSound == AdminDeskTypeOK /\ KeysBounded /\ ExtensionsAdd /\ NoClientLeftBehind
=============================================================================
