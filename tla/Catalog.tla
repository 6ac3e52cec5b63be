------------------------------ MODULE Catalog -------------------------------
(***************************************************************************)
(* Services, plans and what an order is provisioned on: services.ts,       *)
(* serviceAdmin.ts, plans.ts and resolveOrderTargets (fulfillment.ts).     *)
(* The owner bundles server/inbound pairs into services, a reseller with   *)
(* access to some of them builds a plan, a buyer orders it, and the order  *)
(* is delivered later.  Services and plans keep plain lists of pairs:      *)
(* nothing follows when a server, an inbound or an access right goes.      *)
(***************************************************************************)
EXTENDS Integers, FiniteSets, Sequences

CONSTANTS MaxServices,   \* bound: service rows ever created
          CatServers, CatInbounds,
          MaxCatOps      \* bound: changes of the catalogue

ASSUME CatalogAssumption == MaxServices \in Nat \ {0} /\ MaxCatOps \in Nat

VARIABLES srv,      \* server rows, with the inbounds of the last sync
          access,   \* the reseller's AdminServerAccess: <<>> or <<inboundIds>>
          service,  \* service rows by number, in the order they were created
          plan,     \* the reseller's plan
          sale,     \* an order of that plan
          catOps

catVars == <<srv, access, service, plan, sale, catOps>>

Services == 1..MaxServices
Pairs == CatServers \X CatInbounds
NoService == 0
NoServiceRow == [exists |-> FALSE, active |-> FALSE, who |-> "all", targets |-> {}, order |-> 0]
NoSale == [at |-> "none", snap |-> {}, targets |-> {}]

\* The panel has been in use: one service for everybody, sold as a plan; or a plan
\* from before services existed, which may have been saved without inbounds.
CatalogInit ==
  /\ srv = [s \in CatServers |-> [exists |-> TRUE, active |-> TRUE, online |-> TRUE, has |-> CatInbounds, off |-> {}]]
  /\ access = [s \in CatServers |-> <<{}>>]
  /\ service = [v \in Services |-> IF v = 1 THEN [NoServiceRow EXCEPT !.exists = TRUE, !.active = TRUE, !.targets = Pairs] ELSE NoServiceRow]
  /\ plan \in {[exists |-> TRUE, service |-> 1, targets |-> Pairs], [exists |-> TRUE, service |-> NoService, targets |-> {}]}
  /\ sale = NoSale /\ catOps = 0

(* ------------------------------- reading -------------------------------- *)

\* inboundsOf and the server's enable flag per inbound.
HasInbound(t) == srv[t[1]].exists /\ t[2] \in srv[t[1]].has
canUse(t) == access[t[1]] # <<>> /\ (Head(access[t[1]]) = {} \/ t[2] \in Head(access[t[1]]))
visibilityWhere(v) == service[v].exists /\ service[v].active /\ service[v].who # "other"

\* listServices for the reseller: narrowed to his access, empty ones hidden.
listServices == {v \in Services : visibilityWhere(v) /\ \E t \in service[v].targets : canUse(t)}
listedEnabled(t) == srv[t[1]].exists /\ srv[t[1]].active /\ HasInbound(t) /\ t[2] \notin srv[t[1]].off

\* servicesOverview: what the owner is told is wrong with a target.
issueOf(t) ==
  LET s == srv[t[1]] IN
  CASE ~s.exists -> "SERVER_MISSING" [] s.exists /\ ~s.active -> "SERVER_INACTIVE"
    [] s.exists /\ s.active /\ t[2] \notin s.has -> "INBOUND_MISSING"
    [] s.exists /\ s.active /\ t[2] \in s.has /\ t[2] \in s.off -> "INBOUND_DISABLED"
    [] s.exists /\ s.active /\ t[2] \in s.has \ s.off /\ ~s.online -> "SERVER_OFFLINE"
    [] OTHER -> "NONE"

\* getServiceForActor and resolveServiceTargets; {} stands for its errors.
resolveServiceTargets(v) == IF visibilityWhere(v) THEN {t \in service[v].targets : canUse(t)} ELSE {}

\* validateTargets: the owner sees every server, a reseller those he has a row for
\* (with whatever inbounds: the row's list is not looked at here).
validateTargets(T, owner) ==
  T # {} /\ \A t \in T : HasInbound(t) /\ (owner \/ access[t[1]] # <<>>)

planTargetsFresh ==
  IF plan.service = NoService \/ resolveServiceTargets(plan.service) = {} THEN plan.targets
  ELSE resolveServiceTargets(plan.service)

\* resolveOrderTargets: the snapshot, the plan, the seller's services, any inbound.
resolveOrderTargets ==
  LET usable(v) == {t \in service[v].targets : canUse(t) /\ listedEnabled(t)}
      fromServices == {usable(v) : v \in {x \in listServices : usable(x) # {}}}
      anyInbound == {{t} : t \in {x \in Pairs : HasInbound(x) /\ access[x[1]] # <<>> /\ x[2] \notin srv[x[1]].off}} IN
  CASE sale.snap # {} -> {sale.snap}
    [] sale.snap = {} /\ plan.exists /\ plan.targets # {} -> {plan.targets}
    [] sale.snap = {} /\ ~(plan.exists /\ plan.targets # {}) /\ fromServices # {} -> fromServices
    [] OTHER -> anyInbound

(* -------------------------- the owner's changes ------------------------- *)

CatOp == catOps < MaxCatOps /\ catOps' = catOps + 1

createService(v, T, who) ==
  /\ CatOp /\ ~service[v].exists /\ validateTargets(T, TRUE)
  /\ service' = [service EXCEPT ![v] = [exists |-> TRUE, active |-> TRUE, who |-> who, targets |-> T, order |-> 0]]
  /\ UNCHANGED <<srv, access, plan, sale>>

\* updateService: targets are validated only when they are part of the input.
updateService(v, T, who, active) ==
  /\ CatOp /\ service[v].exists /\ (T = service[v].targets \/ validateTargets(T, TRUE))
  /\ service' = [service EXCEPT ![v].targets = T, ![v].who = who, ![v].active = active] /\ service' # service
  /\ UNCHANGED <<srv, access, plan, sale>>

deleteService(v) ==
  /\ CatOp /\ service[v].exists /\ service' = [service EXCEPT ![v] = NoServiceRow]
  /\ UNCHANGED <<srv, access, plan, sale>>

\* duplicateService: a disabled copy.
duplicateService(v, w) ==
  /\ CatOp /\ service[v].exists /\ ~service[w].exists
  /\ service' = [service EXCEPT ![w] = [service[v] EXCEPT !.active = FALSE, !.order = @ + 1]]
  /\ UNCHANGED <<srv, access, plan, sale>>

\* reorderServices: the services named get their place, in one transaction.
reorderServices(order) ==
  /\ CatOp /\ \A v \in Services : service[v].exists
  /\ service' = [v \in Services |-> [service[v] EXCEPT !.order = order[v]]] /\ service' # service
  /\ UNCHANGED <<srv, access, plan, sale>>

\* updateAdmin replaces the reseller's access rows.
setAccess(s, row) ==
  /\ CatOp /\ srv[s].exists /\ access' = [access EXCEPT ![s] = row] /\ access' # access
  /\ UNCHANGED <<srv, service, plan, sale>>

\* updateServer switches a server, deleteServer removes it with its access rows.
updateServer(s) ==
  /\ CatOp /\ srv[s].exists /\ srv' = [srv EXCEPT ![s].active = ~@] /\ UNCHANGED <<access, service, plan, sale>>
deleteServer(s) ==
  /\ CatOp /\ srv[s].exists /\ srv' = [srv EXCEPT ![s].exists = FALSE, ![s].has = {}, ![s].off = {}]
  /\ access' = [access EXCEPT ![s] = <<>>] /\ UNCHANGED <<service, plan, sale>>

\* syncServer stores the panel's inbounds as they are by now, or marks it offline.
syncInbounds(s, has, off) ==
  /\ CatOp /\ srv[s].exists /\ off \subseteq has
  /\ srv' = [srv EXCEPT ![s].has = has, ![s].off = off, ![s].online = TRUE] /\ srv' # srv /\ UNCHANGED <<access, service, plan, sale>>
syncFails(s) ==
  /\ CatOp /\ srv[s].exists /\ srv[s].online /\ srv' = [srv EXCEPT ![s].online = FALSE] /\ UNCHANGED <<access, service, plan, sale>>

(* --------------------- the reseller's plan, and a sale ------------------ *)

\* createPlan and updatePlan with new inbounds: a service first, else explicit pairs.
savePlan(v, T) ==
  /\ CatOp
  /\ \/ v # NoService /\ resolveServiceTargets(v) # {} /\ plan' = [exists |-> TRUE, service |-> v, targets |-> resolveServiceTargets(v)]
     \/ v = NoService /\ validateTargets(T, FALSE) /\ plan' = [exists |-> TRUE, service |-> NoService, targets |-> T]
  /\ plan' # plan /\ UNCHANGED <<srv, access, service, sale>>
deletePlan ==
  /\ CatOp /\ plan.exists /\ plan' = [exists |-> FALSE, service |-> NoService, targets |-> {}]
  /\ UNCHANGED <<srv, access, service, sale>>

\* createOrder freezes what planTargetsFresh says now.
orderPlan ==
  /\ plan.exists /\ sale.at = "none" /\ sale' = [at |-> "ordered", snap |-> planTargetsFresh, targets |-> {}]
  /\ UNCHANGED <<srv, access, service, plan, catOps>>

\* Mutant of assertTargets: access is assumed to be what it was at the order.
assertTargetsNot(T) == TRUE
\* assertQuota of createClient: every pair must be within the seller's access now.
assertTargets(T) == \A t \in T : canUse(t)

\* fulfillOrder: a refused delivery leaves the order PAID for a retry; the servers
\* must be there and active.
deliverOrder(T) ==
  /\ sale.at = "ordered" /\ T \in resolveOrderTargets
  /\ assertTargets(T) /\ \A t \in T : srv[t[1]].exists /\ srv[t[1]].active
  /\ sale' = [sale EXCEPT !.at = "delivered", !.targets = T]
  /\ UNCHANGED <<srv, access, service, plan, catOps>>

CatalogNext ==
  \/ \E v \in Services, T \in SUBSET Pairs, who \in {"all", "other"} :
       createService(v, T, who) \/ \E b \in BOOLEAN : updateService(v, T, who, b)
  \/ \E v \in Services : deleteService(v) \/ \E w \in Services : duplicateService(v, w)
  \/ \E order \in [Services -> 0..(MaxServices - 1)] :
       (\A v, w \in Services : v # w => order[v] # order[w]) /\ reorderServices(order)
  \/ \E s \in CatServers :
       \/ updateServer(s) \/ deleteServer(s) \/ syncFails(s)
       \/ \E row \in {<<>>} \union {<<I>> : I \in SUBSET CatInbounds} : setAccess(s, row)
       \/ \E has, off \in SUBSET CatInbounds : syncInbounds(s, has, off)
  \/ \E v \in {NoService} \union Services, T \in SUBSET Pairs : (v # NoService => T = {}) /\ savePlan(v, T)
  \/ deletePlan \/ orderPlan \/ \E T \in SUBSET Pairs : deliverOrder(T)

CatalogSpec == CatalogInit /\ [][CatalogNext]_catVars

(* ------------------------------ properties ------------------------------ *)

\* Rows refer to known numbers and pairs.
CatalogTypeOK ==
  /\ \A v \in Services : service[v].targets \subseteq Pairs /\ service[v].order \in Nat
  /\ plan.targets \subseteq Pairs /\ plan.service \in {NoService} \union Services /\ sale.snap \subseteq Pairs
  /\ \A s \in CatServers : srv[s].off \subseteq srv[s].has

\* What a reseller sold is provisioned only where he has access at the moment of the
\* delivery, and never on nothing, although plans and orders keep pairs from before
\* an access right was withdrawn and the fall-backs look at whole servers.
SoldWithinAccess ==
  [][sale.at = "ordered" /\ sale'.at = "delivered" => sale'.targets # {} /\ \A t \in sale'.targets : canUse(t)]_catVars

\* Two screens agree: a service is offered to the reseller exactly when creating a
\* client on it would find an inbound, and an inbound the list shows as enabled is
\* one the owner's overview calls healthy or merely offline.
ListingAgrees ==
  /\ listServices = {v \in Services : resolveServiceTargets(v) # {}}
  /\ \A t \in Pairs : listedEnabled(t) <=> issueOf(t) \in {"NONE", "SERVER_OFFLINE"}

\* What the catalogue promises while services, access and servers change.
CatalogSound == [](CatalogTypeOK /\ ListingAgrees) /\ SoldWithinAccess
=============================================================================
