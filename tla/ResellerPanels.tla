--------------------------- MODULE ResellerPanels ---------------------------
(***************************************************************************)
(* Sub-panels sold in the store: the book of links and sold accounts        *)
(* (services/panelPlans.ts, one settings row behind a 5 s cache), the       *)
(* fulfilment that creates or tops up an admin (panelProvision.ts) and the  *)
(* handover of its credentials (panelHandoff.ts).  One plan, one seller; a  *)
(* process runs one request at a time and has its own cache.  Passwords of  *)
(* a sub-panel are numbered: known is the newest number somebody holds.     *)
(***************************************************************************)
EXTENDS Settings, Integers, FiniteSets

CONSTANTS PanelProcs,   \* processes that fulfil orders or serve the settings page
          PanelOrders,  \* orders of the linked plan
          BuyerOf,      \* the buyer key of each order
          MaxSubs,      \* bound: admin rows that are created
          MaxPanelFaults, MaxLinkEdits, MaxResets \* bounds

ASSUME ResellerPanelsAssumption ==
  /\ BuyerOf \in [PanelOrders -> {BuyerOf[o] : o \in PanelOrders}]
  /\ MaxSubs \in Nat /\ MaxPanelFaults \in Nat /\ MaxLinkEdits \in Nat /\ MaxResets \in Nat

VARIABLES book,       \* panel_plans row: link of the plan, account of each buyer (0: none)
          bookCache,  \* the cached book of each process
          sub,        \* admin rows of sub-panels
          panelOrder, \* "PAID" or "FULFILLED"
          request,    \* the request each process is serving
          handoff,    \* panel_handoff row: parked password per order, see NoHandoff
          owed,       \* ghost: GB of the fulfilled orders each sub-panel received; -1 unlimited
          reveals,    \* ghost: how often the parked password of a sub-panel was returned
          panelFaults, linkEdits, resets

panelVars == <<book, bookCache, sub, panelOrder, request, handoff, owed, reveals, panelFaults, linkEdits, resets>>

Buyers == {BuyerOf[o] : o \in PanelOrders}
Subs == 1..MaxSubs
NoSub == [exists |-> FALSE, quota |-> 0, password |-> 0, known |-> 0]
NoHandoff == [sub |-> 0, password |-> 0]  \* sub = 0: no record; password = 0: record without one
IdleRequest == [at |-> "idle", order |-> CHOOSE o \in PanelOrders : TRUE, sub |-> 0, renewal |-> FALSE,
                quota |-> 0, gb |-> 0, password |-> 0, seen |-> [o \in PanelOrders |-> NoHandoff]]
Unlimited == -1

\* panelPlanLinkSchema: what a link says that matters here (gb 0: unlimited plan).
Links == [enabled : BOOLEAN, gb : {0, 1}, topUp : BOOLEAN]
NoLink == [enabled |-> FALSE, gb |-> 1, topUp |-> TRUE]

ResellerPanelsInit ==
  /\ book = [link |-> NoLink, accounts |-> [b \in Buyers |-> 0]] /\ bookCache = [p \in PanelProcs |-> <<>>]
  /\ sub = [s \in Subs |-> NoSub] /\ panelOrder = [o \in PanelOrders |-> "PAID"]
  /\ request = [p \in PanelProcs |-> IdleRequest] /\ handoff = [o \in PanelOrders |-> NoHandoff]
  /\ owed = [s \in Subs |-> 0] /\ reveals = [s \in Subs |-> 0]
  /\ panelFaults = 0 /\ linkEdits = 0 /\ resets = 0

(* ------------------------------- the book ------------------------------- *)

panelPlanBook(p) == getSetting(book, bookCache[p])
savePanelPlanBook(p, v) == book' = v /\ bookCache' = [bookCache EXCEPT ![p] = setSettingCache(v)]

\* The 5 s of a cached book pass.
bookCacheExpires(p) ==
  /\ bookCache[p] # <<>> /\ bookCache' = [bookCache EXCEPT ![p] = <<>>]
  /\ UNCHANGED <<book, sub, panelOrder, request, handoff, owed, reveals, panelFaults, linkEdits, resets>>

\* savePanelPlan, deletePanelPlan: the whole book is written back with one link
\* changed; unlinking only stops future orders.
Relink(p, link) ==
  /\ request[p].at = "idle" /\ linkEdits < MaxLinkEdits /\ linkEdits' = linkEdits + 1
  /\ savePanelPlanBook(p, [panelPlanBook(p) EXCEPT !.link = link])
  /\ UNCHANGED <<sub, panelOrder, request, handoff, owed, reveals, panelFaults, resets>>
savePanelPlan(p) == \E l \in Links : l # book.link /\ Relink(p, l)
deletePanelPlan(p) == panelPlanBook(p).link.enabled /\ Relink(p, NoLink)

(* --------------------------- provisionPanelOrder ------------------------ *)

\* panelPlanFor and the reads of provisionPanelOrder: a returning buyer's account
\* is topped up when the link says so and the admin still exists.
AddQuota(quota, gb) == IF quota = Unlimited \/ gb <= 0 THEN Unlimited ELSE quota + gb

beginProvision(p, o) ==
  LET read == panelPlanBook(p)
      previous == IF read.link.topUp THEN read.accounts[BuyerOf[o]] ELSE 0
      renewal == previous # 0 /\ sub[previous].exists IN
  /\ request[p].at = "idle" /\ panelOrder[o] = "PAID" /\ read.link.enabled
  /\ bookCache' = [bookCache EXCEPT ![p] = setSettingCache(read)]
  /\ request' = [request EXCEPT ![p] = [IdleRequest EXCEPT
       !.at = "account", !.order = o, !.sub = IF renewal THEN previous ELSE 0, !.renewal = renewal, !.gb = read.link.gb,
       !.quota = IF renewal THEN AddQuota(sub[previous].quota, read.link.gb)
                 ELSE IF read.link.gb > 0 THEN read.link.gb ELSE Unlimited]]
  /\ UNCHANGED <<book, sub, panelOrder, handoff, owed, reveals, panelFaults, linkEdits, resets>>

\* admin.update of a renewal (fails when the row is gone), or admin.create under
\* a free username with a fresh password.
writeAccount(p) ==
  LET r == request[p] IN
  /\ r.at = "account"
  /\ \/ /\ r.renewal /\ sub[r.sub].exists
        /\ sub' = [sub EXCEPT ![r.sub].quota = r.quota]
        /\ request' = [request EXCEPT ![p].at = "book"]
     \/ /\ ~r.renewal
        /\ \E s \in Subs :
             /\ ~sub[s].exists /\ sub[s].password = 0 /\ \A t \in 1..(s - 1) : sub[t].password # 0
             /\ sub' = [sub EXCEPT ![s] = [exists |-> TRUE, quota |-> r.quota, password |-> 1, known |-> 0]]
             /\ request' = [request EXCEPT ![p].at = "book", ![p].sub = s, ![p].password = 1]
  /\ UNCHANGED <<book, bookCache, panelOrder, handoff, owed, reveals, panelFaults, linkEdits, resets>>

\* The account is put in a book read afresh (through the same cache).
recordAccount(p) ==
  LET r == request[p] IN
  /\ r.at = "book" /\ request' = [request EXCEPT ![p].at = "deliver"]
  /\ savePanelPlanBook(p, [panelPlanBook(p) EXCEPT !.accounts[BuyerOf[r.order]] = r.sub])
  /\ UNCHANGED <<sub, panelOrder, handoff, owed, reveals, panelFaults, linkEdits, resets>>

\* deliverPanelAccount: telegram or e-mail may reach the buyer; a renewal's message
\* carries no password.
Learn(s, password) == sub' = [sub EXCEPT ![s].known = IF password > @ THEN password ELSE @]
deliverPanelAccount(p) ==
  LET r == request[p] IN
  /\ r.at = "deliver"
  /\ \/ Learn(r.sub, r.password) /\ request' = [request EXCEPT ![p].at = "finish"]
     \/ request' = [request EXCEPT ![p].at = "park", ![p].seen = handoff] /\ UNCHANGED sub
  /\ UNCHANGED <<book, bookCache, panelOrder, handoff, owed, reveals, panelFaults, linkEdits, resets>>

\* Mutant of parkPanelHandoff: the password is not parked.
parkWithoutPassword(p) ==
  LET r == request[p] IN
  /\ r.at = "park" /\ request' = [request EXCEPT ![p].at = "finish"]
  /\ handoff' = [r.seen EXCEPT ![r.order] = [sub |-> r.sub, password |-> 0]]
  /\ UNCHANGED <<book, bookCache, sub, panelOrder, owed, reveals, panelFaults, linkEdits, resets>>

\* parkPanelHandoff: the row read before is written back with this record.
parkPanelHandoff(p) ==
  LET r == request[p] IN
  /\ r.at = "park" /\ request' = [request EXCEPT ![p].at = "finish"]
  /\ handoff' = [r.seen EXCEPT ![r.order] = [sub |-> r.sub, password |-> r.password]]
  /\ UNCHANGED <<book, bookCache, sub, panelOrder, owed, reveals, panelFaults, linkEdits, resets>>

finishOrder(p) ==
  LET r == request[p] IN
  /\ r.at = "finish" /\ panelOrder' = [panelOrder EXCEPT ![r.order] = "FULFILLED"]
  /\ owed' = [owed EXCEPT ![r.sub] = AddQuota(@, r.gb)] /\ request' = [request EXCEPT ![p] = IdleRequest]
  /\ UNCHANGED <<book, bookCache, sub, handoff, reveals, panelFaults, linkEdits, resets>>

\* Any await may throw: the order keeps its status and its error, and may be retried.
provisionFails(p) ==
  /\ request[p].at \in {"account", "book", "park", "finish"} /\ panelFaults < MaxPanelFaults
  /\ panelFaults' = panelFaults + 1 /\ request' = [request EXCEPT ![p] = IdleRequest]
  /\ UNCHANGED <<book, bookCache, sub, panelOrder, handoff, owed, reveals, linkEdits, resets>>

(* ------------------------------ the handover ---------------------------- *)

\* revealPanelHandoff: the record is read, deleted, and its password returned.
beginReveal(p, o) ==
  /\ request[p].at = "idle" /\ handoff[o].sub # 0 /\ handoff[o].password # 0
  /\ request' = [request EXCEPT ![p] = [IdleRequest EXCEPT !.at = "reveal", !.order = o, !.sub = handoff[o].sub,
                                                           !.password = handoff[o].password, !.seen = handoff]]
  /\ UNCHANGED <<book, bookCache, sub, panelOrder, handoff, owed, reveals, panelFaults, linkEdits, resets>>

revealPanelHandoff(p) ==
  LET r == request[p] IN
  /\ r.at = "reveal" /\ handoff' = [r.seen EXCEPT ![r.order] = NoHandoff]
  /\ reveals' = [reveals EXCEPT ![r.sub] = @ + 1] /\ Learn(r.sub, r.password)
  /\ request' = [request EXCEPT ![p] = IdleRequest]
  /\ UNCHANGED <<book, bookCache, panelOrder, owed, panelFaults, linkEdits, resets>>

\* resetPanelAccountPassword: only for an account of the book.
Rescuable(p, s) == sub[s].exists /\ \E b \in Buyers : panelPlanBook(p).accounts[b] = s
resetPanelAccountPassword(p, s) ==
  /\ request[p].at = "idle" /\ Rescuable(p, s) /\ resets < MaxResets /\ resets' = resets + 1
  /\ sub' = [sub EXCEPT ![s].password = @ + 1, ![s].known = sub[s].password + 1]
  /\ UNCHANGED <<book, bookCache, panelOrder, request, handoff, owed, reveals, panelFaults, linkEdits>>

\* deleteAdmin on the admins page (a sub-panel without clients).
deleteAdmin(s) ==
  /\ sub[s].exists /\ resets < MaxResets /\ resets' = resets + 1 /\ sub' = [sub EXCEPT ![s].exists = FALSE]
  /\ UNCHANGED <<book, bookCache, panelOrder, request, handoff, owed, reveals, panelFaults, linkEdits>>

ResellerPanelsNext ==
  \/ \E p \in PanelProcs :
       \/ bookCacheExpires(p) \/ savePanelPlan(p) \/ deletePanelPlan(p)
       \/ \E o \in PanelOrders : beginProvision(p, o) \/ beginReveal(p, o)
       \/ writeAccount(p) \/ recordAccount(p) \/ deliverPanelAccount(p) \/ parkPanelHandoff(p) \/ finishOrder(p)
       \/ provisionFails(p) \/ revealPanelHandoff(p)
       \/ \E s \in Subs : resetPanelAccountPassword(p, s)
  \/ \E s \in Subs : deleteAdmin(s)

ResellerPanelsSpec == ResellerPanelsInit /\ [][ResellerPanelsNext]_panelVars

(* ------------------------------ properties ------------------------------ *)

\* The states of the book, the sub-panels and the requests stay within their types.
ResellerPanelsTypeOK ==
  /\ book \in [link : Links, accounts : [Buyers -> 0..MaxSubs]]
  /\ \A s \in Subs : sub[s].quota >= Unlimited /\ sub[s].known <= sub[s].password
  /\ panelOrder \in [PanelOrders -> {"PAID", "FULFILLED"}]
  /\ \A o \in PanelOrders : handoff[o].sub \in 0..MaxSubs

\* A sub-panel has at least the traffic of the fulfilled orders that were booked
\* on it: a top-up adds to what was bought before, whatever failed or was retried.
PaidTrafficKept ==
  \A s \in Subs : sub[s].exists /\ sub[s].quota # Unlimited => owed[s] # Unlimited /\ sub[s].quota >= owed[s]

\* A password that was parked because no channel reached the buyer is handed out
\* at most once ("the seller reveals them exactly once").
RevealedOnce == \A s \in Subs : reveals[s] <= 1

\* While nothing has failed, a sub-panel that a fulfilled order was booked on can
\* be opened: somebody holds its password, or it is parked for the seller.
CredentialsNotLost ==
  panelFaults = 0 => \A s \in Subs : sub[s].exists /\ owed[s] # 0 =>
    sub[s].known = sub[s].password \/ \E o \in PanelOrders : handoff[o] = [sub |-> s, password |-> sub[s].password]

\* What the sale of sub-panels promises, whichever step of a provisioning fails.
SubPanelsSound == ResellerPanelsTypeOK /\ PaidTrafficKept /\ RevealedOnce /\ CredentialsNotLost
=============================================================================
