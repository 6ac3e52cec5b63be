-------------------------- MODULE ClientLifecycle ---------------------------
(***************************************************************************)
(* The life of one client after it was sold: the traffic its panels count, *)
(* the usage, status and expiry kept in the database, and everything that  *)
(* writes them: the worker's synchronisation (servers.ts), status          *)
(* enforcement, first-use start (pendingStart.ts) and auto-renewal         *)
(* (autoRenew.ts), and the seller's updates, resets and deletion           *)
(* (clients/crud.ts, clients/panelSync.ts).                                *)
(*                                                                         *)
(* Every action is one awaited call to the database or to a panel; loc[p]  *)
(* is what handler p carries over an await.  Upload and download follow    *)
(* the same rule and are one counter; links of one server that share an    *)
(* email are one remote client and one link.                               *)
(***************************************************************************)
EXTENDS Naturals, FiniteSetsExt

CONSTANTS Servers,     \* panels the client lives on; also the sync handler of each
          Requests,    \* kinds of web request that are sent
          Web,         \* web requests that may be in flight together
          NoServer,    \* the server of a handler that is at none
          Limit,       \* Client.trafficLimit
          MaxTraffic,  \* bound: traffic a panel ever carries for the client
          MaxCycles,   \* rule.maxCycles
          MaxActive,   \* bound: handlers in flight when one more may start
          MaxFaults    \* bound: process deaths and failed panel updates

VARIABLES alive,       \* the client row exists
          status,      \* Client.status
          used,        \* Client.usedUp + usedDown
          expires,     \* Client.expiresAt: who wrote it, and whether it has passed
          lastOnline,  \* Client.lastOnlineAt is set
          pending,     \* the "start after first use" setting exists
          rule,        \* the auto-renew setting
          links,       \* links[s]: ClientServer.up + down
          history,     \* history[s]: sum of the ClientUsage rows synced from s
          panel,       \* panel[s]: the counter of the remote client
          on,          \* on[s]: the remote client's enable flag
          present,     \* panels that hold the remote client
          traffic,     \* traffic[s]: what really went through s
          renewals,    \* renewals run since the rule was armed
          loc,         \* loc[p]: the handler p
          faults       \* faults so far

Jobs == {"enforce", "starts", "renew"}
Procs == Servers \union Jobs \union Web
Status == {"ACTIVE", "DISABLED", "EXPIRED", "LIMITED"}

ASSUME ClientAssumptions ==
  /\ Requests \subseteq {"date", "never", "disable", "enable", "sync", "reset", "delete",
                         "setRule", "clearRule"}
  /\ NoServer \notin Servers /\ Servers \intersect (Jobs \union Web) = {}
  /\ Web \intersect Jobs = {} /\ IsFiniteSet(Servers) /\ IsFiniteSet(Web)
  /\ Limit \in Nat \ {0} /\ MaxTraffic \in Nat /\ MaxCycles \in Nat \ {0}
  /\ MaxActive \in Nat /\ MaxFaults \in Nat

\* A date is written at the sale, by the seller, by the first-use start or by a
\* renewal; "pending" stands for the empty column of a period not yet started.
Dates == [by : {"sale", "seller", "start", "renewal", "pending"}, when : {"later", "past", "never"}]
Date(by) == [by |-> by, when |-> "later"]

Rules == [armed : BOOLEAN, due : BOOLEAN, cycles : 0 .. MaxCycles]
NoRule == [armed |-> FALSE, due |-> FALSE, cycles |-> 0]

Labels == {"idle", "syncFetch", "syncLinks", "syncWrite", "syncUsage", "syncOnline", "recomputeRead", "recomputeWrite",
  "enforceWrite", "startRead", "startWrite", "startClear",
  "updateClear", "updateWrite", "pushRead", "pushPanel",
  "resetRead", "resetPanel", "resetLink", "deletePanel", "deleteRow", "deletePending",
  "renewClient", "renewDrop", "renewExtend", "renewWrite", "ruleWrite"}
Ops == {"none", "sync", "enforce", "starts", "renew", "date", "never", "disable", "enable",
        "reset", "delete", "setRule"}
Locals == [op : Ops, pc : Labels,
           server : Servers \union {NoServer}, \* the panel being talked to
           todo : SUBSET Servers,              \* panels left to visit
           seen : 0 .. MaxTraffic,             \* the counter a sync fetched
           link : 0 .. MaxTraffic,             \* the link's counter as it read it
           used : Nat, status : Status,        \* what recomputeClient or a push read
           limited : BOOLEAN,                  \* status was LIMITED when a reset began
           extended : BOOLEAN,                 \* the renewal has moved the date
           rule : Rules]                       \* the rule as it was read

Idle == [op |-> "none", pc |-> "idle", server |-> NoServer, todo |-> {}, seen |-> 0, link |-> 0,
         used |-> 0, status |-> "ACTIVE", limited |-> FALSE, extended |-> FALSE, rule |-> NoRule]

rowVars == <<alive, status, used, expires, lastOnline>>
settingVars == <<pending, rule, renewals>>
usageVars == <<links, history>>
panelVars == <<panel, on, present, traffic>>
vars == <<rowVars, settingVars, usageVars, panelVars, loc, faults>>

\* Sold with a date, or with a period that starts at the first connection.
Init ==
  /\ alive = TRUE /\ status = "ACTIVE" /\ used = 0 /\ lastOnline = FALSE
  /\ \/ pending = FALSE /\ expires = Date("sale")
     \/ pending = TRUE /\ expires = [by |-> "pending", when |-> "never"]
  /\ rule = NoRule /\ renewals = 0
  /\ links = [s \in Servers |-> 0] /\ history = [s \in Servers |-> 0]
  /\ panel = [s \in Servers |-> 0] /\ traffic = [s \in Servers |-> 0]
  /\ on = [s \in Servers |-> TRUE] /\ present = Servers
  /\ loc = [p \in Procs |-> Idle] /\ faults = 0

TypeOK ==
  /\ alive \in BOOLEAN /\ status \in Status /\ used \in Nat /\ expires \in Dates
  /\ lastOnline \in BOOLEAN /\ pending \in BOOLEAN /\ rule \in Rules /\ renewals \in Nat
  /\ links \in [Servers -> 0 .. MaxTraffic] /\ history \in [Servers -> 0 .. MaxTraffic + 1]
  /\ panel \in [Servers -> 0 .. MaxTraffic] /\ traffic \in [Servers -> 0 .. MaxTraffic]
  /\ on \in [Servers -> BOOLEAN] /\ present \subseteq Servers
  /\ loc \in [Procs -> Locals] /\ faults \in 0 .. MaxFaults

At(p, label) == loc[p].pc = label
Goto(p, label) == loc' = [loc EXCEPT ![p].pc = label]
Return(p) == loc' = [loc EXCEPT ![p] = Idle]
Active == {p \in Procs : ~At(p, "idle")}
MayStart(p) == At(p, "idle") /\ Cardinality(Active) < MaxActive
Total(f) == MapThenSumSet(LAMBDA s : f[s], Servers)

Start(p, op, label) ==
  /\ MayStart(p)
  /\ loc' = [loc EXCEPT ![p] = [Idle EXCEPT !.op = op, !.pc = label]]

\* The next panel of the list, or the step after the last one.
Visited(l, s, after) ==
  [l EXCEPT !.todo = @ \ {s}, !.pc = IF l.todo = {s} THEN after ELSE @]

\* Where recomputeClient, pushClient and resetClientTraffic return to.
AfterReset(l) ==
  IF l.op = "renew" THEN [Idle EXCEPT !.op = "renew", !.pc = "renewExtend", !.rule = l.rule] ELSE Idle
AfterPush(l) ==
  IF l.extended THEN [Idle EXCEPT !.op = "renew", !.pc = "renewWrite", !.rule = l.rule] ELSE AfterReset(l)
AfterRecompute(l) ==
  LET rest == [l EXCEPT !.used = 0, !.status = "ACTIVE", !.server = NoServer] IN
  IF l.op = "sync" THEN Idle
  ELSE IF l.op \in {"reset", "renew"} /\ ~l.limited THEN AfterReset(rest)
  ELSE [rest EXCEPT !.pc = "pushRead"]

\* A call throws: runAutoRenew catches what the reset and the push throw, any
\* other handler ends.
Throw(p) == loc' = [loc EXCEPT ![p] = IF @.op = "renew" THEN AfterPush(@) ELSE Idle]

(* --------------------------- synchronisation --------------------------- *)

\* The worker syncs all servers at once, and waits for all before the next round.
syncAll ==
  /\ \A s \in Servers : MayStart(s)
  /\ loc' = [p \in Procs |-> IF p \in Servers
               THEN [Idle EXCEPT !.op = "sync", !.pc = "syncFetch", !.server = p] ELSE loc[p]]
  /\ UNCHANGED <<rowVars, settingVars, usageVars, panelVars, faults>>

\* The web process syncs one server, after an edit of the server or on request.
syncServer(p, s) ==
  /\ MayStart(p)
  /\ loc' = [loc EXCEPT ![p] = [Idle EXCEPT !.op = "sync", !.pc = "syncFetch", !.server = s]]
  /\ UNCHANGED <<rowVars, settingVars, usageVars, panelVars, faults>>

\* The panel answers with its counters.
syncFetch(p) ==
  /\ At(p, "syncFetch") /\ loc[p].server \in present
  /\ loc' = [loc EXCEPT ![p].pc = "syncLinks", ![p].seen = panel[loc[p].server]]
  /\ UNCHANGED <<rowVars, settingVars, usageVars, panelVars, faults>>

\* It does not answer (the server is marked OFFLINE) or does not know the client.
syncFail(p) ==
  /\ At(p, "syncFetch")
  /\ Return(p)
  /\ UNCHANGED <<rowVars, settingVars, usageVars, panelVars, faults>>

\* applyClientStats: find the links; a deleted client has none.
syncLinks(p) ==
  /\ At(p, "syncLinks")
  /\ IF alive THEN loc' = [loc EXCEPT ![p].pc = "syncWrite", ![p].link = links[loc[p].server]]
              ELSE Return(p)
  /\ UNCHANGED <<rowVars, settingVars, usageVars, panelVars, faults>>

\* clientServer.update, which throws when the link is gone.
syncWrite(p) ==
  /\ At(p, "syncWrite")
  /\ IF alive THEN /\ links' = [links EXCEPT ![loc[p].server] = loc[p].seen]
                   /\ Goto(p, "syncUsage")
              ELSE Return(p) /\ UNCHANGED links
  /\ UNCHANGED <<rowVars, settingVars, history, panelVars, faults>>

\* Mutant of syncUsage: the counter itself is stored, not what it grew by.
syncUsageWhole(p) ==
  LET l == loc[p] IN
  /\ At(p, "syncUsage")
  /\ history' = [history EXCEPT ![l.server] = Min({@ + l.seen, MaxTraffic + 1})]
  /\ loc' = [loc EXCEPT ![p].pc = "syncOnline", ![p].link = 0]
  /\ UNCHANGED <<rowVars, settingVars, links, panelVars, faults>>

\* clientUsage.createMany: a counter that went down was reset on the panel.
syncUsage(p) ==
  LET l == loc[p]
      delta == IF l.seen >= l.link THEN l.seen - l.link ELSE l.seen IN
  /\ At(p, "syncUsage")
  /\ history' = [history EXCEPT ![l.server] = Min({@ + delta, MaxTraffic + 1})]
  /\ loc' = [loc EXCEPT ![p].pc = "syncOnline", ![p].link = 0]
  /\ UNCHANGED <<rowVars, settingVars, links, panelVars, faults>>

\* A client that is connected right now gets lastOnlineAt.
syncOnline(p) ==
  /\ At(p, "syncOnline")
  /\ lastOnline' \in {lastOnline, loc[p].seen > 0 \/ lastOnline}
  /\ loc' = [loc EXCEPT ![p].pc = "recomputeRead", ![p].seen = 0, ![p].server = NoServer]
  /\ UNCHANGED <<alive, status, used, expires, settingVars, usageVars, panelVars, faults>>

(* --------------------------- recomputeClient --------------------------- *)

Derived(u) ==
  IF status = "DISABLED" THEN "DISABLED"
  ELSE IF expires.when = "past" THEN "EXPIRED" ELSE IF u >= Limit THEN "LIMITED" ELSE "ACTIVE"

recomputeRead(p) ==
  /\ At(p, "recomputeRead")
  /\ loc' = [loc EXCEPT ![p] = IF alive
               THEN [@ EXCEPT !.pc = "recomputeWrite", !.used = Total(links), !.status = Derived(Total(links))]
               ELSE AfterRecompute(@)]
  /\ UNCHANGED <<rowVars, settingVars, usageVars, panelVars, faults>>

\* client.update by id with what was computed from the read.
recomputeWrite(p) ==
  /\ At(p, "recomputeWrite")
  /\ IF alive
     THEN /\ used' = loc[p].used /\ status' = loc[p].status
          /\ loc' = [loc EXCEPT ![p] = AfterRecompute(@)]
     ELSE Throw(p) /\ UNCHANGED <<used, status>>
  /\ UNCHANGED <<alive, expires, lastOnline, settingVars, usageVars, panelVars, faults>>

(* ----------------------- enforcement, first-use start ------------------- *)

\* Mutant of enforceClientStatuses: expiresAt is compared the wrong way round.
enforceUnexpired(p) ==
  /\ p = "enforce" /\ alive /\ status = "ACTIVE" /\ expires.when = "later"
  /\ Start(p, "enforce", "enforceWrite")
  /\ UNCHANGED <<rowVars, settingVars, usageVars, panelVars, faults>>

\* findMany of the ACTIVE clients whose date has passed.
enforceClientStatuses(p) ==
  /\ p = "enforce" /\ alive /\ status = "ACTIVE" /\ expires.when = "past"
  /\ Start(p, "enforce", "enforceWrite")
  /\ UNCHANGED <<rowVars, settingVars, usageVars, panelVars, faults>>

\* updateMany by the ids found, whatever the clients have become.
enforceWrite(p) ==
  /\ At(p, "enforceWrite")
  /\ status' = IF alive THEN "EXPIRED" ELSE status
  /\ Return(p)
  /\ UNCHANGED <<alive, used, expires, lastOnline, settingVars, usageVars, panelVars, faults>>

activatePendingStarts(p) ==
  /\ p = "starts" /\ pending
  /\ Start(p, "starts", "startRead")
  /\ UNCHANGED <<rowVars, settingVars, usageVars, panelVars, faults>>

\* Mutant of startRead: a client that has not connected yet is forgotten.
startReadForgets(p) ==
  /\ At(p, "startRead")
  /\ Goto(p, IF ~alive \/ expires.when # "never" \/ (used = 0 /\ ~lastOnline)
             THEN "startClear" ELSE "startWrite")
  /\ UNCHANGED <<rowVars, settingVars, usageVars, panelVars, faults>>

\* Gone or dated by hand: stop tracking it.  Not connected yet: wait.
startRead(p) ==
  /\ At(p, "startRead")
  /\ \/ (~alive \/ expires.when # "never") /\ Goto(p, "startClear")
     \/ alive /\ expires.when = "never" /\ used = 0 /\ ~lastOnline /\ Return(p)
     \/ alive /\ expires.when = "never" /\ (used > 0 \/ lastOnline) /\ Goto(p, "startWrite")
  /\ UNCHANGED <<rowVars, settingVars, usageVars, panelVars, faults>>

startWrite(p) ==
  /\ At(p, "startWrite")
  /\ IF alive THEN expires' = Date("start") /\ Goto(p, "startClear")
              ELSE Return(p) /\ UNCHANGED expires
  /\ UNCHANGED <<alive, status, used, lastOnline, settingVars, usageVars, panelVars, faults>>

startClear(p) ==
  /\ At(p, "startClear")
  /\ pending' = FALSE
  /\ Return(p)
  /\ UNCHANGED <<rowVars, rule, renewals, usageVars, panelVars, faults>>

(* -------------------------- the seller's requests ----------------------- *)

\* A new date (given, or days added to the current one), no date, off or on.
updateClient(p, op) ==
  /\ alive
  /\ Start(p, op, IF op \in {"date", "never"} THEN "updateClear" ELSE "updateWrite")
  /\ UNCHANGED <<rowVars, settingVars, usageVars, panelVars, faults>>

\* Mutant of updateClear: the period that has not started is still tracked.
updateClearNot(p) ==
  /\ At(p, "updateClear")
  /\ Goto(p, "updateWrite")
  /\ UNCHANGED <<rowVars, settingVars, usageVars, panelVars, faults>>

\* An explicit date ends a period that has not started, before it is written.
updateClear(p) ==
  /\ At(p, "updateClear")
  /\ pending' = FALSE
  /\ Goto(p, "updateWrite")
  /\ UNCHANGED <<rowVars, rule, renewals, usageVars, panelVars, faults>>

updateWrite(p) ==
  LET op == loc[p].op IN
  /\ At(p, "updateWrite")
  /\ IF ~alive THEN Return(p) /\ UNCHANGED <<status, expires>>
     ELSE /\ expires' = CASE op = "date" -> Date("seller")
                          [] op = "never" -> [by |-> "seller", when |-> "never"]
                          [] OTHER -> expires
          /\ status' = CASE op = "disable" -> "DISABLED" [] op = "enable" -> "ACTIVE"
                         [] OTHER -> status
          /\ Goto(p, "recomputeRead")
  /\ UNCHANGED <<alive, used, lastOnline, settingVars, usageVars, panelVars, faults>>

\* pushClient starts from the row as it is now.
pushRead(p) ==
  /\ At(p, "pushRead")
  /\ IF alive THEN loc' = [loc EXCEPT ![p].pc = "pushPanel", ![p].todo = Servers, ![p].status = status]
              ELSE Throw(p)
  /\ UNCHANGED <<rowVars, settingVars, usageVars, panelVars, faults>>

\* A panel call fails: because the remote client is missing, or by a fault.
CallFails(s) == faults' = IF s \in present THEN faults + 1 ELSE faults
MayFail(s) == s \in present => faults < MaxFaults

\* Mutant of pushPanel: a LIMITED or EXPIRED client is switched off too.
pushPanelActiveOnly(p) ==
  /\ At(p, "pushPanel")
  /\ \E s \in loc[p].todo :
       /\ loc' = [loc EXCEPT ![p] = IF @.todo = {s} THEN AfterPush(@) ELSE [@ EXCEPT !.todo = loc[p].todo \ {s}]]
       /\ s \in present
       /\ on' = [on EXCEPT ![s] = (loc[p].status = "ACTIVE")]
  /\ UNCHANGED <<rowVars, settingVars, usageVars, panel, present, traffic, faults>>

\* updateOnPanel, panel by panel; an error is noted on the link and the loop
\* goes on.
pushPanel(p) ==
  /\ At(p, "pushPanel")
  /\ \E s \in loc[p].todo :
       /\ loc' = [loc EXCEPT ![p] = IF @.todo = {s} THEN AfterPush(@)
                                                    ELSE [@ EXCEPT !.todo = loc[p].todo \ {s}]]
       /\ \/ /\ s \in present
             /\ on' = [on EXCEPT ![s] = (loc[p].status # "DISABLED")]
             /\ UNCHANGED faults
          \/ MayFail(s) /\ CallFails(s) /\ UNCHANGED on
  /\ UNCHANGED <<rowVars, settingVars, usageVars, panel, present, traffic>>

resetClientTraffic(p) ==
  /\ alive
  /\ Start(p, "reset", "resetRead")
  /\ UNCHANGED <<rowVars, settingVars, usageVars, panelVars, faults>>

resetRead(p) ==
  /\ At(p, "resetRead")
  /\ IF alive THEN loc' = [loc EXCEPT ![p].pc = "resetPanel", ![p].todo = Servers,
                                      ![p].limited = (status = "LIMITED")]
              ELSE Throw(p)
  /\ UNCHANGED <<rowVars, settingVars, usageVars, panelVars, faults>>

\* Reset the counter on the next panel; when that worked, the link follows.
resetPanel(p) ==
  /\ At(p, "resetPanel")
  /\ \E s \in loc[p].todo :
       \/ /\ s \in present
          /\ panel' = [panel EXCEPT ![s] = 0]
          /\ loc' = [loc EXCEPT ![p].pc = "resetLink", ![p].server = s]
          /\ UNCHANGED faults
       \/ /\ MayFail(s) /\ CallFails(s)
          /\ loc' = [loc EXCEPT ![p] = Visited(@, s, "recomputeRead")]
          /\ UNCHANGED panel
  /\ UNCHANGED <<rowVars, settingVars, usageVars, on, present, traffic>>

resetLink(p) ==
  LET s == loc[p].server IN
  /\ At(p, "resetLink")
  /\ links' = [links EXCEPT ![s] = 0]
  /\ loc' = [loc EXCEPT ![p] = Visited([@ EXCEPT !.pc = "resetPanel"], s, "recomputeRead")]
  /\ UNCHANGED <<rowVars, settingVars, history, panelVars, faults>>

deleteClient(p) ==
  /\ alive /\ MayStart(p)
  /\ loc' = [loc EXCEPT ![p] = [Idle EXCEPT !.op = "delete", !.pc = "deletePanel", !.todo = Servers]]
  /\ UNCHANGED <<rowVars, settingVars, usageVars, panelVars, faults>>

\* A panel that refuses keeps its remote client; the row goes all the same.
deletePanel(p) ==
  /\ At(p, "deletePanel")
  /\ \E s \in loc[p].todo :
       /\ loc' = [loc EXCEPT ![p] = Visited(@, s, "deleteRow")]
       /\ \/ present' = present \ {s} /\ UNCHANGED faults
          \/ MayFail(s) /\ CallFails(s) /\ UNCHANGED present
  /\ UNCHANGED <<rowVars, settingVars, usageVars, panel, on, traffic>>

deleteRow(p) ==
  /\ At(p, "deleteRow")
  /\ IF alive THEN alive' = FALSE /\ Goto(p, "deletePending") ELSE Return(p) /\ UNCHANGED alive
  /\ UNCHANGED <<status, used, expires, lastOnline, settingVars, usageVars, panelVars, faults>>

deletePending(p) ==
  /\ At(p, "deletePending")
  /\ pending' = FALSE
  /\ Return(p)
  /\ UNCHANGED <<rowVars, rule, renewals, usageVars, panelVars, faults>>

(* ------------------------------ auto-renewal ---------------------------- *)

\* Arm or edit the rule: the cycles already run are kept.
setAutoRenew(p) ==
  /\ alive /\ MayStart(p)
  /\ loc' = [loc EXCEPT ![p] = [Idle EXCEPT !.op = "setRule", !.pc = "ruleWrite", !.rule = rule]]
  /\ UNCHANGED <<rowVars, settingVars, usageVars, panelVars, faults>>

ruleWrite(p) ==
  /\ At(p, "ruleWrite")
  /\ rule' = [armed |-> TRUE, due |-> FALSE, cycles |-> loc[p].rule.cycles]
  /\ renewals' = IF loc[p].rule.armed THEN renewals ELSE 0
  /\ Return(p)
  /\ UNCHANGED <<rowVars, pending, usageVars, panelVars, faults>>

clearAutoRenew(p) ==
  /\ alive /\ MayStart(p) /\ rule.armed
  /\ rule' = NoRule
  /\ UNCHANGED <<rowVars, pending, renewals, usageVars, panelVars, loc, faults>>

\* findMany of the rules.
runAutoRenew(p) ==
  /\ p = "renew" /\ rule.armed /\ MayStart(p)
  /\ loc' = [loc EXCEPT ![p] = [Idle EXCEPT !.op = "renew", !.pc = "renewClient", !.rule = rule]]
  /\ UNCHANGED <<rowVars, settingVars, usageVars, panelVars, faults>>

\* Read the client: the rule of a deleted one is dropped, one not due is left.
renewClient(p) ==
  /\ At(p, "renewClient")
  /\ \/ ~alive /\ Goto(p, "renewDrop")
     \/ alive /\ ~loc[p].rule.due /\ Return(p)
     \/ alive /\ loc[p].rule.due /\ Goto(p, "resetRead")
  /\ UNCHANGED <<rowVars, settingVars, usageVars, panelVars, faults>>

renewDrop(p) ==
  /\ At(p, "renewDrop")
  /\ rule' = NoRule
  /\ Return(p)
  /\ UNCHANGED <<rowVars, pending, renewals, usageVars, panelVars, faults>>

\* With rule.extendExpiry the date moves on and the client is pushed.
renewExtend(p) ==
  /\ At(p, "renewExtend")
  /\ \/ Goto(p, "renewWrite") /\ UNCHANGED expires
     \/ IF alive THEN /\ expires' = Date("renewal")
                      /\ loc' = [loc EXCEPT ![p].pc = "pushRead", ![p].extended = TRUE]
                 ELSE Return(p) /\ UNCHANGED expires
  /\ UNCHANGED <<alive, status, used, lastOnline, settingVars, usageVars, panelVars, faults>>

\* The rule as it was read, one cycle further; the last cycle removes it.
renewWrite(p) ==
  LET r == loc[p].rule IN
  /\ At(p, "renewWrite")
  /\ renewals' = Min({renewals + 1, MaxCycles + 1})
  /\ rule' = IF r.cycles + 1 >= MaxCycles THEN NoRule
             ELSE [r EXCEPT !.due = FALSE, !.cycles = @ + 1]
  /\ Return(p)
  /\ UNCHANGED <<rowVars, pending, usageVars, panelVars, faults>>

(* --------------------------- panels, time, faults ----------------------- *)

\* The customer uses the service.
useTraffic(s) ==
  /\ s \in present /\ on[s] /\ traffic[s] < MaxTraffic
  /\ traffic' = [traffic EXCEPT ![s] = @ + 1]
  /\ panel' = [panel EXCEPT ![s] = @ + 1]
  /\ UNCHANGED <<rowVars, settingVars, usageVars, on, present, loc, faults>>

expiryPasses ==
  /\ alive /\ expires.when = "later"
  /\ expires' = [expires EXCEPT !.when = "past"]
  /\ UNCHANGED <<alive, status, used, lastOnline, settingVars, usageVars, panelVars, loc, faults>>

cyclePasses ==
  /\ rule.armed /\ ~rule.due
  /\ rule' = [rule EXCEPT !.due = TRUE]
  /\ UNCHANGED <<rowVars, pending, renewals, usageVars, panelVars, loc, faults>>

\* The web process or the worker dies with everything it had in flight.
Crash ==
  /\ faults < MaxFaults /\ faults' = faults + 1
  /\ \E dead \in {Web, Servers \union Jobs} :
       /\ \E p \in dead : ~At(p, "idle")
       /\ loc' = [p \in Procs |-> IF p \in dead THEN Idle ELSE loc[p]]
  /\ UNCHANGED <<rowVars, settingVars, usageVars, panelVars>>

Request(p) ==
  \/ \E op \in Requests \intersect {"date", "never", "disable", "enable"} : updateClient(p, op)
  \/ \E s \in Servers : "sync" \in Requests /\ syncServer(p, s)
  \/ "reset" \in Requests /\ resetClientTraffic(p)
  \/ "delete" \in Requests /\ deleteClient(p)
  \/ "setRule" \in Requests /\ setAutoRenew(p)
  \/ "clearRule" \in Requests /\ clearAutoRenew(p)

JobStart(p) == enforceClientStatuses(p) \/ activatePendingStarts(p) \/ runAutoRenew(p)

Step(p) ==
  \/ syncLinks(p) \/ syncWrite(p) \/ syncUsage(p) \/ syncOnline(p)
  \/ recomputeRead(p) \/ recomputeWrite(p) \/ enforceWrite(p)
  \/ startRead(p) \/ startWrite(p) \/ startClear(p)
  \/ updateClear(p) \/ updateWrite(p) \/ pushRead(p) \/ pushPanel(p)
  \/ resetRead(p) \/ resetPanel(p) \/ resetLink(p)
  \/ deletePanel(p) \/ deleteRow(p) \/ deletePending(p)
  \/ ruleWrite(p) \/ renewClient(p) \/ renewDrop(p) \/ renewExtend(p) \/ renewWrite(p)

Next ==
  \/ syncAll
  \/ \E p \in Web : Request(p)
  \/ \E p \in Jobs : JobStart(p)
  \/ \E p \in Procs : Step(p) \/ syncFetch(p) \/ syncFail(p)
  \/ \E s \in Servers : useTraffic(s)
  \/ expiryPasses \/ cyclePasses \/ Crash

Spec == Init /\ [][Next]_vars

\* Node runs every ready continuation and cron starts every job again and again,
\* whatever else is in flight.  Nobody is obliged to send a request, and no panel
\* to answer.
FairSpec ==
  /\ Spec
  /\ SF_vars(syncAll)
  /\ \A p \in Jobs : SF_vars(JobStart(p))
  /\ \A p \in Procs : WF_vars(Step(p) \/ syncFetch(p) \/ syncFail(p))

\* A panel that is down answers again some day.
PanelsAnswer == \A s \in Servers : SF_vars(syncFetch(s))

(* -------------------- properties, handlers interleaved ------------------ *)

(***************************************************************************)
(* While no process dies, a client sold with a first-use period keeps the  *)
(* period until a date takes its place: activatePendingStarts, updateClient*)
(* and runAutoRenew never leave it without either (it would never expire). *)
(***************************************************************************)
PeriodIsNeverLost ==
  (faults = 0 /\ alive /\ expires.by = "pending" /\ ~pending) =>
    \E p \in Web : At(p, "updateWrite") /\ loc[p].op \in {"date", "never"}

(***************************************************************************)
(* If its panels answer now and then, a client whose panels have counted   *)
(* its whole limit does not stay ACTIVE (syncServer, recomputeClient),     *)
(* unless a reset or a deletion comes first.                               *)
(***************************************************************************)
LimitIsNoticed ==
  PanelsAnswer =>
    ((alive /\ status = "ACTIVE" /\ Total(panel) >= Limit)
       ~> (~alive \/ present # Servers \/ status # "ACTIVE" \/ Total(panel) < Limit))

(***************************************************************************)
(* enforceClientStatuses: an ACTIVE client whose date has passed does not  *)
(* stay ACTIVE, "even if no panel sync happened".                          *)
(***************************************************************************)
ExpiryIsNoticed ==
  (alive /\ status = "ACTIVE" /\ expires.when = "past")
    ~> (~alive \/ status # "ACTIVE" \/ expires.when # "past")

(* ---------------- properties, one handler at a time or claimed ----------- *)

(***************************************************************************)
(* Handlers one after the other: when nothing failed and nothing is under  *)
(* way, every panel has the remote client switched on exactly when the     *)
(* client is not DISABLED (pushClient).                                    *)
(***************************************************************************)
PanelsFollow ==
  (faults = 0 /\ alive /\ Active = {}) => \A s \in present : on[s] = (status # "DISABLED")

(***************************************************************************)
(* Handlers one after the other, crashes included: the usage history never *)
(* holds more than really went through (applyClientStats' deltas, resets   *)
(* and half-done resets included).                                         *)
(***************************************************************************)
HistoryNotInflated == \A s \in Servers : history[s] <= traffic[s]

(***************************************************************************)
(* Handlers one after the other, without crashes: a rule renews its client *)
(* at most maxCycles times, edits of the rule included (runAutoRenew).     *)
(***************************************************************************)
RenewalsBounded == faults = 0 => renewals <= MaxCycles

(***************************************************************************)
(* Handlers one after the other, crashes included: only the seller brings  *)
(* a DISABLED client back, whatever synchronisation, enforcement and       *)
(* renewals derive (recomputeClient's first check); and "an explicit date  *)
(* wins over a not-yet-started period" (updateClient), whenever the        *)
(* first-use start comes, also when the date is "never".                   *)
(***************************************************************************)
SellerDecides ==
  [][/\ status = "DISABLED" /\ status' # "DISABLED" =>
          \E p \in Web : At(p, "updateWrite") /\ loc[p].op = "enable"
     /\ expires.by = "seller" => expires'.by # "start"]_vars

(***************************************************************************)
(* A client over its limit or past its date does not stay ACTIVE.          *)
(***************************************************************************)
LimitsAreNoticed == LimitIsNoticed /\ ExpiryIsNoticed

(***************************************************************************)
(* Handlers one after the other, crashes included: types hold, the usage   *)
(* history is not inflated and a rule renews no more often than it says.   *)
(***************************************************************************)
CountsInOrder == TypeOK /\ HistoryNotInflated /\ RenewalsBounded
=============================================================================
