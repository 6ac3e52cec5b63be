----------------------- MODULE ClientLifecycleProofs ------------------------
(***************************************************************************)
(* The life of a client with any number of panels: what holds however its  *)
(* handlers interleave, and what holds while requests and jobs follow one  *)
(* another (the panels are still synchronised all at once).                *)
(***************************************************************************)
EXTENDS ClientLifecycle, SumProofs

(* ------------------------- handlers and their types ---------------------- *)

Syncing == {"syncFetch", "syncLinks", "syncWrite", "syncUsage", "syncOnline"}

\* Which operation stands at which statement, and who runs it.
HandlerOK(p, l) ==
  /\ l.pc = "idle" => l = Idle
  /\ l.pc \in Syncing \union {"resetLink"} => l.server \in Servers
  /\ l.pc \in Syncing => l.op = "sync"
  /\ l.op = "sync" => l.pc \in Syncing \union {"recomputeRead", "recomputeWrite"}
  /\ l.op \in {"date", "never", "disable", "enable"} => p \in Web
  /\ l.pc = "updateClear" => l.op \in {"date", "never"}
  /\ l.pc \in {"renewClient", "renewDrop", "renewWrite", "renewExtend"} => l.op = "renew"
  /\ l.pc = "ruleWrite" => l.op = "setRule"
  /\ l.extended => l.op = "renew"
  /\ p \in Servers /\ l.pc # "idle" => l.op = "sync" /\ (l.pc \in Syncing => l.server = p)

HandlersOK == \A p \in Procs : HandlerOK(p, loc[p])

\* A panel never counts more than went through it.
PanelsCount == \A s \in Servers : panel[s] <= traffic[s]

IInv == TypeOK /\ HandlersOK /\ PanelsCount

\* The columns, without the handlers.
ColumnsOK ==
  /\ alive \in BOOLEAN /\ status \in Status /\ used \in Nat /\ expires \in Dates
  /\ lastOnline \in BOOLEAN /\ pending \in BOOLEAN /\ rule \in Rules /\ renewals \in Nat
  /\ links \in [Servers -> 0 .. MaxTraffic] /\ history \in [Servers -> 0 .. MaxTraffic + 1]
  /\ panel \in [Servers -> 0 .. MaxTraffic] /\ traffic \in [Servers -> 0 .. MaxTraffic]
  /\ on \in [Servers -> BOOLEAN] /\ present \subseteq Servers
  /\ faults \in 0 .. MaxFaults

\* Handler p goes on as m, or returns.
Moves(p, m) ==
  /\ m \in Locals /\ HandlerOK(p, m)
  /\ m = Idle \/ (m.op = loc[p].op /\ m.rule = loc[p].rule /\ m.pc # "idle")

\* TypeOK splits into the columns and the handlers.
LEMMA TypeIs == TypeOK <=> ColumnsOK /\ loc \in [Procs -> Locals]
  BY DEF TypeOK, ColumnsOK

\* The same after a step.
LEMMA NextTypeIs == TypeOK' <=> ColumnsOK' /\ loc' \in [Procs -> Locals]
  BY DEF TypeOK, ColumnsOK

\* An idle handler is typed, and does nothing.
LEMMA IdleOK ==
  /\ Idle \in Locals /\ \A p : HandlerOK(p, Idle)
  /\ Idle.pc = "idle" /\ Idle.op = "none" /\ Idle.extended = FALSE
<1>1. NoRule \in Rules
  BY ClientAssumptions DEF NoRule, Rules
<1>2. Idle \in Locals
  BY <1>1, ClientAssumptions DEF Idle, Locals, Ops, Labels, Status
<1>3. Idle.pc = "idle" /\ Idle.op = "none" /\ Idle.extended = FALSE
  BY DEF Idle
<1>4. \A p : HandlerOK(p, Idle)
  BY <1>3 DEF HandlerOK, Syncing
<1> QED BY <1>2, <1>3, <1>4

\* Assigning one field keeps a handler typed.
LEMMA SetField ==
  ASSUME NEW l \in Locals
  PROVE  /\ \A v \in Ops : [l EXCEPT !.op = v] \in Locals
         /\ \A v \in Labels : [l EXCEPT !.pc = v] \in Locals
         /\ \A v \in Servers \union {NoServer} : [l EXCEPT !.server = v] \in Locals
         /\ \A v \in SUBSET Servers : [l EXCEPT !.todo = v] \in Locals
         /\ \A v \in 0 .. MaxTraffic : [l EXCEPT !.seen = v] \in Locals
         /\ \A v \in 0 .. MaxTraffic : [l EXCEPT !.link = v] \in Locals
         /\ \A v \in Nat : [l EXCEPT !.used = v] \in Locals
         /\ \A v \in Status : [l EXCEPT !.status = v] \in Locals
         /\ \A v \in BOOLEAN : [l EXCEPT !.limited = v] \in Locals
         /\ \A v \in BOOLEAN : [l EXCEPT !.extended = v] \in Locals
         /\ \A v \in Rules : [l EXCEPT !.rule = v] \in Locals
  BY DEF Locals

\* What the type invariant says of one handler.
LEMMA HandlerTypes ==
  ASSUME IInv, NEW p \in Procs
  PROVE  /\ loc[p] \in Locals /\ loc[p].op \in Ops /\ loc[p].pc \in Labels
         /\ loc[p].server \in Servers \union {NoServer} /\ loc[p].todo \in SUBSET Servers
         /\ loc[p].seen \in 0 .. MaxTraffic /\ loc[p].link \in 0 .. MaxTraffic
         /\ loc[p].used \in Nat /\ loc[p].status \in Status
         /\ loc[p].limited \in BOOLEAN /\ loc[p].extended \in BOOLEAN /\ loc[p].rule \in Rules
         /\ HandlerOK(p, loc[p]) /\ loc \in [Procs -> Locals]
<1>1. loc[p] \in Locals /\ loc \in [Procs -> Locals]
  BY DEF IInv, TypeOK
<1>2. HandlerOK(p, loc[p])
  BY DEF IInv, HandlersOK
<1> QED BY <1>1, <1>2 DEF Locals

\* A handler that keeps its operation and its rule, at a statement of that operation.
LEMMA MovesOn ==
  ASSUME IInv, NEW p \in Procs, loc[p].pc # "idle", NEW m \in Locals,
         m.op = loc[p].op, m.rule = loc[p].rule, m.extended => loc[p].extended \/ loc[p].op = "renew",
         m.pc \notin {"idle", "updateClear", "ruleWrite"},
         m.pc \in Syncing => loc[p].pc \in Syncing /\ m.server = loc[p].server,
         m.pc = "resetLink" => m.server \in Servers,
         loc[p].op = "sync" => m.pc \in Syncing \union {"recomputeRead", "recomputeWrite"},
         m.pc \in {"renewClient", "renewDrop", "renewWrite", "renewExtend"} => loc[p].op = "renew"
  PROVE  Moves(p, m)
<1>1. HandlerOK(p, loc[p])
  BY HandlerTypes
<1>2. HandlerOK(p, m)
  BY <1>1 DEF HandlerOK, Syncing
<1> QED BY <1>2 DEF Moves

\* Any handler may return.
LEMMA MovesBack == \A p : Moves(p, Idle)
  BY IdleOK DEF Moves

\* The two places a renewal returns to, and everyone else's return.
LEMMA Returns ==
  ASSUME IInv, NEW p \in Procs, loc[p].pc # "idle", NEW l \in Locals,
         l.op = loc[p].op, l.rule = loc[p].rule, l.extended => loc[p].op = "renew"
  PROVE  Moves(p, AfterReset(l)) /\ Moves(p, AfterPush(l))
<1>1. l.rule \in Rules
  BY DEF Locals
<1>2. ASSUME NEW label \in {"renewExtend", "renewWrite"}, loc[p].op = "renew"
      PROVE  Moves(p, [Idle EXCEPT !.op = "renew", !.pc = label, !.rule = l.rule])
  <2>1. PICK m : m = [Idle EXCEPT !.op = "renew", !.pc = label, !.rule = l.rule]
    OBVIOUS
  <2>2. m \in Locals
    BY <1>1, <2>1, IdleOK, SetField DEF Ops, Labels
  <2>3. m.op = "renew" /\ m.pc = label /\ m.rule = l.rule /\ ~m.extended
    BY <2>1 DEF Idle
  <2>4. Moves(p, m)
    BY <1>2, <2>2, <2>3, MovesOn DEF Syncing
  <2> QED BY <2>1, <2>4
<1>3. Moves(p, AfterReset(l))
  BY <1>2, MovesBack DEF AfterReset
<1> QED BY <1>2, <1>3 DEF AfterPush

\* What AfterRecompute makes of a handler of recomputeClient.
LEMMA Recomputed ==
  ASSUME IInv, NEW p \in Procs, loc[p].pc # "idle"
  PROVE  Moves(p, AfterRecompute(loc[p]))
<1>1. PICK r : r = [loc[p] EXCEPT !.used = 0, !.status = "ACTIVE", !.server = NoServer]
  OBVIOUS
<1>2. r \in Locals
  BY <1>1, HandlerTypes, SetField DEF Status
<1>3. r.op = loc[p].op /\ r.rule = loc[p].rule /\ r.extended = loc[p].extended
  BY <1>1, HandlerTypes DEF Locals
<1>4. r.extended => loc[p].op = "renew"
  BY <1>3, HandlerTypes DEF HandlerOK
<1>5. Moves(p, AfterReset(r))
  BY <1>2, <1>3, <1>4, Returns
<1>6. ASSUME loc[p].op # "sync" PROVE Moves(p, [r EXCEPT !.pc = "pushRead"])
  <2>1. PICK m : m = [r EXCEPT !.pc = "pushRead"]
    OBVIOUS
  <2>2. m \in Locals
    BY <1>2, <2>1, SetField DEF Labels
  <2>3. /\ m.op = loc[p].op /\ m.rule = loc[p].rule /\ m.extended = loc[p].extended
        /\ m.pc = "pushRead"
    BY <1>2, <1>3, <2>1 DEF Locals
  <2>4. Moves(p, m)
    BY <1>6, <2>2, <2>3, MovesOn DEF Syncing
  <2> QED BY <2>1, <2>4
<1> QED BY <1>1, <1>5, <1>6, MovesBack DEF AfterRecompute

\* What a throw makes of a handler.
LEMMA Throws ==
  ASSUME IInv, NEW p \in Procs, loc[p].pc # "idle", Throw(p)
  PROVE  \E m : loc' = [loc EXCEPT ![p] = m] /\ Moves(p, m) /\ (m = Idle \/ m = AfterPush(loc[p]))
<1>1. Moves(p, AfterPush(loc[p]))
  BY HandlerTypes, Returns DEF HandlerOK
<1>2. loc' = [loc EXCEPT ![p] = IF loc[p].op = "renew" THEN AfterPush(loc[p]) ELSE Idle]
  BY HandlerTypes DEF Throw
<1> QED BY <1>1, <1>2, MovesBack

\* Two numbers have a smaller one.
LEMMA MinIs ==
  ASSUME NEW m \in Nat, NEW n \in Nat
  PROVE  Min({m, n}) \in Nat /\ Min({m, n}) <= m /\ Min({m, n}) <= n
<1>1. \E x \in {m, n} : \A y \in {m, n} : x <= y
  <2>1. m <= n \/ n <= m
    OBVIOUS
  <2> QED BY <2>1
<1>2. Min({m, n}) \in {m, n} /\ \A y \in {m, n} : Min({m, n}) <= y
  BY <1>1 DEF Min
<1> QED BY <1>2

(* ----------------------- how each statement moves on --------------------- *)

\* Handler p is m after the step, and was not idle before.
Becomes(p, m) == loc' = [loc EXCEPT ![p] = m] /\ Moves(p, m) /\ loc[p].pc # "idle"

\* Return, as the handler it leaves.
LEMMA ReturnMoves ==
  ASSUME NEW p, loc[p].pc # "idle", Return(p)
  PROVE  Becomes(p, Idle)
  BY MovesBack DEF Becomes, Return

\* Goto, as the handler it leaves.
LEMMA GotoMoves ==
  ASSUME IInv, NEW p \in Procs, loc[p].pc # "idle", NEW label \in Labels, Goto(p, label),
         label \notin {"idle", "updateClear", "ruleWrite", "resetLink"},
         label \in Syncing => loc[p].pc \in Syncing,
         loc[p].op = "sync" => label \in Syncing \union {"recomputeRead", "recomputeWrite"},
         label \in {"renewClient", "renewDrop", "renewWrite", "renewExtend"} => loc[p].op = "renew"
  PROVE  \E m : /\ Becomes(p, m) /\ m.pc = label /\ m.op = loc[p].op /\ m.server = loc[p].server
                /\ m.seen = loc[p].seen /\ m.link = loc[p].link /\ m.status = loc[p].status
                /\ m.todo = loc[p].todo
<1>1. PICK m : m = [loc[p] EXCEPT !.pc = label]
  OBVIOUS
<1>2. m \in Locals
  BY <1>1, HandlerTypes, SetField
<1>3. /\ m.op = loc[p].op /\ m.rule = loc[p].rule /\ m.extended = loc[p].extended
      /\ m.pc = label /\ m.server = loc[p].server /\ m.todo = loc[p].todo
      /\ m.seen = loc[p].seen /\ m.link = loc[p].link /\ m.status = loc[p].status
  BY <1>1, HandlerTypes DEF Locals
<1>4. Moves(p, m)
  BY <1>2, <1>3, MovesOn
<1>5. loc' = [loc EXCEPT ![p] = m]
  BY <1>1, HandlerTypes DEF Goto
<1> QED BY <1>3, <1>4, <1>5 DEF Becomes

\* Synchronising one panel, statement by statement.
LEMMA SyncMoves ==
  ASSUME IInv, NEW p \in Procs
  PROVE  /\ syncFetch(p) => \E m : /\ Becomes(p, m) /\ m.pc = "syncLinks" /\ m.seen = panel[m.server]
                                   /\ m.server = loc[p].server /\ m.server \in Servers
         /\ syncFail(p) => Becomes(p, Idle)
         /\ syncLinks(p) => \/ Becomes(p, Idle)
                            \/ \E m : /\ Becomes(p, m) /\ m.pc = "syncWrite" /\ m.seen = loc[p].seen
                                      /\ m.server = loc[p].server /\ m.server \in Servers
                                      /\ m.link = links[m.server]
         /\ syncWrite(p) => \/ Becomes(p, Idle) /\ links' = links
                            \/ \E m : /\ Becomes(p, m) /\ m.pc = "syncUsage" /\ m.seen = loc[p].seen
                                      /\ m.server = loc[p].server /\ m.server \in Servers
                                      /\ m.link = loc[p].link
                                      /\ links' = [links EXCEPT ![m.server] = m.seen]
         /\ syncUsage(p) => \E m : Becomes(p, m) /\ m.pc = "syncOnline"
         /\ syncOnline(p) => \E m : Becomes(p, m) /\ m.pc = "recomputeRead" /\ m.op = "sync"
<1>0. loc[p] \in Locals /\ loc \in [Procs -> Locals] /\ HandlerOK(p, loc[p])
  BY HandlerTypes
<1>1. ASSUME syncFetch(p)
      PROVE  \E m : /\ Becomes(p, m) /\ m.pc = "syncLinks" /\ m.seen = panel[m.server]
                    /\ m.server = loc[p].server /\ m.server \in Servers
  <2>1. loc[p].pc = "syncFetch" /\ loc[p].server \in Servers /\ loc[p].op = "sync"
    BY <1>0, <1>1 DEF syncFetch, At, HandlerOK, Syncing
  <2>2. panel[loc[p].server] \in 0 .. MaxTraffic
    BY <2>1 DEF IInv, TypeOK
  <2>3. PICK m : m = [loc[p] EXCEPT !.pc = "syncLinks", !.seen = panel[loc[p].server]]
    OBVIOUS
  <2>4. m \in Locals
    BY <1>0, <2>2, <2>3, SetField DEF Labels
  <2>5. /\ m.op = loc[p].op /\ m.rule = loc[p].rule /\ m.extended = loc[p].extended
        /\ m.pc = "syncLinks" /\ m.server = loc[p].server /\ m.seen = panel[m.server]
    BY <1>0, <2>3 DEF Locals
  <2>6. Moves(p, m)
    BY <2>1, <2>4, <2>5, MovesOn DEF Syncing
  <2>7. loc' = [loc EXCEPT ![p] = m]
    BY <1>0, <1>1, <2>3 DEF syncFetch
  <2> QED BY <2>1, <2>5, <2>6, <2>7 DEF Becomes
<1>2. ASSUME syncFail(p) PROVE Becomes(p, Idle)
  BY <1>2, ReturnMoves DEF syncFail, At
<1>3. ASSUME syncLinks(p), alive
      PROVE  \E m : /\ Becomes(p, m) /\ m.pc = "syncWrite" /\ m.seen = loc[p].seen
                    /\ m.server = loc[p].server /\ m.server \in Servers /\ m.link = links[m.server]
  <2>1. loc[p].pc = "syncLinks" /\ loc[p].server \in Servers /\ loc[p].op = "sync"
    BY <1>0, <1>3 DEF syncLinks, At, HandlerOK, Syncing
  <2>2. links[loc[p].server] \in 0 .. MaxTraffic
    BY <2>1 DEF IInv, TypeOK
  <2>3. PICK m : m = [loc[p] EXCEPT !.pc = "syncWrite", !.link = links[loc[p].server]]
    OBVIOUS
  <2>4. m \in Locals
    BY <1>0, <2>2, <2>3, SetField DEF Labels
  <2>5. /\ m.op = loc[p].op /\ m.rule = loc[p].rule /\ m.extended = loc[p].extended
        /\ m.pc = "syncWrite" /\ m.server = loc[p].server /\ m.seen = loc[p].seen
        /\ m.link = links[m.server]
    BY <1>0, <2>3 DEF Locals
  <2>6. Moves(p, m)
    BY <2>1, <2>4, <2>5, MovesOn DEF Syncing
  <2>7. loc' = [loc EXCEPT ![p] = m]
    BY <1>0, <1>3, <2>3 DEF syncLinks
  <2> QED BY <2>1, <2>5, <2>6, <2>7 DEF Becomes
<1>4. ASSUME syncLinks(p), ~alive PROVE Becomes(p, Idle)
  BY <1>4, ReturnMoves DEF syncLinks, At
<1>5. ASSUME syncWrite(p), alive
      PROVE  \E m : /\ Becomes(p, m) /\ m.pc = "syncUsage" /\ m.seen = loc[p].seen
                    /\ m.server = loc[p].server /\ m.server \in Servers /\ m.link = loc[p].link
                    /\ links' = [links EXCEPT ![m.server] = m.seen]
  <2>1. /\ loc[p].pc = "syncWrite" /\ loc[p].server \in Servers /\ loc[p].op = "sync"
        /\ Goto(p, "syncUsage") /\ links' = [links EXCEPT ![loc[p].server] = loc[p].seen]
    BY <1>0, <1>5 DEF syncWrite, At, HandlerOK, Syncing
  <2>2. "syncUsage" \in Labels /\ "syncUsage" \in Syncing /\ "syncWrite" \in Syncing
    BY DEF Labels, Syncing
  <2>3. PICK m : /\ Becomes(p, m) /\ m.pc = "syncUsage" /\ m.op = loc[p].op /\ m.server = loc[p].server
                 /\ m.seen = loc[p].seen /\ m.link = loc[p].link
    BY <2>1, <2>2, GotoMoves
  <2> QED BY <2>1, <2>3
<1>6. ASSUME syncWrite(p), ~alive PROVE Becomes(p, Idle) /\ links' = links
  BY <1>6, ReturnMoves DEF syncWrite, At
<1>7. ASSUME syncUsage(p) PROVE \E m : Becomes(p, m) /\ m.pc = "syncOnline"
  <2>1. loc[p].pc = "syncUsage" /\ loc[p].op = "sync" /\ 0 \in 0 .. MaxTraffic
    BY <1>0, <1>7, ClientAssumptions DEF syncUsage, At, HandlerOK, Syncing
  <2>2. PICK m : m = [loc[p] EXCEPT !.pc = "syncOnline", !.link = 0]
    OBVIOUS
  <2>3. m \in Locals
    BY <1>0, <2>1, <2>2, SetField DEF Labels
  <2>4. /\ m.op = loc[p].op /\ m.rule = loc[p].rule /\ m.extended = loc[p].extended
        /\ m.pc = "syncOnline" /\ m.server = loc[p].server
    BY <1>0, <2>2 DEF Locals
  <2>5. Moves(p, m)
    BY <2>1, <2>3, <2>4, MovesOn DEF Syncing
  <2>6. loc' = [loc EXCEPT ![p] = m]
    BY <1>0, <1>7, <2>2 DEF syncUsage
  <2> QED BY <2>1, <2>4, <2>5, <2>6 DEF Becomes
<1>8. ASSUME syncOnline(p) PROVE \E m : Becomes(p, m) /\ m.pc = "recomputeRead" /\ m.op = "sync"
  <2>1. loc[p].pc = "syncOnline" /\ loc[p].op = "sync" /\ 0 \in 0 .. MaxTraffic
    BY <1>0, <1>8, ClientAssumptions DEF syncOnline, At, HandlerOK, Syncing
  <2>2. PICK m : m = [loc[p] EXCEPT !.pc = "recomputeRead", !.seen = 0, !.server = NoServer]
    OBVIOUS
  <2>3. m \in Locals
    BY <1>0, <2>1, <2>2, SetField DEF Labels
  <2>4. /\ m.op = loc[p].op /\ m.rule = loc[p].rule /\ m.extended = loc[p].extended
        /\ m.pc = "recomputeRead"
    BY <1>0, <2>2 DEF Locals
  <2>5. Moves(p, m)
    BY <2>1, <2>3, <2>4, MovesOn DEF Syncing
  <2>6. loc' = [loc EXCEPT ![p] = m]
    BY <1>0, <1>8, <2>2 DEF syncOnline
  <2> QED BY <2>1, <2>4, <2>5, <2>6 DEF Becomes
<1> QED BY <1>1, <1>2, <1>3, <1>4, <1>5, <1>6, <1>7, <1>8

\* What recomputeClient adds up is a number.
LEMMA TotalNat ==
  ASSUME IInv
  PROVE  Total(links) \in Nat
<1>1. \A s \in Servers : links[s] \in Nat
  BY DEF IInv, TypeOK
<1>2. SumOf(links, Servers) \in Nat
  BY <1>1, ClientAssumptions, SumNat
<1> QED BY <1>2 DEF Total, SumOf

\* recomputeClient: the read, then the write.
LEMMA RecomputeMoves ==
  ASSUME IInv, NEW p \in Procs
  PROVE  /\ recomputeRead(p) =>
              \E m : /\ Becomes(p, m)
                     /\ \/ alive /\ m.pc = "recomputeWrite" /\ m.status = Derived(Total(links))
                           /\ m.op = loc[p].op
                        \/ ~alive /\ m = AfterRecompute(loc[p])
         /\ recomputeWrite(p) =>
              \E m : /\ Becomes(p, m)
                     /\ \/ alive /\ m = AfterRecompute(loc[p])
                        \/ ~alive /\ (m = Idle \/ m = AfterPush(loc[p]))
<1>0. loc[p] \in Locals /\ loc \in [Procs -> Locals] /\ HandlerOK(p, loc[p])
  BY HandlerTypes
<1>1. ASSUME recomputeRead(p), alive
      PROVE  \E m : /\ Becomes(p, m) /\ m.pc = "recomputeWrite" /\ m.status = Derived(Total(links))
                    /\ m.op = loc[p].op
  <2>1. loc[p].pc = "recomputeRead"
    BY <1>1 DEF recomputeRead, At
  <2>2. PICK total \in Nat : total = Total(links)
    BY TotalNat
  <2>3. Derived(total) \in Status
    BY DEF IInv, TypeOK, Derived, Status
  <2>4. PICK m : m = [loc[p] EXCEPT !.pc = "recomputeWrite", !.used = total, !.status = Derived(total)]
    OBVIOUS
  <2>5. m \in Locals
    BY <1>0, <2>3, <2>4, SetField DEF Labels
  <2>6. /\ m.op = loc[p].op /\ m.rule = loc[p].rule /\ m.extended = loc[p].extended
        /\ m.pc = "recomputeWrite" /\ m.status = Derived(total)
    BY <1>0, <2>4 DEF Locals
  <2>7. Moves(p, m)
    BY <2>1, <2>5, <2>6, MovesOn DEF Syncing
  <2>8. loc' = [loc EXCEPT ![p] = m]
    BY <1>0, <1>1, <2>2, <2>4 DEF recomputeRead
  <2> QED BY <2>1, <2>2, <2>6, <2>7, <2>8 DEF Becomes
<1>2. ASSUME recomputeRead(p), ~alive PROVE Becomes(p, AfterRecompute(loc[p]))
  <2>1. loc[p].pc = "recomputeRead" /\ loc' = [loc EXCEPT ![p] = AfterRecompute(loc[p])]
    BY <1>0, <1>2 DEF recomputeRead, At
  <2> QED BY <2>1, Recomputed DEF Becomes
<1>3. ASSUME recomputeWrite(p), alive PROVE Becomes(p, AfterRecompute(loc[p]))
  <2>1. loc[p].pc = "recomputeWrite" /\ loc' = [loc EXCEPT ![p] = AfterRecompute(loc[p])]
    BY <1>0, <1>3 DEF recomputeWrite, At
  <2> QED BY <2>1, Recomputed DEF Becomes
<1>4. ASSUME recomputeWrite(p), ~alive
      PROVE  \E m : Becomes(p, m) /\ (m = Idle \/ m = AfterPush(loc[p]))
  <2>1. loc[p].pc = "recomputeWrite" /\ Throw(p)
    BY <1>4 DEF recomputeWrite, At
  <2> QED BY <2>1, Throws DEF Becomes
<1> QED BY <1>1, <1>2, <1>3, <1>4

\* Where a renewal goes on after what it called; everyone else returns.
LEMMA ReturnLabels ==
  ASSUME NEW l \in Locals
  PROVE  /\ AfterReset(l).pc \in {"idle", "renewExtend"}
         /\ AfterPush(l).pc \in {"idle", "renewExtend", "renewWrite"}
         /\ AfterRecompute(l).pc \in {"idle", "renewExtend", "pushRead"}
         /\ l.op \notin {"sync", "reset", "renew"} =>
              AfterRecompute(l).pc = "pushRead" /\ AfterRecompute(l).op = l.op
<1>1. ASSUME NEW k \in Locals PROVE AfterReset(k).pc \in {"idle", "renewExtend"}
  BY DEF AfterReset, Idle
<1>2. AfterPush(l).pc \in {"idle", "renewExtend", "renewWrite"}
  BY <1>1 DEF AfterPush, Idle
<1>3. PICK r : r = [l EXCEPT !.used = 0, !.status = "ACTIVE", !.server = NoServer]
  OBVIOUS
<1>4. r \in Locals /\ r.op = l.op
  <2>1. r \in Locals
    BY <1>3, SetField DEF Status
  <2> QED BY <1>3, <2>1 DEF Locals
<1>5. [r EXCEPT !.pc = "pushRead"].pc = "pushRead" /\ [r EXCEPT !.pc = "pushRead"].op = l.op
  BY <1>4 DEF Locals
<1>6. AfterRecompute(l) = IF l.op = "sync" THEN Idle
                          ELSE IF l.op \in {"reset", "renew"} /\ ~l.limited THEN AfterReset(r)
                          ELSE [r EXCEPT !.pc = "pushRead"]
  BY <1>3 DEF AfterRecompute
<1>7. AfterRecompute(l).pc \in {"idle", "renewExtend", "pushRead"}
  BY <1>1, <1>4, <1>5, <1>6, IdleOK
<1> QED BY <1>1, <1>2, <1>5, <1>6, <1>7

\* A throw, as the handler it leaves.
LEMMA ThrowMoves ==
  ASSUME IInv, NEW p \in Procs, loc[p].pc # "idle", Throw(p)
  PROVE  \E m : Becomes(p, m) /\ m.pc \in {"idle", "renewExtend", "renewWrite"}
<1>1. PICK m : /\ loc' = [loc EXCEPT ![p] = m] /\ Moves(p, m)
               /\ m = Idle \/ m = AfterPush(loc[p])
  BY Throws
<1>2. m.pc \in {"idle", "renewExtend", "renewWrite"}
  BY <1>1, HandlerTypes, ReturnLabels, IdleOK
<1> QED BY <1>1, <1>2 DEF Becomes

\* One panel less to visit, or on to the statement after the last one.
LEMMA VisitedMoves ==
  ASSUME IInv, NEW p \in Procs, loc[p].pc # "idle", loc[p].op # "sync",
         NEW l \in Locals, l.op = loc[p].op, l.rule = loc[p].rule, l.extended = loc[p].extended,
         l.pc \in {"resetPanel", "deletePanel"}, NEW s \in Servers,
         NEW after \in {"recomputeRead", "deleteRow"}
  PROVE  /\ Moves(p, Visited(l, s, after))
         /\ Visited(l, s, after).pc \in {l.pc, after}
         /\ Visited(l, s, after).op = loc[p].op
<1>1. PICK m : m = Visited(l, s, after)
  OBVIOUS
<1>2. m \in Locals
  <2>1. l.todo \ {s} \in SUBSET Servers /\ (IF l.todo = {s} THEN after ELSE l.pc) \in Labels
    BY DEF Locals, Labels
  <2>2. m = [[l EXCEPT !.todo = l.todo \ {s}] EXCEPT !.pc = IF l.todo = {s} THEN after ELSE l.pc]
    BY <1>1 DEF Visited, Locals
  <2>3. PICK k : k = [l EXCEPT !.todo = l.todo \ {s}]
    OBVIOUS
  <2>4. k \in Locals
    BY <2>1, <2>3, SetField
  <2>5. [k EXCEPT !.pc = IF l.todo = {s} THEN after ELSE l.pc] \in Locals
    BY <2>1, <2>4, SetField
  <2> QED BY <2>2, <2>3, <2>5
<1>3. /\ m.op = loc[p].op /\ m.rule = loc[p].rule /\ m.extended = loc[p].extended
      /\ m.pc \in {l.pc, after}
  BY <1>1 DEF Visited, Locals
<1>4. Moves(p, m)
  BY <1>2, <1>3, MovesOn DEF Syncing
<1> QED BY <1>1, <1>3, <1>4

\* pushClient: the read, then panel by panel.
LEMMA PushMoves ==
  ASSUME IInv, NEW p \in Procs
  PROVE  /\ pushRead(p) =>
              \E m : /\ Becomes(p, m)
                     /\ \/ /\ alive /\ m.pc = "pushPanel" /\ m.todo = Servers /\ m.status = status
                           /\ m.op = loc[p].op
                        \/ ~alive /\ m.pc \in {"idle", "renewExtend", "renewWrite"}
         /\ pushPanel(p) =>
              \E m, s : /\ Becomes(p, m) /\ s \in loc[p].todo
                        /\ \/ m.pc \in {"idle", "renewExtend", "renewWrite"} /\ loc[p].todo = {s}
                           \/ /\ m.pc = "pushPanel" /\ m.todo = loc[p].todo \ {s}
                              /\ m.status = loc[p].status /\ m.op = loc[p].op
                        /\ \/ /\ s \in present /\ faults' = faults
                              /\ on' = [on EXCEPT ![s] = (loc[p].status # "DISABLED")]
                           \/ MayFail(s) /\ CallFails(s) /\ on' = on
<1>0. /\ loc[p] \in Locals /\ loc \in [Procs -> Locals] /\ HandlerOK(p, loc[p])
      /\ loc[p].todo \in SUBSET Servers
  BY HandlerTypes
<1>1. ASSUME pushRead(p), alive
      PROVE  \E m : /\ Becomes(p, m) /\ m.pc = "pushPanel" /\ m.todo = Servers /\ m.status = status
                    /\ m.op = loc[p].op
  <2>1. loc[p].pc = "pushRead" /\ loc[p].op # "sync"
    BY <1>0, <1>1 DEF pushRead, At, HandlerOK, Syncing
  <2>2. status \in Status /\ Servers \in SUBSET Servers
    BY DEF IInv, TypeOK
  <2>3. PICK m : m = [loc[p] EXCEPT !.pc = "pushPanel", !.todo = Servers, !.status = status]
    OBVIOUS
  <2>4. m \in Locals
    BY <1>0, <2>2, <2>3, SetField DEF Labels
  <2>5. /\ m.op = loc[p].op /\ m.rule = loc[p].rule /\ m.extended = loc[p].extended
        /\ m.pc = "pushPanel" /\ m.todo = Servers /\ m.status = status
    BY <1>0, <2>3 DEF Locals
  <2>6. Moves(p, m)
    BY <2>1, <2>4, <2>5, MovesOn DEF Syncing
  <2>7. loc' = [loc EXCEPT ![p] = m]
    BY <1>0, <1>1, <2>3 DEF pushRead
  <2> QED BY <2>1, <2>5, <2>6, <2>7 DEF Becomes
<1>2. ASSUME pushRead(p), ~alive
      PROVE  \E m : Becomes(p, m) /\ m.pc \in {"idle", "renewExtend", "renewWrite"}
  BY <1>2, ThrowMoves DEF pushRead, At
<1>3. ASSUME pushPanel(p)
      PROVE  \E m, s : /\ Becomes(p, m) /\ s \in loc[p].todo
                       /\ \/ m.pc \in {"idle", "renewExtend", "renewWrite"} /\ loc[p].todo = {s}
                          \/ /\ m.pc = "pushPanel" /\ m.todo = loc[p].todo \ {s}
                             /\ m.status = loc[p].status /\ m.op = loc[p].op
                       /\ \/ /\ s \in present /\ faults' = faults
                             /\ on' = [on EXCEPT ![s] = (loc[p].status # "DISABLED")]
                          \/ MayFail(s) /\ CallFails(s) /\ on' = on
  <2>1. loc[p].pc = "pushPanel" /\ loc[p].op # "sync"
    BY <1>0, <1>3 DEF pushPanel, At, HandlerOK, Syncing
  <2>2. PICK s \in loc[p].todo :
          /\ loc' = [loc EXCEPT ![p] = IF loc[p].todo = {s} THEN AfterPush(loc[p])
                                       ELSE [loc[p] EXCEPT !.todo = loc[p].todo \ {s}]]
          /\ \/ /\ s \in present /\ faults' = faults
                /\ on' = [on EXCEPT ![s] = (loc[p].status # "DISABLED")]
             \/ MayFail(s) /\ CallFails(s) /\ on' = on
    BY <1>0, <1>3 DEF pushPanel
  <2>3. CASE loc[p].todo = {s}
    <3>1. Moves(p, AfterPush(loc[p]))
      BY <1>0, <2>1, Returns DEF HandlerOK
    <3>2. AfterPush(loc[p]).pc \in {"idle", "renewExtend", "renewWrite"}
      BY <1>0, ReturnLabels
    <3>3. Becomes(p, AfterPush(loc[p]))
      BY <2>1, <2>2, <2>3, <3>1 DEF Becomes
    <3> QED BY <2>2, <2>3, <3>2, <3>3
  <2>4. CASE loc[p].todo # {s}
    <3>1. loc[p].todo \ {s} \in SUBSET Servers
      BY <1>0
    <3>2. PICK m : m = [loc[p] EXCEPT !.todo = loc[p].todo \ {s}]
      OBVIOUS
    <3>3. m \in Locals
      BY <1>0, <3>1, <3>2, SetField
    <3>4. /\ m.op = loc[p].op /\ m.rule = loc[p].rule /\ m.extended = loc[p].extended
          /\ m.pc = "pushPanel" /\ m.todo = loc[p].todo \ {s} /\ m.status = loc[p].status
      BY <1>0, <2>1, <3>2 DEF Locals
    <3>5. Moves(p, m)
      BY <2>1, <3>3, <3>4, MovesOn DEF Syncing
    <3>6. Becomes(p, m)
      BY <2>1, <2>2, <2>4, <3>2, <3>5 DEF Becomes
    <3> QED BY <2>2, <3>4, <3>6
  <2> QED BY <2>3, <2>4
<1> QED BY <1>1, <1>2, <1>3

\* resetClientTraffic: the read, then each panel and its link.
LEMMA ResetMoves ==
  ASSUME IInv, NEW p \in Procs
  PROVE  /\ resetRead(p) =>
              \E m : /\ Becomes(p, m)
                     /\ m.pc \in {"resetPanel", "idle", "renewExtend", "renewWrite"}
         /\ resetPanel(p) =>
              \E m, s : /\ Becomes(p, m) /\ s \in Servers
                        /\ \/ /\ m.pc = "resetLink" /\ m.server = s /\ s \in present
                              /\ panel' = [panel EXCEPT ![s] = 0] /\ faults' = faults
                           \/ /\ m.pc \in {"resetPanel", "recomputeRead"} /\ m.op = loc[p].op
                              /\ panel' = panel /\ MayFail(s) /\ CallFails(s)
         /\ resetLink(p) =>
              \E m : /\ Becomes(p, m) /\ m.pc \in {"resetPanel", "recomputeRead"}
                     /\ loc[p].server \in Servers /\ links' = [links EXCEPT ![loc[p].server] = 0]
<1>0. /\ loc[p] \in Locals /\ loc \in [Procs -> Locals] /\ HandlerOK(p, loc[p])
      /\ loc[p].todo \in SUBSET Servers
  BY HandlerTypes
<1>1. ASSUME resetRead(p), alive PROVE \E m : Becomes(p, m) /\ m.pc = "resetPanel"
  <2>1. loc[p].pc = "resetRead" /\ loc[p].op # "sync"
    BY <1>0, <1>1 DEF resetRead, At, HandlerOK, Syncing
  <2>2. (status = "LIMITED") \in BOOLEAN /\ Servers \in SUBSET Servers
    OBVIOUS
  <2>3. PICK m : m = [loc[p] EXCEPT !.pc = "resetPanel", !.todo = Servers, !.limited = (status = "LIMITED")]
    OBVIOUS
  <2>4. m \in Locals
    BY <1>0, <2>2, <2>3, SetField DEF Labels
  <2>5. /\ m.op = loc[p].op /\ m.rule = loc[p].rule /\ m.extended = loc[p].extended
        /\ m.pc = "resetPanel"
    BY <1>0, <2>3 DEF Locals
  <2>6. Moves(p, m)
    BY <2>1, <2>4, <2>5, MovesOn DEF Syncing
  <2>7. loc' = [loc EXCEPT ![p] = m]
    BY <1>0, <1>1, <2>3 DEF resetRead
  <2> QED BY <2>1, <2>5, <2>6, <2>7 DEF Becomes
<1>2. ASSUME resetRead(p), ~alive
      PROVE  \E m : Becomes(p, m) /\ m.pc \in {"idle", "renewExtend", "renewWrite"}
  BY <1>2, ThrowMoves DEF resetRead, At
<1>3. ASSUME resetPanel(p)
      PROVE  \E m, s : /\ Becomes(p, m) /\ s \in Servers
                       /\ \/ /\ m.pc = "resetLink" /\ m.server = s /\ s \in present
                             /\ panel' = [panel EXCEPT ![s] = 0] /\ faults' = faults
                          \/ /\ m.pc \in {"resetPanel", "recomputeRead"} /\ m.op = loc[p].op
                             /\ panel' = panel /\ MayFail(s) /\ CallFails(s)
  <2>1. loc[p].pc = "resetPanel" /\ loc[p].op # "sync"
    BY <1>0, <1>3 DEF resetPanel, At, HandlerOK, Syncing
  <2>2. PICK s \in loc[p].todo :
          \/ /\ s \in present /\ panel' = [panel EXCEPT ![s] = 0] /\ faults' = faults
             /\ loc' = [loc EXCEPT ![p].pc = "resetLink", ![p].server = s]
          \/ /\ MayFail(s) /\ CallFails(s) /\ panel' = panel
             /\ loc' = [loc EXCEPT ![p] = Visited(loc[p], s, "recomputeRead")]
    BY <1>0, <1>3 DEF resetPanel
  <2>3. s \in Servers
    BY <1>0
  <2>4. ASSUME s \in present, panel' = [panel EXCEPT ![s] = 0], faults' = faults,
               loc' = [loc EXCEPT ![p].pc = "resetLink", ![p].server = s]
        PROVE  \E m : Becomes(p, m) /\ m.pc = "resetLink" /\ m.server = s
    <3>1. PICK m : m = [loc[p] EXCEPT !.pc = "resetLink", !.server = s]
      OBVIOUS
    <3>2. m \in Locals
      BY <1>0, <2>3, <3>1, SetField DEF Labels
    <3>3. /\ m.op = loc[p].op /\ m.rule = loc[p].rule /\ m.extended = loc[p].extended
          /\ m.pc = "resetLink" /\ m.server = s
      BY <1>0, <3>1 DEF Locals
    <3>4. Moves(p, m)
      BY <2>1, <2>3, <3>2, <3>3, MovesOn DEF Syncing
    <3>5. loc' = [loc EXCEPT ![p] = m]
      BY <1>0, <2>4, <3>1
    <3> QED BY <2>1, <3>3, <3>4, <3>5 DEF Becomes
  <2>5. ASSUME loc' = [loc EXCEPT ![p] = Visited(loc[p], s, "recomputeRead")]
        PROVE  \E m : /\ Becomes(p, m) /\ m.pc \in {"resetPanel", "recomputeRead"}
                      /\ m.op = loc[p].op
    <3>1. /\ Moves(p, Visited(loc[p], s, "recomputeRead"))
          /\ Visited(loc[p], s, "recomputeRead").pc \in {"resetPanel", "recomputeRead"}
          /\ Visited(loc[p], s, "recomputeRead").op = loc[p].op
      BY <1>0, <2>1, <2>3, VisitedMoves
    <3> QED BY <2>1, <2>5, <3>1 DEF Becomes
  <2> QED BY <2>2, <2>3, <2>4, <2>5
<1>4. ASSUME resetLink(p)
      PROVE  \E m : /\ Becomes(p, m) /\ m.pc \in {"resetPanel", "recomputeRead"}
                    /\ loc[p].server \in Servers /\ links' = [links EXCEPT ![loc[p].server] = 0]
  <2>1. loc[p].pc = "resetLink" /\ loc[p].op # "sync" /\ loc[p].server \in Servers
    BY <1>0, <1>4 DEF resetLink, At, HandlerOK, Syncing
  <2>2. PICK l : l = [loc[p] EXCEPT !.pc = "resetPanel"]
    OBVIOUS
  <2>3. l \in Locals
    BY <1>0, <2>2, SetField DEF Labels
  <2>4. l.op = loc[p].op /\ l.rule = loc[p].rule /\ l.extended = loc[p].extended /\ l.pc = "resetPanel"
    BY <1>0, <2>2 DEF Locals
  <2>5. PICK m : m = Visited(l, loc[p].server, "recomputeRead")
    OBVIOUS
  <2>6. Moves(p, m) /\ m.pc \in {"resetPanel", "recomputeRead"}
    BY <2>1, <2>3, <2>4, <2>5, VisitedMoves
  <2>7. loc' = [loc EXCEPT ![p] = m] /\ links' = [links EXCEPT ![loc[p].server] = 0]
    BY <1>0, <1>4, <2>2, <2>5 DEF resetLink
  <2> QED BY <2>1, <2>6, <2>7 DEF Becomes
<1> QED BY <1>1, <1>2, <1>3, <1>4

\* deleteClient: panel by panel, the row, the pending period.
LEMMA DeleteMoves ==
  ASSUME IInv, NEW p \in Procs
  PROVE  /\ deletePanel(p) =>
              \E m, s : /\ Becomes(p, m) /\ m.pc \in {"deletePanel", "deleteRow"} /\ s \in Servers
                        /\ \/ present' = present \ {s} /\ faults' = faults
                           \/ present' = present /\ MayFail(s) /\ CallFails(s)
         /\ deleteRow(p) => \E m : /\ Becomes(p, m)
                                   /\ \/ m.pc = "deletePending" /\ alive' = FALSE
                                      \/ m = Idle /\ ~alive /\ alive' = alive
         /\ deletePending(p) => Becomes(p, Idle)
<1>0. /\ loc[p] \in Locals /\ loc \in [Procs -> Locals] /\ HandlerOK(p, loc[p])
      /\ loc[p].todo \in SUBSET Servers
  BY HandlerTypes
<1>1. ASSUME deletePanel(p)
      PROVE  \E m, s : /\ Becomes(p, m) /\ m.pc \in {"deletePanel", "deleteRow"} /\ s \in Servers
                       /\ \/ present' = present \ {s} /\ faults' = faults
                          \/ present' = present /\ MayFail(s) /\ CallFails(s)
  <2>1. loc[p].pc = "deletePanel" /\ loc[p].op # "sync"
    BY <1>0, <1>1 DEF deletePanel, At, HandlerOK, Syncing
  <2>2. PICK s \in loc[p].todo :
          /\ loc' = [loc EXCEPT ![p] = Visited(loc[p], s, "deleteRow")]
          /\ \/ present' = present \ {s} /\ faults' = faults
             \/ present' = present /\ MayFail(s) /\ CallFails(s)
    BY <1>0, <1>1 DEF deletePanel
  <2>3. s \in Servers
    BY <1>0
  <2>4. PICK m : m = Visited(loc[p], s, "deleteRow")
    OBVIOUS
  <2>5. Moves(p, m) /\ m.pc \in {"deletePanel", "deleteRow"}
    BY <1>0, <2>1, <2>3, <2>4, VisitedMoves
  <2>6. Becomes(p, m)
    BY <2>1, <2>2, <2>4, <2>5 DEF Becomes
  <2> QED BY <2>2, <2>3, <2>5, <2>6
<1>2. ASSUME deleteRow(p), alive PROVE \E m : Becomes(p, m) /\ m.pc = "deletePending" /\ alive' = FALSE
  <2>1. /\ loc[p].pc = "deleteRow" /\ loc[p].op # "sync" /\ alive' = FALSE
        /\ Goto(p, "deletePending")
    BY <1>0, <1>2 DEF deleteRow, At, HandlerOK, Syncing
  <2>2. "deletePending" \in Labels /\ "deletePending" \notin Syncing
    BY DEF Labels, Syncing
  <2>3. PICK m : Becomes(p, m) /\ m.pc = "deletePending"
    BY <2>1, <2>2, GotoMoves
  <2> QED BY <2>1, <2>3
<1>3. ASSUME deleteRow(p), ~alive PROVE Becomes(p, Idle) /\ alive' = alive
  BY <1>3, ReturnMoves DEF deleteRow, At
<1>4. ASSUME deletePending(p) PROVE Becomes(p, Idle)
  BY <1>4, ReturnMoves DEF deletePending, At
<1> QED BY <1>1, <1>2, <1>3, <1>4

\* A jump of a handler that does not synchronise.
LEMMA JumpMoves ==
  ASSUME IInv, NEW p \in Procs, loc[p].pc \notin Syncing \union {"idle", "recomputeRead", "recomputeWrite"},
         NEW label \in {"startWrite", "startClear", "updateWrite", "recomputeRead", "resetRead",
                        "renewDrop", "renewWrite"},
         Goto(p, label), label \in {"renewDrop", "renewWrite"} => loc[p].op = "renew"
  PROVE  \E m : Becomes(p, m) /\ m.pc = label /\ m.op = loc[p].op
<1>1. label \in Labels /\ label \notin Syncing
  BY DEF Labels, Syncing
<1>2. loc[p].op # "sync"
  BY HandlerTypes DEF HandlerOK
<1> QED BY <1>1, <1>2, GotoMoves

\* Enforcement and the first-use start.
LEMMA StartMoves ==
  ASSUME IInv, NEW p \in Procs
  PROVE  /\ enforceWrite(p) => Becomes(p, Idle)
         /\ startRead(p) => \E m : /\ Becomes(p, m)
                                   /\ \/ m.pc = "startClear" /\ (~alive \/ expires.when # "never")
                                      \/ m.pc \in {"idle", "startWrite"}
         /\ startWrite(p) => \E m : /\ Becomes(p, m)
                                    /\ \/ m.pc = "startClear" /\ expires' = Date("start")
                                       \/ m = Idle /\ ~alive /\ expires' = expires
         /\ startClear(p) => Becomes(p, Idle)
<1>1. ASSUME enforceWrite(p) PROVE Becomes(p, Idle)
  BY <1>1, ReturnMoves DEF enforceWrite, At
<1>2. ASSUME startRead(p)
      PROVE  \E m : /\ Becomes(p, m)
                    /\ \/ m.pc = "startClear" /\ (~alive \/ expires.when # "never")
                       \/ m.pc \in {"idle", "startWrite"}
  <2>1. loc[p].pc = "startRead" /\ "startRead" \notin Syncing \union {"idle", "recomputeRead", "recomputeWrite"}
    BY <1>2 DEF startRead, At, Syncing
  <2>2. \/ (~alive \/ expires.when # "never") /\ Goto(p, "startClear")
        \/ Return(p) \/ Goto(p, "startWrite")
    BY <1>2 DEF startRead
  <2>3. ASSUME Goto(p, "startClear") PROVE \E m : Becomes(p, m) /\ m.pc = "startClear"
    BY <2>1, <2>3, JumpMoves
  <2>4. ASSUME Goto(p, "startWrite") PROVE \E m : Becomes(p, m) /\ m.pc = "startWrite"
    BY <2>1, <2>4, JumpMoves
  <2>5. ASSUME Return(p) PROVE Becomes(p, Idle) /\ Idle.pc = "idle"
    BY <2>1, <2>5, ReturnMoves, IdleOK
  <2> QED BY <2>2, <2>3, <2>4, <2>5
<1>3. ASSUME startWrite(p)
      PROVE  \E m : /\ Becomes(p, m)
                    /\ \/ m.pc = "startClear" /\ expires' = Date("start")
                       \/ m = Idle /\ ~alive /\ expires' = expires
  <2>1. loc[p].pc = "startWrite" /\ "startWrite" \notin Syncing \union {"idle", "recomputeRead", "recomputeWrite"}
    BY <1>3 DEF startWrite, At, Syncing
  <2>2. \/ alive /\ expires' = Date("start") /\ Goto(p, "startClear")
        \/ ~alive /\ Return(p) /\ expires' = expires
    BY <1>3 DEF startWrite
  <2>3. ASSUME Goto(p, "startClear") PROVE \E m : Becomes(p, m) /\ m.pc = "startClear"
    BY <2>1, <2>3, JumpMoves
  <2> QED BY <2>1, <2>2, <2>3, ReturnMoves
<1>4. ASSUME startClear(p) PROVE Becomes(p, Idle)
  BY <1>4, ReturnMoves DEF startClear, At
<1> QED BY <1>1, <1>2, <1>3, <1>4

\* The seller's update.
LEMMA UpdateMoves ==
  ASSUME IInv, NEW p \in Procs
  PROVE  /\ updateClear(p) => \E m : /\ Becomes(p, m) /\ m.pc = "updateWrite"
                                     /\ m.op \in {"date", "never"} /\ p \in Web
         /\ updateWrite(p) => \E m : /\ Becomes(p, m)
                                     /\ \/ m.pc = "recomputeRead" /\ alive /\ m.op = loc[p].op
                                        \/ m = Idle /\ ~alive
<1>0. HandlerOK(p, loc[p])
  BY HandlerTypes
<1>1. ASSUME updateClear(p)
      PROVE  \E m : /\ Becomes(p, m) /\ m.pc = "updateWrite" /\ m.op \in {"date", "never"} /\ p \in Web
  <2>1. /\ loc[p].pc = "updateClear" /\ Goto(p, "updateWrite")
        /\ "updateClear" \notin Syncing \union {"idle", "recomputeRead", "recomputeWrite"}
    BY <1>1 DEF updateClear, At, Syncing
  <2>2. loc[p].op \in {"date", "never"} /\ p \in Web
    BY <1>0, <2>1 DEF HandlerOK
  <2>3. PICK m : Becomes(p, m) /\ m.pc = "updateWrite" /\ m.op = loc[p].op
    BY <2>1, JumpMoves
  <2> QED BY <2>2, <2>3
<1>2. ASSUME updateWrite(p)
      PROVE  \E m : /\ Becomes(p, m)
                    /\ \/ m.pc = "recomputeRead" /\ alive /\ m.op = loc[p].op
                       \/ m = Idle /\ ~alive
  <2>1. /\ loc[p].pc = "updateWrite"
        /\ "updateWrite" \notin Syncing \union {"idle", "recomputeRead", "recomputeWrite"}
    BY <1>2 DEF updateWrite, At, Syncing
  <2>2. \/ ~alive /\ Return(p)
        \/ alive /\ Goto(p, "recomputeRead")
    BY <1>2 DEF updateWrite
  <2>3. ASSUME Goto(p, "recomputeRead")
        PROVE  \E m : Becomes(p, m) /\ m.pc = "recomputeRead" /\ m.op = loc[p].op
    BY <2>1, <2>3, JumpMoves
  <2> QED BY <2>1, <2>2, <2>3, ReturnMoves
<1> QED BY <1>1, <1>2

\* The auto-renew rule and its runs.
LEMMA RenewMoves ==
  ASSUME IInv, NEW p \in Procs
  PROVE  /\ ruleWrite(p) => Becomes(p, Idle)
         /\ renewClient(p) => \E m : Becomes(p, m) /\ m.pc \in {"renewDrop", "idle", "resetRead"}
         /\ renewDrop(p) => Becomes(p, Idle)
         /\ renewExtend(p) =>
              \E m : Becomes(p, m) /\ m.pc \in {"renewWrite", "idle", "pushRead"}
         /\ renewWrite(p) => Becomes(p, Idle)
<1>0. HandlerOK(p, loc[p]) /\ loc[p] \in Locals /\ loc \in [Procs -> Locals]
  BY HandlerTypes
<1>1. ASSUME ruleWrite(p) PROVE Becomes(p, Idle)
  BY <1>1, ReturnMoves DEF ruleWrite, At
<1>2. ASSUME renewClient(p) PROVE \E m : Becomes(p, m) /\ m.pc \in {"renewDrop", "idle", "resetRead"}
  <2>1. /\ loc[p].pc = "renewClient"
        /\ "renewClient" \notin Syncing \union {"idle", "recomputeRead", "recomputeWrite"}
    BY <1>2 DEF renewClient, At, Syncing
  <2>2. Return(p) \/ Goto(p, "renewDrop") \/ Goto(p, "resetRead")
    BY <1>2 DEF renewClient
  <2>3. loc[p].op = "renew"
    BY <1>0, <2>1 DEF HandlerOK
  <2>4. ASSUME Goto(p, "renewDrop") PROVE \E m : Becomes(p, m) /\ m.pc = "renewDrop"
    BY <2>1, <2>3, <2>4, JumpMoves
  <2>5. ASSUME Goto(p, "resetRead") PROVE \E m : Becomes(p, m) /\ m.pc = "resetRead"
    BY <2>1, <2>5, JumpMoves
  <2>6. ASSUME Return(p) PROVE Becomes(p, Idle) /\ Idle.pc = "idle"
    BY <2>1, <2>6, ReturnMoves, IdleOK
  <2> QED BY <2>2, <2>4, <2>5, <2>6
<1>3. ASSUME renewDrop(p) PROVE Becomes(p, Idle)
  BY <1>3, ReturnMoves DEF renewDrop, At
<1>4. ASSUME renewExtend(p)
      PROVE  \E m : Becomes(p, m) /\ m.pc \in {"renewWrite", "idle", "pushRead"}
  <2>1. /\ loc[p].pc = "renewExtend"
        /\ "renewExtend" \notin Syncing \union {"idle", "recomputeRead", "recomputeWrite"}
    BY <1>4 DEF renewExtend, At, Syncing
  <2>2. \/ Return(p) \/ Goto(p, "renewWrite")
        \/ loc' = [loc EXCEPT ![p].pc = "pushRead", ![p].extended = TRUE]
    BY <1>4 DEF renewExtend
  <2>3. loc[p].op = "renew"
    BY <1>0, <2>1 DEF HandlerOK
  <2>4. ASSUME Goto(p, "renewWrite") PROVE \E m : Becomes(p, m) /\ m.pc = "renewWrite"
    BY <2>1, <2>3, <2>4, JumpMoves
  <2>5. ASSUME Return(p) PROVE Becomes(p, Idle) /\ Idle.pc = "idle"
    BY <2>1, <2>5, ReturnMoves, IdleOK
  <2>6. ASSUME loc' = [loc EXCEPT ![p].pc = "pushRead", ![p].extended = TRUE]
        PROVE  \E m : Becomes(p, m) /\ m.pc = "pushRead"
    <3>1. PICK m : m = [loc[p] EXCEPT !.pc = "pushRead", !.extended = TRUE]
      OBVIOUS
    <3>2. m \in Locals
      BY <1>0, <3>1, SetField DEF Labels
    <3>3. m.op = loc[p].op /\ m.rule = loc[p].rule /\ m.pc = "pushRead"
      BY <1>0, <3>1 DEF Locals
    <3>4. Moves(p, m)
      BY <2>1, <2>3, <3>2, <3>3, MovesOn DEF Syncing
    <3>5. loc' = [loc EXCEPT ![p] = m]
      BY <1>0, <2>6, <3>1
    <3> QED BY <2>1, <3>3, <3>4, <3>5 DEF Becomes
  <2> QED BY <2>2, <2>4, <2>5, <2>6
<1>5. ASSUME renewWrite(p) PROVE Becomes(p, Idle)
  BY <1>5, ReturnMoves DEF renewWrite, At
<1> QED BY <1>1, <1>2, <1>3, <1>4, <1>5

(* ------------------------- the invariant of the types -------------------- *)

\* A statement of one handler, and the start of one.
Works(p) == Step(p) \/ syncFetch(p) \/ syncFail(p)
Starts(p, m) ==
  /\ loc' = [loc EXCEPT ![p] = m] /\ m \in Locals /\ HandlerOK(p, m)
  /\ loc[p].pc = "idle" /\ Cardinality(Active) < MaxActive
  /\ m.pc \notin {"idle", "startClear", "deletePending", "recomputeRead", "recomputeWrite",
                  "resetLink", "pushRead", "pushPanel"}
  /\ m.pc \in Syncing => m.pc = "syncFetch"
  /\ m.pc = "enforceWrite" => status # "DISABLED"
  /\ m.op \in {"renew", "setRule"} => m.rule = rule /\ (m.op = "renew" => rule.armed)
  /\ m.pc # "startWrite" /\ (m.pc = "startRead" => pending)
  /\ m.pc = "updateWrite" => m.op \notin {"date", "never"}
columns == <<rowVars, settingVars, usageVars, panelVars, faults>>

\* Whatever handler p does, it goes on or returns.
LEMMA StepMoves ==
  ASSUME IInv, NEW p \in Procs, Works(p)
  PROVE  \E m : Becomes(p, m)
<1>1. CASE syncFetch(p) \/ syncFail(p) \/ syncLinks(p) \/ syncWrite(p) \/ syncUsage(p) \/ syncOnline(p)
  BY <1>1, SyncMoves
<1>2. CASE recomputeRead(p) \/ recomputeWrite(p)
  BY <1>2, RecomputeMoves
<1>3. CASE enforceWrite(p) \/ startRead(p) \/ startWrite(p) \/ startClear(p)
  BY <1>3, StartMoves
<1>4. CASE updateClear(p) \/ updateWrite(p)
  BY <1>4, UpdateMoves
<1>5. CASE pushRead(p) \/ pushPanel(p)
  BY <1>5, PushMoves
<1>6. CASE resetRead(p) \/ resetPanel(p) \/ resetLink(p)
  BY <1>6, ResetMoves
<1>7. CASE deletePanel(p) \/ deleteRow(p) \/ deletePending(p)
  BY <1>7, DeleteMoves
<1>8. CASE ruleWrite(p) \/ renewClient(p) \/ renewDrop(p) \/ renewExtend(p) \/ renewWrite(p)
  BY <1>8, RenewMoves
<1> QED BY <1>1, <1>2, <1>3, <1>4, <1>5, <1>6, <1>7, <1>8 DEF Works, Step

\* Handlers stay typed when one of them is replaced by a typed one.
LEMMA HandlersReplaced ==
  ASSUME IInv, NEW p \in Procs, NEW m \in Locals, HandlerOK(p, m), loc' = [loc EXCEPT ![p] = m]
  PROVE  loc' \in [Procs -> Locals] /\ HandlersOK'
<1>1. loc \in [Procs -> Locals] /\ HandlersOK
  BY DEF IInv, TypeOK
<1>2. loc' \in [Procs -> Locals]
  BY <1>1
<1>3. \A q \in Procs : HandlerOK(q, loc'[q])
  BY <1>1 DEF HandlersOK
<1> QED BY <1>2, <1>3 DEF HandlersOK, HandlerOK

\* Steps that leave all columns alone.
LEMMA ColumnsKept ==
  ASSUME IInv, UNCHANGED columns
  PROVE  ColumnsOK' /\ PanelsCount'
<1>1. ColumnsOK /\ PanelsCount
  BY TypeIs DEF IInv
<1> QED BY <1>1 DEF ColumnsOK, PanelsCount, columns, rowVars, settingVars, usageVars, panelVars

\* Two dates and two rules.
LEMMA Written ==
  /\ \A by \in {"sale", "seller", "start", "renewal", "pending"} : Date(by) \in Dates
  /\ [by |-> "seller", when |-> "never"] \in Dates
  /\ NoRule \in Rules
  BY ClientAssumptions DEF Date, Dates, NoRule, Rules

\* What a failed call does to the count of faults.
LEMMA FailsTyped ==
  ASSUME IInv, NEW s, MayFail(s), CallFails(s)
  PROVE  /\ faults' \in 0 .. MaxFaults
         /\ faults' = 0 => faults = 0 /\ s \notin present
  BY ClientAssumptions DEF IInv, TypeOK, MayFail, CallFails

\* The columns stay typed, and no panel counts what did not go through it.
LEMMA StepColumns ==
  ASSUME IInv, NEW p \in Procs, Works(p)
  PROVE  ColumnsOK' /\ PanelsCount'
<1> USE DEF ColumnsOK, PanelsCount, rowVars, settingVars, usageVars, panelVars
<1>0. /\ ColumnsOK /\ PanelsCount /\ MaxTraffic \in Nat /\ MaxCycles \in Nat /\ MaxFaults \in Nat
      /\ 0 \in 0 .. MaxTraffic
  BY TypeIs, ClientAssumptions DEF IInv
<1>1. CASE syncFetch(p) \/ syncFail(p) \/ syncLinks(p)
  BY <1>1, ColumnsKept DEF syncFetch, syncFail, syncLinks, columns
<1>2. CASE syncWrite(p)
  <2>1. links' \in [Servers -> 0 .. MaxTraffic]
    BY <1>0, <1>2, SyncMoves, HandlerTypes DEF syncWrite
  <2> QED BY <1>0, <1>2, <2>1 DEF syncWrite
<1>3. CASE syncUsage(p)
  <2>1. PICK delta \in Nat : history' = [history EXCEPT ![loc[p].server] = Min({history[loc[p].server] + delta, MaxTraffic + 1})]
    <3>1. loc[p].seen \in Nat /\ loc[p].link \in Nat
      BY HandlerTypes, ClientAssumptions
    <3>2. PICK d : d = IF loc[p].seen >= loc[p].link THEN loc[p].seen - loc[p].link ELSE loc[p].seen
      OBVIOUS
    <3>3. d \in Nat
      BY <3>1, <3>2
    <3>4. history' = [history EXCEPT ![loc[p].server] = Min({history[loc[p].server] + d, MaxTraffic + 1})]
      BY <1>3, <3>2 DEF syncUsage
    <3> QED BY <3>3, <3>4
  <2>2. loc[p].server \in Servers
    BY <1>3, HandlerTypes DEF syncUsage, At, HandlerOK, Syncing
  <2>3. PICK h \in Nat : h = history[loc[p].server] + delta
    BY <1>0, <2>2
  <2>4. Min({h, MaxTraffic + 1}) \in 0 .. MaxTraffic + 1
    BY <1>0, <2>3, MinIs
  <2>5. history' \in [Servers -> 0 .. MaxTraffic + 1]
    BY <1>0, <2>1, <2>3, <2>4
  <2> QED BY <1>0, <1>3, <2>5 DEF syncUsage
<1>4. CASE syncOnline(p)
  <2>1. lastOnline' \in BOOLEAN
    BY <1>0, <1>4 DEF syncOnline
  <2> QED BY <1>0, <1>4, <2>1 DEF syncOnline
<1>5. CASE recomputeRead(p) \/ pushRead(p) \/ resetRead(p) \/ startRead(p) \/ renewClient(p)
  BY <1>5, ColumnsKept DEF recomputeRead, pushRead, resetRead, startRead, renewClient, columns
<1>6. CASE recomputeWrite(p)
  <2>1. used' \in Nat /\ status' \in Status
    BY <1>0, <1>6, HandlerTypes DEF recomputeWrite
  <2> QED BY <1>0, <1>6, <2>1 DEF recomputeWrite
<1>7. CASE enforceWrite(p)
  <2>1. status' \in Status
    BY <1>0, <1>7 DEF enforceWrite, Status
  <2> QED BY <1>0, <1>7, <2>1 DEF enforceWrite
<1>8. CASE startWrite(p)
  <2>1. expires' \in Dates
    BY <1>0, <1>8, Written DEF startWrite
  <2> QED BY <1>0, <1>8, <2>1 DEF startWrite
<1>9. CASE startClear(p) \/ updateClear(p) \/ deletePending(p)
  BY <1>0, <1>9 DEF startClear, updateClear, deletePending
<1>10. CASE updateWrite(p)
  <2>1. expires' \in Dates
    BY <1>0, <1>10, Written DEF updateWrite
  <2>2. status' \in Status
    BY <1>0, <1>10 DEF updateWrite, Status
  <2> QED BY <1>0, <1>10, <2>1, <2>2 DEF updateWrite
<1>11. CASE pushPanel(p)
  <2>1. faults' \in 0 .. MaxFaults /\ on' \in [Servers -> BOOLEAN]
    BY <1>0, <1>11, PushMoves, FailsTyped
  <2> QED BY <1>0, <1>11, <2>1 DEF pushPanel
<1>12. CASE resetPanel(p)
  <2>1. PICK s \in Servers : \/ panel' = [panel EXCEPT ![s] = 0] /\ faults' = faults
                             \/ panel' = panel /\ MayFail(s) /\ CallFails(s)
    BY <1>12, ResetMoves
  <2>2. faults' \in 0 .. MaxFaults
    BY <1>0, <2>1, FailsTyped
  <2>3. panel' \in [Servers -> 0 .. MaxTraffic] /\ \A t \in Servers : panel'[t] <= traffic[t]
    BY <1>0, <2>1
  <2> QED BY <1>0, <1>12, <2>2, <2>3 DEF resetPanel
<1>13. CASE resetLink(p)
  <2>1. links' \in [Servers -> 0 .. MaxTraffic]
    BY <1>0, <1>13, ResetMoves
  <2> QED BY <1>0, <1>13, <2>1 DEF resetLink
<1>14. CASE deletePanel(p)
  <2>1. faults' \in 0 .. MaxFaults /\ present' \subseteq Servers
    BY <1>0, <1>14, DeleteMoves, FailsTyped
  <2> QED BY <1>0, <1>14, <2>1 DEF deletePanel
<1>15. CASE deleteRow(p)
  <2>1. alive' \in BOOLEAN
    BY <1>0, <1>15 DEF deleteRow
  <2> QED BY <1>0, <1>15, <2>1 DEF deleteRow
<1>16. CASE ruleWrite(p)
  <2>1. loc[p].rule \in Rules
    BY HandlerTypes
  <2>2. rule' \in Rules /\ renewals' \in Nat
    BY <1>0, <1>16, <2>1 DEF ruleWrite, Rules
  <2> QED BY <1>0, <1>16, <2>2 DEF ruleWrite
<1>17. CASE renewDrop(p)
  BY <1>0, <1>17, Written DEF renewDrop
<1>18. CASE renewExtend(p)
  <2>1. expires' \in Dates
    BY <1>0, <1>18, Written DEF renewExtend
  <2> QED BY <1>0, <1>18, <2>1 DEF renewExtend
<1>19. CASE renewWrite(p)
  <2>1. PICK r \in Rules : r = loc[p].rule
    BY HandlerTypes
  <2>2. r.cycles + 1 < MaxCycles => [r EXCEPT !.due = FALSE, !.cycles = @ + 1] \in Rules
    <3>1. r.cycles \in 0 .. MaxCycles /\ r \in [armed : BOOLEAN, due : BOOLEAN, cycles : 0 .. MaxCycles]
      BY DEF Rules
    <3>2. r.cycles + 1 < MaxCycles => r.cycles + 1 \in 0 .. MaxCycles
      BY <1>0, <3>1
    <3>3. \A n \in 0 .. MaxCycles : [r EXCEPT !.due = FALSE, !.cycles = n] \in Rules
      BY <3>1 DEF Rules
    <3> QED BY <3>2, <3>3
  <2>3. rule' \in Rules
    <3>1. rule' = IF r.cycles + 1 >= MaxCycles THEN NoRule ELSE [r EXCEPT !.due = FALSE, !.cycles = @ + 1]
      BY <1>19, <2>1 DEF renewWrite
    <3>2. r.cycles + 1 >= MaxCycles \/ r.cycles + 1 < MaxCycles
      BY <1>0 DEF Rules
    <3> QED BY <2>2, <3>1, <3>2, Written
  <2>4. renewals' \in Nat
    <3>1. renewals + 1 \in Nat /\ MaxCycles + 1 \in Nat
      BY <1>0
    <3> QED BY <1>19, <3>1, MinIs DEF renewWrite
  <2> QED BY <1>0, <1>19, <2>3, <2>4 DEF renewWrite
<1> QED BY <1>1, <1>2, <1>3, <1>4, <1>5, <1>6, <1>7, <1>8, <1>9, <1>10, <1>11, <1>12, <1>13,
           <1>14, <1>15, <1>16, <1>17, <1>18, <1>19 DEF Works, Step


\* A handler that has just been started.
LEMMA Started ==
  ASSUME IInv, NEW p \in Web \union Jobs, MayStart(p), NEW m \in Locals, loc' = [loc EXCEPT ![p] = m],
         ~m.extended,
         m.pc \in {"syncFetch", "enforceWrite", "startRead", "updateClear", "updateWrite",
                   "resetRead", "deletePanel", "ruleWrite", "renewClient"},
         m.pc = "syncFetch" <=> m.op = "sync", m.pc = "syncFetch" => m.server \in Servers,
         m.op \in {"date", "never", "disable", "enable"} => p \in Web,
         m.pc = "updateClear" => m.op \in {"date", "never"},
         m.pc = "renewClient" => m.op = "renew", m.pc = "ruleWrite" => m.op = "setRule",
         m.pc = "enforceWrite" => status # "DISABLED", m.pc = "startRead" => pending,
         m.pc = "updateWrite" => m.op \notin {"date", "never"},
         m.op \in {"renew", "setRule"} => m.rule = rule /\ (m.op = "renew" => rule.armed)
  PROVE  Starts(p, m)
<1>1. p \notin Servers
  BY ClientAssumptions
<1>2. HandlerOK(p, m)
  BY <1>1 DEF HandlerOK, Syncing
<1> QED BY <1>2 DEF Starts, MayStart, At, Syncing

\* A fresh handler with an operation and a first statement.
LEMMA Fresh ==
  ASSUME NEW op \in Ops, NEW label \in Labels
  PROVE  /\ [Idle EXCEPT !.op = op, !.pc = label] \in Locals
         /\ [Idle EXCEPT !.op = op, !.pc = label].op = op
         /\ [Idle EXCEPT !.op = op, !.pc = label].pc = label
         /\ [Idle EXCEPT !.op = op, !.pc = label].extended = FALSE
<1>1. [Idle EXCEPT !.op = op, !.pc = label] \in Locals
  BY IdleOK, SetField
<1> QED BY <1>1, IdleOK DEF Locals, Idle

\* A request starts a handler, or clears the rule at once.
LEMMA RequestStarts ==
  ASSUME IInv, NEW p \in Web, Request(p)
  PROVE  clearAutoRenew(p) \/ (\E m : Starts(p, m) /\ UNCHANGED columns)
<1>0. p \in Web \union Jobs /\ rule \in Rules
  BY DEF IInv, TypeOK
<1>1. ASSUME NEW op \in {"date", "never", "disable", "enable"}, updateClient(p, op)
      PROVE  \E m : Starts(p, m) /\ UNCHANGED columns
  <2>1. PICK label : label = IF op \in {"date", "never"} THEN "updateClear" ELSE "updateWrite"
    OBVIOUS
  <2>2. op \in Ops /\ label \in Labels
    BY <2>1 DEF Ops, Labels
  <2>3. PICK m : m = [Idle EXCEPT !.op = op, !.pc = label]
    OBVIOUS
  <2>4. m \in Locals /\ m.op = op /\ m.pc = label /\ ~m.extended
    BY <2>2, <2>3, Fresh
  <2>5. MayStart(p) /\ loc' = [loc EXCEPT ![p] = m] /\ UNCHANGED columns
    BY <1>1, <2>1, <2>3 DEF updateClient, Start, columns
  <2>6. Starts(p, m)
    BY <1>0, <2>1, <2>4, <2>5, Started
  <2> QED BY <2>5, <2>6
<1>2. ASSUME NEW s \in Servers, syncServer(p, s) PROVE \E m : Starts(p, m) /\ UNCHANGED columns
  <2>1. PICK m : m = [Idle EXCEPT !.op = "sync", !.pc = "syncFetch", !.server = s]
    OBVIOUS
  <2>5. m \in Locals
    BY <2>1, IdleOK, SetField DEF Ops, Labels
  <2>2. m = [Idle EXCEPT !.op = "sync", !.pc = "syncFetch", !.server = s] /\ m \in Locals /\ m.op = "sync"
        /\ m.pc = "syncFetch" /\ m.extended = FALSE /\ m.server = s
    BY <2>1, <2>5 DEF Idle
  <2>3. MayStart(p) /\ loc' = [loc EXCEPT ![p] = m] /\ UNCHANGED columns
    BY <1>2, <2>2 DEF syncServer, columns
  <2>4. Starts(p, m)
    BY <1>0, <2>2, <2>3, Started
  <2> QED BY <2>3, <2>4
<1>3. ASSUME resetClientTraffic(p) PROVE \E m : Starts(p, m) /\ UNCHANGED columns
  <2>1. "reset" \in Ops /\ "resetRead" \in Labels
    BY DEF Ops, Labels
  <2>2. PICK m : m = [Idle EXCEPT !.op = "reset", !.pc = "resetRead"]
    OBVIOUS
  <2>3. m \in Locals /\ m.op = "reset" /\ m.pc = "resetRead" /\ ~m.extended
    BY <2>1, <2>2, Fresh
  <2>4. MayStart(p) /\ loc' = [loc EXCEPT ![p] = m] /\ UNCHANGED columns
    BY <1>3, <2>2 DEF resetClientTraffic, Start, columns
  <2>5. Starts(p, m)
    BY <1>0, <2>3, <2>4, Started
  <2> QED BY <2>4, <2>5
<1>4. ASSUME deleteClient(p) PROVE \E m : Starts(p, m) /\ UNCHANGED columns
  <2>1. PICK m : m = [Idle EXCEPT !.op = "delete", !.pc = "deletePanel", !.todo = Servers]
    OBVIOUS
  <2>5. m \in Locals
    BY <2>1, IdleOK, SetField DEF Ops, Labels
  <2>2. m = [Idle EXCEPT !.op = "delete", !.pc = "deletePanel", !.todo = Servers] /\ m \in Locals /\ m.op = "delete"
        /\ m.pc = "deletePanel" /\ m.extended = FALSE
    BY <2>1, <2>5 DEF Idle
  <2>3. MayStart(p) /\ loc' = [loc EXCEPT ![p] = m] /\ UNCHANGED columns
    BY <1>4, <2>2 DEF deleteClient, columns
  <2>4. Starts(p, m)
    BY <1>0, <2>2, <2>3, Started
  <2> QED BY <2>3, <2>4
<1>5. ASSUME setAutoRenew(p) PROVE \E m : Starts(p, m) /\ UNCHANGED columns
  <2>1. PICK m : m = [Idle EXCEPT !.op = "setRule", !.pc = "ruleWrite", !.rule = rule]
    OBVIOUS
  <2>5. m \in Locals
    BY <1>0, <2>1, IdleOK, SetField DEF Ops, Labels
  <2>2. m = [Idle EXCEPT !.op = "setRule", !.pc = "ruleWrite", !.rule = rule] /\ m \in Locals /\ m.op = "setRule"
        /\ m.pc = "ruleWrite" /\ m.extended = FALSE /\ m.rule = rule
    BY <2>1, <2>5 DEF Idle
  <2>3. MayStart(p) /\ loc' = [loc EXCEPT ![p] = m] /\ UNCHANGED columns
    BY <1>5, <2>2 DEF setAutoRenew, columns
  <2>4. Starts(p, m)
    BY <1>0, <2>2, <2>3, Started
  <2> QED BY <2>3, <2>4
<1> QED BY <1>1, <1>2, <1>3, <1>4, <1>5 DEF Request

\* So does a job of the worker.
LEMMA JobStarts ==
  ASSUME IInv, NEW p \in Jobs, JobStart(p)
  PROVE  \E m : Starts(p, m) /\ UNCHANGED columns
<1>0. p \in Web \union Jobs /\ rule \in Rules
  BY DEF IInv, TypeOK
<1>1. ASSUME NEW op \in {"enforce", "starts"}, NEW label \in {"enforceWrite", "startRead"}, Start(p, op, label),
             label = "enforceWrite" => status # "DISABLED", label = "startRead" => pending,
             UNCHANGED <<rowVars, settingVars, usageVars, panelVars, faults>>
      PROVE  \E m : Starts(p, m) /\ UNCHANGED columns
  <2>1. op \in Ops /\ label \in Labels
    BY DEF Ops, Labels
  <2>2. PICK m : m = [Idle EXCEPT !.op = op, !.pc = label]
    OBVIOUS
  <2>3. m \in Locals /\ m.op = op /\ m.pc = label /\ ~m.extended
    BY <2>1, <2>2, Fresh
  <2>4. MayStart(p) /\ loc' = [loc EXCEPT ![p] = m] /\ UNCHANGED columns
    BY <1>1, <2>2 DEF Start, columns
  <2>5. Starts(p, m)
    BY <1>0, <1>1, <2>3, <2>4, Started
  <2> QED BY <2>4, <2>5
<1>2. ASSUME runAutoRenew(p) PROVE \E m : Starts(p, m) /\ UNCHANGED columns
  <2>1. PICK m : m = [Idle EXCEPT !.op = "renew", !.pc = "renewClient", !.rule = rule]
    OBVIOUS
  <2>5. m \in Locals
    BY <1>0, <2>1, IdleOK, SetField DEF Ops, Labels
  <2>2. m = [Idle EXCEPT !.op = "renew", !.pc = "renewClient", !.rule = rule] /\ m \in Locals /\ m.op = "renew"
        /\ m.pc = "renewClient" /\ m.extended = FALSE /\ m.rule = rule
    BY <2>1, <2>5 DEF Idle
  <2>3. MayStart(p) /\ loc' = [loc EXCEPT ![p] = m] /\ UNCHANGED columns /\ rule.armed
    BY <1>2, <2>2 DEF runAutoRenew, columns
  <2>4. Starts(p, m)
    BY <1>0, <2>2, <2>3, Started
  <2> QED BY <2>3, <2>4
<1>3. ASSUME enforceClientStatuses(p) PROVE \E m : Starts(p, m) /\ UNCHANGED columns
  BY <1>1, <1>3 DEF enforceClientStatuses
<1>4. ASSUME activatePendingStarts(p) PROVE \E m : Starts(p, m) /\ UNCHANGED columns
  BY <1>1, <1>4 DEF activatePendingStarts
<1> QED BY <1>2, <1>3, <1>4 DEF JobStart

\* All panels at once: the worker's synchronisation of p.
Round(p) == [Idle EXCEPT !.op = "sync", !.pc = "syncFetch", !.server = p]

\* The worker's synchronisation of a panel is typed, and at that panel.
LEMMA RoundIs ==
  ASSUME NEW s \in Servers
  PROVE  /\ Round(s) \in Locals /\ HandlerOK(s, Round(s))
         /\ Round(s).op = "sync" /\ Round(s).pc = "syncFetch" /\ Round(s).server = s
<1>0. Round(s) \in Locals
  BY IdleOK, SetField DEF Round, Ops, Labels
<1>2. /\ Round(s) \in Locals /\ Round(s).op = "sync" /\ Round(s).pc = "syncFetch"
      /\ Round(s).server = s /\ Round(s).extended = FALSE
  BY <1>0 DEF Round, Idle
<1> QED BY <1>2 DEF HandlerOK, Syncing

\* The types, and what stands at which statement, hold however handlers interleave.
LEMMA InitIInv == Init => IInv
<1> SUFFICES ASSUME Init PROVE IInv
  OBVIOUS
<1>1. loc \in [Procs -> Locals] /\ HandlersOK
  BY IdleOK DEF Init, HandlersOK
<1>2. expires \in Dates /\ rule \in Rules
  BY Written DEF Init, Date, Dates
<1>3. ColumnsOK /\ PanelsCount
  <2>1. 0 \in 0 .. MaxTraffic /\ 0 \in 0 .. MaxTraffic + 1 /\ 0 \in 0 .. MaxFaults
    BY ClientAssumptions
  <2>2. /\ links \in [Servers -> 0 .. MaxTraffic] /\ history \in [Servers -> 0 .. MaxTraffic + 1]
        /\ panel \in [Servers -> 0 .. MaxTraffic] /\ traffic \in [Servers -> 0 .. MaxTraffic]
        /\ on \in [Servers -> BOOLEAN] /\ present \subseteq Servers
    BY <2>1 DEF Init
  <2>3. /\ alive \in BOOLEAN /\ status \in Status /\ used \in Nat
        /\ lastOnline \in BOOLEAN /\ pending \in BOOLEAN /\ renewals \in Nat
        /\ faults \in 0 .. MaxFaults
    BY <2>1 DEF Init, Status
  <2>4. PanelsCount
    BY DEF Init, PanelsCount
  <2> QED BY <1>2, <2>2, <2>3, <2>4 DEF ColumnsOK
<1> QED BY <1>1, <1>3, TypeIs DEF IInv

\* Every step keeps the types and the statements of the handlers.
LEMMA NextIInv ==
  ASSUME IInv, [Next]_vars
  PROVE  IInv'
<1>0. ColumnsOK /\ PanelsCount /\ HandlersOK /\ loc \in [Procs -> Locals] /\ MaxFaults \in Nat /\ MaxTraffic \in Nat
  BY TypeIs, ClientAssumptions DEF IInv
<1>1. ASSUME NEW p \in Procs, Works(p) PROVE IInv'
  <2>1. PICK m : Becomes(p, m)
    BY <1>1, StepMoves
  <2>2. loc' \in [Procs -> Locals] /\ HandlersOK'
    BY <2>1, HandlersReplaced DEF Becomes, Moves
  <2> QED BY <1>1, <2>2, StepColumns, NextTypeIs DEF IInv
<1>2. ASSUME NEW p \in Web \union Jobs, NEW m, Starts(p, m), UNCHANGED columns PROVE IInv'
  <2>1. p \in Procs
    BY DEF Procs
  <2>2. loc' \in [Procs -> Locals] /\ HandlersOK'
    BY <1>2, <2>1, HandlersReplaced DEF Starts
  <2> QED BY <1>2, <2>2, ColumnsKept, NextTypeIs DEF IInv
<1>3. ASSUME NEW p \in Web, clearAutoRenew(p) PROVE IInv'
  <2>1. ColumnsOK' /\ PanelsCount' /\ loc' = loc
    BY <1>0, <1>3, Written DEF ColumnsOK, PanelsCount, clearAutoRenew, rowVars, usageVars, panelVars
  <2>2. HandlersOK'
    BY <1>0, <2>1 DEF HandlersOK, HandlerOK
  <2> QED BY <1>0, <2>1, <2>2, NextTypeIs DEF IInv
<1>4. ASSUME syncAll PROVE IInv'
  <2>1. loc' = [p \in Procs |-> IF p \in Servers THEN Round(p) ELSE loc[p]] /\ UNCHANGED columns
    BY <1>4 DEF syncAll, Round, columns
  <2>2. loc' \in [Procs -> Locals]
    BY <1>0, <2>1, RoundIs
  <2>3. \A p \in Procs : HandlerOK(p, loc'[p])
    BY <1>0, <2>1, RoundIs DEF HandlersOK
  <2>4. HandlersOK'
    BY <2>3 DEF HandlersOK, HandlerOK
  <2> QED BY <2>1, <2>2, <2>4, ColumnsKept, NextTypeIs DEF IInv
<1>5. ASSUME Crash PROVE IInv'
  <2>1. PICK dead : loc' = [p \in Procs |-> IF p \in dead THEN Idle ELSE loc[p]]
    BY <1>5 DEF Crash
  <2>2. loc' \in [Procs -> Locals]
    BY <1>0, <2>1, IdleOK
  <2>3. \A p \in Procs : HandlerOK(p, loc'[p])
    BY <1>0, <2>1, IdleOK DEF HandlersOK
  <2>4. HandlersOK'
    BY <2>3 DEF HandlersOK, HandlerOK
  <2>5. ColumnsOK' /\ PanelsCount'
    BY <1>0, <1>5 DEF ColumnsOK, PanelsCount, Crash, rowVars, settingVars, usageVars, panelVars
  <2> QED BY <2>2, <2>4, <2>5, NextTypeIs DEF IInv
<1>6. ASSUME loc' = loc, ColumnsOK', PanelsCount' PROVE IInv'
  <2>1. HandlersOK'
    BY <1>0, <1>6 DEF HandlersOK, HandlerOK
  <2> QED BY <1>0, <1>6, <2>1, NextTypeIs DEF IInv
<1>7. ASSUME NEW s \in Servers, useTraffic(s) PROVE IInv'
  <2>1. traffic[s] + 1 \in 0 .. MaxTraffic /\ panel[s] + 1 \in 0 .. MaxTraffic
    BY <1>0, <1>7 DEF useTraffic, ColumnsOK, PanelsCount
  <2>2. panel' \in [Servers -> 0 .. MaxTraffic] /\ traffic' \in [Servers -> 0 .. MaxTraffic]
    BY <1>0, <1>7, <2>1 DEF useTraffic, ColumnsOK
  <2>3. PanelsCount'
    BY <1>0, <1>7 DEF useTraffic, ColumnsOK, PanelsCount
  <2>4. ColumnsOK'
    BY <1>0, <1>7, <2>2 DEF useTraffic, ColumnsOK, rowVars, settingVars, usageVars
  <2> QED BY <1>6, <1>7, <2>3, <2>4 DEF useTraffic
<1>8. ASSUME expiryPasses PROVE IInv'
  <2>1. expires' \in Dates
    BY <1>0, <1>8 DEF expiryPasses, ColumnsOK, Dates
  <2>2. ColumnsOK' /\ PanelsCount'
    BY <1>0, <1>8, <2>1 DEF expiryPasses, ColumnsOK, PanelsCount, settingVars, usageVars, panelVars
  <2> QED BY <1>6, <1>8, <2>2 DEF expiryPasses
<1>9. ASSUME cyclePasses PROVE IInv'
  <2>1. rule' \in Rules
    BY <1>0, <1>9 DEF cyclePasses, ColumnsOK, Rules
  <2>2. ColumnsOK' /\ PanelsCount'
    BY <1>0, <1>9, <2>1 DEF cyclePasses, ColumnsOK, PanelsCount, rowVars, usageVars, panelVars
  <2> QED BY <1>6, <1>9, <2>2 DEF cyclePasses
<1>10. ASSUME UNCHANGED vars PROVE IInv'
  <2>1. loc' = loc /\ UNCHANGED columns
    BY <1>10 DEF vars, columns
  <2> QED BY <1>6, <2>1, ColumnsKept
<1>11. CASE Next
  <2>1. CASE \E p \in Web : Request(p)
    BY <1>2, <1>3, <2>1, RequestStarts
  <2>2. CASE \E p \in Jobs : JobStart(p)
    BY <1>2, <2>2, JobStarts
  <2> QED BY <1>1, <1>4, <1>5, <1>7, <1>8, <1>9, <1>11, <2>1, <2>2 DEF Next, Works
<1> QED BY <1>10, <1>11

\* Whatever interleaves, every column and every handler keeps its type.
THEOREM ClientTypes == Spec => []TypeOK
<1>1. Spec => []IInv
  BY InitIInv, NextIInv, PTL DEF Spec
<1>2. IInv => TypeOK
  BY DEF IInv
<1> QED BY <1>1, <1>2, PTL

(* ---------------------------- the first-use period ----------------------- *)

\* Who clears the pending period: the start when a date is there or the row is
\* gone, a deletion when the row is gone, or an update about to write a date.
PeriodKnown ==
  /\ expires.by = "pending" => expires.when = "never"
  /\ \A p \in Procs : loc[p].pc = "startClear" => ~alive \/ expires.by # "pending"
  /\ \A p \in Procs : loc[p].pc = "deletePending" => ~alive

PInv == IInv /\ PeriodKnown /\ PeriodIsNeverLost

\* A step of handler p that the period has nothing to do with.
LEMMA PeriodKept ==
  ASSUME PInv, NEW p \in Procs, NEW m, loc' = [loc EXCEPT ![p] = m],
         loc[p].pc # "updateWrite" \/ ~alive, m.pc \notin {"startClear", "deletePending"},
         UNCHANGED <<alive, expires, pending>>, faults' = 0 => faults = 0
  PROVE  PeriodKnown' /\ PeriodIsNeverLost'
<1>0. loc \in [Procs -> Locals]
  BY DEF PInv, IInv, TypeOK
<1>1. \A q \in Procs : loc'[q] = IF q = p THEN m ELSE loc[q]
  BY <1>0
<1>2. PeriodKnown'
  BY <1>1 DEF PInv, PeriodKnown
<1>3. PeriodIsNeverLost'
  <2> SUFFICES ASSUME faults' = 0, alive', expires'.by = "pending", ~pending'
               PROVE  \E q \in Web : loc'[q].pc = "updateWrite" /\ loc'[q].op \in {"date", "never"}
    BY DEF PeriodIsNeverLost, At
  <2>1. PICK q \in Web : loc[q].pc = "updateWrite" /\ loc[q].op \in {"date", "never"}
    BY DEF PInv, PeriodIsNeverLost, At
  <2>2. q # p /\ q \in Procs
    BY <2>1 DEF Procs
  <2> QED BY <1>1, <2>1, <2>2
<1> QED BY <1>2, <1>3

\* A step of handler p after which the period is not pending, or the row is gone.
LEMMA PeriodOver ==
  ASSUME PInv, NEW p \in Procs, NEW m, loc' = [loc EXCEPT ![p] = m],
         ~alive' \/ expires'.by # "pending", m.pc = "deletePending" => ~alive',
         alive' => alive, expires'.by # "pending" \/ expires' = expires
  PROVE  PeriodKnown' /\ PeriodIsNeverLost'
<1>0. loc \in [Procs -> Locals]
  BY DEF PInv, IInv, TypeOK
<1>1. \A q \in Procs : loc'[q] = IF q = p THEN m ELSE loc[q]
  BY <1>0
<1>2. PeriodKnown'
  BY <1>1 DEF PInv, PeriodKnown
<1> QED BY <1>2 DEF PeriodIsNeverLost

\* The statements that decide about the period, and all others.
LEMMA PeriodStep ==
  ASSUME PInv, NEW p \in Procs, Works(p)
  PROVE  PeriodKnown' /\ PeriodIsNeverLost'
<1> USE DEF rowVars, settingVars, usageVars, panelVars
<1>0. /\ IInv /\ PeriodKnown /\ loc[p] \in Locals /\ HandlerOK(p, loc[p])
      /\ Idle.pc = "idle" /\ loc \in [Procs -> Locals]
  BY HandlerTypes, IdleOK DEF PInv
<1>1. CASE startWrite(p) \/ startRead(p)
  <2>1. CASE startRead(p)
    <3>1. PICK m : /\ Becomes(p, m)
                   /\ \/ m.pc = "startClear" /\ (~alive \/ expires.when # "never")
                      \/ m.pc \in {"idle", "startWrite"}
      BY <1>0, <2>1, StartMoves
    <3>2. UNCHANGED <<alive, expires, pending, faults>> /\ loc[p].pc = "startRead"
      BY <2>1 DEF startRead, At
    <3>3. CASE m.pc = "startClear"
      <4>1. ~alive' \/ expires'.by # "pending"
        BY <1>0, <3>1, <3>2, <3>3 DEF PeriodKnown
      <4> QED BY <3>1, <3>2, <3>3, <4>1, PeriodOver DEF Becomes
    <3>4. CASE m.pc # "startClear"
      BY <3>1, <3>2, <3>4, PeriodKept DEF Becomes
    <3> QED BY <3>3, <3>4
  <2>2. CASE startWrite(p)
    <3>1. PICK m : /\ Becomes(p, m)
                   /\ \/ m.pc = "startClear" /\ expires' = Date("start")
                      \/ m = Idle /\ ~alive /\ expires' = expires
      BY <1>0, <2>2, StartMoves
    <3>2. alive' = alive
      BY <2>2 DEF startWrite
    <3>3. Date("start").by = "start"
      BY DEF Date
    <3>4. m.pc # "deletePending" /\ (~alive' \/ expires'.by # "pending")
      BY <1>0, <3>1, <3>2, <3>3
    <3>5. expires'.by # "pending" \/ expires' = expires
      BY <3>1, <3>3
    <3> QED BY <3>1, <3>2, <3>4, <3>5, PeriodOver DEF Becomes
  <2> QED BY <1>1, <2>1, <2>2
<1>2. CASE startClear(p)
  <2>1. Becomes(p, Idle) /\ loc[p].pc = "startClear" /\ UNCHANGED <<alive, expires>>
    BY <1>0, <1>2, StartMoves DEF startClear, At
  <2>2. ~alive' \/ expires'.by # "pending"
    BY <1>0, <2>1 DEF PeriodKnown
  <2> QED BY <1>0, <2>1, <2>2, PeriodOver DEF Becomes
<1>3. CASE updateClear(p)
  <2>1. PICK m : Becomes(p, m) /\ m.pc = "updateWrite" /\ m.op \in {"date", "never"} /\ p \in Web
    BY <1>0, <1>3, UpdateMoves
  <2>2. UNCHANGED <<alive, expires>>
    BY <1>3 DEF updateClear
  <2>3. \A q \in Procs : loc'[q] = IF q = p THEN m ELSE loc[q]
    BY <1>0, <2>1 DEF Becomes
  <2>4. PeriodKnown'
    BY <1>0, <2>1, <2>2, <2>3 DEF PeriodKnown
  <2>5. loc'[p].pc = "updateWrite" /\ loc'[p].op \in {"date", "never"}
    BY <2>1, <2>3
  <2>6. PeriodIsNeverLost'
    BY <2>1, <2>5 DEF PeriodIsNeverLost, At
  <2> QED BY <2>4, <2>6
<1>4. CASE updateWrite(p)
  <2>1. PICK m : /\ Becomes(p, m)
                 /\ \/ m.pc = "recomputeRead" /\ alive /\ m.op = loc[p].op
                    \/ m = Idle /\ ~alive
    BY <1>0, <1>4, UpdateMoves
  <2>2. UNCHANGED <<alive, pending, faults>> /\ m.pc \notin {"startClear", "deletePending"}
    BY <1>0, <1>4, <2>1 DEF updateWrite
  <2>3. CASE ~alive
    <3>1. expires' = expires
      BY <1>4, <2>3 DEF updateWrite
    <3> QED BY <2>1, <2>2, <2>3, <3>1, PeriodKept DEF Becomes
  <2>4. CASE alive /\ loc[p].op \in {"date", "never"}
    <3>1. expires'.by = "seller"
      BY <1>4, <2>4 DEF updateWrite, Date
    <3> QED BY <2>1, <2>2, <3>1, PeriodOver DEF Becomes
  <2>5. CASE alive /\ loc[p].op \notin {"date", "never"}
    <3>1. expires' = expires
      BY <1>4, <2>5 DEF updateWrite
    <3>2. \A q \in Procs : loc'[q] = IF q = p THEN m ELSE loc[q]
      BY <1>0, <2>1 DEF Becomes
    <3>3. PeriodKnown'
      BY <1>0, <2>2, <3>1, <3>2 DEF PeriodKnown
    <3>4. PeriodIsNeverLost'
      <4> SUFFICES ASSUME faults' = 0, alive', expires'.by = "pending", ~pending'
                   PROVE  \E q \in Web : loc'[q].pc = "updateWrite" /\ loc'[q].op \in {"date", "never"}
        BY DEF PeriodIsNeverLost, At
      <4>1. PICK q \in Web : loc[q].pc = "updateWrite" /\ loc[q].op \in {"date", "never"}
        BY <2>2, <3>1 DEF PInv, PeriodIsNeverLost, At
      <4>2. q # p /\ q \in Procs
        BY <2>5, <4>1 DEF Procs
      <4> QED BY <3>2, <4>1, <4>2
    <3> QED BY <3>3, <3>4
  <2> QED BY <2>3, <2>4, <2>5
<1>5. CASE deleteRow(p)
  <2>1. PICK m : /\ Becomes(p, m)
                 /\ \/ m.pc = "deletePending" /\ alive' = FALSE
                    \/ m = Idle /\ ~alive /\ alive' = alive
    BY <1>0, <1>5, DeleteMoves
  <2>2. expires' = expires
    BY <1>5 DEF deleteRow
  <2>3. (m.pc = "deletePending" => ~alive') /\ ~alive'
    BY <1>0, <2>1
  <2> QED BY <2>1, <2>2, <2>3, PeriodOver DEF Becomes
<1>6. CASE deletePending(p)
  <2>1. Becomes(p, Idle) /\ loc[p].pc = "deletePending" /\ UNCHANGED <<alive, expires>>
    BY <1>0, <1>6, DeleteMoves DEF deletePending, At
  <2>2. ~alive'
    BY <1>0, <2>1 DEF PeriodKnown
  <2> QED BY <1>0, <2>1, <2>2, PeriodOver DEF Becomes
<1>7. CASE renewExtend(p)
  <2>1. PICK m : Becomes(p, m) /\ m.pc \in {"renewWrite", "idle", "pushRead"}
    BY <1>0, <1>7, RenewMoves
  <2>2. UNCHANGED <<alive, pending, faults>> /\ loc[p].pc = "renewExtend"
    BY <1>7 DEF renewExtend, At
  <2>3. expires' = expires \/ expires' = Date("renewal")
    BY <1>7 DEF renewExtend
  <2>4. CASE expires' = expires
    BY <2>1, <2>2, <2>4, PeriodKept DEF Becomes
  <2>5. CASE expires' = Date("renewal")
    <3>1. expires'.by # "pending"
      BY <2>5 DEF Date
    <3> QED BY <2>1, <2>2, <3>1, PeriodOver DEF Becomes
  <2> QED BY <2>3, <2>4, <2>5
<1>8. ASSUME NEW m, Becomes(p, m), loc[p].pc # "updateWrite", m.pc \notin {"startClear", "deletePending"},
             UNCHANGED <<alive, expires, pending>>, faults' = 0 => faults = 0
      PROVE  PeriodKnown' /\ PeriodIsNeverLost'
  BY <1>8, PeriodKept DEF Becomes
<1>9. CASE syncFetch(p) \/ syncFail(p) \/ syncLinks(p) \/ syncWrite(p) \/ syncUsage(p) \/ syncOnline(p)
  <2>1. PICK m : Becomes(p, m) /\ m.pc \notin {"startClear", "deletePending"}
    BY <1>0, <1>9, SyncMoves
  <2>2. loc[p].pc # "updateWrite" /\ UNCHANGED <<alive, expires, pending, faults>>
    BY <1>9 DEF syncFetch, syncFail, syncLinks, syncWrite, syncUsage, syncOnline, At
  <2> QED BY <1>8, <2>1, <2>2
<1>10. CASE recomputeRead(p) \/ recomputeWrite(p)
  <2>1. PICK m : Becomes(p, m) /\ m.pc \notin {"startClear", "deletePending"}
    BY <1>0, <1>10, RecomputeMoves, ReturnLabels
  <2>2. loc[p].pc # "updateWrite" /\ UNCHANGED <<alive, expires, pending, faults>>
    BY <1>10 DEF recomputeRead, recomputeWrite, At
  <2> QED BY <1>8, <2>1, <2>2
<1>11. CASE enforceWrite(p)
  <2>1. Becomes(p, Idle) /\ loc[p].pc # "updateWrite" /\ UNCHANGED <<alive, expires, pending, faults>>
    BY <1>0, <1>11, StartMoves DEF enforceWrite, At
  <2> QED BY <1>0, <1>8, <2>1
<1>12. CASE pushRead(p) \/ pushPanel(p)
  <2>1. PICK m : /\ Becomes(p, m) /\ m.pc \notin {"startClear", "deletePending"}
    BY <1>0, <1>12, PushMoves
  <2>2. loc[p].pc # "updateWrite" /\ UNCHANGED <<alive, expires, pending>>
    BY <1>12 DEF pushRead, pushPanel, At
  <2>3. faults' = 0 => faults = 0
    BY <1>0, <1>12, PushMoves, FailsTyped DEF pushRead
  <2> QED BY <1>8, <2>1, <2>2, <2>3
<1>13. CASE resetRead(p) \/ resetPanel(p) \/ resetLink(p)
  <2>1. PICK m : /\ Becomes(p, m) /\ m.pc \notin {"startClear", "deletePending"}
    BY <1>0, <1>13, ResetMoves
  <2>2. loc[p].pc # "updateWrite" /\ UNCHANGED <<alive, expires, pending>>
    BY <1>13 DEF resetRead, resetPanel, resetLink, At
  <2>3. faults' = 0 => faults = 0
    BY <1>0, <1>13, ResetMoves, FailsTyped DEF resetRead, resetLink
  <2> QED BY <1>8, <2>1, <2>2, <2>3
<1>14. CASE deletePanel(p)
  <2>1. PICK m : /\ Becomes(p, m) /\ m.pc \notin {"startClear", "deletePending"}
    BY <1>0, <1>14, DeleteMoves
  <2>2. loc[p].pc # "updateWrite" /\ UNCHANGED <<alive, expires, pending>>
    BY <1>14 DEF deletePanel, At
  <2>3. faults' = 0 => faults = 0
    BY <1>0, <1>14, DeleteMoves, FailsTyped
  <2> QED BY <1>8, <2>1, <2>2, <2>3
<1>15. CASE ruleWrite(p) \/ renewClient(p) \/ renewDrop(p) \/ renewWrite(p)
  <2>1. PICK m : /\ Becomes(p, m) /\ m.pc \notin {"startClear", "deletePending"}
    BY <1>0, <1>15, RenewMoves
  <2>2. loc[p].pc # "updateWrite" /\ UNCHANGED <<alive, expires, pending, faults>>
    BY <1>15 DEF ruleWrite, renewClient, renewDrop, renewWrite, At
  <2> QED BY <1>8, <2>1, <2>2
<1> QED BY <1>1, <1>2, <1>3, <1>4, <1>5, <1>6, <1>7, <1>9, <1>10, <1>11, <1>12, <1>13, <1>14,
           <1>15 DEF Works, Step

\* Starts, the panels, time and crashes.
LEMMA PeriodNext ==
  ASSUME PInv, [Next]_vars
  PROVE  PeriodKnown' /\ PeriodIsNeverLost'
<1> USE DEF rowVars, settingVars, usageVars, panelVars
<1>0. IInv /\ PeriodKnown /\ loc \in [Procs -> Locals] /\ faults \in Nat /\ expires \in Dates
  BY ClientAssumptions DEF PInv, IInv, TypeOK
<1>1. ASSUME NEW p \in Web \union Jobs, NEW m, Starts(p, m), UNCHANGED columns
      PROVE  PeriodKnown' /\ PeriodIsNeverLost'
  <2>1. /\ p \in Procs /\ loc[p].pc # "updateWrite" /\ m.pc \notin {"startClear", "deletePending"}
        /\ loc' = [loc EXCEPT ![p] = m]
    BY <1>1 DEF Procs, Starts
  <2>2. UNCHANGED <<alive, expires, pending, faults>>
    BY <1>1 DEF columns
  <2> QED BY <2>1, <2>2, PeriodKept
<1>2. ASSUME UNCHANGED <<alive, expires, pending, faults, loc>> PROVE PeriodKnown' /\ PeriodIsNeverLost'
  BY <1>2 DEF PInv, PeriodKnown, PeriodIsNeverLost, At
<1>3. ASSUME syncAll PROVE PeriodKnown' /\ PeriodIsNeverLost'
  <2>1. loc' = [p \in Procs |-> IF p \in Servers THEN Round(p) ELSE loc[p]]
    BY <1>3 DEF syncAll, Round
  <2>2. UNCHANGED <<alive, expires, pending, faults>>
    BY <1>3 DEF syncAll
  <2>3. PeriodKnown'
    BY <1>0, <2>1, <2>2, RoundIs DEF PeriodKnown
  <2>4. \A q \in Web : q \in Procs /\ loc'[q] = loc[q]
    BY <2>1, ClientAssumptions DEF Procs
  <2>5. PeriodIsNeverLost'
    BY <2>2, <2>4 DEF PInv, PeriodIsNeverLost, At
  <2> QED BY <2>3, <2>5
<1>4. ASSUME Crash PROVE PeriodKnown' /\ PeriodIsNeverLost'
  <2>1. PICK dead : loc' = [p \in Procs |-> IF p \in dead THEN Idle ELSE loc[p]]
    BY <1>4 DEF Crash
  <2>2. UNCHANGED <<alive, expires, pending>> /\ faults' # 0
    BY <1>0, <1>4 DEF Crash
  <2>3. PeriodKnown'
    BY <1>0, <2>1, <2>2, IdleOK DEF PeriodKnown
  <2>4. PeriodIsNeverLost'
    BY <2>2 DEF PeriodIsNeverLost
  <2> QED BY <2>3, <2>4
<1>5. ASSUME expiryPasses PROVE PeriodKnown' /\ PeriodIsNeverLost'
  <2>1. expires'.by = expires.by /\ expires.by # "pending"
    BY <1>0, <1>5 DEF expiryPasses, PeriodKnown, Dates
  <2>2. UNCHANGED <<alive, loc>>
    BY <1>5 DEF expiryPasses
  <2>3. PeriodKnown'
    BY <1>0, <2>1, <2>2 DEF PeriodKnown
  <2>4. PeriodIsNeverLost'
    BY <2>1 DEF PeriodIsNeverLost
  <2> QED BY <2>3, <2>4
<1>6. CASE Next
  <2>1. CASE \E p \in Web : Request(p)
    <3>1. PICK p \in Web : Request(p)
      BY <2>1
    <3>2. CASE clearAutoRenew(p)
      BY <1>2, <3>2 DEF clearAutoRenew
    <3> QED BY <1>0, <1>1, <3>1, <3>2, RequestStarts
  <2>2. CASE \E p \in Jobs : JobStart(p)
    BY <1>0, <1>1, <2>2, JobStarts
  <2>3. CASE \E p \in Procs : Step(p) \/ syncFetch(p) \/ syncFail(p)
    BY <2>3, PeriodStep DEF Works
  <2>4. CASE \E s \in Servers : useTraffic(s)
    BY <1>2, <2>4 DEF useTraffic
  <2>5. CASE cyclePasses
    BY <1>2, <2>5 DEF cyclePasses
  <2> QED BY <1>3, <1>4, <1>5, <1>6, <2>1, <2>2, <2>3, <2>4, <2>5 DEF Next
<1>7. CASE UNCHANGED vars
  BY <1>2, <1>7 DEF vars
<1> QED BY <1>6, <1>7

\* However updates, first-use starts, renewals and deletions interleave, a client
\* sold with a first-use period keeps it until a date takes its place.
THEOREM PeriodSurvives == Spec => []PeriodIsNeverLost
<1>1. Init => PInv
  <2> SUFFICES ASSUME Init PROVE PeriodKnown /\ PeriodIsNeverLost
    BY InitIInv DEF PInv
  <2>1. PeriodKnown
    BY IdleOK DEF Init, PeriodKnown, Date
  <2>2. PeriodIsNeverLost
    BY DEF Init, PeriodIsNeverLost, Date
  <2> QED BY <2>1, <2>2
<1>2. ASSUME PInv, [Next]_vars PROVE PInv'
  BY <1>2, NextIInv, PeriodNext DEF PInv
<1>3. PInv => PeriodIsNeverLost
  BY DEF PInv
<1> QED BY <1>1, <1>2, <1>3, PTL DEF Spec

(* ----------------------- one handler after the other -------------------- *)

\* Only the synchronisation of the panels runs side by side.
OneAtATime == \A p, q \in Procs :
  loc[p].pc # "idle" /\ loc[q].pc # "idle" => p = q \/ (p \in Servers /\ q \in Servers)

\* When a handler may start, none is under way.
LEMMA NoneActive ==
  ASSUME IInv, MaxActive = 1, Cardinality(Active) < MaxActive
  PROVE  \A p \in Procs : loc[p].pc = "idle"
<1>1. IsFiniteSet(Jobs)
  <2>1. IsFiniteSet({"enforce"}) /\ IsFiniteSet({"starts"}) /\ IsFiniteSet({"renew"})
    BY FS_Singleton
  <2>2. IsFiniteSet({"enforce"} \union {"starts"})
    BY <2>1, FS_Union
  <2>3. IsFiniteSet(({"enforce"} \union {"starts"}) \union {"renew"})
    BY <2>1, <2>2, FS_Union
  <2>4. Jobs = ({"enforce"} \union {"starts"}) \union {"renew"}
    BY DEF Jobs
  <2> QED BY <2>3, <2>4
<1>2. IsFiniteSet(Servers \union Jobs)
  BY <1>1, ClientAssumptions, FS_Union
<1>3. IsFiniteSet(Procs)
  BY <1>2, ClientAssumptions, FS_Union DEF Procs
<1>4. Active \subseteq Procs
  BY DEF Active
<1>5. IsFiniteSet(Active)
  BY <1>3, <1>4, FS_Subset
<1>6. Cardinality(Active) \in Nat
  BY <1>5, FS_CardinalityType
<1>7. Cardinality(Active) = 0
  BY <1>6
<1>8. Active = {}
  BY <1>5, <1>7, FS_EmptySet
<1> QED BY <1>8 DEF Active, At

\* Two handlers side by side are synchronisations, each of its own panel.
LEMMA BySide ==
  ASSUME IInv, OneAtATime, NEW p \in Procs, NEW q \in Procs, p # q,
         loc[p].pc # "idle", loc[q].pc # "idle"
  PROVE  /\ p \in Servers /\ q \in Servers /\ loc[p].op = "sync" /\ loc[q].op = "sync"
         /\ loc[p].pc \in Syncing \union {"recomputeRead", "recomputeWrite"}
         /\ loc[q].pc \in Syncing \union {"recomputeRead", "recomputeWrite"}
         /\ loc[p].pc \in Syncing => loc[p].server = p
         /\ loc[q].pc \in Syncing => loc[q].server = q
<1>1. p \in Servers /\ q \in Servers
  BY DEF OneAtATime
<1>2. HandlerOK(p, loc[p]) /\ HandlerOK(q, loc[q])
  BY HandlerTypes
<1> QED BY <1>1, <1>2 DEF HandlerOK

\* Any other handler is alone.
LEMMA Alone ==
  ASSUME IInv, OneAtATime, NEW p \in Procs,
         loc[p].pc \notin Syncing \union {"idle", "recomputeRead", "recomputeWrite"}
  PROVE  \A q \in Procs : q # p => loc[q] = Idle
<1>1. ASSUME NEW q \in Procs, q # p PROVE loc[q].pc = "idle"
  BY <1>1, BySide
<1>2. \A q \in Procs : HandlerOK(q, loc[q])
  BY HandlerTypes
<1> QED BY <1>1, <1>2 DEF HandlerOK

\* All handlers are idle when one starts.
LEMMA AllIdle ==
  ASSUME IInv, \A p \in Procs : loc[p].pc = "idle"
  PROVE  \A p \in Procs : loc[p] = Idle
<1>1. \A q \in Procs : HandlerOK(q, loc[q])
  BY HandlerTypes
<1> QED BY <1>1 DEF HandlerOK

\* What Next is, handler by handler.
LEMMA NextIs ==
  ASSUME IInv, Next, MaxActive = 1
  PROVE  \/ \E p \in Procs : Works(p)
         \/ \E p \in Procs : \E m : Starts(p, m) /\ UNCHANGED columns /\ \A q \in Procs : loc[q] = Idle
         \/ \E p \in Web : clearAutoRenew(p) /\ \A q \in Procs : loc[q] = Idle
         \/ /\ loc' = [p \in Procs |-> IF p \in Servers THEN Round(p) ELSE loc[p]]
            /\ UNCHANGED columns /\ (Servers = {} \/ \A q \in Procs : loc[q] = Idle)
         \/ \E s \in Servers : useTraffic(s)
         \/ expiryPasses \/ cyclePasses \/ Crash
<1>0. \A p \in Web \union Jobs : p \in Procs
  BY DEF Procs
<1>1. ASSUME NEW p \in Web \union Jobs, NEW m, Starts(p, m)
      PROVE  \A q \in Procs : loc[q] = Idle
  BY <1>1, NoneActive, AllIdle DEF Starts
<1>2. ASSUME NEW p \in Web, clearAutoRenew(p) PROVE \A q \in Procs : loc[q] = Idle
  BY <1>2, NoneActive, AllIdle DEF clearAutoRenew, MayStart
<1>3. CASE \E p \in Web : Request(p)
  BY <1>0, <1>1, <1>2, <1>3, RequestStarts
<1>4. CASE \E p \in Jobs : JobStart(p)
  BY <1>0, <1>1, <1>4, JobStarts
<1>5. CASE syncAll
  <2>1. loc' = [p \in Procs |-> IF p \in Servers THEN Round(p) ELSE loc[p]] /\ UNCHANGED columns
    BY <1>5 DEF syncAll, Round, columns
  <2>2. Servers = {} \/ \A q \in Procs : loc[q] = Idle
    BY <1>5, NoneActive, AllIdle DEF syncAll, MayStart
  <2> QED BY <2>1, <2>2
<1>6. CASE \E p \in Procs : Step(p) \/ syncFetch(p) \/ syncFail(p)
  BY <1>6 DEF Works
<1> QED BY <1>3, <1>4, <1>5, <1>6 DEF Next

\* At the start nobody is under way.
LEMMA InitOneAtATime == Init => OneAtATime
  BY IdleOK DEF Init, OneAtATime

\* With one handler at a time, no step brings a second one in.
LEMMA NextOneAtATime ==
  ASSUME IInv, OneAtATime, MaxActive = 1, [Next]_vars
  PROVE  OneAtATime'
<1>0. loc \in [Procs -> Locals] /\ Idle.pc = "idle"
  BY IdleOK DEF IInv, TypeOK
<1>1. ASSUME NEW p \in Procs, Works(p) PROVE OneAtATime'
  <2>1. PICK m : loc' = [loc EXCEPT ![p] = m] /\ loc[p].pc # "idle"
    BY <1>1, StepMoves DEF Becomes
  <2>2. \A q \in Procs : loc'[q].pc # "idle" => loc[q].pc # "idle"
    BY <1>0, <2>1
  <2> QED BY <2>2 DEF OneAtATime
<1>2. ASSUME NEW p \in Procs, NEW m, loc' = [loc EXCEPT ![p] = m], \A q \in Procs : loc[q] = Idle
      PROVE  OneAtATime'
  <2>1. \A q \in Procs : loc'[q].pc # "idle" => q = p
    BY <1>0, <1>2
  <2> QED BY <2>1 DEF OneAtATime
<1>3. ASSUME loc' = [p \in Procs |-> IF p \in Servers THEN Round(p) ELSE loc[p]],
             Servers = {} \/ \A q \in Procs : loc[q] = Idle
      PROVE  OneAtATime'
  <2>1. CASE Servers = {}
    BY <1>0, <1>3, <2>1 DEF OneAtATime
  <2>2. CASE \A q \in Procs : loc[q] = Idle
    <3>1. \A q \in Procs : loc'[q].pc # "idle" => q \in Servers
      BY <1>0, <1>3, <2>2
    <3> QED BY <3>1 DEF OneAtATime
  <2> QED BY <1>3, <2>1, <2>2
<1>4. ASSUME loc' = loc PROVE OneAtATime'
  BY <1>4 DEF OneAtATime
<1>5. ASSUME Crash PROVE OneAtATime'
  <2>1. PICK dead : loc' = [p \in Procs |-> IF p \in dead THEN Idle ELSE loc[p]]
    BY <1>5 DEF Crash
  <2>2. \A q \in Procs : loc'[q].pc # "idle" => loc[q].pc # "idle"
    BY <1>0, <2>1
  <2> QED BY <2>2 DEF OneAtATime
<1>6. CASE Next
  BY <1>1, <1>2, <1>3, <1>4, <1>5, <1>6, NextIs
     DEF Starts, clearAutoRenew, useTraffic, expiryPasses, cyclePasses
<1>7. CASE UNCHANGED vars
  BY <1>4, <1>7 DEF vars
<1> QED BY <1>6, <1>7


(* -------------------------------- the usage ------------------------------ *)

\* The history of s, and what a synchronisation would add to it, was used: since
\* the last one, or since a reset that the link has not followed yet.
SinceReset(s) == history[s] + panel[s] <= traffic[s]
Counted(s) == SinceReset(s) \/ (links[s] <= panel[s] /\ history[s] + (panel[s] - links[s]) <= traffic[s])

Delta(l) == IF l.seen >= l.link THEN l.seen - l.link ELSE l.seen

\* What a synchronisation, or a reset, knows of the panel it talks to.
SyncOK(l) ==
  /\ l.pc \in {"syncLinks", "syncWrite"} => /\ l.seen <= panel[l.server]
                                            /\ l.seen < links[l.server] => SinceReset(l.server)
  /\ l.pc = "syncWrite" => l.link = links[l.server]
  /\ l.pc = "syncUsage" => /\ l.seen <= panel[l.server] /\ links[l.server] = l.seen
                           /\ history[l.server] + Delta(l) + (panel[l.server] - l.seen)
                                <= traffic[l.server]
  /\ l.pc = "resetLink" => SinceReset(l.server)

Usage == (\A s \in Servers : Counted(s)) /\ (\A p \in Procs : SyncOK(loc[p]))
UInv == IInv /\ OneAtATime /\ Usage

Knowing == {"syncLinks", "syncWrite", "syncUsage", "resetLink"}

\* The counters of a panel are numbers.
LEMMA Counters ==
  ASSUME IInv, NEW s \in Servers
  PROVE  /\ links[s] \in Nat /\ history[s] \in Nat /\ panel[s] \in Nat /\ traffic[s] \in Nat
         /\ history \in [Servers -> Nat] /\ links \in [Servers -> Nat]
         /\ panel \in [Servers -> Nat] /\ traffic \in [Servers -> Nat]
<1>1. 0 .. MaxTraffic \subseteq Nat /\ 0 .. MaxTraffic + 1 \subseteq Nat
  BY ClientAssumptions
<1> QED BY <1>1 DEF IInv, TypeOK

\* Handlers that know nothing of the counters, and counters that stay.
LEMMA UsageKept ==
  ASSUME UInv, UNCHANGED <<usageVars, panelVars>>,
         \A q \in Procs : loc'[q] = loc[q] \/ loc'[q].pc \notin Knowing
  PROVE  Usage'
<1>1. UNCHANGED <<links, history, panel, traffic>>
  BY DEF usageVars, panelVars
<1>2. \A s \in Servers : Counted(s)'
  BY <1>1 DEF UInv, Usage, Counted, SinceReset
<1>3. ASSUME NEW q \in Procs PROVE SyncOK(loc[q])'
  BY <1>1 DEF UInv, Usage, Knowing, SyncOK, SinceReset, Delta
<1> QED BY <1>2, <1>3 DEF Usage

\* A handler that changes the counters of one panel: nobody else is talking to it.
LEMMA UsageAt ==
  ASSUME UInv, NEW p \in Procs, NEW m, loc' = [loc EXCEPT ![p] = m], loc[p].pc # "idle",
         NEW s \in Servers, loc[p].op = "sync" => loc[p].server = s /\ loc[p].pc \in Syncing,
         \A t \in Servers : t # s => /\ links'[t] = links[t] /\ history'[t] = history[t]
                                     /\ panel'[t] = panel[t] /\ traffic'[t] = traffic[t],
         Counted(s)', SyncOK(m)'
  PROVE  Usage'
<1>0. loc \in [Procs -> Locals] /\ IInv /\ OneAtATime /\ Usage
  BY DEF UInv, IInv, TypeOK
<1>1. \A t \in Servers : Counted(t)'
  BY <1>0 DEF Usage, Counted, SinceReset
<1>2. ASSUME NEW q \in Procs, q # p PROVE SyncOK(loc[q])'
  <2>1. loc'[q] = loc[q] /\ SyncOK(loc[q])
    BY <1>0, <1>2 DEF Usage
  <2>2. CASE loc[q].pc = "idle"
    BY <2>1, <2>2 DEF SyncOK
  <2>3. CASE loc[q].pc # "idle"
    <3>1. p \in Servers /\ loc[p].op = "sync" /\ q \in Servers
      BY <1>0, <1>2, <2>3, BySide
    <3>2. s = p
      BY <1>0, <1>2, <2>3, <3>1, BySide
    <3>3. loc[q].pc \in Syncing \union {"recomputeRead", "recomputeWrite"}
      BY <1>0, <1>2, <2>3, BySide
    <3>4. loc[q].pc \in Syncing => loc[q].server = q
      BY <1>0, <1>2, <2>3, BySide
    <3>5. /\ links'[q] = links[q] /\ history'[q] = history[q]
          /\ panel'[q] = panel[q] /\ traffic'[q] = traffic[q]
      BY <1>2, <3>1, <3>2
    <3> QED BY <2>1, <3>3, <3>4, <3>5 DEF SyncOK, SinceReset, Delta, Syncing
  <2> QED BY <2>2, <2>3
<1>3. SyncOK(loc[p])'
  <2>1. loc'[p] = m
    BY <1>0
  <2> QED BY <2>1 DEF SyncOK, SinceReset, Delta
<1>4. \A q \in Procs : SyncOK(loc[q])'
  BY <1>2, <1>3
<1> QED BY <1>1, <1>4 DEF Usage

\* The four statements of a synchronisation that look at the counters.
LEMMA UsageSync ==
  ASSUME UInv, NEW p \in Procs, syncFetch(p) \/ syncLinks(p) \/ syncWrite(p) \/ syncUsage(p)
  PROVE  Usage'
<1>0. IInv /\ HandlerOK(p, loc[p]) /\ loc \in [Procs -> Locals] /\ Usage /\ SyncOK(loc[p]) /\ Idle.pc = "idle"
  BY HandlerTypes, IdleOK DEF UInv, Usage
<1>1. /\ loc[p].pc \in Syncing /\ loc[p].pc # "idle" /\ loc[p].server \in Servers /\ loc[p].op = "sync"
  BY <1>0 DEF syncFetch, syncLinks, syncWrite, syncUsage, At, HandlerOK, Syncing
<1>2. PICK s \in Servers : s = loc[p].server
  BY <1>1
<1>3. /\ links[s] \in Nat /\ history[s] \in Nat /\ panel[s] \in Nat /\ traffic[s] \in Nat
      /\ loc[p].seen \in Nat /\ loc[p].link \in Nat /\ Counted(s)
      /\ history \in [Servers -> Nat] /\ links \in [Servers -> Nat]
  BY <1>0, Counters, HandlerTypes, ClientAssumptions DEF Usage
<1>4. ASSUME Becomes(p, Idle), UNCHANGED <<usageVars, panelVars>> PROVE Usage'
  <2>1. \A q \in Procs : loc'[q] = loc[q] \/ loc'[q].pc \notin Knowing
    BY <1>0, <1>4 DEF Becomes, Knowing
  <2> QED BY <1>4, <2>1, UsageKept
<1>5. CASE syncFetch(p)
  <2>1. PICK m : /\ Becomes(p, m) /\ m.pc = "syncLinks" /\ m.seen = panel[m.server] /\ m.server = s
    BY <1>0, <1>2, <1>5, SyncMoves
  <2>2. UNCHANGED <<links, history, panel, traffic>>
    BY <1>5 DEF syncFetch, usageVars, panelVars
  <2>3. Counted(s)' /\ SyncOK(m)'
    BY <1>3, <2>1, <2>2 DEF Counted, SyncOK, SinceReset
  <2> QED BY <1>1, <1>2, <2>1, <2>2, <2>3, UsageAt DEF Becomes
<1>6. CASE syncLinks(p)
  <2>1. UNCHANGED <<links, history, panel, traffic>> /\ UNCHANGED <<usageVars, panelVars>> /\ loc[p].pc = "syncLinks"
    BY <1>6 DEF syncLinks, usageVars, panelVars, At
  <2>2. CASE \E m : /\ Becomes(p, m) /\ m.pc = "syncWrite" /\ m.seen = loc[p].seen
                    /\ m.server = loc[p].server /\ m.server \in Servers /\ m.link = links[m.server]
    <3>1. PICK m : /\ Becomes(p, m) /\ m.pc = "syncWrite" /\ m.seen = loc[p].seen
                   /\ m.server = s /\ m.link = links[m.server]
      BY <1>2, <2>2
    <3>2. Counted(s)' /\ SyncOK(m)'
      BY <1>0, <1>2, <1>3, <2>1, <3>1 DEF Counted, SyncOK, SinceReset
    <3> QED BY <1>1, <1>2, <2>1, <3>1, <3>2, UsageAt DEF Becomes
  <2> QED BY <1>0, <1>4, <1>6, <2>1, <2>2, SyncMoves
<1>7. CASE syncWrite(p)
  <2>1. UNCHANGED <<history, panel, traffic, panelVars>> /\ loc[p].pc = "syncWrite"
    BY <1>7 DEF syncWrite, panelVars, At
  <2>2. CASE \E m : /\ Becomes(p, m) /\ m.pc = "syncUsage" /\ m.seen = loc[p].seen
                    /\ m.server = loc[p].server /\ m.server \in Servers
                    /\ m.link = loc[p].link /\ links' = [links EXCEPT ![m.server] = m.seen]
    <3>1. PICK m : /\ Becomes(p, m) /\ m.pc = "syncUsage" /\ m.seen = loc[p].seen
                   /\ m.server = s /\ m.link = loc[p].link /\ links' = [links EXCEPT ![s] = m.seen]
      BY <1>2, <2>2
    <3>2. links'[s] = m.seen /\ \A t \in Servers : t # s => links'[t] = links[t]
      BY <1>3, <3>1
    <3>3. /\ m.seen \in Nat /\ m.link \in Nat /\ m.seen <= panel[s] /\ m.link = links[s]
          /\ m.seen < links[s] => history[s] + panel[s] <= traffic[s]
      BY <1>0, <1>2, <1>3, <2>1, <3>1 DEF SyncOK, SinceReset
    <3>4. history[s] + panel[s] <= traffic[s] \/ history[s] + (panel[s] - links[s]) <= traffic[s]
      BY <1>3 DEF Counted, SinceReset
    <3>5. history[s] + Delta(m) + (panel[s] - m.seen) <= traffic[s] /\ Delta(m) \in Nat
      BY <1>3, <3>3, <3>4 DEF Delta
    <3>6. Counted(s)'
      BY <1>3, <2>1, <3>2, <3>3, <3>5 DEF Counted, SinceReset
    <3>7. SyncOK(m)'
      BY <2>1, <3>1, <3>2, <3>3, <3>5 DEF SyncOK, Delta
    <3> QED BY <1>1, <1>2, <2>1, <3>1, <3>2, <3>6, <3>7, UsageAt DEF Becomes
  <2>3. CASE Becomes(p, Idle) /\ links' = links
    <3>1. UNCHANGED <<usageVars, panelVars>>
      BY <2>1, <2>3 DEF usageVars
    <3> QED BY <1>4, <2>3, <3>1
  <2> QED BY <1>0, <1>7, <2>2, <2>3, SyncMoves
<1>8. CASE syncUsage(p)
  <2>1. PICK m : Becomes(p, m) /\ m.pc = "syncOnline"
    BY <1>0, <1>8, SyncMoves
  <2>2. PICK d : d = Delta(loc[p])
    OBVIOUS
  <2>3. /\ d \in Nat /\ loc[p].seen <= panel[s] /\ links[s] = loc[p].seen
        /\ history[s] + d + (panel[s] - loc[p].seen) <= traffic[s]
    BY <1>0, <1>2, <1>3, <1>8, <2>2 DEF SyncOK, Delta, syncUsage, At
  <2>4. history' = [history EXCEPT ![s] = Min({history[s] + d, MaxTraffic + 1})]
    BY <1>2, <1>8, <2>2 DEF syncUsage, Delta
  <2>5. PICK h : h = Min({history[s] + d, MaxTraffic + 1})
    OBVIOUS
  <2>6. h \in Nat /\ h <= history[s] + d
    <3>1. history[s] + d \in Nat /\ MaxTraffic + 1 \in Nat
      BY <1>3, <2>3, ClientAssumptions
    <3> QED BY <2>5, <3>1, MinIs
  <2>7. history'[s] = h /\ (\A t \in Servers : t # s => history'[t] = history[t])
    BY <1>3, <2>4, <2>5
  <2>8. UNCHANGED <<links, panel, traffic>>
    BY <1>8 DEF syncUsage, panelVars
  <2>9. Counted(s)'
    BY <1>3, <2>3, <2>6, <2>7, <2>8 DEF Counted, SinceReset
  <2>10. SyncOK(m)'
    BY <2>1 DEF SyncOK
  <2> QED BY <1>1, <1>2, <2>1, <2>7, <2>8, <2>9, <2>10, UsageAt DEF Becomes
<1> QED BY <1>5, <1>6, <1>7, <1>8

\* The two statements of a reset that do, and every other statement.
LEMMA UsageStep ==
  ASSUME UInv, NEW p \in Procs, Works(p)
  PROVE  Usage'
<1>0. IInv /\ HandlerOK(p, loc[p]) /\ loc \in [Procs -> Locals] /\ Usage /\ Idle.pc = "idle"
      /\ SyncOK(loc[p]) /\ loc[p] \in Locals
  BY HandlerTypes, IdleOK DEF UInv, Usage
<1>1. ASSUME NEW m, Becomes(p, m), m.pc \notin Knowing, UNCHANGED <<usageVars, panelVars>> PROVE Usage'
  <2>1. \A q \in Procs : loc'[q] = loc[q] \/ loc'[q].pc \notin Knowing
    BY <1>0, <1>1 DEF Becomes
  <2> QED BY <1>1, <2>1, UsageKept
<1>2. CASE resetPanel(p)
  <2>1. PICK m, s : /\ Becomes(p, m) /\ s \in Servers
                    /\ \/ m.pc = "resetLink" /\ m.server = s /\ panel' = [panel EXCEPT ![s] = 0]
                       \/ m.pc \in {"resetPanel", "recomputeRead"} /\ panel' = panel
    BY <1>0, <1>2, ResetMoves
  <2>2. /\ loc[p].pc = "resetPanel" /\ UNCHANGED <<links, history, traffic>>
    BY <1>2 DEF resetPanel, At, usageVars
  <2>3. loc[p].op # "sync"
    BY <1>0, <2>2 DEF HandlerOK, Syncing
  <2>4. /\ links[s] \in Nat /\ history[s] \in Nat /\ panel[s] \in Nat /\ traffic[s] \in Nat
        /\ panel \in [Servers -> Nat] /\ Counted(s)
    BY <1>0, <2>1, Counters DEF Usage
  <2>5. panel'[s] \in {0, panel[s]} /\ \A t \in Servers : t # s => panel'[t] = panel[t]
    BY <2>1, <2>4
  <2>6. Counted(s)'
    BY <2>2, <2>4, <2>5 DEF Counted, SinceReset
  <2>7. SyncOK(m)'
    <3>1. CASE m.pc = "resetLink"
      <4>1. m.server = s /\ panel'[s] = 0
        BY <2>1, <2>4, <3>1
      <4> QED BY <2>2, <2>4, <3>1, <4>1 DEF SyncOK, Counted, SinceReset
    <3>2. CASE m.pc # "resetLink"
      BY <2>1, <3>2 DEF SyncOK
    <3> QED BY <3>1, <3>2
  <2> QED BY <2>1, <2>2, <2>3, <2>5, <2>6, <2>7, UsageAt DEF Becomes
<1>3. CASE resetLink(p)
  <2>1. PICK m : /\ Becomes(p, m) /\ m.pc \in {"resetPanel", "recomputeRead"}
                 /\ loc[p].server \in Servers /\ links' = [links EXCEPT ![loc[p].server] = 0]
    BY <1>0, <1>3, ResetMoves
  <2>2. PICK s \in Servers : s = loc[p].server
    BY <2>1
  <2>3. /\ loc[p].pc = "resetLink" /\ UNCHANGED <<panel, history, traffic>>
    BY <1>3 DEF resetLink, At, panelVars
  <2>4. loc[p].op # "sync"
    BY <1>0, <2>3 DEF HandlerOK, Syncing
  <2>5. links \in [Servers -> Nat]
    BY <1>0, <2>2, Counters
  <2>6. \A t \in Servers : t # s => links'[t] = links[t]
    BY <2>1, <2>2, <2>5
  <2>7. Counted(s)'
    BY <1>0, <2>2, <2>3 DEF SyncOK, Counted, SinceReset
  <2>8. SyncOK(m)'
    BY <2>1 DEF SyncOK
  <2> QED BY <2>1, <2>3, <2>4, <2>6, <2>7, <2>8, UsageAt DEF Becomes
<1>4. CASE syncFail(p) \/ syncOnline(p)
  <2>1. PICK m : Becomes(p, m) /\ m.pc \notin Knowing
    BY <1>0, <1>4, SyncMoves DEF Knowing
  <2> QED BY <1>1, <1>4, <2>1 DEF syncFail, syncOnline
<1>5. CASE recomputeRead(p) \/ recomputeWrite(p)
  <2>1. PICK m : Becomes(p, m) /\ m.pc \notin Knowing
    BY <1>0, <1>5, RecomputeMoves, ReturnLabels DEF Knowing
  <2> QED BY <1>1, <1>5, <2>1 DEF recomputeRead, recomputeWrite
<1>6. CASE enforceWrite(p) \/ startRead(p) \/ startWrite(p) \/ startClear(p)
  <2>1. PICK m : Becomes(p, m) /\ m.pc \notin Knowing
    BY <1>0, <1>6, StartMoves DEF Knowing
  <2> QED BY <1>1, <1>6, <2>1 DEF enforceWrite, startRead, startWrite, startClear
<1>7. CASE updateClear(p) \/ updateWrite(p)
  <2>1. PICK m : Becomes(p, m) /\ m.pc \notin Knowing
    BY <1>0, <1>7, UpdateMoves DEF Knowing
  <2> QED BY <1>1, <1>7, <2>1 DEF updateClear, updateWrite
<1>8. CASE pushRead(p) \/ pushPanel(p) \/ deletePanel(p)
  <2>1. PICK m : Becomes(p, m) /\ m.pc \notin Knowing
    BY <1>0, <1>8, PushMoves, DeleteMoves DEF Knowing
  <2>2. UNCHANGED <<links, history, panel, traffic>>
    BY <1>8 DEF pushRead, pushPanel, deletePanel, usageVars, panelVars
  <2>3. \A s \in Servers : Counted(s)'
    BY <1>0, <2>2 DEF Usage, Counted, SinceReset
  <2>4. \A q \in Procs : SyncOK(loc[q])'
    BY <1>0, <2>1, <2>2 DEF Usage, Becomes, Knowing, SyncOK, SinceReset, Delta
  <2> QED BY <2>3, <2>4 DEF Usage
<1>9. CASE resetRead(p)
  <2>1. PICK m : Becomes(p, m) /\ m.pc \notin Knowing
    BY <1>0, <1>9, ResetMoves DEF Knowing
  <2> QED BY <1>1, <1>9, <2>1 DEF resetRead
<1>10. CASE deleteRow(p) \/ deletePending(p)
  <2>1. PICK m : Becomes(p, m) /\ m.pc \notin Knowing
    BY <1>0, <1>10, DeleteMoves DEF Knowing
  <2> QED BY <1>1, <1>10, <2>1 DEF deleteRow, deletePending
<1>11. CASE ruleWrite(p) \/ renewClient(p) \/ renewDrop(p) \/ renewExtend(p) \/ renewWrite(p)
  <2>1. PICK m : Becomes(p, m) /\ m.pc \notin Knowing
    BY <1>0, <1>11, RenewMoves DEF Knowing
  <2> QED BY <1>1, <1>11, <2>1 DEF ruleWrite, renewClient, renewDrop, renewExtend, renewWrite
<1> QED BY <1>2, <1>3, <1>4, <1>5, <1>6, <1>7, <1>8, <1>9, <1>10, <1>11, UsageSync DEF Works, Step

\* Starts, traffic, time and crashes.
LEMMA UsageNext ==
  ASSUME UInv, MaxActive = 1, [Next]_vars
  PROVE  Usage'
<1>0. IInv /\ Usage /\ loc \in [Procs -> Locals] /\ Idle.pc = "idle"
  BY IdleOK DEF UInv, IInv, TypeOK
<1>1. ASSUME NEW p \in Procs, NEW m, Starts(p, m), UNCHANGED columns PROVE Usage'
  <2>1. m.pc \notin Knowing
    BY <1>1 DEF Starts, Knowing, Syncing
  <2>2. \A q \in Procs : loc'[q] = loc[q] \/ loc'[q].pc \notin Knowing
    BY <1>0, <1>1, <2>1 DEF Starts
  <2> QED BY <1>1, <2>2, UsageKept DEF columns
<1>2. ASSUME loc' = [p \in Procs |-> IF p \in Servers THEN Round(p) ELSE loc[p]], UNCHANGED columns
      PROVE  Usage'
  <2>1. \A q \in Procs : loc'[q] = loc[q] \/ loc'[q].pc \notin Knowing
    BY <1>2, RoundIs DEF Knowing
  <2> QED BY <1>2, <2>1, UsageKept DEF columns
<1>3. ASSUME loc' = loc, UNCHANGED <<usageVars, panelVars>> PROVE Usage'
  BY <1>3, UsageKept
<1>4. ASSUME Crash PROVE Usage'
  <2>1. PICK dead : loc' = [p \in Procs |-> IF p \in dead THEN Idle ELSE loc[p]]
    BY <1>4 DEF Crash
  <2>2. \A q \in Procs : loc'[q] = loc[q] \/ loc'[q].pc \notin Knowing
    BY <1>0, <2>1 DEF Knowing
  <2> QED BY <1>4, <2>2, UsageKept DEF Crash
<1>5. ASSUME NEW s \in Servers, useTraffic(s) PROVE Usage'
  <2>1. \A t \in Servers : /\ links[t] \in Nat /\ history[t] \in Nat /\ panel[t] \in Nat /\ traffic[t] \in Nat
    BY <1>0, Counters
  <2>2. panel \in [Servers -> Nat] /\ traffic \in [Servers -> Nat]
    BY <1>0, Counters
  <2>3. UNCHANGED <<links, history, loc>>
    BY <1>5 DEF useTraffic, usageVars
  <2>4. \A t \in Servers : \/ t # s /\ panel'[t] = panel[t] /\ traffic'[t] = traffic[t]
                           \/ t = s /\ panel'[t] = panel[t] + 1 /\ traffic'[t] = traffic[t] + 1
    BY <1>5, <2>2 DEF useTraffic
  <2>5. \A t \in Servers : Counted(t)'
    BY <1>0, <2>1, <2>3, <2>4 DEF Usage, Counted, SinceReset
  <2>6. ASSUME NEW q \in Procs PROVE SyncOK(loc[q])'
    <3>1. SyncOK(loc[q]) /\ loc[q].seen \in Nat /\ loc[q].link \in Nat /\ HandlerOK(q, loc[q])
      BY <1>0, HandlerTypes, ClientAssumptions DEF Usage
    <3>2. loc[q].pc \in Knowing => loc[q].server \in Servers
      BY <3>1 DEF HandlerOK, Knowing, Syncing
    <3>3. CASE loc[q].pc \notin Knowing
      BY <2>3, <3>3 DEF Knowing, SyncOK
    <3>4. CASE loc[q].pc \in Knowing
      <4>1. PICK t \in Servers : t = loc[q].server
        BY <3>2, <3>4
      <4>2. Delta(loc[q]) \in Nat
        BY <3>1 DEF Delta
      <4>3. SinceReset(t) => SinceReset(t)'
        BY <2>1, <2>3, <2>4 DEF SinceReset
      <4>4. CASE loc[q].pc \in {"syncLinks", "syncWrite", "resetLink"}
        BY <2>1, <2>3, <2>4, <3>1, <4>1, <4>3, <4>4 DEF SyncOK, SinceReset
      <4>5. CASE loc[q].pc = "syncUsage"
        <5>1. PICK d \in Nat : d = Delta(loc[q])
          BY <4>2
        <5>2. /\ loc[q].seen <= panel[t] /\ links[t] = loc[q].seen
              /\ history[t] + d + (panel[t] - loc[q].seen) <= traffic[t]
          BY <3>1, <4>1, <4>5, <5>1 DEF SyncOK
        <5>3. /\ loc[q].seen <= panel'[t] /\ links'[t] = loc[q].seen
              /\ history'[t] + d + (panel'[t] - loc[q].seen) <= traffic'[t]
          BY <2>1, <2>3, <2>4, <3>1, <5>2
        <5> QED BY <2>3, <4>1, <4>5, <5>1, <5>3 DEF SyncOK, Delta
      <4> QED BY <3>4, <4>4, <4>5 DEF Knowing
    <3> QED BY <3>3, <3>4
  <2> QED BY <2>5, <2>6 DEF Usage
<1>6. CASE Next
  <2>1. CASE \E p \in Web : clearAutoRenew(p)
    BY <1>3, <2>1 DEF clearAutoRenew
  <2>2. CASE expiryPasses \/ cyclePasses
    BY <1>3, <2>2 DEF expiryPasses, cyclePasses
  <2> QED BY <1>0, <1>1, <1>2, <1>4, <1>5, <1>6, <2>1, <2>2, NextIs, UsageStep
<1>7. CASE UNCHANGED vars
  BY <1>3, <1>7 DEF vars
<1> QED BY <1>6, <1>7

\* What was synchronised really went through.
LEMMA UsageBounds ==
  ASSUME UInv
  PROVE  HistoryNotInflated
<1>1. ASSUME NEW s \in Servers PROVE history[s] <= traffic[s]
  BY Counters DEF UInv, Usage, Counted, SinceReset
<1> QED BY <1>1 DEF HistoryNotInflated

\* At the start nothing was used.
LEMMA InitUsage == Init => Usage
<1> SUFFICES ASSUME Init PROVE Usage
  OBVIOUS
<1>1. \A s \in Servers : Counted(s)
  BY DEF Init, Counted, SinceReset
<1>2. \A p \in Procs : SyncOK(loc[p])
  BY IdleOK DEF Init, SyncOK
<1> QED BY <1>1, <1>2 DEF Usage

(* ------------------------------- the rule -------------------------------- *)

\* The rule a handler read is the rule, but for cyclePasses.
RuleOK(l) ==
  l.op \in {"renew", "setRule"} => /\ l.rule.armed = rule.armed /\ l.rule.cycles = rule.cycles
                                   /\ l.op = "renew" => rule.armed

CyclesCounted ==
  /\ rule.armed => renewals = rule.cycles /\ rule.cycles < MaxCycles
  /\ ~rule.armed => rule.cycles = 0
  /\ renewals <= MaxCycles

Cycles == CyclesCounted /\ \A p \in Procs : RuleOK(loc[p])
CInv == IInv /\ OneAtATime /\ Cycles

\* The rule stays: handlers keep what they read of it, or end.
LEMMA CyclesKept ==
  ASSUME CInv, rule'.armed = rule.armed, rule'.cycles = rule.cycles, renewals' = renewals,
         \A q \in Procs : \/ loc'[q].op \notin {"renew", "setRule"}
                          \/ loc'[q].op = loc[q].op /\ loc'[q].rule = loc[q].rule
                          \/ loc'[q].rule = rule /\ (loc'[q].op = "renew" => rule.armed)
  PROVE  Cycles'
<1>1. CyclesCounted'
  BY DEF CInv, Cycles, CyclesCounted
<1>2. \A q \in Procs : RuleOK(loc[q])'
  BY DEF CInv, Cycles, RuleOK
<1> QED BY <1>1, <1>2 DEF Cycles

\* The rule is written by a handler that ends, with nobody else under way.
LEMMA CyclesWritten ==
  ASSUME CInv, NEW p \in Procs, loc' = [loc EXCEPT ![p] = Idle], CyclesCounted',
         \A q \in Procs : q # p => loc[q] = Idle
  PROVE  Cycles'
<1>1. \A q \in Procs : loc'[q].op = "none"
  BY IdleOK DEF CInv, IInv, TypeOK
<1>2. \A q \in Procs : RuleOK(loc[q])'
  BY <1>1 DEF RuleOK
<1> QED BY <1>2 DEF Cycles

\* No statement of a handler miscounts the renewals.
LEMMA CyclesStep ==
  ASSUME CInv, NEW p \in Procs, Works(p)
  PROVE  Cycles'
<1> USE DEF rowVars, settingVars, usageVars, panelVars
<1>0. /\ IInv /\ OneAtATime /\ Cycles /\ HandlerOK(p, loc[p]) /\ loc \in [Procs -> Locals]
      /\ Idle.op = "none" /\ loc[p].rule \in Rules /\ rule \in Rules /\ RuleOK(loc[p])
      /\ renewals \in Nat /\ MaxCycles \in Nat /\ MaxCycles > 0
  BY HandlerTypes, IdleOK, ClientAssumptions DEF CInv, Cycles, IInv, TypeOK
<1>1. PICK m : Becomes(p, m)
  BY <1>0, StepMoves
<1>2. CASE UNCHANGED <<rule, renewals>>
  <2>1. m.op = "none" \/ (m.op = loc[p].op /\ m.rule = loc[p].rule)
    BY <1>0, <1>1 DEF Becomes, Moves
  <2>2. \A q \in Procs : \/ loc'[q].op \notin {"renew", "setRule"}
                         \/ loc'[q].op = loc[q].op /\ loc'[q].rule = loc[q].rule
    BY <1>0, <1>1, <2>1 DEF Becomes
  <2> QED BY <1>2, <2>2, CyclesKept
<1>3. ASSUME Becomes(p, Idle), loc[p].pc \in {"ruleWrite", "renewDrop", "renewWrite"}, CyclesCounted'
      PROVE  Cycles'
  <2>1. \A q \in Procs : q # p => loc[q] = Idle
    BY <1>0, <1>3, Alone DEF Syncing
  <2> QED BY <1>3, <2>1, CyclesWritten DEF Becomes
<1>4. CASE ruleWrite(p)
  <2>1. Becomes(p, Idle) /\ loc[p].pc = "ruleWrite" /\ loc[p].op = "setRule"
    BY <1>0, <1>4, RenewMoves DEF ruleWrite, At, HandlerOK
  <2>2. loc[p].rule.armed = rule.armed /\ loc[p].rule.cycles = rule.cycles
    BY <1>0, <2>1 DEF RuleOK
  <2>3. rule'.armed = TRUE /\ rule'.cycles = rule.cycles
    BY <1>4, <2>2 DEF ruleWrite
  <2>4. renewals' = IF rule.armed THEN renewals ELSE 0
    BY <1>4, <2>2 DEF ruleWrite
  <2>5. CyclesCounted'
    BY <1>0, <2>3, <2>4 DEF Cycles, CyclesCounted
  <2> QED BY <1>3, <2>1, <2>5
<1>5. CASE renewDrop(p)
  <2>1. Becomes(p, Idle) /\ loc[p].pc = "renewDrop"
    BY <1>0, <1>5, RenewMoves DEF renewDrop, At
  <2>2. rule' = NoRule /\ renewals' = renewals
    BY <1>5 DEF renewDrop
  <2>3. CyclesCounted'
    BY <1>0, <2>2 DEF Cycles, CyclesCounted, NoRule
  <2> QED BY <1>3, <2>1, <2>3
<1>6. CASE renewWrite(p)
  <2>1. Becomes(p, Idle) /\ loc[p].pc = "renewWrite" /\ loc[p].op = "renew"
    BY <1>0, <1>6, RenewMoves DEF renewWrite, At, HandlerOK
  <2>2. /\ loc[p].rule.armed = TRUE /\ loc[p].rule.cycles = rule.cycles /\ rule.armed
        /\ rule.cycles \in Nat /\ loc[p].rule.cycles \in Nat
    BY <1>0, <2>1, ClientAssumptions DEF RuleOK, Rules
  <2>3. renewals = rule.cycles /\ rule.cycles < MaxCycles
    BY <1>0, <2>2 DEF Cycles, CyclesCounted
  <2>4. PICK n \in Nat : n = renewals + 1
    BY <1>0
  <2>5. renewals' = Min({n, MaxCycles + 1})
    BY <1>6, <2>4 DEF renewWrite
  <2>6. renewals' = n
    <3>1. \A y \in {n, MaxCycles + 1} : n <= y
      BY <1>0, <2>3, <2>4
    <3>2. \E x \in {n, MaxCycles + 1} : \A y \in {n, MaxCycles + 1} : x <= y
      BY <3>1
    <3>3. Min({n, MaxCycles + 1}) \in {n, MaxCycles + 1} /\ Min({n, MaxCycles + 1}) <= n
      BY <3>2 DEF Min
    <3>4. n < MaxCycles + 1
      BY <1>0, <2>3, <2>4
    <3> QED BY <1>0, <2>5, <3>3, <3>4
  <2>7. PICK r \in Rules : r = loc[p].rule
    BY <1>0
  <2>8. rule' = IF r.cycles + 1 >= MaxCycles THEN NoRule ELSE [r EXCEPT !.due = FALSE, !.cycles = @ + 1]
    BY <1>6, <2>7 DEF renewWrite
  <2>9. r.cycles = rule.cycles /\ r.armed = TRUE
    BY <2>2, <2>7
  <2>10. CASE r.cycles + 1 >= MaxCycles
    <3>1. rule' = NoRule
      BY <2>8, <2>10
    <3> QED BY <1>0, <1>3, <2>1, <2>3, <2>4, <2>6, <3>1 DEF CyclesCounted, NoRule
  <2>11. CASE ~(r.cycles + 1 >= MaxCycles)
    <3>1. rule' = [r EXCEPT !.due = FALSE, !.cycles = r.cycles + 1]
      BY <2>8, <2>11
    <3>2. rule'.armed = TRUE /\ rule'.cycles = n
      BY <2>3, <2>4, <2>9, <3>1 DEF Rules
    <3>3. n < MaxCycles
      BY <1>0, <2>2, <2>3, <2>4, <2>9, <2>11
    <3>4. CyclesCounted'
      BY <1>0, <2>6, <3>2, <3>3 DEF CyclesCounted
    <3> QED BY <1>3, <2>1, <3>4
  <2> QED BY <2>10, <2>11
<1>7. CASE \/ syncFetch(p) \/ syncFail(p) \/ syncLinks(p) \/ syncWrite(p) \/ syncUsage(p) \/ syncOnline(p)
           \/ recomputeRead(p) \/ recomputeWrite(p) \/ enforceWrite(p) \/ startRead(p) \/ startWrite(p)
           \/ startClear(p) \/ updateClear(p) \/ updateWrite(p)
  BY <1>2, <1>7 DEF syncFetch, syncFail, syncLinks, syncWrite, syncUsage, syncOnline, recomputeRead,
     recomputeWrite, enforceWrite, startRead, startWrite, startClear, updateClear, updateWrite
<1>8. CASE \/ pushRead(p) \/ pushPanel(p) \/ resetRead(p) \/ resetPanel(p) \/ resetLink(p)
           \/ deletePanel(p) \/ deleteRow(p) \/ deletePending(p) \/ renewClient(p) \/ renewExtend(p)
  BY <1>2, <1>8 DEF pushRead, pushPanel, resetRead, resetPanel, resetLink, deletePanel, deleteRow,
     deletePending, renewClient, renewExtend
<1> QED BY <1>4, <1>5, <1>6, <1>7, <1>8 DEF Works, Step

\* Nor does a start, a cleared rule, time or a crash.
LEMMA CyclesNext ==
  ASSUME CInv, MaxActive = 1, [Next]_vars
  PROVE  Cycles'
<1> USE DEF rowVars, settingVars, usageVars, panelVars
<1>0. IInv /\ Cycles /\ loc \in [Procs -> Locals] /\ Idle.op = "none" /\ rule \in Rules
  BY IdleOK DEF CInv, IInv, TypeOK
<1>1. ASSUME NEW p \in Procs, NEW m, Starts(p, m), UNCHANGED columns PROVE Cycles'
  <2>1. UNCHANGED <<rule, renewals>>
    BY <1>1 DEF columns
  <2>2. \A q \in Procs : \/ loc'[q].op \notin {"renew", "setRule"}
                         \/ loc'[q].op = loc[q].op /\ loc'[q].rule = loc[q].rule
                         \/ loc'[q].rule = rule /\ (loc'[q].op = "renew" => rule.armed)
    BY <1>0, <1>1 DEF Starts
  <2> QED BY <2>1, <2>2, CyclesKept
<1>2. ASSUME loc' = [p \in Procs |-> IF p \in Servers THEN Round(p) ELSE loc[p]], UNCHANGED columns
      PROVE  Cycles'
  <2>1. UNCHANGED <<rule, renewals>>
    BY <1>2 DEF columns
  <2>2. \A q \in Procs : \/ loc'[q].op \notin {"renew", "setRule"}
                         \/ loc'[q].op = loc[q].op /\ loc'[q].rule = loc[q].rule
    BY <1>2, RoundIs
  <2> QED BY <2>1, <2>2, CyclesKept
<1>3. ASSUME loc' = loc, rule'.armed = rule.armed, rule'.cycles = rule.cycles, renewals' = renewals
      PROVE  Cycles'
  BY <1>3, CyclesKept
<1>4. ASSUME Crash PROVE Cycles'
  <2>1. PICK dead : loc' = [p \in Procs |-> IF p \in dead THEN Idle ELSE loc[p]]
    BY <1>4 DEF Crash
  <2>2. UNCHANGED <<rule, renewals>>
    BY <1>4 DEF Crash
  <2>3. \A q \in Procs : \/ loc'[q].op \notin {"renew", "setRule"}
                         \/ loc'[q].op = loc[q].op /\ loc'[q].rule = loc[q].rule
    BY <1>0, <2>1
  <2> QED BY <2>2, <2>3, CyclesKept
<1>5. ASSUME NEW p \in Web, clearAutoRenew(p), \A q \in Procs : loc[q] = Idle PROVE Cycles'
  <2>1. loc' = loc /\ rule' = NoRule /\ renewals' = renewals
    BY <1>5 DEF clearAutoRenew
  <2>2. CyclesCounted'
    BY <1>0, <2>1 DEF Cycles, CyclesCounted, NoRule
  <2>3. \A q \in Procs : RuleOK(loc[q])'
    BY <1>0, <1>5, <2>1 DEF RuleOK
  <2> QED BY <2>2, <2>3 DEF Cycles
<1>6. ASSUME cyclePasses PROVE Cycles'
  <2>1. loc' = loc /\ rule'.armed = rule.armed /\ rule'.cycles = rule.cycles /\ renewals' = renewals
    BY <1>0, <1>6 DEF cyclePasses, Rules
  <2> QED BY <1>3, <2>1
<1>7. CASE Next
  <2>1. CASE expiryPasses \/ \E s \in Servers : useTraffic(s)
    BY <1>3, <2>1 DEF expiryPasses, useTraffic
  <2> QED BY <1>0, <1>1, <1>2, <1>4, <1>5, <1>6, <1>7, <2>1, NextIs, CyclesStep
<1>8. CASE UNCHANGED vars
  BY <1>3, <1>8 DEF vars
<1> QED BY <1>7, <1>8

\* At the start there is no rule.
LEMMA InitCycles == Init => Cycles
<1> SUFFICES ASSUME Init PROVE Cycles
  OBVIOUS
<1>1. CyclesCounted
  BY ClientAssumptions DEF Init, CyclesCounted, NoRule
<1>2. \A p \in Procs : RuleOK(loc[p])
  BY IdleOK DEF Init, RuleOK
<1> QED BY <1>1, <1>2 DEF Cycles

(***************************************************************************)
(* While requests and jobs follow one another, with any number of panels   *)
(* synchronised side by side and processes dying: the types hold, the      *)
(* history of applyClientStats never holds more than really went through,  *)
(* and runAutoRenew renews no more often than maxCycles.                   *)
(***************************************************************************)
THEOREM SerialCountsInOrder == MaxActive = 1 => (Spec => []CountsInOrder)
<1> SUFFICES ASSUME MaxActive = 1 PROVE Spec => []CountsInOrder
  OBVIOUS
<1>1. Init => UInv /\ CInv
  BY InitIInv, InitOneAtATime, InitUsage, InitCycles DEF UInv, CInv
<1>2. ASSUME UInv /\ CInv, [Next]_vars PROVE (UInv /\ CInv)'
  BY <1>2, NextIInv, NextOneAtATime, UsageNext, CyclesNext DEF UInv, CInv
<1>3. UInv /\ CInv => CountsInOrder
  BY UsageBounds DEF UInv, CInv, IInv, Cycles, CyclesCounted, CountsInOrder, RenewalsBounded
<1> QED BY <1>1, <1>2, <1>3, PTL DEF Spec

(* ------------------------------ on and off ------------------------------- *)

\* What was read of the status is still true, as far as DISABLED goes.
StatusOK(l) ==
  /\ l.pc \in {"recomputeWrite", "pushPanel"} => (l.status = "DISABLED" <=> status = "DISABLED")
  /\ l.pc = "enforceWrite" => status # "DISABLED"

\* Handler l has switched the client and has still to tell panel s.
Owes(l, s) == /\ l.op \in {"disable", "enable"}
              /\ \/ l.pc \in {"recomputeRead", "recomputeWrite", "pushRead"}
                 \/ l.pc = "pushPanel" /\ s \in l.todo

Told == (faults = 0 /\ alive) =>
  \A s \in present : (on[s] <=> status # "DISABLED") \/ \E p \in Procs : Owes(loc[p], s)

Switched == Told /\ \A p \in Procs : StatusOK(loc[p])
TInv == IInv /\ OneAtATime /\ Switched

\* What may happen to the columns while nobody switches the client.
Unswitched ==
  /\ status' = "DISABLED" <=> status = "DISABLED"
  /\ on' = on /\ (alive' => alive) /\ present' \subseteq present /\ (faults' = 0 => faults = 0)

\* Nobody switches the client, and whoever owes a panel still does.
LEMMA SwitchedKept ==
  ASSUME TInv, Unswitched,
         \A q \in Procs : \/ loc'[q] = loc[q]
                          \/ /\ StatusOK(loc[q])'
                             /\ alive' /\ faults' = 0 =>
                                  \A s \in present : Owes(loc[q], s) => Owes(loc[q], s)'
  PROVE  Switched'
<1>1. \A q \in Procs : StatusOK(loc[q])'
  <2>1. ASSUME NEW q \in Procs, loc'[q] = loc[q] PROVE StatusOK(loc[q])'
    BY <2>1 DEF TInv, Switched, StatusOK, Unswitched
  <2> QED BY <2>1
<1>2. Told'
  <2> SUFFICES ASSUME faults' = 0, alive', NEW s \in present'
               PROVE  (on'[s] <=> status' # "DISABLED") \/ \E q \in Procs : Owes(loc[q], s)'
    BY DEF Told
  <2>1. (on[s] <=> status # "DISABLED") \/ \E q \in Procs : Owes(loc[q], s)
    BY DEF TInv, Switched, Told, Unswitched
  <2>2. ASSUME NEW q \in Procs, Owes(loc[q], s) PROVE Owes(loc[q], s)'
    <3>1. CASE loc'[q] = loc[q]
      BY <2>2, <3>1 DEF Owes
    <3>2. CASE loc'[q] # loc[q]
      BY <2>2, <3>2 DEF Unswitched
    <3> QED BY <3>1, <3>2
  <2> QED BY <2>1, <2>2 DEF Unswitched
<1> QED BY <1>1, <1>2 DEF Switched

\* The same for a step of handler p, which goes on as m.
LEMMA SwitchedMoves ==
  ASSUME TInv, Unswitched, NEW p \in Procs, NEW m, loc' = [loc EXCEPT ![p] = m], StatusOK(m)',
         alive' /\ faults' = 0 => \A s \in present : Owes(loc[p], s) => Owes(m, s)
  PROVE  Switched'
<1>0. loc \in [Procs -> Locals]
  BY DEF TInv, IInv, TypeOK
<1>1. loc'[p] = m /\ \A q \in Procs : q # p => loc'[q] = loc[q]
  BY <1>0
<1>2. StatusOK(loc[p])'
  BY <1>1 DEF StatusOK
<1>3. alive' /\ faults' = 0 => \A s \in present : Owes(loc[p], s) => Owes(loc[p], s)'
  BY <1>1 DEF Owes
<1> QED BY <1>1, <1>2, <1>3, SwitchedKept

\* Before a statement that is none of the push, nothing is owed by its handler.
LEMMA OwesNothing ==
  ASSUME NEW l, l.pc \notin {"recomputeRead", "recomputeWrite", "pushRead", "pushPanel"}
                \/ l.op \notin {"disable", "enable"}
  PROVE  \A s : ~Owes(l, s)
  BY DEF Owes

\* Each statement keeps the panels told, and only an update of the seller switches DISABLED off.
LEMMA SwitchedStep ==
  ASSUME TInv, NEW p \in Procs, Works(p)
  PROVE  /\ Switched'
         /\ status = "DISABLED" /\ status' # "DISABLED" => p \in Web /\ At(p, "updateWrite") /\ loc[p].op = "enable"
<1> USE DEF rowVars, settingVars, usageVars, panelVars
<1>0. /\ IInv /\ OneAtATime /\ Switched /\ HandlerOK(p, loc[p]) /\ loc \in [Procs -> Locals]
      /\ StatusOK(loc[p]) /\ loc[p] \in Locals /\ present \subseteq Servers /\ on \in [Servers -> BOOLEAN]
      /\ Idle.pc = "idle" /\ Idle.op = "none"
  BY HandlerTypes, IdleOK DEF TInv, Switched, IInv, TypeOK
<1> DEFINE Goal == /\ Switched'
                   /\ status = "DISABLED" /\ status' # "DISABLED" =>
                        p \in Web /\ At(p, "updateWrite") /\ loc[p].op = "enable"
<1>1. ASSUME NEW m, Becomes(p, m), Unswitched,
             loc[p].pc \notin {"recomputeRead", "recomputeWrite", "pushRead", "pushPanel"},
             m.pc \notin {"recomputeWrite", "pushPanel", "enforceWrite"}
      PROVE  Goal
  <2>1. StatusOK(m)'
    BY <1>1 DEF StatusOK
  <2>2. \A s \in present : ~Owes(loc[p], s)
    BY <1>1, OwesNothing
  <2> QED BY <1>1, <2>1, <2>2, SwitchedMoves DEF Becomes, Unswitched
<1>2. CASE syncFetch(p) \/ syncFail(p) \/ syncLinks(p) \/ syncWrite(p) \/ syncUsage(p) \/ syncOnline(p)
  <2>1. PICK m : Becomes(p, m) /\ m.pc \notin {"recomputeWrite", "pushPanel", "enforceWrite"}
    BY <1>0, <1>2, SyncMoves
  <2>2. /\ loc[p].pc \notin {"recomputeRead", "recomputeWrite", "pushRead", "pushPanel"} /\ Unswitched
    BY <1>2 DEF syncFetch, syncFail, syncLinks, syncWrite, syncUsage, syncOnline, At, Unswitched
  <2> QED BY <1>1, <2>1, <2>2
<1>3. CASE recomputeRead(p)
  <2>1. PICK m : /\ Becomes(p, m)
                 /\ \/ alive /\ m.pc = "recomputeWrite" /\ m.status = Derived(Total(links)) /\ m.op = loc[p].op
                    \/ ~alive /\ m = AfterRecompute(loc[p])
    BY <1>0, <1>3, RecomputeMoves
  <2>2. Unswitched /\ status' = status /\ alive' = alive
    BY <1>3 DEF recomputeRead, Unswitched
  <2>3. CASE alive
    <3>1. m.status = "DISABLED" <=> status = "DISABLED"
      BY <2>1, <2>3 DEF Derived
    <3>2. StatusOK(m)' /\ \A s \in present : Owes(loc[p], s) => Owes(m, s)
      BY <2>1, <2>2, <2>3, <3>1 DEF StatusOK, Owes
    <3> QED BY <2>1, <2>2, <3>2, SwitchedMoves DEF Becomes
  <2>4. CASE ~alive
    <3>1. m.pc \in {"idle", "renewExtend", "pushRead"}
      BY <1>0, <2>1, <2>4, ReturnLabels
    <3>2. StatusOK(m)'
      BY <3>1 DEF StatusOK
    <3> QED BY <2>1, <2>2, <2>4, <3>2, SwitchedMoves DEF Becomes
  <2> QED BY <2>3, <2>4
<1>4. CASE recomputeWrite(p)
  <2>1. PICK m : /\ Becomes(p, m)
                 /\ \/ alive /\ m = AfterRecompute(loc[p])
                    \/ ~alive /\ (m = Idle \/ m = AfterPush(loc[p]))
    BY <1>0, <1>4, RecomputeMoves
  <2>2. /\ alive' = alive /\ loc[p].pc = "recomputeWrite" /\ UNCHANGED <<on, present, faults>>
        /\ status' = IF alive THEN loc[p].status ELSE status
    BY <1>4 DEF recomputeWrite, At
  <2>3. Unswitched
    BY <1>0, <2>2 DEF Unswitched, StatusOK
  <2>4. m.pc \notin {"recomputeWrite", "pushPanel", "enforceWrite"}
    BY <1>0, <2>1, ReturnLabels
  <2>5. StatusOK(m)'
    BY <2>4 DEF StatusOK
  <2>6. alive => \A s \in present : Owes(loc[p], s) => Owes(m, s)
    BY <1>0, <2>1, ReturnLabels DEF Owes
  <2> QED BY <2>1, <2>2, <2>3, <2>5, <2>6, SwitchedMoves DEF Becomes, Unswitched
<1>5. CASE enforceWrite(p)
  <2>1. Becomes(p, Idle) /\ loc[p].pc = "enforceWrite" /\ UNCHANGED <<alive, on, present, faults>>
    BY <1>0, <1>5, StartMoves DEF enforceWrite, At
  <2>2. status # "DISABLED" /\ status' # "DISABLED"
    BY <1>0, <1>5, <2>1 DEF StatusOK, enforceWrite
  <2>3. Unswitched
    BY <2>1, <2>2 DEF Unswitched
  <2> QED BY <1>0, <1>1, <2>1, <2>3
<1>6. CASE startRead(p) \/ startWrite(p) \/ startClear(p)
  <2>1. PICK m : Becomes(p, m) /\ m.pc \notin {"recomputeWrite", "pushPanel", "enforceWrite"}
    BY <1>0, <1>6, StartMoves
  <2>2. /\ loc[p].pc \notin {"recomputeRead", "recomputeWrite", "pushRead", "pushPanel"} /\ Unswitched
    BY <1>6 DEF startRead, startWrite, startClear, At, Unswitched
  <2> QED BY <1>1, <2>1, <2>2
<1>7. CASE updateClear(p)
  <2>1. PICK m : Becomes(p, m) /\ m.pc \notin {"recomputeWrite", "pushPanel", "enforceWrite"}
    BY <1>0, <1>7, UpdateMoves
  <2>2. /\ loc[p].pc \notin {"recomputeRead", "recomputeWrite", "pushRead", "pushPanel"} /\ Unswitched
    BY <1>7 DEF updateClear, At, Unswitched
  <2> QED BY <1>1, <2>1, <2>2
<1>8. CASE updateWrite(p)
  <2>1. PICK m : /\ Becomes(p, m)
                 /\ \/ m.pc = "recomputeRead" /\ alive /\ m.op = loc[p].op
                    \/ m = Idle /\ ~alive
    BY <1>0, <1>8, UpdateMoves
  <2>2. loc[p].pc = "updateWrite" /\ UNCHANGED <<alive, on, present, faults>>
    BY <1>8 DEF updateWrite, At
  <2>3. CASE ~alive \/ loc[p].op \notin {"disable", "enable"}
    <3>1. status' = status
      BY <1>8, <2>3 DEF updateWrite
    <3>2. Unswitched /\ m.pc \notin {"recomputeWrite", "pushPanel", "enforceWrite"}
      BY <1>0, <2>1, <2>2, <3>1 DEF Unswitched
    <3> QED BY <1>1, <2>1, <2>2, <3>2
  <2>4. CASE alive /\ loc[p].op \in {"disable", "enable"}
    <3>1. status' = IF loc[p].op = "disable" THEN "DISABLED" ELSE "ACTIVE"
      BY <1>8, <2>4 DEF updateWrite
    <3>2. p \in Web
      BY <1>0, <2>4 DEF HandlerOK
    <3>3. \A q \in Procs : q # p => loc[q] = Idle
      BY <1>0, <2>2, Alone DEF Syncing
    <3>4. loc'[p] = m /\ \A q \in Procs : q # p => loc'[q] = Idle
      BY <1>0, <2>1, <3>3 DEF Becomes
    <3>5. m.pc = "recomputeRead" /\ m.op \in {"disable", "enable"}
      BY <2>1, <2>4
    <3>6. \A q \in Procs : StatusOK(loc[q])'
      BY <1>0, <3>4, <3>5 DEF StatusOK
    <3>7. \A s : Owes(loc[p], s)'
      BY <3>4, <3>5 DEF Owes
    <3>8. Switched'
      BY <3>6, <3>7 DEF Switched, Told
    <3>9. status' # "DISABLED" => loc[p].op = "enable"
      BY <2>4, <3>1
    <3> QED BY <2>2, <3>2, <3>8, <3>9 DEF At
  <2> QED BY <2>3, <2>4
<1>9. CASE pushRead(p)
  <2>1. PICK m : /\ Becomes(p, m)
                 /\ \/ /\ alive /\ m.pc = "pushPanel" /\ m.todo = Servers /\ m.status = status
                       /\ m.op = loc[p].op
                    \/ ~alive /\ m.pc \in {"idle", "renewExtend", "renewWrite"}
    BY <1>0, <1>9, PushMoves
  <2>2. Unswitched /\ status' = status /\ alive' = alive
    BY <1>9 DEF pushRead, Unswitched
  <2>3. StatusOK(m)' /\ (alive => \A s \in present : Owes(loc[p], s) => Owes(m, s))
    BY <1>0, <2>1, <2>2 DEF StatusOK, Owes
  <2> QED BY <2>1, <2>2, <2>3, SwitchedMoves DEF Becomes
<1>10. CASE pushPanel(p)
  <2>1. PICK m, s : /\ Becomes(p, m) /\ s \in loc[p].todo
                    /\ \/ m.pc \in {"idle", "renewExtend", "renewWrite"} /\ loc[p].todo = {s}
                       \/ /\ m.pc = "pushPanel" /\ m.todo = loc[p].todo \ {s}
                          /\ m.status = loc[p].status /\ m.op = loc[p].op
                    /\ \/ /\ s \in present /\ faults' = faults
                          /\ on' = [on EXCEPT ![s] = (loc[p].status # "DISABLED")]
                       \/ MayFail(s) /\ CallFails(s) /\ on' = on
    BY <1>0, <1>10, PushMoves
  <2>2. loc[p].pc = "pushPanel" /\ UNCHANGED <<alive, status, present>>
    BY <1>10 DEF pushPanel, At
  <2>3. \A q \in Procs : q # p => loc[q] = Idle
    BY <1>0, <2>2, Alone DEF Syncing
  <2>4. loc'[p] = m /\ \A q \in Procs : q # p => loc'[q] = Idle
    BY <1>0, <2>1, <2>3 DEF Becomes
  <2>5. \A q \in Procs : StatusOK(loc[q])'
    BY <1>0, <2>1, <2>2, <2>4 DEF StatusOK
  <2>6. loc[p].status = "DISABLED" <=> status = "DISABLED"
    BY <1>0, <2>2 DEF StatusOK
  <2>7. Told'
    <3> SUFFICES ASSUME faults' = 0, alive', NEW t \in present'
                 PROVE  (on'[t] <=> status' # "DISABLED") \/ \E q \in Procs : Owes(loc[q], t)'
      BY DEF Told
    <3>1. t \in Servers /\ t \in present /\ alive
      BY <1>0, <2>2
    <3>2. faults = 0 /\ (s \in present => on' = [on EXCEPT ![s] = (loc[p].status # "DISABLED")])
      BY <1>0, <2>1, FailsTyped
    <3>3. CASE t = s
      <4>1. on'[s] <=> loc[p].status # "DISABLED"
        BY <1>0, <3>1, <3>2, <3>3
      <4> QED BY <2>2, <2>6, <3>3, <4>1
    <3>4. CASE t # s
      <4>1. on'[t] = on[t]
        BY <1>0, <2>1, <3>1, <3>4
      <4>2. (on[t] <=> status # "DISABLED") \/ \E q \in Procs : Owes(loc[q], t)
        BY <1>0, <3>1, <3>2 DEF Switched, Told
      <4>3. ASSUME NEW q \in Procs, Owes(loc[q], t) PROVE Owes(loc[p], t)'
        <5>1. q = p
          BY <1>0, <2>3, <4>3 DEF Owes
        <5>2. t \in loc[p].todo /\ loc[p].op \in {"disable", "enable"}
          BY <2>2, <4>3, <5>1 DEF Owes
        <5>3. m.pc = "pushPanel" /\ t \in m.todo /\ m.op \in {"disable", "enable"}
          BY <2>1, <3>4, <5>2
        <5> QED BY <2>4, <5>3 DEF Owes
      <4> QED BY <2>2, <4>1, <4>2, <4>3
    <3> QED BY <3>3, <3>4
  <2> QED BY <2>2, <2>5, <2>7 DEF Switched
<1>11. CASE resetRead(p) \/ resetPanel(p) \/ resetLink(p)
  <2>1. PICK m : Becomes(p, m) /\ m.pc \notin {"recomputeWrite", "pushPanel", "enforceWrite"}
    BY <1>0, <1>11, ResetMoves
  <2>2. /\ loc[p].pc \notin {"recomputeRead", "recomputeWrite", "pushRead", "pushPanel"}
        /\ UNCHANGED <<alive, status, on, present>>
    BY <1>11 DEF resetRead, resetPanel, resetLink, At
  <2>3. faults' = 0 => faults = 0
    BY <1>0, <1>11, ResetMoves, FailsTyped DEF resetRead, resetLink
  <2>4. Unswitched
    BY <2>2, <2>3 DEF Unswitched
  <2> QED BY <1>1, <2>1, <2>2, <2>4
<1>12. CASE deletePanel(p)
  <2>1. PICK m : Becomes(p, m) /\ m.pc \notin {"recomputeWrite", "pushPanel", "enforceWrite"}
    BY <1>0, <1>12, DeleteMoves
  <2>2. /\ loc[p].pc = "deletePanel" /\ UNCHANGED <<alive, status, on>>
    BY <1>12 DEF deletePanel, At
  <2>3. (faults' = 0 => faults = 0) /\ present' \subseteq present
    BY <1>0, <1>12, DeleteMoves, FailsTyped
  <2>4. Unswitched
    BY <2>2, <2>3 DEF Unswitched
  <2> QED BY <1>1, <2>1, <2>2, <2>4
<1>13. CASE deleteRow(p) \/ deletePending(p)
  <2>1. PICK m : Becomes(p, m) /\ m.pc \notin {"recomputeWrite", "pushPanel", "enforceWrite"}
    BY <1>0, <1>13, DeleteMoves
  <2>2. /\ loc[p].pc \notin {"recomputeRead", "recomputeWrite", "pushRead", "pushPanel"} /\ Unswitched
    BY <1>13 DEF deleteRow, deletePending, At, Unswitched
  <2> QED BY <1>1, <2>1, <2>2
<1>14. CASE ruleWrite(p) \/ renewClient(p) \/ renewDrop(p) \/ renewExtend(p) \/ renewWrite(p)
  <2>1. PICK m : Becomes(p, m) /\ m.pc \notin {"recomputeWrite", "pushPanel", "enforceWrite"}
    BY <1>0, <1>14, RenewMoves
  <2>2. /\ loc[p].pc \notin {"recomputeRead", "recomputeWrite", "pushRead", "pushPanel"} /\ Unswitched
    BY <1>14 DEF ruleWrite, renewClient, renewDrop, renewExtend, renewWrite, At, Unswitched
  <2> QED BY <1>1, <2>1, <2>2
<1> QED BY <1>2, <1>3, <1>4, <1>5, <1>6, <1>7, <1>8, <1>9, <1>10, <1>11, <1>12, <1>13, <1>14
        DEF Works, Step

\* So do starts, panels, time and crashes.
LEMMA SwitchedNext ==
  ASSUME TInv, MaxActive = 1, [Next]_vars
  PROVE  /\ Switched'
         /\ status = "DISABLED" /\ status' # "DISABLED" =>
              \E p \in Web : At(p, "updateWrite") /\ loc[p].op = "enable"
<1> USE DEF rowVars, settingVars, usageVars, panelVars
<1>0. IInv /\ Switched /\ loc \in [Procs -> Locals] /\ Idle.pc = "idle" /\ faults \in Nat
  BY IdleOK, ClientAssumptions DEF TInv, IInv, TypeOK
<1>1. ASSUME NEW p \in Procs, NEW m, Starts(p, m), UNCHANGED columns
      PROVE  Switched' /\ status' = status
  <2>1. Unswitched /\ status' = status
    BY <1>1 DEF columns, Unswitched
  <2>2. loc' = [loc EXCEPT ![p] = m] /\ loc[p].pc = "idle"
    BY <1>1 DEF Starts
  <2>3. StatusOK(m)'
    BY <1>1, <2>1 DEF Starts, StatusOK
  <2>4. \A s \in present : ~Owes(loc[p], s)
    BY <2>2, OwesNothing
  <2> QED BY <2>1, <2>2, <2>3, <2>4, SwitchedMoves
<1>2. ASSUME loc' = [p \in Procs |-> IF p \in Servers THEN Round(p) ELSE loc[p]], UNCHANGED columns,
             Servers = {} \/ \A q \in Procs : loc[q] = Idle
      PROVE  Switched' /\ status' = status
  <2>1. Unswitched /\ status' = status
    BY <1>2 DEF columns, Unswitched
  <2>2. ASSUME NEW q \in Procs, loc'[q] # loc[q]
        PROVE  /\ StatusOK(loc[q])' /\ \A s \in present : ~Owes(loc[q], s)
    <3>1. q \in Servers /\ loc[q] = Idle /\ loc'[q] = Round(q)
      BY <1>2, <2>2
    <3>2. loc'[q].pc = "syncFetch"
      BY <3>1, RoundIs
    <3> QED BY <1>0, <3>1, <3>2, OwesNothing DEF StatusOK
  <2> QED BY <2>1, <2>2, SwitchedKept
<1>3. ASSUME loc' = loc, UNCHANGED <<status, on, alive, present, faults>> PROVE Switched' /\ status' = status
  BY <1>3, SwitchedKept DEF Unswitched
<1>4. ASSUME Crash PROVE Switched' /\ status' = status
  <2>1. PICK dead : loc' = [p \in Procs |-> IF p \in dead THEN Idle ELSE loc[p]]
    BY <1>4 DEF Crash
  <2>2. UNCHANGED <<status, on, alive, present>> /\ faults' # 0
    BY <1>0, <1>4 DEF Crash
  <2>3. \A q \in Procs : loc'[q] = loc[q] \/ StatusOK(loc[q])'
    BY <1>0, <2>1 DEF StatusOK
  <2>4. Unswitched
    BY <2>2 DEF Unswitched
  <2> QED BY <2>2, <2>3, <2>4, SwitchedKept
<1>5. CASE Next
  <2>1. CASE expiryPasses \/ cyclePasses \/ (\E p \in Web : clearAutoRenew(p)) \/ \E s \in Servers : useTraffic(s)
    BY <1>3, <2>1 DEF expiryPasses, cyclePasses, clearAutoRenew, useTraffic
  <2>2. CASE \E p \in Procs : Works(p)
    BY <2>2, SwitchedStep
  <2> QED BY <1>0, <1>1, <1>2, <1>4, <1>5, <2>1, <2>2, NextIs
<1>6. CASE UNCHANGED vars
  BY <1>3, <1>6 DEF vars
<1> QED BY <1>5, <1>6

\* At the start the client is on everywhere.
LEMMA InitSwitched == Init => Switched
<1> SUFFICES ASSUME Init PROVE Switched
  OBVIOUS
<1>1. \A p \in Procs : StatusOK(loc[p])
  BY IdleOK DEF Init, StatusOK
<1>2. Told
  BY DEF Init, Told
<1> QED BY <1>1, <1>2 DEF Switched

\* While requests and jobs follow one another, the switch of every panel is known.
LEMMA SerialSwitch == MaxActive = 1 => (Spec => []TInv)
<1> SUFFICES ASSUME MaxActive = 1 PROVE Spec => []TInv
  OBVIOUS
<1>1. Init => TInv
  BY InitIInv, InitOneAtATime, InitSwitched DEF TInv
<1>2. ASSUME TInv, [Next]_vars PROVE TInv'
  BY <1>2, NextIInv, NextOneAtATime, SwitchedNext DEF TInv
<1> QED BY <1>1, <1>2, PTL DEF Spec

(***************************************************************************)
(* While requests and jobs follow one another and nothing failed: once     *)
(* pushClient is through, every panel has the remote client on exactly     *)
(* when the seller has not disabled it.                                    *)
(***************************************************************************)
THEOREM SerialPanelsFollow == MaxActive = 1 => (Spec => []PanelsFollow)
<1> SUFFICES ASSUME MaxActive = 1 PROVE Spec => []PanelsFollow
  OBVIOUS
<1>1. ASSUME TInv PROVE PanelsFollow
  <2> SUFFICES ASSUME faults = 0, alive, Active = {}, NEW s \in present
               PROVE  on[s] = (status # "DISABLED")
    BY DEF PanelsFollow
  <2>1. \A p \in Procs : loc[p].pc = "idle"
    BY DEF Active, At
  <2>2. on[s] <=> status # "DISABLED"
    BY <1>1, <2>1 DEF TInv, Switched, Told, Owes
  <2>3. on[s] \in BOOLEAN
    BY <1>1 DEF TInv, IInv, TypeOK
  <2> QED BY <2>2, <2>3
<1> QED BY <1>1, SerialSwitch, PTL

(* --------------------------- the seller's date --------------------------- *)

\* The period is tracked while a start is under way, and no more once the seller has
\* decided about the date.
DateOK(l) ==
  /\ l.pc \in {"startRead", "startWrite"} => pending
  /\ l.pc = "updateWrite" /\ l.op \in {"date", "never"} => ~pending

Dated == (expires.by = "seller" => ~pending) /\ \A p \in Procs : DateOK(loc[p])
DInv == IInv /\ OneAtATime /\ Dated

\* What the property asks of a step.
DateStays == expires.by = "seller" => expires'.by # "start"

\* Handlers go on where they were, or at a statement that does not ask about the period.
LEMMA DatedKept ==
  ASSUME DInv, pending' = pending, expires'.by = expires.by,
         \A q \in Procs : \/ loc'[q].pc = loc[q].pc /\ loc'[q].op = loc[q].op
                          \/ DateOK(loc'[q])
  PROVE  Dated' /\ DateStays
<1>1. \A q \in Procs : DateOK(loc[q])'
  BY DEF DInv, Dated, DateOK
<1> QED BY <1>1 DEF DInv, Dated, DateStays

\* The setting is removed by a handler that is alone.
LEMMA DatedCleared ==
  ASSUME DInv, NEW p \in Procs, NEW m, loc' = [loc EXCEPT ![p] = m], pending' = FALSE, expires' = expires,
         m.pc \notin {"startRead", "startWrite"},
         loc[p].pc \notin Syncing \union {"idle", "recomputeRead", "recomputeWrite"}
  PROVE  Dated' /\ DateStays
<1>0. loc \in [Procs -> Locals] /\ Idle.pc = "idle" /\ IInv /\ OneAtATime
  BY IdleOK DEF DInv, IInv, TypeOK
<1>1. \A q \in Procs : q # p => loc[q] = Idle
  BY <1>0, Alone
<1>2. \A q \in Procs : loc'[q].pc \notin {"startRead", "startWrite"}
  BY <1>0, <1>1
<1>3. \A q \in Procs : DateOK(loc[q])'
  BY <1>2 DEF DateOK
<1> QED BY <1>3 DEF Dated, DInv, DateStays

\* No statement of a handler writes a first-use date over the seller's.
LEMMA DatedStep ==
  ASSUME DInv, NEW p \in Procs, Works(p)
  PROVE  Dated' /\ DateStays
<1> USE DEF rowVars, settingVars, usageVars, panelVars
<1>0. /\ IInv /\ Dated /\ loc[p] \in Locals /\ HandlerOK(p, loc[p]) /\ DateOK(loc[p])
      /\ Idle.pc = "idle" /\ loc \in [Procs -> Locals]
  BY HandlerTypes, IdleOK DEF DInv, Dated
<1>1. ASSUME NEW m, Becomes(p, m), DateOK(m), pending' = pending, expires'.by = expires.by
      PROVE  Dated' /\ DateStays
  <2>1. \A q \in Procs : loc'[q] = IF q = p THEN m ELSE loc[q]
    BY <1>0, <1>1 DEF Becomes
  <2> QED BY <1>1, <2>1, DatedKept
<1>2. ASSUME NEW m, Becomes(p, m), m.pc \notin {"startRead", "startWrite", "updateWrite"},
             UNCHANGED <<pending, expires>>
      PROVE  Dated' /\ DateStays
  BY <1>1, <1>2 DEF DateOK
<1>3. CASE syncFetch(p) \/ syncFail(p) \/ syncLinks(p) \/ syncWrite(p) \/ syncUsage(p) \/ syncOnline(p)
  <2>1. PICK m : Becomes(p, m) /\ m.pc \notin {"startRead", "startWrite", "updateWrite"}
    BY <1>0, <1>3, SyncMoves
  <2>2. UNCHANGED <<pending, expires>>
    BY <1>3 DEF syncFetch, syncFail, syncLinks, syncWrite, syncUsage, syncOnline
  <2> QED BY <1>2, <2>1, <2>2
<1>4. CASE recomputeRead(p) \/ recomputeWrite(p)
  <2>1. PICK m : Becomes(p, m) /\ m.pc \notin {"startRead", "startWrite", "updateWrite"}
    BY <1>0, <1>4, RecomputeMoves, ReturnLabels
  <2>2. UNCHANGED <<pending, expires>>
    BY <1>4 DEF recomputeRead, recomputeWrite
  <2> QED BY <1>2, <2>1, <2>2
<1>5. CASE enforceWrite(p)
  <2>1. Becomes(p, Idle) /\ UNCHANGED <<pending, expires>>
    BY <1>0, <1>5, StartMoves DEF enforceWrite
  <2> QED BY <1>0, <1>2, <2>1
<1>6. CASE startRead(p)
  <2>1. PICK m : Becomes(p, m) /\ m.pc \in {"startClear", "idle", "startWrite"}
    BY <1>0, <1>6, StartMoves
  <2>2. UNCHANGED <<pending, expires>> /\ loc[p].pc = "startRead"
    BY <1>6 DEF startRead, At
  <2>3. DateOK(m)
    BY <1>0, <2>1, <2>2 DEF DateOK
  <2> QED BY <1>1, <2>1, <2>2, <2>3
<1>7. CASE startWrite(p)
  <2>1. PICK m : Becomes(p, m) /\ (m.pc = "startClear" \/ m = Idle)
    BY <1>0, <1>7, StartMoves
  <2>2. /\ UNCHANGED pending /\ loc[p].pc = "startWrite"
        /\ expires' = expires \/ expires' = Date("start")
    BY <1>7 DEF startWrite, At
  <2>3. pending /\ expires.by # "seller"
    BY <1>0, <2>2 DEF DateOK, Dated
  <2>4. expires'.by # "seller"
    BY <2>2, <2>3 DEF Date
  <2>5. \A q \in Procs : loc'[q] = IF q = p THEN m ELSE loc[q]
    BY <1>0, <2>1 DEF Becomes
  <2>6. \A q \in Procs : DateOK(loc[q])'
    BY <1>0, <2>1, <2>2, <2>5 DEF DateOK, Dated
  <2> QED BY <2>3, <2>4, <2>6 DEF Dated, DateStays
<1>8. CASE startClear(p) \/ deletePending(p)
  <2>1. Becomes(p, Idle) /\ loc[p].pc \in {"startClear", "deletePending"}
    BY <1>0, <1>8, StartMoves, DeleteMoves DEF startClear, deletePending, At
  <2>2. pending' = FALSE /\ expires' = expires
    BY <1>8 DEF startClear, deletePending
  <2> QED BY <1>0, <2>1, <2>2, DatedCleared DEF Becomes, Syncing
<1>9. CASE updateClear(p)
  <2>1. PICK m : Becomes(p, m) /\ m.pc = "updateWrite"
    BY <1>0, <1>9, UpdateMoves
  <2>2. pending' = FALSE /\ expires' = expires /\ loc[p].pc = "updateClear"
    BY <1>9 DEF updateClear, At
  <2> QED BY <2>1, <2>2, DatedCleared DEF Becomes, Syncing
<1>10. CASE updateWrite(p)
  <2>1. PICK m : Becomes(p, m) /\ (m.pc = "recomputeRead" \/ m = Idle)
    BY <1>0, <1>10, UpdateMoves
  <2>2. pending' = pending /\ loc[p].pc = "updateWrite"
    BY <1>10 DEF updateWrite, At
  <2>3. CASE expires' = expires
    BY <1>0, <1>2, <2>1, <2>2, <2>3
  <2>4. CASE expires' # expires
    <3>1. loc[p].op \in {"date", "never"} /\ expires'.by = "seller"
      BY <1>10, <2>4 DEF updateWrite, Date
    <3>2. ~pending
      BY <1>0, <2>2, <3>1 DEF DateOK
    <3>3. \A q \in Procs : loc'[q] = IF q = p THEN m ELSE loc[q]
      BY <1>0, <2>1 DEF Becomes
    <3>4. \A q \in Procs : DateOK(loc[q])'
      BY <1>0, <2>1, <2>2, <3>3 DEF DateOK, Dated
    <3> QED BY <2>2, <3>1, <3>2, <3>4 DEF Dated, DateStays
  <2> QED BY <2>3, <2>4
<1>11. CASE pushRead(p) \/ pushPanel(p) \/ resetRead(p) \/ resetPanel(p) \/ resetLink(p)
            \/ deletePanel(p) \/ deleteRow(p)
  <2>1. PICK m : Becomes(p, m) /\ m.pc \notin {"startRead", "startWrite", "updateWrite"}
    BY <1>0, <1>11, PushMoves, ResetMoves, DeleteMoves
  <2>2. UNCHANGED <<pending, expires>>
    BY <1>11 DEF pushRead, pushPanel, resetRead, resetPanel, resetLink, deletePanel, deleteRow
  <2> QED BY <1>2, <2>1, <2>2
<1>12. CASE ruleWrite(p) \/ renewClient(p) \/ renewDrop(p) \/ renewWrite(p)
  <2>1. PICK m : Becomes(p, m) /\ m.pc \notin {"startRead", "startWrite", "updateWrite"}
    BY <1>0, <1>12, RenewMoves
  <2>2. UNCHANGED <<pending, expires>>
    BY <1>12 DEF ruleWrite, renewClient, renewDrop, renewWrite
  <2> QED BY <1>2, <2>1, <2>2
<1>13. CASE renewExtend(p)
  <2>1. PICK m : Becomes(p, m) /\ m.pc \in {"renewWrite", "idle", "pushRead"}
    BY <1>0, <1>13, RenewMoves
  <2>2. pending' = pending /\ (expires' = expires \/ expires' = Date("renewal"))
    BY <1>13 DEF renewExtend
  <2>3. CASE expires' = expires
    BY <1>2, <2>1, <2>2, <2>3
  <2>4. CASE expires' = Date("renewal")
    <3>1. expires'.by = "renewal"
      BY <2>4 DEF Date
    <3>2. \A q \in Procs : loc'[q] = IF q = p THEN m ELSE loc[q]
      BY <1>0, <2>1 DEF Becomes
    <3>3. \A q \in Procs : DateOK(loc[q])'
      BY <1>0, <2>1, <2>2, <3>2 DEF DateOK, Dated
    <3> QED BY <3>1, <3>3 DEF Dated, DateStays
  <2> QED BY <2>2, <2>3, <2>4
<1> QED BY <1>3, <1>4, <1>5, <1>6, <1>7, <1>8, <1>9, <1>10, <1>11, <1>12, <1>13 DEF Works, Step

\* Nor does a start, a panel, time or a crash.
LEMMA DatedNext ==
  ASSUME DInv, MaxActive = 1, [Next]_vars
  PROVE  Dated' /\ DateStays
<1> USE DEF rowVars, settingVars, usageVars, panelVars
<1>0. IInv /\ loc \in [Procs -> Locals] /\ Idle.pc = "idle" /\ expires \in Dates
  BY IdleOK DEF DInv, IInv, TypeOK
<1>1. ASSUME NEW p \in Procs, NEW m, Starts(p, m), UNCHANGED columns PROVE Dated' /\ DateStays
  <2>1. UNCHANGED <<pending, expires>>
    BY <1>1 DEF columns
  <2>2. DateOK(m) /\ loc' = [loc EXCEPT ![p] = m]
    BY <1>1 DEF Starts, DateOK
  <2>3. \A q \in Procs : loc'[q] = loc[q] \/ loc'[q] = m
    BY <1>0, <2>2
  <2> QED BY <2>1, <2>2, <2>3, DatedKept
<1>2. ASSUME loc' = [p \in Procs |-> IF p \in Servers THEN Round(p) ELSE loc[p]], UNCHANGED columns
      PROVE  Dated' /\ DateStays
  <2>1. UNCHANGED <<pending, expires>>
    BY <1>2 DEF columns
  <2>2. \A q \in Procs : loc'[q] = loc[q] \/ loc'[q].pc = "syncFetch"
    BY <1>2, RoundIs
  <2>3. \A q \in Procs : loc'[q] = loc[q] \/ DateOK(loc'[q])
    BY <2>2 DEF DateOK
  <2> QED BY <2>1, <2>3, DatedKept
<1>3. ASSUME loc' = loc, pending' = pending, expires'.by = expires.by PROVE Dated' /\ DateStays
  BY <1>3, DatedKept
<1>4. ASSUME Crash PROVE Dated' /\ DateStays
  <2>1. PICK dead : loc' = [p \in Procs |-> IF p \in dead THEN Idle ELSE loc[p]]
    BY <1>4 DEF Crash
  <2>2. UNCHANGED <<pending, expires>>
    BY <1>4 DEF Crash
  <2>3. \A q \in Procs : loc'[q] = loc[q] \/ DateOK(loc'[q])
    BY <1>0, <2>1 DEF DateOK
  <2> QED BY <2>2, <2>3, DatedKept
<1>5. CASE Next
  <2>1. CASE cyclePasses \/ (\E p \in Web : clearAutoRenew(p)) \/ \E s \in Servers : useTraffic(s)
    BY <1>3, <2>1 DEF cyclePasses, clearAutoRenew, useTraffic
  <2>2. CASE expiryPasses
    <3>1. loc' = loc /\ pending' = pending /\ expires' = [expires EXCEPT !.when = "past"]
      BY <2>2 DEF expiryPasses
    <3>2. expires'.by = expires.by
      BY <1>0, <3>1 DEF Dates
    <3> QED BY <1>3, <3>1, <3>2
  <2>3. CASE \E p \in Procs : Works(p)
    BY <2>3, DatedStep
  <2> QED BY <1>0, <1>1, <1>2, <1>4, <1>5, <2>1, <2>2, <2>3, NextIs
<1>6. CASE UNCHANGED vars
  BY <1>3, <1>6 DEF vars
<1> QED BY <1>5, <1>6

(***************************************************************************)
(* While requests and jobs follow one another, with panels synchronised    *)
(* side by side and processes dying: recomputeClient, enforcement and      *)
(* renewals never bring a DISABLED client back, only the seller does; and  *)
(* activatePendingStarts never writes its date over one the seller gave    *)
(* with updateClient.                                                      *)
(***************************************************************************)
THEOREM SerialSellerDecides == MaxActive = 1 => (Spec => SellerDecides)
<1> SUFFICES ASSUME MaxActive = 1 PROVE Spec => SellerDecides
  OBVIOUS
<1>1. Init => DInv
  <2> SUFFICES ASSUME Init PROVE Dated
    BY InitIInv, InitOneAtATime DEF DInv
  <2>1. \A p \in Procs : DateOK(loc[p])
    BY IdleOK DEF Init, DateOK
  <2> QED BY <2>1 DEF Init, Dated, Date
<1>2. ASSUME DInv, [Next]_vars PROVE DInv'
  BY <1>2, NextIInv, NextOneAtATime, DatedNext DEF DInv
<1>3. TInv /\ DInv /\ [Next]_vars =>
        [/\ status = "DISABLED" /\ status' # "DISABLED" =>
              \E p \in Web : At(p, "updateWrite") /\ loc[p].op = "enable"
         /\ expires.by = "seller" => expires'.by # "start"]_vars
  <2> SUFFICES ASSUME TInv, DInv, [Next]_vars, status = "DISABLED", status' # "DISABLED"
               PROVE  \E p \in Web : At(p, "updateWrite") /\ loc[p].op = "enable"
    BY DatedNext DEF DateStays
  <2> QED BY SwitchedNext
<1> QED BY <1>1, <1>2, <1>3, SerialSwitch, PTL DEF Spec, SellerDecides
=============================================================================
