------------------------ MODULE ResellerWalletProofs ------------------------
(***************************************************************************)
(* The reseller's wallet with any number of handlers in flight: what holds *)
(* although chargeWallet reads the balance first and writes it later.      *)
(***************************************************************************)
EXTENDS ResellerWallet, SumProofs

(* ------------------------- the inductive invariant ---------------------- *)

\* Which operation may stand at which statement, and the sign of its amount.
HandlerOK(l) ==
  /\ l.op \in {"create", "update", "delete"} => l.client \in Clients
  /\ l.op \in {"plan", "planBack", "adjust", "none"} => l.client = NoClient
  /\ l.pc # "idle" => l.acct \in Accounts
  /\ Purchase(l) => l.amount <= 0
  /\ l.op = "delete" => l.amount >= 0 /\ l.pc \in {"clientDelete", "chargeRead", "chargeCommit"}
  /\ l.pc \in {"assertQuota", "assertAffordable", "clientWrite"} => l.op \in {"create", "update"}
  /\ l.pc = "clientDelete" => l.op = "delete"
  /\ l.pc = "planWrite" => l.op = "plan"
  /\ l.pc = "chargeCommit" /\ Purchase(l) => l.next >= -CreditLimit

HandlersOK == \A p \in Procs : HandlerOK(loc[p])

\* A deletion that is past the row and has its refund still to pay.
Refunding(p) == loc[p].op = "delete" /\ loc[p].pc \in {"chargeRead", "chargeCommit"}

\* Why a refund is paid once and fits: nothing is refunded before the row is
\* gone, the quote fits what was charged, and one handler at most carries it.
RefundsOK ==
  /\ \A c \in Clients \ deleted : refunded[c] = 0
  /\ \A p \in Procs : loc[p].op = "delete" => loc[p].amount <= charged[loc[p].client]
  /\ \A p \in Procs : Refunding(p) => /\ loc[p].client \in deleted
                                      /\ refunded[loc[p].client] = 0
  /\ \A p, q \in Procs : Refunding(p) /\ Refunding(q) /\ loc[p].client = loc[q].client => p = q

IInv == /\ TypeOK /\ CreditIsLastBalance /\ PurchaseWithinCreditLimit
        /\ HandlersOK /\ RefundsOK /\ RefundNeverExceedsCharge

(* -------------------------------- lemmas -------------------------------- *)

(***************************************************************************)
(* A step that only changes what one handler carries (every read and every *)
(* early return) keeps the invariant when the handler stays well formed    *)
(* and does not become a second refund.                                    *)
(***************************************************************************)
LEMMA LocalStep ==
  ASSUME IInv, NEW p \in Procs, NEW l \in Locals,
         loc' = [loc EXCEPT ![p] = l],
         UNCHANGED <<accountVars, clientVars, totalVars>>, faults' \in 0 .. MaxFaults,
         HandlerOK(l),
         l.op = "delete" => l.amount <= charged[l.client],
         l.op = "delete" /\ l.pc \in {"chargeRead", "chargeCommit"} =>
           Refunding(p) /\ l.client = loc[p].client
  PROVE  IInv'
<1> USE DEF IInv, accountVars, clientVars, totalVars
<1>1. TypeOK'
  BY DEF TypeOK, LedgerTypeOK
<1>2. CreditIsLastBalance' /\ PurchaseWithinCreditLimit' /\ RefundNeverExceedsCharge'
  BY DEF CreditIsLastBalance, PurchaseWithinCreditLimit, RefundNeverExceedsCharge
<1>3. loc'[p] = l /\ \A q \in Procs \ {p} : loc'[q] = loc[q]
  BY DEF TypeOK
<1>4. HandlersOK'
  BY <1>3 DEF HandlersOK, HandlerOK, Purchase
<1>5. RefundsOK'
  <2>1. \A q \in Procs : Refunding(q)' => Refunding(q) /\ loc'[q].client = loc[q].client
    BY <1>3 DEF Refunding
  <2>2. \A q \in Procs : loc'[q].op = "delete" => loc'[q].amount <= charged'[loc'[q].client]
    BY <1>3 DEF RefundsOK
  <2>3. \A c \in Clients \ deleted' : refunded'[c] = 0
    BY DEF RefundsOK
  <2>4. \A q \in Procs : Refunding(q)' => /\ loc'[q].client \in deleted'
                                          /\ refunded'[loc'[q].client] = 0
    BY <2>1 DEF RefundsOK
  <2>5. \A q, r \in Procs : Refunding(q)' /\ Refunding(r)' /\ loc'[q].client = loc'[r].client => q = r
    BY <2>1 DEF RefundsOK
  <2> QED BY <2>2, <2>3, <2>4, <2>5 DEF RefundsOK
<1> QED BY <1>1, <1>2, <1>4, <1>5

\* A handler that has returned is well formed.
LEMMA IdleOK == Idle \in Locals /\ HandlerOK(Idle) /\ Idle.op = "none"
<1>1. Idle \in Locals
  BY DEF Idle, Locals, Ops, Labels
<1> QED BY <1>1 DEF Idle, HandlerOK, Purchase

\* Assigning one field keeps a handler typed.
LEMMA SetField ==
  ASSUME NEW l \in Locals
  PROVE  /\ \A v \in Ops : [l EXCEPT !.op = v] \in Locals
         /\ \A v \in Labels : [l EXCEPT !.pc = v] \in Locals
         /\ \A v \in Accounts : [l EXCEPT !.acct = v] \in Locals
         /\ \A v \in Clients : [l EXCEPT !.client = v] \in Locals
         /\ \A v \in Nat : [l EXCEPT !.size = v] \in Locals
         /\ \A v \in Int : [l EXCEPT !.quota = v] \in Locals
         /\ \A v \in Int : [l EXCEPT !.amount = v] \in Locals
         /\ \A v \in Int : [l EXCEPT !.next = v] \in Locals
  BY DEF Locals

\* What the type invariant says of one handler.
LEMMA HandlerTypes ==
  ASSUME IInv, NEW p \in Procs
  PROVE  /\ loc[p] \in Locals /\ loc[p].op \in Ops /\ loc[p].pc \in Labels
         /\ loc[p].acct \in Accounts \union {NoAccount}
         /\ loc[p].client \in Clients \union {NoClient}
         /\ loc[p].size \in Nat /\ loc[p].quota \in Int
         /\ loc[p].amount \in Int /\ loc[p].next \in Int
         /\ HandlerOK(loc[p])
<1>1. loc[p] \in Locals
  BY DEF IInv, TypeOK
<1>2. HandlerOK(loc[p])
  BY DEF IInv, HandlersOK
<1> QED BY <1>1, <1>2 DEF Locals

\* Return is a local step.
LEMMA ReturnStep ==
  ASSUME IInv, NEW p \in Procs, Return(p),
         UNCHANGED <<accountVars, clientVars, totalVars>>, faults' \in 0 .. MaxFaults
  PROVE  IInv'
<1>1. loc' = [loc EXCEPT ![p] = Idle]
  BY DEF Return
<1>2. Idle.op # "delete"
  BY IdleOK
<1> QED BY <1>1, <1>2, IdleOK, LocalStep

\* The refund that quoteRefund offers is covered by what was charged.
LEMMA QuoteFits ==
  ASSUME TypeOK, NEW c \in Clients, NEW gross \in Gross
  PROVE  quoteRefund(c, gross) \in Nat /\ quoteRefund(c, gross) <= charged[c]
<1>1. charged[c] \in Nat /\ refunded[c] \in Nat
  BY DEF TypeOK
<1>2. gross \in Nat /\ RefundPercent \in Nat /\ RefundMin \in Nat
  BY ResellerAssumptions
<1>3. gross * RefundPercent \in Nat
  BY <1>2
<1>4. (gross * RefundPercent) \div 100 \in Nat
  BY <1>3
<1> QED BY <1>1, <1>2, <1>4 DEF quoteRefund

(* ----------------------- starting a handler ----------------------------- *)

\* A request that starts with what it has just read.
LEMMA StartStep ==
  ASSUME IInv, NEW p \in Procs, NEW l \in Locals, Start(p, l), HandlerOK(l),
         l.op = "delete" => l.amount <= charged[l.client] /\ l.pc = "clientDelete"
  PROVE  IInv'
<1>1. faults' \in 0 .. MaxFaults
  BY DEF Start, IInv, TypeOK
<1>2. loc' = [loc EXCEPT ![p] = l] /\ UNCHANGED <<accountVars, clientVars, totalVars>>
  BY DEF Start
<1> QED BY <1>1, <1>2, LocalStep

\* Every request begins as a well-formed handler.
LEMMA Starts ==
  ASSUME IInv, NEW p \in Procs
  PROVE  /\ \A c \in Clients, n \in Sizes : createClient(p, c, n) => IInv'
         /\ \A c \in Clients, n \in Sizes : updateClient(p, c, n) => IInv'
         /\ \A c \in Clients, g \in Gross : deleteClientWithRefund(p, c, g) => IInv'
         /\ \A a \in Accounts : buyResellerPlan(p, a) => IInv'
         /\ \A a \in Accounts, n \in Adjustments : adjustCredit(p, a, n) => IInv'
<1>0. /\ \A a \in Accounts : quota[a] \in Int
      /\ \A c \in Clients : limit[c] \in Nat /\ Owner[c] \in Accounts /\ charged[c] \in Nat
      /\ PerGB \in Nat /\ Sizes \subseteq Nat /\ PlanPrice \in Nat /\ Adjustments \subseteq Int
  BY ResellerAssumptions DEF IInv, TypeOK
<1>1. ASSUME NEW c \in Clients, NEW n \in Sizes, createClient(p, c, n) PROVE IInv'
  <2> DEFINE l == [Idle EXCEPT !.op = "create", !.pc = "assertQuota", !.acct = Owner[c],
               !.client = c, !.size = n, !.quota = quota[Owner[c]], !.amount = -(n * PerGB)]
  <2>1. n * PerGB \in Nat
    BY <1>0
  <2>2. -(n * PerGB) \in Int /\ -(n * PerGB) <= 0
    BY <2>1
  <2>3. quota[Owner[c]] \in Int
    BY <1>0
  <2>4. l \in Locals
    BY <1>0, <2>2, <2>3, IdleOK, SetField DEF Ops, Labels
  <2>5. HandlerOK(l) /\ l.op # "delete"
    BY <1>0, <2>2 DEF HandlerOK, Purchase, Idle
  <2>6. Start(p, l)
    BY <1>1 DEF createClient
  <2> QED BY <2>4, <2>5, <2>6, StartStep
<1>2. ASSUME NEW c \in Clients, NEW n \in Sizes, updateClient(p, c, n) PROVE IInv'
  <2> DEFINE added == IF n > limit[c] THEN -((n - limit[c]) * PerGB) ELSE 0
             l == [Idle EXCEPT !.op = "update", !.pc = "assertQuota", !.acct = Owner[c],
               !.client = c, !.size = n, !.quota = quota[Owner[c]], !.amount = added]
  <2>1. n > limit[c] => n - limit[c] \in Nat
    BY <1>0
  <2>2. n > limit[c] => (n - limit[c]) * PerGB \in Nat
    BY <1>0, <2>1
  <2>3. added \in Int /\ added <= 0
    BY <2>2
  <2>4. quota[Owner[c]] \in Int
    BY <1>0
  <2>5. l \in Locals
    <3> HIDE DEF added
    <3> QED BY <1>0, <2>3, <2>4, IdleOK, SetField DEF Ops, Labels
  <2>6. HandlerOK(l) /\ l.op # "delete"
    <3> HIDE DEF added
    <3> QED BY <1>0, <2>3 DEF HandlerOK, Purchase, Idle
  <2>7. Start(p, l)
    BY <1>2 DEF updateClient
  <2> QED BY <2>5, <2>6, <2>7, StartStep
<1>3. ASSUME NEW c \in Clients, NEW g \in Gross, deleteClientWithRefund(p, c, g) PROVE IInv'
  <2> DEFINE l == [Idle EXCEPT !.op = "delete", !.pc = "clientDelete", !.acct = Owner[c],
               !.client = c, !.amount = quoteRefund(c, g)]
  <2>0. quoteRefund(c, g) \in Nat /\ quoteRefund(c, g) <= charged[c]
    BY QuoteFits DEF IInv
  <2>1. quoteRefund(c, g) \in Int /\ quoteRefund(c, g) >= 0 /\ quoteRefund(c, g) <= charged[c]
    BY <2>0
  <2>2. l \in Locals
    BY <1>0, <2>1, IdleOK, SetField DEF Ops, Labels
  <2>3. HandlerOK(l) /\ l.pc = "clientDelete" /\ l.amount <= charged[l.client]
    BY <1>0, <2>1 DEF HandlerOK, Purchase, Idle
  <2>4. Start(p, l)
    BY <1>3 DEF deleteClientWithRefund
  <2> QED BY <2>2, <2>3, <2>4, StartStep
<1>4. ASSUME NEW a \in Accounts, buyResellerPlan(p, a) PROVE IInv'
  <2> DEFINE l == [Idle EXCEPT !.op = "plan", !.pc = "chargeRead", !.acct = a,
            !.quota = quota[a], !.amount = -PlanPrice]
  <2>1. -PlanPrice \in Int /\ -PlanPrice <= 0 /\ quota[a] \in Int
    BY <1>0
  <2>2. l \in Locals
    BY <2>1, IdleOK, SetField DEF Ops, Labels
  <2>3. HandlerOK(l) /\ l.op # "delete"
    BY <2>1 DEF HandlerOK, Purchase, Idle
  <2>4. Start(p, l)
    BY <1>4 DEF buyResellerPlan
  <2> QED BY <2>2, <2>3, <2>4, StartStep
<1>5. ASSUME NEW a \in Accounts, NEW n \in Adjustments, adjustCredit(p, a, n) PROVE IInv'
  <2> DEFINE l == [Idle EXCEPT !.op = "adjust", !.pc = "chargeRead", !.acct = a, !.amount = n]
  <2>1. l \in Locals
    BY <1>0, IdleOK, SetField DEF Ops, Labels
  <2>2. HandlerOK(l) /\ l.op # "delete"
    BY DEF HandlerOK, Purchase, Idle
  <2>3. Start(p, l)
    BY <1>5 DEF adjustCredit
  <2> QED BY <2>1, <2>2, <2>3, StartStep
<1> QED BY <1>1, <1>2, <1>3, <1>4, <1>5

(* ------------------------- the later statements ------------------------- *)

\* A handler that moves on to another statement and changes nothing else.
LEMMA GotoStep ==
  ASSUME IInv, NEW p \in Procs, NEW label \in Labels, Goto(p, label), loc[p].op # "delete",
         HandlerOK([loc[p] EXCEPT !.pc = label]),
         UNCHANGED <<accountVars, clientVars, totalVars, faults>>
  PROVE  IInv'
<1> DEFINE l == [loc[p] EXCEPT !.pc = label]
<1>1. l \in Locals /\ l.op = loc[p].op
  BY HandlerTypes DEF Locals
<1>2. loc' = [loc EXCEPT ![p] = l]
  BY DEF Goto
<1>3. faults' \in 0 .. MaxFaults
  BY DEF IInv, TypeOK
<1> QED BY <1>1, <1>2, <1>3, LocalStep

\* The two checks before a client row is written.
LEMMA Checks ==
  ASSUME IInv, NEW p \in Procs, assertQuota(p) \/ assertAffordable(p)
  PROVE  IInv'
<1>1. faults' \in 0 .. MaxFaults /\ UNCHANGED <<accountVars, clientVars, totalVars, faults>>
  BY DEF assertQuota, assertAffordable, IInv, TypeOK
<1>2. loc[p].op \in {"create", "update"}
  BY HandlerTypes DEF assertQuota, assertAffordable, At, HandlerOK
<1>3. \/ Return(p) \/ Goto(p, "assertAffordable") \/ Goto(p, "clientWrite")
  BY DEF assertQuota, assertAffordable
<1>4. \A label \in {"assertAffordable", "clientWrite"} : HandlerOK([loc[p] EXCEPT !.pc = label])
  <2> SUFFICES ASSUME NEW label \in {"assertAffordable", "clientWrite"}
               PROVE  HandlerOK([loc[p] EXCEPT !.pc = label])
    OBVIOUS
  <2>1. loc[p] \in Locals /\ HandlerOK(loc[p]) /\ loc[p].pc # "idle"
    BY HandlerTypes DEF assertQuota, assertAffordable, At
  <2> QED BY <1>2, <2>1 DEF HandlerOK, Purchase, Locals
<1>5. CASE Return(p)
  BY <1>1, <1>5, ReturnStep
<1>6. CASE Goto(p, "assertAffordable")
  BY <1>1, <1>2, <1>4, <1>6, GotoStep DEF Labels
<1>7. CASE Goto(p, "clientWrite")
  BY <1>1, <1>2, <1>4, <1>7, GotoStep DEF Labels
<1> QED BY <1>3, <1>5, <1>6, <1>7

\* Writing a client row leaves wallets, totals and refunds alone.
LEMMA WriteStep ==
  ASSUME IInv, NEW p \in Procs, clientWrite(p)
  PROVE  IInv'
<1>1. CASE loc[p].client \in deleted
  <2>1. Return(p) /\ UNCHANGED <<accountVars, clientVars, totalVars>> /\ faults' \in 0 .. MaxFaults
    BY <1>1 DEF clientWrite, IInv, TypeOK, clientVars
  <2> QED BY <2>1, ReturnStep
<1>2. CASE loc[p].client \notin deleted
  <2>1. /\ limit' = [limit EXCEPT ![loc[p].client] = loc[p].size]
        /\ Return(p) \/ Goto(p, "chargeRead")
        /\ UNCHANGED <<accountVars, deleted, totalVars, faults>>
    BY <1>2 DEF clientWrite
  <2> DEFINE l == IF Return(p) THEN Idle ELSE [loc[p] EXCEPT !.pc = "chargeRead"]
  <2>2. loc[p].op \in {"create", "update"} /\ loc[p].pc = "clientWrite"
    BY HandlerTypes DEF clientWrite, At, HandlerOK
  <2>3. loc' = [loc EXCEPT ![p] = l]
    BY <2>1 DEF Return, Goto
  <2>4. l \in Locals /\ l.op # "delete"
    <3>1. [loc[p] EXCEPT !.pc = "chargeRead"] \in Locals
      BY HandlerTypes, SetField DEF Labels
    <3>2. [loc[p] EXCEPT !.pc = "chargeRead"].op = loc[p].op
      BY HandlerTypes DEF Locals
    <3> QED BY <2>2, <3>1, <3>2, IdleOK
  <2>5. HandlerOK(l)
    <3>1. HandlerOK([loc[p] EXCEPT !.pc = "chargeRead"])
      BY <2>2, HandlerTypes DEF HandlerOK, Purchase, Locals
    <3> QED BY <3>1, IdleOK
  <2>6. limit' \in [Clients -> Nat]
    <3>1. loc[p].size \in Nat /\ limit \in [Clients -> Nat]
      BY HandlerTypes DEF IInv, TypeOK
    <3> QED BY <2>1, <3>1
  <2> HIDE DEF l
  <2>7. TypeOK'
    <3>1. loc' \in [Procs -> Locals]
      BY <2>3, <2>4 DEF IInv, TypeOK
    <3> QED BY <2>1, <2>6, <3>1 DEF IInv, TypeOK, LedgerTypeOK, accountVars, totalVars
  <2>8. CreditIsLastBalance' /\ PurchaseWithinCreditLimit' /\ RefundNeverExceedsCharge'
    BY <2>1 DEF IInv, CreditIsLastBalance, PurchaseWithinCreditLimit, RefundNeverExceedsCharge,
                accountVars, totalVars
  <2>9. loc'[p] = l /\ \A q \in Procs \ {p} : loc'[q] = loc[q]
    BY <2>3 DEF IInv, TypeOK
  <2>10. HandlersOK'
    BY <2>5, <2>9 DEF IInv, HandlersOK, HandlerOK, Purchase
  <2>11. RefundsOK'
    BY <2>1, <2>4, <2>9 DEF IInv, RefundsOK, Refunding, totalVars
  <2> QED BY <2>7, <2>8, <2>10, <2>11 DEF IInv
<1> QED BY <1>1, <1>2

\* The row goes before the refund is paid; a second deletion finds no row.
LEMMA DeleteStep ==
  ASSUME IInv, NEW p \in Procs, clientDelete(p)
  PROVE  IInv'
<1>1. CASE loc[p].client \in deleted
  <2>1. Return(p) /\ UNCHANGED <<accountVars, clientVars, totalVars>> /\ faults' \in 0 .. MaxFaults
    BY <1>1 DEF clientDelete, IInv, TypeOK, clientVars
  <2> QED BY <2>1, ReturnStep
<1>2. CASE loc[p].client \notin deleted
  <2> DEFINE c == loc[p].client
             l == IF Return(p) THEN Idle ELSE [loc[p] EXCEPT !.pc = "chargeRead"]
  <2>1. /\ limit' = [limit EXCEPT ![c] = 0]
        /\ deleted' = deleted \union {c}
        /\ Return(p) \/ Goto(p, "chargeRead")
        /\ UNCHANGED <<accountVars, totalVars, faults>>
    BY <1>2 DEF clientDelete
  <2>2. loc[p].op = "delete" /\ loc[p].pc = "clientDelete" /\ c \in Clients
    BY HandlerTypes DEF clientDelete, At, HandlerOK
  <2>3. loc' = [loc EXCEPT ![p] = l]
    BY <2>1 DEF Return, Goto
  <2>4. /\ l \in Locals
        /\ l.op = "delete" => l.amount = loc[p].amount /\ l.client = c
    <3>1. [loc[p] EXCEPT !.pc = "chargeRead"] \in Locals
      BY HandlerTypes, SetField DEF Labels
    <3>2. /\ [loc[p] EXCEPT !.pc = "chargeRead"].amount = loc[p].amount
          /\ [loc[p] EXCEPT !.pc = "chargeRead"].client = c
      BY HandlerTypes DEF Locals
    <3>3. Idle.op # "delete"
      BY IdleOK
    <3> QED BY <3>1, <3>2, <3>3, IdleOK
  <2>5. HandlerOK(l)
    <3>1. HandlerOK([loc[p] EXCEPT !.pc = "chargeRead"])
      BY <2>2, HandlerTypes DEF HandlerOK, Purchase, Locals
    <3> QED BY <3>1, IdleOK
  <2> HIDE DEF l
  <2>6. TypeOK'
    <3>1. loc' \in [Procs -> Locals]
      BY <2>3, <2>4 DEF IInv, TypeOK
    <3>2. limit' \in [Clients -> Nat] /\ deleted' \in SUBSET Clients
      BY <2>1, <2>2 DEF IInv, TypeOK
    <3> QED BY <2>1, <3>1, <3>2 DEF IInv, TypeOK, LedgerTypeOK, accountVars, totalVars
  <2>7. CreditIsLastBalance' /\ PurchaseWithinCreditLimit' /\ RefundNeverExceedsCharge'
    BY <2>1 DEF IInv, CreditIsLastBalance, PurchaseWithinCreditLimit, RefundNeverExceedsCharge,
                accountVars, totalVars
  <2>8. loc'[p] = l /\ \A q \in Procs \ {p} : loc'[q] = loc[q]
    BY <2>3 DEF IInv, TypeOK
  <2>9. HandlersOK'
    BY <2>5, <2>8 DEF IInv, HandlersOK, HandlerOK, Purchase
  <2>10. RefundsOK'
    <3>1. \A d \in Clients \ deleted' : refunded'[d] = 0
      BY <2>1 DEF IInv, RefundsOK, totalVars
    <3>2. \A q \in Procs : loc'[q].op = "delete" => loc'[q].amount <= charged'[loc'[q].client]
      BY <2>1, <2>2, <2>4, <2>8 DEF IInv, RefundsOK, totalVars
    <3>3. \A q \in Procs : Refunding(q)' => q = p \/ Refunding(q)
      BY <2>8 DEF Refunding
    <3>4. Refunding(p)' => loc'[p].client = c
      BY <2>4, <2>8 DEF Refunding
    <3>5. refunded[c] = 0
      BY <1>2, <2>2 DEF IInv, RefundsOK
    <3>6. \A q \in Procs : Refunding(q)' => loc'[q].client \in deleted' /\ refunded'[loc'[q].client] = 0
      BY <2>1, <2>8, <3>3, <3>4, <3>5 DEF IInv, RefundsOK, totalVars
    <3>7. \A q \in Procs \ {p} : Refunding(q)' => loc'[q].client # c
      BY <1>2, <2>8, <3>3 DEF IInv, RefundsOK
    <3>8. \A q, r \in Procs : Refunding(q)' /\ Refunding(r)' /\ loc'[q].client = loc'[r].client => q = r
      BY <2>8, <3>3, <3>4, <3>7 DEF IInv, RefundsOK
    <3> QED BY <3>1, <3>2, <3>6, <3>8 DEF RefundsOK
  <2> QED BY <2>6, <2>7, <2>9, <2>10 DEF IInv
<1> QED BY <1>1, <1>2

\* Topping up the quota touches no wallet row.
LEMMA PlanStep ==
  ASSUME IInv, NEW p \in Procs, planWrite(p)
  PROVE  IInv'
<1>1. /\ quota' = [quota EXCEPT ![loc[p].acct] = loc[p].quota + PlanGB]
      /\ loc' = [loc EXCEPT ![p] = Idle]
      /\ UNCHANGED <<credit, ledger, clientVars, totalVars, faults>>
  BY DEF planWrite, Return
<1>2. quota' \in [Accounts -> Int]
  <2>1. loc[p].quota \in Int /\ quota \in [Accounts -> Int] /\ PlanGB \in Int
    BY HandlerTypes, ResellerAssumptions DEF IInv, TypeOK
  <2>2. loc[p].quota + PlanGB \in Int
    BY <2>1
  <2> QED BY <1>1, <2>1, <2>2
<1>3. TypeOK'
  <2>1. loc' \in [Procs -> Locals]
    BY <1>1, IdleOK DEF IInv, TypeOK
  <2> QED BY <1>1, <1>2, <2>1 DEF IInv, TypeOK, LedgerTypeOK, clientVars, totalVars
<1>4. CreditIsLastBalance' /\ PurchaseWithinCreditLimit' /\ RefundNeverExceedsCharge'
  BY <1>1 DEF IInv, CreditIsLastBalance, PurchaseWithinCreditLimit, RefundNeverExceedsCharge, totalVars
<1>5. loc'[p] = Idle /\ \A q \in Procs \ {p} : loc'[q] = loc[q]
  BY <1>1 DEF IInv, TypeOK
<1>6. HandlersOK'
  BY <1>5, IdleOK DEF IInv, HandlersOK, HandlerOK, Purchase
<1>7. RefundsOK'
  <2>1. Idle.op # "delete"
    BY IdleOK
  <2> QED BY <1>1, <1>5, <2>1 DEF IInv, RefundsOK, Refunding, clientVars, totalVars
<1> QED BY <1>3, <1>4, <1>6, <1>7 DEF IInv

\* chargeWallet refuses a purchase below the credit limit, or computes the
\* balance it will write.
LEMMA ReadStep ==
  ASSUME IInv, NEW p \in Procs, chargeRead(p)
  PROVE  IInv'
<1> DEFINE next == credit[loc[p].acct] + loc[p].amount
           l == [loc[p] EXCEPT !.pc = "chargeCommit", !.next = next]
<1>1. UNCHANGED <<accountVars, clientVars, totalVars>> /\ faults' \in 0 .. MaxFaults
  BY DEF chargeRead, IInv, TypeOK
<1>2. CASE Return(p)
  BY <1>1, <1>2, ReturnStep
<1>3. CASE /\ Purchase(loc[p]) => next >= -CreditLimit
           /\ loc' = [loc EXCEPT ![p].pc = "chargeCommit", ![p].next = next]
  <2>1. loc' = [loc EXCEPT ![p] = l]
    BY <1>3
  <2>2. loc[p].pc = "chargeRead" /\ loc[p].acct \in Accounts
    BY HandlerTypes DEF chargeRead, At, HandlerOK
  <2>3. next \in Int
    <3>1. credit[loc[p].acct] \in Int /\ loc[p].amount \in Int
      BY <2>2, HandlerTypes DEF IInv, TypeOK, LedgerTypeOK
    <3> QED BY <3>1
  <2> HIDE DEF next
  <2>4. l \in Locals
    BY <2>3, HandlerTypes, SetField DEF Labels
  <2>5. /\ l.op = loc[p].op /\ l.pc = "chargeCommit" /\ l.client = loc[p].client
        /\ l.acct = loc[p].acct /\ l.amount = loc[p].amount /\ l.next = next
    BY HandlerTypes DEF Locals
  <2> HIDE DEF l
  <2>6. HandlerOK(l)
    BY <1>3, <2>2, <2>5, HandlerTypes DEF HandlerOK, Purchase
  <2>7. l.op = "delete" => l.amount <= charged[l.client] /\ Refunding(p)
    BY <2>2, <2>5 DEF IInv, RefundsOK, Refunding
  <2> QED BY <1>1, <2>1, <2>4, <2>5, <2>6, <2>7, LocalStep
<1>4. (Purchase(loc[p]) /\ next < -CreditLimit /\ Return(p)) \/
      ((Purchase(loc[p]) => next >= -CreditLimit)
         /\ loc' = [loc EXCEPT ![p].pc = "chargeCommit", ![p].next = next])
  BY DEF chargeRead
<1> QED BY <1>2, <1>3, <1>4

\* A committed charge: the newest row carries the balance that was written.
LEMMA PostStep ==
  ASSUME LedgerTypeOK, CreditIsLastBalance, PurchaseWithinCreditLimit,
         NEW a \in Accounts, NEW balance \in Int, NEW n \in Int, NEW ref \in Refs,
         Post(a, balance, n, ref), ref[1] = "PURCHASE" => balance >= -CreditLimit
  PROVE  LedgerTypeOK' /\ CreditIsLastBalance' /\ PurchaseWithinCreditLimit'
<1> DEFINE row == [ref |-> ref, amount |-> n, balanceAfter |-> balance]
           rows == ledger[a]
<1>1. row \in Rows
  BY DEF Rows
<1>2. rows \in Seq(Rows)
  BY DEF LedgerTypeOK
<1>3. Len(rows) \in Nat
  BY <1>2
<1>4. ledger' = [ledger EXCEPT ![a] = Append(rows, row)] /\ credit' = [credit EXCEPT ![a] = balance]
  BY DEF Post
<1>5. row.ref = ref /\ row.balanceAfter = balance
  OBVIOUS
<1> HIDE DEF row, rows
<1>6. /\ Append(rows, row) \in Seq(Rows)
      /\ Len(Append(rows, row)) = Len(rows) + 1
      /\ Append(rows, row)[Len(rows) + 1] = row
      /\ \A i \in 1 .. Len(rows) : Append(rows, row)[i] = rows[i]
  BY <1>1, <1>2
<1>7. ledger'[a] = Append(rows, row) /\ credit'[a] = balance
  BY <1>4 DEF LedgerTypeOK
<1>8. \A b \in Accounts \ {a} : ledger'[b] = ledger[b] /\ credit'[b] = credit[b]
  BY <1>4 DEF LedgerTypeOK
<1>9. LedgerTypeOK'
  BY <1>4, <1>6 DEF LedgerTypeOK
<1>10. CreditIsLastBalance'
  <2> SUFFICES ASSUME NEW b \in Accounts
               PROVE  credit'[b] = BalanceBefore(ledger'[b], Len(ledger'[b]) + 1)
    BY DEF CreditIsLastBalance
  <2>1. CASE b = a
    <3>1. (Len(rows) + 1) + 1 # 1 /\ ((Len(rows) + 1) + 1) - 1 = Len(rows) + 1
      BY <1>3
    <3> QED BY <2>1, <3>1, <1>5, <1>6, <1>7 DEF BalanceBefore
  <2>2. CASE b # a
    BY <2>2, <1>8 DEF CreditIsLastBalance
  <2> QED BY <2>1, <2>2
<1>11. PurchaseWithinCreditLimit'
  <2> SUFFICES ASSUME NEW b \in Accounts, NEW i \in 1 .. Len(ledger'[b]),
                      ledger'[b][i].ref[1] = "PURCHASE"
               PROVE  ledger'[b][i].balanceAfter >= -CreditLimit
    BY DEF PurchaseWithinCreditLimit
  <2>1. CASE b # a
    BY <2>1, <1>8 DEF PurchaseWithinCreditLimit
  <2>2. CASE b = a /\ i = Len(rows) + 1
    BY <2>2, <1>5, <1>6, <1>7
  <2>3. CASE b = a /\ i # Len(rows) + 1
    <3>1. i \in 1 .. Len(rows)
      BY <2>3, <1>3, <1>6, <1>7
    <3>2. ledger'[b][i] = ledger[a][i] /\ i \in 1 .. Len(ledger[a])
      BY <2>3, <3>1, <1>6, <1>7 DEF rows
    <3> QED BY <3>2 DEF PurchaseWithinCreditLimit
  <2> QED BY <2>1, <2>2, <2>3
<1> QED BY <1>9, <1>10, <1>11

\* The row and both totals move together, and no refund is paid twice.
LEMMA CommitStep ==
  ASSUME IInv, NEW p \in Procs, chargeCommit(p)
  PROVE  IInv'
<1> DEFINE l == loc[p]
           m == IF l.op = "plan" THEN [l EXCEPT !.pc = "planWrite"] ELSE Idle
<1>1. /\ l \in Locals /\ l.pc = "chargeCommit" /\ l.acct \in Accounts
      /\ l.op \in Ops /\ l.amount \in Int /\ l.next \in Int
      /\ HandlerOK(l) /\ l.client \in Clients \union {NoClient}
  BY HandlerTypes DEF chargeCommit, At, HandlerOK
<1>2. Ref(l) \in Refs /\ (Ref(l)[1] = "PURCHASE" => Purchase(l))
  BY <1>1, ResellerAssumptions DEF Ref, Purchase
<1>3. LedgerTypeOK' /\ CreditIsLastBalance' /\ PurchaseWithinCreditLimit'
  <2>1. Post(l.acct, l.next, l.amount, Ref(l))
    BY DEF chargeCommit
  <2>2. Ref(l)[1] = "PURCHASE" => l.next >= -CreditLimit
    BY <1>1, <1>2 DEF HandlerOK
  <2> HIDE DEF l
  <2> QED BY <1>1, <1>2, <2>1, <2>2, PostStep DEF IInv, TypeOK
<1>4. /\ charged' = [c \in Clients |->
                       IF c = l.client /\ Purchase(l) THEN charged[c] - l.amount ELSE charged[c]]
      /\ refunded' = [c \in Clients |->
                        IF c = l.client /\ l.op = "delete" THEN refunded[c] + l.amount ELSE refunded[c]]
      /\ UNCHANGED <<quota, clientVars, faults>>
  BY DEF chargeCommit
<1>5. loc' = [loc EXCEPT ![p] = m]
  BY DEF chargeCommit, Goto, Return
<1>6. m \in Locals /\ HandlerOK(m) /\ m.op # "delete"
  <2>1. CASE l.op = "plan"
    <3>1. m = [l EXCEPT !.pc = "planWrite"]
      BY <2>1
    <3>2. m \in Locals
      BY <1>1, <3>1, SetField DEF Labels
    <3>3. /\ m.op = "plan" /\ m.pc = "planWrite" /\ m.client = l.client
          /\ m.acct = l.acct /\ m.amount = l.amount
      BY <1>1, <2>1, <3>1 DEF Locals
    <3> HIDE DEF m, l
    <3> QED BY <1>1, <2>1, <3>2, <3>3 DEF HandlerOK, Purchase
  <2>2. CASE l.op # "plan"
    BY <2>2, IdleOK
  <2> QED BY <2>1, <2>2
<1> HIDE DEF m
<1>7. /\ charged' \in [Clients -> Nat] /\ \A c \in Clients : charged'[c] >= charged[c]
  <2>1. charged \in [Clients -> Nat]
    BY DEF IInv, TypeOK
  <2>2. Purchase(l) => l.amount <= 0
    BY <1>1 DEF HandlerOK
  <2> HIDE DEF l
  <2> QED BY <1>1, <1>4, <2>1, <2>2
<1>8. refunded' \in [Clients -> Nat]
  <2>1. refunded \in [Clients -> Nat]
    BY DEF IInv, TypeOK
  <2>2. l.op = "delete" => l.amount >= 0
    BY <1>1 DEF HandlerOK
  <2> HIDE DEF l
  <2> QED BY <1>1, <1>4, <2>1, <2>2
<1>9. TypeOK'
  <2>1. loc' \in [Procs -> Locals]
    BY <1>5, <1>6 DEF IInv, TypeOK
  <2> QED BY <1>3, <1>4, <1>7, <1>8, <2>1 DEF IInv, TypeOK, clientVars
<1>10. loc'[p] = m /\ \A q \in Procs \ {p} : loc'[q] = loc[q]
  BY <1>5 DEF IInv, TypeOK
<1>11. HandlersOK'
  BY <1>6, <1>10 DEF IInv, HandlersOK, HandlerOK, Purchase
<1>12. l.op = "delete" => /\ Refunding(p) /\ l.client \in Clients /\ l.client \in deleted
                          /\ refunded[l.client] = 0 /\ l.amount <= charged[l.client]
  BY <1>1 DEF IInv, RefundsOK, Refunding, HandlerOK
<1>13. RefundsOK'
  <2>1. \A q \in Procs : Refunding(q)' => q # p /\ Refunding(q) /\ loc'[q] = loc[q]
    BY <1>6, <1>10 DEF Refunding
  <2>2. \A c \in Clients \ deleted' : refunded'[c] = 0
    BY <1>4, <1>12 DEF IInv, RefundsOK, clientVars
  <2>3. ASSUME NEW q \in Procs, loc'[q].op = "delete"
        PROVE  loc'[q].amount <= charged'[loc'[q].client]
    <3>1. q # p /\ loc'[q] = loc[q]
      BY <1>6, <1>10, <2>3
    <3>2. loc[q].op = "delete" /\ loc[q].client \in Clients /\ loc[q].amount \in Int
      BY <2>3, <3>1, HandlerTypes DEF HandlerOK
    <3>3. loc[q].amount <= charged[loc[q].client]
      BY <3>2 DEF IInv, RefundsOK
    <3>4. charged[loc[q].client] \in Nat /\ charged'[loc[q].client] \in Nat
      BY <3>2, <1>7 DEF IInv, TypeOK
    <3> QED BY <1>7, <3>1, <3>2, <3>3, <3>4
  <2>4. ASSUME NEW q \in Procs, Refunding(q)'
        PROVE  loc'[q].client \in deleted' /\ refunded'[loc'[q].client] = 0
    <3>1. q # p /\ Refunding(q) /\ loc'[q] = loc[q]
      BY <2>1, <2>4
    <3>2. loc[q].client \in deleted /\ refunded[loc[q].client] = 0 /\ loc[q].client \in Clients
      BY <3>1 DEF IInv, RefundsOK, TypeOK
    <3>3. l.op = "delete" => l.client # loc[q].client
      BY <1>12, <3>1 DEF IInv, RefundsOK
    <3> QED BY <1>4, <3>1, <3>2, <3>3 DEF clientVars
  <2>5. \A q, r \in Procs : Refunding(q)' /\ Refunding(r)' /\ loc'[q].client = loc'[r].client => q = r
    BY <2>1 DEF IInv, RefundsOK
  <2> QED BY <2>2, <2>3, <2>4, <2>5 DEF RefundsOK
<1>14. RefundNeverExceedsCharge'
  <2> SUFFICES ASSUME NEW c \in Clients PROVE refunded'[c] <= charged'[c]
    BY DEF RefundNeverExceedsCharge
  <2>1. charged[c] \in Nat /\ charged'[c] \in Nat /\ refunded[c] \in Nat /\ charged'[c] >= charged[c]
    BY <1>7 DEF IInv, TypeOK
  <2>2. refunded[c] <= charged[c]
    BY DEF IInv, RefundNeverExceedsCharge
  <2>3. CASE l.op = "delete" /\ c = l.client
    BY <1>1, <1>4, <1>12, <2>1, <2>3
  <2>4. CASE ~(l.op = "delete" /\ c = l.client)
    BY <1>4, <2>1, <2>2, <2>4
  <2> QED BY <2>3, <2>4
<1> QED BY <1>3, <1>9, <1>11, <1>13, <1>14 DEF IInv

\* A dying handler forgets; a failed quota top-up turns into the move back.
LEMMA FaultStep ==
  ASSUME IInv, NEW p \in Procs, Fault(p)
  PROVE  IInv'
<1>1. UNCHANGED <<accountVars, clientVars, totalVars>> /\ faults' \in 0 .. MaxFaults
  BY ResellerAssumptions DEF Fault, IInv, TypeOK
<1>2. CASE Return(p)
  BY <1>1, <1>2, ReturnStep
<1>3. CASE /\ At(p, "planWrite")
           /\ loc' = [loc EXCEPT ![p].op = "planBack", ![p].pc = "chargeRead", ![p].amount = PlanPrice]
  <2> DEFINE l == [loc[p] EXCEPT !.op = "planBack", !.pc = "chargeRead", !.amount = PlanPrice]
  <2>1. loc' = [loc EXCEPT ![p] = l]
    BY <1>3
  <2>2. PlanPrice \in Int
    BY ResellerAssumptions
  <2>3. l \in Locals
    BY <2>2, HandlerTypes, SetField DEF Ops, Labels
  <2>4. /\ l.op = "planBack" /\ l.pc = "chargeRead" /\ l.client = loc[p].client
        /\ l.acct = loc[p].acct
    BY HandlerTypes DEF Locals
  <2>5. loc[p].op = "plan" /\ loc[p].pc = "planWrite"
    BY <1>3, HandlerTypes DEF At, HandlerOK
  <2> HIDE DEF l
  <2>6. HandlerOK(l) /\ l.op # "delete"
    BY <2>4, <2>5, HandlerTypes DEF HandlerOK, Purchase
  <2> QED BY <1>1, <2>1, <2>3, <2>6, LocalStep
<1> QED BY <1>2, <1>3 DEF Fault

(* -------------------------------- theorems ------------------------------ *)

\* The initial state satisfies the invariant.
LEMMA Initially == Init => IInv
<1> SUFFICES ASSUME Init PROVE IInv
  OBVIOUS
<1>1. TypeOK
  BY IdleOK, ResellerAssumptions DEF Init, LedgerInit, TypeOK, LedgerTypeOK
<1>2. CreditIsLastBalance /\ PurchaseWithinCreditLimit /\ RefundNeverExceedsCharge
  BY DEF Init, LedgerInit, CreditIsLastBalance, PurchaseWithinCreditLimit,
         RefundNeverExceedsCharge, BalanceBefore
<1>3. HandlersOK
  BY IdleOK DEF Init, HandlersOK
<1>4. RefundsOK
  BY IdleOK DEF Init, RefundsOK, Refunding
<1> QED BY <1>1, <1>2, <1>3, <1>4 DEF IInv

\* Every step preserves the invariant.
LEMMA Inductive == IInv /\ [Next]_vars => IInv'
<1> SUFFICES ASSUME IInv, [Next]_vars PROVE IInv'
  OBVIOUS
<1>1. CASE UNCHANGED vars
  BY <1>1 DEF vars, accountVars, clientVars, totalVars, IInv, TypeOK, LedgerTypeOK,
              CreditIsLastBalance, PurchaseWithinCreditLimit, RefundNeverExceedsCharge,
              HandlersOK, HandlerOK, Purchase, RefundsOK, Refunding
<1>2. CASE Next
  BY <1>2, Starts, Checks, WriteStep, DeleteStep, PlanStep, ReadStep, CommitStep, FaultStep DEF Next
<1> QED BY <1>1, <1>2

(***************************************************************************)
(* No purchase leaves a balance below the credit limit, with any number of *)
(* resellers, clients and handlers: chargeWallet checks the balance it is  *)
(* about to write, even when that balance is stale.                        *)
(***************************************************************************)
THEOREM PurchasesRespectLimit == Spec => [](CreditIsLastBalance /\ PurchaseWithinCreditLimit)
<1>1. IInv => CreditIsLastBalance /\ PurchaseWithinCreditLimit
  BY DEF IInv
<1> QED BY <1>1, Initially, Inductive, PTL DEF Spec

(***************************************************************************)
(* Deleting a client never refunds more than it cost, however deletions,   *)
(* sales and faults interleave: client.delete throws for the second        *)
(* deletion, so one quote at most is ever paid (deleteClientWithRefund).   *)
(***************************************************************************)
THEOREM RefundsAreCovered == Spec => [](TypeOK /\ RefundNeverExceedsCharge)
<1>1. IInv => TypeOK /\ RefundNeverExceedsCharge
  BY DEF IInv
<1> QED BY <1>1, Initially, Inductive, PTL DEF Spec

(***************************************************************************)
(* Every column and every handler keeps its type: what chargeWallet takes  *)
(* and gives back never makes a total negative, whatever interleaves.      *)
(***************************************************************************)
THEOREM ResellerWalletTypes == Spec => []TypeOK
<1>1. IInv => TypeOK
  BY DEF IInv
<1> QED BY <1>1, Initially, Inductive, PTL DEF Spec

(* ----------------------- one handler after the other -------------------- *)

(***************************************************************************)
(* With one request in flight at a time what a handler read is still there *)
(* when it writes, so the ledger explains the balance, a plan that was     *)
(* paid for is in the quota, and a client that exists was paid for.        *)
(***************************************************************************)

\* The handler in flight, if there is one.
Running == IF \E p \in Procs : loc[p].pc # "idle"
           THEN loc[CHOOSE p \in Procs : loc[p].pc # "idle"] ELSE Idle
OneActive == \A p, q \in Procs : loc[p].pc # "idle" /\ loc[q].pc # "idle" => p = q
IdleForgets == \A p \in Procs : loc[p].pc = "idle" => loc[p] = Idle
Alone(p) == \A q \in Procs \ {p} : loc[q].pc = "idle"

\* The handler sells a client, or more traffic to one.
Sale(l) == l.op \in {"create", "update"}
\* It has written client c and has still to charge for it.
Paying(l, c) == Sale(l) /\ l.client = c /\ l.pc \in {"chargeRead", "chargeCommit"}
\* What it has charged for a plan and has still to add to the quota.
Due(l, a) == IF l.pc = "planWrite" /\ l.acct = a THEN PlanGB ELSE 0
PlanRows(a) == RowsFor(a, <<"PURCHASE", NoClient>>)

\* Clients are paid for, but for the one being charged.
PaidUp(l) ==
  /\ Sale(l) => charged[l.client] - l.amount >= l.size * PerGB
  /\ \A c \in Clients : Paying(l, c) => limit[c] = l.size
  /\ \A c \in Clients : limit[c] > 0 => Paying(l, c) \/ charged[c] >= limit[c] * PerGB

\* Plans are in the quota, but for the one being added.
PlansUp(l) == \A a \in Accounts :
  quota[a] + Due(l, a) = OpeningQuota + PlanGB * Cardinality(PlanRows(a))

\* What the running handler read is still true.
StillTrue(l) ==
  /\ l.pc = "chargeCommit" => l.next = credit[l.acct] + l.amount
  /\ l.op = "plan" => l.quota = quota[l.acct]
  /\ Sale(l) /\ l.pc \in {"clientWrite", "chargeRead"} /\ l.amount < 0 =>
       credit[l.acct] + l.amount >= -CreditLimit

RunningOK(l) == StillTrue(l) /\ (faults = 0 => PaidUp(l) /\ PlansUp(l))

BInv == IInv /\ OneActive /\ IdleForgets /\ RowsAddUp /\ RunningOK(Running)

\* The handler that steps alone is the running one.
LEMMA RunningIs ==
  ASSUME OneActive, IdleForgets, NEW p \in Procs, Alone(p)
  PROVE  Running = loc[p]
<1>1. CASE loc[p].pc # "idle"
  <2>1. \A q \in Procs : loc[q].pc # "idle" <=> q = p
    BY <1>1 DEF Alone
  <2>2. (CHOOSE q \in Procs : loc[q].pc # "idle") = p
    BY <2>1
  <2> QED BY <1>1, <2>2 DEF Running
<1>2. CASE loc[p].pc = "idle"
  <2>1. ~\E q \in Procs : loc[q].pc # "idle"
    BY <1>2 DEF Alone
  <2> QED BY <1>2, <2>1 DEF Running, IdleForgets
<1> QED BY <1>1, <1>2

\* The handler that steps is the running one afterwards.
LEMMA RunNext ==
  ASSUME BInv, NEW p \in Procs, Alone(p), NEW l, loc' = [loc EXCEPT ![p] = l],
         l.pc = "idle" => l = Idle
  PROVE  OneActive' /\ IdleForgets' /\ Running' = l
<1>1. loc'[p] = l /\ \A q \in Procs \ {p} : loc'[q] = loc[q]
  BY DEF BInv, IInv, TypeOK
<1>2. OneActive'
  BY <1>1 DEF OneActive, Alone
<1>3. IdleForgets'
  BY <1>1 DEF BInv, IdleForgets
<1>4. Running' = l
  <2>1. CASE l.pc # "idle"
    <3>1. \A q \in Procs : loc'[q].pc # "idle" <=> q = p
      BY <1>1, <2>1 DEF Alone
    <3>2. (CHOOSE q \in Procs : loc'[q].pc # "idle") = p
      BY <3>1
    <3> QED BY <1>1, <2>1, <3>2 DEF Running
  <2>2. CASE l.pc = "idle"
    <3>1. ~\E q \in Procs : loc'[q].pc # "idle"
      BY <1>1, <2>2 DEF Alone
    <3> QED BY <2>2, <3>1 DEF Running
  <2> QED BY <2>1, <2>2
<1> QED BY <1>2, <1>3, <1>4

\* What the step of one handler must show.
LEMMA RunStep ==
  ASSUME BInv, IInv', NEW p \in Procs, Alone(p), NEW l, loc' = [loc EXCEPT ![p] = l],
         l.pc = "idle" => l = Idle, RowsAddUp', RunningOK(l)'
  PROVE  BInv'
<1>1. OneActive' /\ IdleForgets' /\ Running' = l
  BY RunNext
<1>2. RunningOK(Running)'
  BY <1>1 DEF RunningOK, StillTrue, PaidUp, PlansUp
<1> QED BY <1>1, <1>2 DEF BInv

\* A step that only changes what the handler carries.
LEMMA RunQuiet ==
  ASSUME BInv, IInv', NEW p \in Procs, Alone(p), NEW l, loc' = [loc EXCEPT ![p] = l],
         UNCHANGED <<accountVars, clientVars, totalVars>>, l.pc = "idle" => l = Idle,
         StillTrue(l), faults' = 0 => faults = 0 /\ PaidUp(l) /\ PlansUp(l)
  PROVE  BInv'
<1>1. UNCHANGED <<credit, ledger, quota, limit, deleted, charged, refunded>>
  BY DEF accountVars, clientVars, totalVars
<1>2. RowsAddUp'
  BY <1>1 DEF BInv, RowsAddUp
<1>3. StillTrue(l)'
  BY <1>1 DEF StillTrue
<1>4. faults' = 0 => PaidUp(l)' /\ PlansUp(l)'
  BY <1>1 DEF PaidUp, PlansUp, PlanRows, RowsFor
<1>5. RunningOK(l)'
  BY <1>3, <1>4 DEF RunningOK
<1> QED BY <1>2, <1>5, RunStep

\* A handler that runs, runs alone, and the invariant is about it.
LEMMA RunningHandler ==
  ASSUME BInv, NEW p \in Procs, loc[p].pc # "idle"
  PROVE  /\ IInv /\ Alone(p) /\ RunningOK(loc[p]) /\ loc \in [Procs -> Locals]
<1>1. Alone(p)
  BY DEF BInv, OneActive, Alone
<1>2. Running = loc[p]
  BY <1>1, RunningIs DEF BInv
<1> QED BY <1>1, <1>2 DEF BInv, IInv, TypeOK

\* Nothing is asked of a handler that has returned, beyond the books.
LEMMA RunningIdle ==
  ASSUME NEW l, \/ faults # 0
                \/ /\ \A c \in Clients : ~Paying(l, c)
                   /\ \A a \in Accounts : Due(l, a) = 0
                   /\ RunningOK(l)
  PROVE  RunningOK(Idle)
<1>1. Idle.pc = "idle" /\ Idle.op = "none"
  BY DEF Idle
<1>2. StillTrue(Idle)
  BY <1>1 DEF StillTrue, Sale
<1>3. \A c \in Clients, a \in Accounts : ~Paying(Idle, c) /\ Due(Idle, a) = 0
  BY <1>1 DEF Paying, Sale, Due
<1>4. CASE faults # 0
  BY <1>2, <1>4 DEF RunningOK
<1>5. CASE /\ \A c \in Clients : ~Paying(l, c)
           /\ \A a \in Accounts : Due(l, a) = 0
           /\ RunningOK(l)
  <2>1. ASSUME faults = 0 PROVE PaidUp(Idle) /\ PlansUp(Idle)
    <3>1. PaidUp(l) /\ PlansUp(l)
      BY <1>5, <2>1 DEF RunningOK
    <3>2. PaidUp(Idle)
      <4>1. \A c \in Clients : limit[c] > 0 => charged[c] >= limit[c] * PerGB
        BY <1>5, <3>1 DEF PaidUp
      <4> QED BY <1>1, <4>1 DEF PaidUp, Paying, Sale
    <3>3. PlansUp(Idle)
      BY <1>1, <1>5, <3>1 DEF PlansUp, Due
    <3> QED BY <3>2, <3>3
  <2> QED BY <1>2, <2>1 DEF RunningOK
<1> QED BY <1>4, <1>5

\* The first reads: returning, or going on to the next statement.
LEMMA RunChecks ==
  ASSUME BInv, IInv', NEW p \in Procs, assertQuota(p) \/ assertAffordable(p)
  PROVE  BInv'
<1>1. /\ UNCHANGED <<accountVars, clientVars, totalVars, faults>>
      /\ loc[p].pc \in {"assertQuota", "assertAffordable"}
  BY DEF assertQuota, assertAffordable, At
<1>2. IInv /\ Alone(p) /\ RunningOK(loc[p]) /\ loc[p] \in Locals
  BY <1>1, RunningHandler
<1>3. (\A c \in Clients : ~Paying(loc[p], c)) /\ (\A a \in Accounts : Due(loc[p], a) = 0)
  BY <1>1 DEF Paying, Due
<1>4. CASE Return(p)
  <2>1. RunningOK(Idle) /\ loc' = [loc EXCEPT ![p] = Idle]
    BY <1>2, <1>3, <1>4, RunningIdle DEF Return
  <2> QED BY <1>1, <1>2, <2>1, RunQuiet DEF RunningOK
<1>5. ASSUME NEW label \in {"assertAffordable", "clientWrite"}, Goto(p, label),
             label = "clientWrite" =>
               ~(loc[p].amount < 0 /\ credit[loc[p].acct] + loc[p].amount < -CreditLimit)
      PROVE  BInv'
  <2>1. PICK l : l = [loc[p] EXCEPT !.pc = label]
    OBVIOUS
  <2>2. /\ l.pc = label /\ l.op = loc[p].op /\ l.client = loc[p].client /\ l.size = loc[p].size
        /\ l.amount = loc[p].amount /\ l.acct = loc[p].acct /\ l.quota = loc[p].quota
    BY <1>2, <2>1 DEF Locals
  <2>3. /\ \A c \in Clients : ~Paying(l, c)
        /\ \A a \in Accounts : Due(l, a) = 0
    BY <2>2 DEF Paying, Due
  <2>4. StillTrue(l)
    <3>1. l.op # "plan"
      BY <1>1, <1>2, <2>2, HandlerTypes DEF HandlerOK
    <3>2. loc[p].acct \in Accounts /\ credit[loc[p].acct] \in Int /\ loc[p].amount \in Int
          /\ CreditLimit \in Nat
      BY <1>1, <1>2, HandlerTypes, ResellerAssumptions DEF HandlerOK, IInv, TypeOK, LedgerTypeOK
    <3> QED BY <1>5, <2>2, <3>1, <3>2 DEF StillTrue
  <2>5. faults = 0 => PaidUp(l) /\ PlansUp(l)
    BY <1>2, <1>3, <2>2, <2>3 DEF RunningOK, PaidUp, PlansUp, Sale
  <2>6. loc' = [loc EXCEPT ![p] = l]
    BY <1>5, <2>1 DEF Goto
  <2> QED BY <1>1, <1>2, <2>2, <2>4, <2>5, <2>6, RunQuiet
<1>6. CASE assertQuota(p)
  BY <1>4, <1>5, <1>6 DEF assertQuota
<1>7. CASE assertAffordable(p)
  BY <1>4, <1>5, <1>7 DEF assertAffordable
<1> QED BY <1>6, <1>7

\* SELECT of the balance: a sale cannot fail here, its look at the balance was
\* the same one.
LEMMA RunRead ==
  ASSUME BInv, IInv', NEW p \in Procs, chargeRead(p)
  PROVE  BInv'
<1> DEFINE next == credit[loc[p].acct] + loc[p].amount
<1>1. UNCHANGED <<accountVars, clientVars, totalVars, faults>> /\ loc[p].pc = "chargeRead"
  BY DEF chargeRead, At
<1>2. IInv /\ Alone(p) /\ RunningOK(loc[p]) /\ loc[p] \in Locals /\ loc \in [Procs -> Locals]
  BY <1>1, RunningHandler
<1>3. /\ loc[p].acct \in Accounts /\ credit[loc[p].acct] \in Int /\ loc[p].amount \in Int
      /\ HandlerOK(loc[p]) /\ CreditLimit \in Nat
  BY <1>1, <1>2, HandlerTypes, ResellerAssumptions DEF HandlerOK, IInv, TypeOK, LedgerTypeOK
<1>4. CASE Purchase(loc[p]) /\ next < -CreditLimit /\ Return(p)
  <2>1. \A c \in Clients : ~Paying(loc[p], c) \/ loc[p].amount = 0
    BY <1>1, <1>2, <1>3, <1>4 DEF Paying, RunningOK, StillTrue, HandlerOK, Purchase, Sale
  <2>2. \A a \in Accounts : Due(loc[p], a) = 0
    BY <1>1 DEF Due
  <2>3. faults = 0 => PaidUp(Idle) /\ PlansUp(Idle)
    <3> SUFFICES ASSUME faults = 0 PROVE PaidUp(Idle) /\ PlansUp(Idle)
      OBVIOUS
    <3>1. PaidUp(loc[p]) /\ PlansUp(loc[p])
      BY <1>2 DEF RunningOK
    <3>2. Idle.pc = "idle" /\ Idle.op = "none"
      BY DEF Idle
    <3>3. ASSUME NEW c \in Clients, limit[c] > 0 PROVE charged[c] >= limit[c] * PerGB
      <4>1. CASE ~Paying(loc[p], c)
        BY <3>1, <3>3, <4>1 DEF PaidUp
      <4>2. CASE Paying(loc[p], c)
        <5>1. /\ charged[c] - loc[p].amount >= loc[p].size * PerGB /\ limit[c] = loc[p].size
              /\ loc[p].amount = 0 /\ charged[c] \in Nat
          BY <1>2, <2>1, <3>1, <4>2 DEF PaidUp, Paying, IInv, TypeOK
        <5> QED BY <5>1
      <4> QED BY <4>1, <4>2
    <3>4. PaidUp(Idle)
      BY <3>2, <3>3 DEF PaidUp, Paying, Sale
    <3>5. PlansUp(Idle)
      BY <2>2, <3>1, <3>2 DEF PlansUp, Due
    <3> QED BY <3>4, <3>5
  <2>4. StillTrue(Idle) /\ loc' = [loc EXCEPT ![p] = Idle]
    BY <1>4 DEF StillTrue, Idle, Sale, Return
  <2> QED BY <1>1, <1>2, <2>3, <2>4, RunQuiet
<1>5. CASE loc' = [loc EXCEPT ![p].pc = "chargeCommit", ![p].next = next]
  <2>1. PICK l : l = [loc[p] EXCEPT !.pc = "chargeCommit", !.next = next]
    OBVIOUS
  <2>2. /\ l.pc = "chargeCommit" /\ l.op = loc[p].op /\ l.client = loc[p].client
        /\ l.size = loc[p].size /\ l.next = next
        /\ l.amount = loc[p].amount /\ l.acct = loc[p].acct /\ l.quota = loc[p].quota
    BY <1>2, <2>1 DEF Locals
  <2>3. loc' = [loc EXCEPT ![p] = l]
    BY <1>2, <1>5, <2>1
  <2>4. StillTrue(l)
    BY <1>2, <2>2 DEF StillTrue, RunningOK
  <2>5. /\ \A c \in Clients : Paying(l, c) <=> Paying(loc[p], c)
        /\ \A a \in Accounts : Due(l, a) = Due(loc[p], a)
    BY <1>1, <2>2 DEF Paying, Due, Sale
  <2>6. faults = 0 => PaidUp(l) /\ PlansUp(l)
    BY <1>2, <2>2, <2>5 DEF RunningOK, PaidUp, PlansUp, Sale
  <2> QED BY <1>1, <1>2, <2>2, <2>3, <2>4, <2>6, RunQuiet
<1> QED BY <1>4, <1>5 DEF chargeRead

\* A dying handler forgets; a failed quota top-up turns into the move back.
LEMMA RunFault ==
  ASSUME BInv, IInv', NEW p \in Procs, Fault(p)
  PROVE  BInv'
<1>1. /\ UNCHANGED <<accountVars, clientVars, totalVars>> /\ loc[p].pc # "idle" /\ faults' # 0
  <2>1. faults \in Nat
    BY ResellerAssumptions DEF BInv, IInv, TypeOK
  <2> QED BY <2>1 DEF Fault, At
<1>2. IInv /\ Alone(p) /\ RunningOK(loc[p]) /\ loc[p] \in Locals /\ loc \in [Procs -> Locals]
  BY <1>1, RunningHandler
<1>3. CASE Return(p)
  <2>1. StillTrue(Idle) /\ loc' = [loc EXCEPT ![p] = Idle]
    BY <1>3 DEF StillTrue, Idle, Sale, Return
  <2> QED BY <1>1, <1>2, <2>1, RunQuiet
<1>4. CASE loc' = [loc EXCEPT ![p].op = "planBack", ![p].pc = "chargeRead", ![p].amount = PlanPrice]
  <2>1. PICK l : l = [loc[p] EXCEPT !.op = "planBack", !.pc = "chargeRead", !.amount = PlanPrice]
    OBVIOUS
  <2>2. l.op = "planBack" /\ l.pc = "chargeRead" /\ loc' = [loc EXCEPT ![p] = l]
    BY <1>2, <1>4, <2>1 DEF Locals
  <2>3. StillTrue(l)
    BY <2>2 DEF StillTrue, Sale
  <2> QED BY <1>1, <1>2, <2>2, <2>3, RunQuiet
<1> QED BY <1>3, <1>4 DEF Fault

\* No request is in flight when one more may begin.
LEMMA NobodyRuns ==
  ASSUME IsFiniteSet(Procs), MaxActive = 1, NEW l, NEW p, Start(p, l)
  PROVE  \A q \in Procs : loc[q].pc = "idle"
<1>1. IsFiniteSet(Active) /\ Cardinality(Active) < 1
  BY FS_Subset DEF Active, Start
<1>2. Cardinality(Active) = 0
  BY <1>1, FS_CardinalityType
<1>3. Active = {}
  BY <1>1, <1>2, FS_EmptySet
<1> QED BY <1>3 DEF Active, At

\* Facts about products that the prices need.
LEMMA Products ==
  ASSUME NEW k \in Nat
  PROVE  /\ \A n, m \in Nat : (n - m) * k = n * k - m * k
         /\ \A n, m \in Nat : n <= m => n * k <= m * k
         /\ \A n \in Nat : n * k \in Nat
         /\ \A n \in Nat : k * (n + 1) = k * n + k
<1>1. \A n, m \in Nat : (n - m) * k = n * k - m * k
  OBVIOUS
<1>2. \A n, m \in Nat : n <= m => n * k <= m * k
  OBVIOUS
<1>3. \A n \in Nat : n * k \in Nat
  OBVIOUS
<1>4. \A n \in Nat : k * (n + 1) = k * n + k
  OBVIOUS
<1> QED BY <1>1, <1>2, <1>3, <1>4

\* A request begins when none is in flight: the books are in order.
LEMMA RunStart ==
  ASSUME IsFiniteSet(Procs), MaxActive = 1, BInv, IInv', NEW p \in Procs, NEW l, Start(p, l),
         l.pc # "idle", StillTrue(l), l.pc # "planWrite", \A c \in Clients : ~Paying(l, c),
         Sale(l) /\ faults = 0 /\ PaidUp(Idle) => charged[l.client] - l.amount >= l.size * PerGB
  PROVE  BInv'
<1>1. Alone(p) /\ loc[p].pc = "idle"
  BY NobodyRuns DEF Alone
<1>2. Running = Idle
  BY <1>1, RunningIs DEF BInv, IdleForgets
<1>3. RunningOK(Idle)
  BY <1>2 DEF BInv
<1>4. Idle.pc = "idle" /\ Idle.op = "none"
  BY DEF Idle
<1>5. faults = 0 => PaidUp(l) /\ PlansUp(l)
  <2> SUFFICES ASSUME faults = 0 PROVE PaidUp(l) /\ PlansUp(l)
    OBVIOUS
  <2>1. PaidUp(Idle) /\ PlansUp(Idle)
    BY <1>3 DEF RunningOK
  <2>2. \A c \in Clients : limit[c] > 0 => charged[c] >= limit[c] * PerGB
    BY <1>4, <2>1 DEF PaidUp, Paying, Sale
  <2>3. PaidUp(l)
    BY <2>1, <2>2 DEF PaidUp
  <2>4. PlansUp(l)
    BY <1>4, <2>1 DEF PlansUp, Due
  <2> QED BY <2>3, <2>4
<1>6. /\ UNCHANGED <<accountVars, clientVars, totalVars>> /\ faults' = faults
      /\ loc' = [loc EXCEPT ![p] = l]
  BY DEF Start
<1> QED BY <1>1, <1>5, <1>6, RunQuiet

\* Every request begins in order: a sale asks for what its traffic costs.
LEMMA RunStarts ==
  ASSUME IsFiniteSet(Procs), MaxActive = 1, BInv, IInv', NEW p \in Procs
  PROVE  /\ \A c \in Clients, n \in Sizes : createClient(p, c, n) => BInv'
         /\ \A c \in Clients, n \in Sizes : updateClient(p, c, n) => BInv'
         /\ \A c \in Clients, g \in Gross : deleteClientWithRefund(p, c, g) => BInv'
         /\ \A a \in Accounts : buyResellerPlan(p, a) => BInv'
         /\ \A a \in Accounts, n \in Adjustments : adjustCredit(p, a, n) => BInv'
<1>0. /\ \A c \in Clients : limit[c] \in Nat /\ charged[c] \in Nat
      /\ PerGB \in Nat /\ Sizes \subseteq Nat
  BY ResellerAssumptions DEF BInv, IInv, TypeOK
<1>1. ASSUME NEW c \in Clients, NEW n \in Sizes, createClient(p, c, n) PROVE BInv'
  <2>1. PICK l : l = [Idle EXCEPT !.op = "create", !.pc = "assertQuota", !.acct = Owner[c],
               !.client = c, !.size = n, !.quota = quota[Owner[c]], !.amount = -(n * PerGB)]
    OBVIOUS
  <2>2. /\ l.op = "create" /\ l.pc = "assertQuota" /\ l.client = c /\ l.size = n
        /\ l.amount = -(n * PerGB)
    BY <2>1 DEF Idle
  <2>3. Start(p, l)
    BY <1>1, <2>1 DEF createClient
  <2>4. n * PerGB \in Nat
    BY <1>0, Products
  <2>5. charged[c] - l.amount >= n * PerGB
    BY <1>0, <2>2, <2>4
  <2>6. StillTrue(l) /\ \A d \in Clients : ~Paying(l, d)
    BY <2>2 DEF StillTrue, Paying
  <2> QED BY <2>2, <2>3, <2>5, <2>6, RunStart
<1>2. ASSUME NEW c \in Clients, NEW n \in Sizes, updateClient(p, c, n) PROVE BInv'
  <2>1. PICK added : added = IF n > limit[c] THEN -((n - limit[c]) * PerGB) ELSE 0
    OBVIOUS
  <2>2. PICK l : l = [Idle EXCEPT !.op = "update", !.pc = "assertQuota", !.acct = Owner[c],
               !.client = c, !.size = n, !.quota = quota[Owner[c]], !.amount = added]
    OBVIOUS
  <2>3. /\ l.op = "update" /\ l.pc = "assertQuota" /\ l.client = c /\ l.size = n
        /\ l.amount = added
    BY <2>2 DEF Idle
  <2>4. Start(p, l) /\ limit[c] > 0
    BY <1>2, <2>1, <2>2 DEF updateClient, Live
  <2>5. ASSUME charged[c] >= limit[c] * PerGB PROVE charged[c] - added >= n * PerGB
    <3>1. n \in Nat /\ n * PerGB \in Nat /\ limit[c] * PerGB \in Nat
      BY <1>0, Products
    <3>2. CASE n > limit[c]
      <4>1. added = -(n * PerGB - limit[c] * PerGB)
        BY <1>0, <2>1, <3>1, <3>2, Products
      <4> QED BY <1>0, <2>5, <3>1, <4>1
    <3>3. CASE ~(n > limit[c])
      <4>1. added = 0 /\ n <= limit[c]
        BY <1>0, <2>1, <3>1, <3>3
      <4>2. n * PerGB <= limit[c] * PerGB
        BY <1>0, <3>1, <4>1, Products
      <4> QED BY <1>0, <2>5, <3>1, <4>1, <4>2
    <3> QED BY <3>2, <3>3
  <2>6. PaidUp(Idle) => charged[c] >= limit[c] * PerGB
    <3>1. Idle.op = "none"
      BY DEF Idle
    <3> QED BY <2>4, <3>1 DEF PaidUp, Paying, Sale
  <2>7. StillTrue(l) /\ \A d \in Clients : ~Paying(l, d)
    BY <2>3 DEF StillTrue, Paying
  <2> QED BY <2>3, <2>4, <2>5, <2>6, <2>7, RunStart
<1>3. ASSUME NEW c \in Clients, NEW g \in Gross, deleteClientWithRefund(p, c, g) PROVE BInv'
  <2>1. PICK l : l = [Idle EXCEPT !.op = "delete", !.pc = "clientDelete", !.acct = Owner[c],
               !.client = c, !.amount = quoteRefund(c, g)]
    OBVIOUS
  <2>2. l.op = "delete" /\ l.pc = "clientDelete"
    BY <2>1 DEF Idle
  <2>3. Start(p, l)
    BY <1>3, <2>1 DEF deleteClientWithRefund
  <2>4. StillTrue(l) /\ ~Sale(l) /\ \A d \in Clients : ~Paying(l, d)
    BY <2>2 DEF StillTrue, Paying, Sale
  <2> QED BY <2>2, <2>3, <2>4, RunStart
<1>4. ASSUME NEW a \in Accounts, buyResellerPlan(p, a) PROVE BInv'
  <2>1. PICK l : l = [Idle EXCEPT !.op = "plan", !.pc = "chargeRead", !.acct = a,
            !.quota = quota[a], !.amount = -PlanPrice]
    OBVIOUS
  <2>2. l.op = "plan" /\ l.pc = "chargeRead" /\ l.acct = a /\ l.quota = quota[a]
    BY <2>1 DEF Idle
  <2>3. Start(p, l)
    BY <1>4, <2>1 DEF buyResellerPlan
  <2>4. StillTrue(l) /\ ~Sale(l) /\ \A d \in Clients : ~Paying(l, d)
    BY <2>2 DEF StillTrue, Paying, Sale
  <2> QED BY <2>2, <2>3, <2>4, RunStart
<1>5. ASSUME NEW a \in Accounts, NEW n \in Adjustments, adjustCredit(p, a, n) PROVE BInv'
  <2>1. PICK l : l = [Idle EXCEPT !.op = "adjust", !.pc = "chargeRead", !.acct = a, !.amount = n]
    OBVIOUS
  <2>2. l.op = "adjust" /\ l.pc = "chargeRead"
    BY <2>1 DEF Idle
  <2>3. Start(p, l)
    BY <1>5, <2>1 DEF adjustCredit
  <2>4. StillTrue(l) /\ ~Sale(l) /\ \A d \in Clients : ~Paying(l, d)
    BY <2>2 DEF StillTrue, Paying, Sale
  <2> QED BY <2>2, <2>3, <2>4, RunStart
<1> QED BY <1>1, <1>2, <1>3, <1>4, <1>5

\* The plan's traffic is added to the quota read before the charge: the same.
LEMMA RunPlan ==
  ASSUME BInv, IInv', NEW p \in Procs, planWrite(p)
  PROVE  BInv'
<1>1. /\ loc[p].pc = "planWrite" /\ UNCHANGED <<credit, ledger, clientVars, totalVars, faults>>
      /\ quota' = [quota EXCEPT ![loc[p].acct] = loc[p].quota + PlanGB]
      /\ loc' = [loc EXCEPT ![p] = Idle]
  BY DEF planWrite, At, Return
<1>2. IInv /\ Alone(p) /\ RunningOK(loc[p])
  BY <1>1, RunningHandler
<1>3. loc[p].op = "plan" /\ loc[p].acct \in Accounts
  BY <1>1, <1>2, HandlerTypes DEF HandlerOK
<1>4. loc[p].quota = quota[loc[p].acct] /\ quota \in [Accounts -> Int] /\ PlanGB \in Nat
  BY <1>2, <1>3, ResellerAssumptions DEF RunningOK, StillTrue, IInv, TypeOK
<1>5. Idle.pc = "idle" /\ Idle.op = "none"
  BY DEF Idle
<1>6. RowsAddUp'
  BY <1>1 DEF BInv, RowsAddUp
<1>7. StillTrue(Idle)'
  BY <1>5 DEF StillTrue, Sale
<1>8. ASSUME faults = 0 PROVE PaidUp(Idle)' /\ PlansUp(Idle)'
  <2>1. PaidUp(loc[p]) /\ PlansUp(loc[p])
    BY <1>2, <1>8 DEF RunningOK
  <2>2. \A c \in Clients : limit[c] > 0 => charged[c] >= limit[c] * PerGB
    BY <1>1, <1>3, <2>1 DEF PaidUp, Paying, Sale
  <2>3. PaidUp(Idle)'
    BY <1>1, <1>5, <2>2 DEF PaidUp, Paying, Sale, clientVars, totalVars
  <2>4. ASSUME NEW a \in Accounts
        PROVE  quota'[a] = OpeningQuota + PlanGB * Cardinality(PlanRows(a))
    <3>1. quota[a] + Due(loc[p], a) = OpeningQuota + PlanGB * Cardinality(PlanRows(a))
      BY <2>1 DEF PlansUp
    <3>2. CASE a = loc[p].acct
      <4>1. quota'[a] = quota[a] + PlanGB /\ Due(loc[p], a) = PlanGB
        BY <1>1, <1>3, <1>4, <3>2 DEF Due
      <4> QED BY <3>1, <4>1
    <3>3. CASE a # loc[p].acct
      <4>1. quota'[a] = quota[a] /\ Due(loc[p], a) = 0 /\ quota[a] \in Int
        BY <1>1, <1>3, <1>4, <3>3 DEF Due
      <4> QED BY <3>1, <4>1
    <3> QED BY <3>2, <3>3
  <2>5. \A a \in Accounts : PlanRows(a)' = PlanRows(a)
    BY <1>1 DEF PlanRows, RowsFor
  <2>6. PlansUp(Idle)'
    <3>1. \A a \in Accounts : quota'[a] + 0 = quota'[a]
      BY DEF IInv, TypeOK
    <3> QED BY <1>5, <2>4, <2>5, <3>1 DEF PlansUp, Due
  <2> QED BY <2>3, <2>6
<1>9. RunningOK(Idle)'
  BY <1>1, <1>7, <1>8 DEF RunningOK
<1> QED BY <1>1, <1>2, <1>6, <1>9, RunStep

\* The client's row is written: from here on its price is owed, or there is none.
LEMMA RunWrite ==
  ASSUME BInv, IInv', NEW p \in Procs, clientWrite(p)
  PROVE  BInv'
<1>1. loc[p].pc = "clientWrite" /\ UNCHANGED <<accountVars, deleted, totalVars, faults>>
  BY DEF clientWrite, At
<1>2. IInv /\ Alone(p) /\ RunningOK(loc[p]) /\ loc[p] \in Locals
  BY <1>1, RunningHandler
<1>3. /\ loc[p].op \in {"create", "update"} /\ loc[p].client \in Clients /\ loc[p].acct \in Accounts
      /\ loc[p].size \in Nat /\ loc[p].amount \in Int /\ loc[p].amount <= 0
  BY <1>1, <1>2, HandlerTypes DEF HandlerOK, Purchase
<1>4. (\A c \in Clients : ~Paying(loc[p], c)) /\ (\A a \in Accounts : Due(loc[p], a) = 0)
  BY <1>1 DEF Paying, Due
<1>5. Idle.pc = "idle" /\ Idle.op = "none"
  BY DEF Idle
<1>6. CASE loc[p].client \in deleted
  <2>1. RunningOK(Idle) /\ loc' = [loc EXCEPT ![p] = Idle] /\ UNCHANGED clientVars
    BY <1>1, <1>2, <1>4, <1>6, RunningIdle DEF clientWrite, Return, clientVars
  <2> QED BY <1>1, <1>2, <1>5, <2>1, RunQuiet DEF RunningOK
<1>7. CASE loc[p].client \notin deleted
  <2>1. limit' = [limit EXCEPT ![loc[p].client] = loc[p].size]
    BY <1>7 DEF clientWrite
  <2>2. limit \in [Clients -> Nat] /\ charged \in [Clients -> Nat]
    BY <1>2 DEF IInv, TypeOK
  <2>3. /\ limit'[loc[p].client] = loc[p].size
        /\ \A c \in Clients : c # loc[p].client => limit'[c] = limit[c]
    BY <1>3, <2>1, <2>2
  <2>4. UNCHANGED <<credit, ledger, quota, charged, refunded>>
    BY <1>1 DEF accountVars, totalVars
  <2>5. RowsAddUp' /\ \A a \in Accounts : PlanRows(a)' = PlanRows(a)
    BY <2>4 DEF BInv, RowsAddUp, PlanRows, RowsFor
  <2>6. ASSUME faults = 0
        PROVE  /\ charged[loc[p].client] - loc[p].amount >= loc[p].size * PerGB
               /\ \A c \in Clients : limit[c] > 0 => charged[c] >= limit[c] * PerGB
               /\ PlansUp(loc[p])
    BY <1>2, <1>3, <1>4, <2>6 DEF RunningOK, PaidUp, Sale
  <2>7. CASE loc[p].amount = 0
    <3>1. loc' = [loc EXCEPT ![p] = Idle]
      BY <1>7, <2>7 DEF clientWrite, Return
    <3>2. StillTrue(Idle)'
      BY <1>5 DEF StillTrue, Sale
    <3>3. ASSUME faults = 0 PROVE PaidUp(Idle)' /\ PlansUp(Idle)'
      <4>1. charged[loc[p].client] >= loc[p].size * PerGB
        BY <1>3, <2>2, <2>6, <2>7, <3>3
      <4>2. \A c \in Clients : limit'[c] > 0 => charged[c] >= limit'[c] * PerGB
        BY <2>3, <2>6, <3>3, <4>1
      <4>3. PaidUp(Idle)'
        BY <1>5, <2>4, <4>2 DEF PaidUp, Paying, Sale
      <4>4. PlansUp(Idle)'
        BY <1>4, <1>5, <2>4, <2>5, <2>6, <3>3 DEF PlansUp, Due
      <4> QED BY <4>3, <4>4
    <3>4. RunningOK(Idle)'
      BY <1>1, <3>2, <3>3 DEF RunningOK
    <3> QED BY <1>2, <2>5, <3>1, <3>4, RunStep
  <2>8. CASE loc[p].amount # 0
    <3>1. PICK l : l = [loc[p] EXCEPT !.pc = "chargeRead"]
      OBVIOUS
    <3>2. /\ l.pc = "chargeRead" /\ l.op = loc[p].op /\ l.client = loc[p].client
          /\ l.size = loc[p].size /\ l.amount = loc[p].amount /\ l.acct = loc[p].acct
      BY <1>2, <3>1 DEF Locals
    <3>3. loc' = [loc EXCEPT ![p] = l]
      BY <1>7, <2>8, <3>1 DEF clientWrite, Goto
    <3>4. StillTrue(l)'
      BY <1>1, <1>2, <1>3, <2>4, <3>2 DEF RunningOK, StillTrue, Sale
    <3>5. ASSUME faults = 0 PROVE PaidUp(l)' /\ PlansUp(l)'
      <4>1. \A c \in Clients : Paying(l, c) <=> c = loc[p].client
        BY <1>3, <3>2 DEF Paying, Sale
      <4>2. \A c \in Clients : Paying(l, c)' <=> c = loc[p].client
        BY <4>1 DEF Paying, Sale
      <4>3. (Sale(l) => charged[l.client] - l.amount >= l.size * PerGB)'
        BY <2>4, <2>6, <3>2, <3>5
      <4>4. \A c \in Clients : limit'[c] > 0 => c = loc[p].client \/ charged'[c] >= limit'[c] * PerGB
        BY <2>3, <2>4, <2>6, <3>5
      <4>5. PaidUp(l)'
        BY <2>3, <3>2, <4>2, <4>3, <4>4 DEF PaidUp
      <4>6. PlansUp(l)'
        BY <1>1, <2>4, <2>5, <2>6, <3>2, <3>5 DEF PlansUp, Due
      <4> QED BY <4>5, <4>6
    <3>6. RunningOK(l)'
      BY <1>1, <3>4, <3>5 DEF RunningOK
    <3> QED BY <1>2, <2>5, <3>2, <3>3, <3>6, RunStep
  <2> QED BY <2>7, <2>8
<1> QED BY <1>6, <1>7

\* A deleted client owes nothing.
LEMMA RunDelete ==
  ASSUME BInv, IInv', NEW p \in Procs, clientDelete(p)
  PROVE  BInv'
<1>1. loc[p].pc = "clientDelete" /\ UNCHANGED <<accountVars, totalVars, faults>>
  BY DEF clientDelete, At
<1>2. IInv /\ Alone(p) /\ RunningOK(loc[p]) /\ loc[p] \in Locals
  BY <1>1, RunningHandler
<1>3. loc[p].op = "delete" /\ loc[p].client \in Clients
  BY <1>1, <1>2, HandlerTypes DEF HandlerOK
<1>4. (\A c \in Clients : ~Paying(loc[p], c)) /\ (\A a \in Accounts : Due(loc[p], a) = 0)
  BY <1>1 DEF Paying, Due
<1>5. CASE loc[p].client \in deleted
  <2>1. RunningOK(Idle) /\ loc' = [loc EXCEPT ![p] = Idle] /\ UNCHANGED clientVars
    BY <1>1, <1>2, <1>4, <1>5, RunningIdle DEF clientDelete, Return
  <2> QED BY <1>1, <1>2, <2>1, RunQuiet DEF RunningOK
<1>6. CASE loc[p].client \notin deleted
  <2>1. limit' = [limit EXCEPT ![loc[p].client] = 0] /\ limit \in [Clients -> Nat]
    BY <1>2, <1>6 DEF clientDelete, IInv, TypeOK
  <2>2. limit'[loc[p].client] = 0 /\ \A c \in Clients : c # loc[p].client => limit'[c] = limit[c]
    BY <1>3, <2>1
  <2>3. UNCHANGED <<credit, ledger, quota, charged, refunded>>
    BY <1>1 DEF accountVars, totalVars
  <2>4. RowsAddUp' /\ \A a \in Accounts : PlanRows(a)' = PlanRows(a)
    BY <2>3 DEF BInv, RowsAddUp, PlanRows, RowsFor
  <2>5. ASSUME NEW l, loc' = [loc EXCEPT ![p] = l], ~Sale(l), l.op # "plan",
               l.pc \notin {"chargeCommit", "planWrite"}, l.pc = "idle" => l = Idle
        PROVE  BInv'
    <3>1. StillTrue(l)'
      BY <2>5 DEF StillTrue, Sale
    <3>2. ASSUME faults = 0 PROVE PaidUp(l)' /\ PlansUp(l)'
      <4>1. \A c \in Clients : limit[c] > 0 => charged[c] >= limit[c] * PerGB
        BY <1>2, <1>4, <3>2 DEF RunningOK, PaidUp
      <4>2. \A c \in Clients : limit'[c] > 0 => charged'[c] >= limit'[c] * PerGB
        BY <2>2, <2>3, <4>1
      <4>3. PaidUp(l)'
        BY <2>5, <4>2 DEF PaidUp, Paying, Sale
      <4>4. PlansUp(l)'
        BY <1>2, <1>4, <2>3, <2>4, <2>5, <3>2 DEF RunningOK, PlansUp, Due
      <4> QED BY <4>3, <4>4
    <3>3. RunningOK(l)'
      BY <1>1, <3>1, <3>2 DEF RunningOK
    <3> QED BY <1>2, <2>4, <2>5, <3>3, RunStep
  <2>6. CASE Return(p)
    <3>1. loc' = [loc EXCEPT ![p] = Idle]
      BY <2>6 DEF Return
    <3>2. Idle.pc = "idle" /\ Idle.op = "none" /\ ~Sale(Idle)
      BY DEF Idle, Sale
    <3> QED BY <2>5, <3>1, <3>2
  <2>7. CASE Goto(p, "chargeRead")
    <3>1. PICK l : l = [loc[p] EXCEPT !.pc = "chargeRead"]
      OBVIOUS
    <3>2. l.pc = "chargeRead" /\ l.op = "delete" /\ ~Sale(l)
      BY <1>2, <1>3, <3>1 DEF Locals, Sale
    <3>3. loc' = [loc EXCEPT ![p] = l]
      BY <2>7, <3>1 DEF Goto
    <3> QED BY <2>5, <3>2, <3>3
  <2> QED BY <1>6, <2>6, <2>7 DEF clientDelete
<1> QED BY <1>5, <1>6

\* One posted row: it continues from the balance, and is the only row that is new.
LEMMA PostedBooks ==
  ASSUME LedgerTypeOK, CreditIsLastBalance, RowsAddUp,
         NEW a \in Accounts, NEW amount \in Int, NEW ref \in Refs,
         Post(a, credit[a] + amount, amount, ref)
  PROVE  /\ RowsAddUp'
         /\ Cardinality(RowsFor(a, ref)') = Cardinality(RowsFor(a, ref)) + 1
         /\ \A b \in Accounts, r \in Refs : b # a \/ r # ref => RowsFor(b, r)' = RowsFor(b, r)
<1> DEFINE balance == credit[a] + amount
           row == [ref |-> ref, amount |-> amount, balanceAfter |-> balance]
           rows == ledger[a]
           n == Len(ledger[a])
<1>1. credit[a] \in Int /\ balance \in Int
  BY DEF LedgerTypeOK
<1>2. row \in Rows /\ row.ref = ref /\ row.amount = amount /\ row.balanceAfter = balance
  BY <1>1 DEF Rows
<1>3. ledger \in [Accounts -> Seq(Rows)] /\ ledger' = [ledger EXCEPT ![a] = Append(rows, row)]
  BY DEF Post, LedgerTypeOK
<1> HIDE DEF row, balance
<1>4. /\ \A b \in Accounts \ {a} : ledger'[b] = ledger[b]
      /\ ledger'[a] = Append(rows, row) /\ rows \in Seq(Rows)
  BY <1>3
<1>5. /\ n \in Nat /\ DOMAIN rows = 1 .. n /\ DOMAIN ledger'[a] = 1 .. n + 1
      /\ Len(ledger'[a]) = n + 1 /\ ledger'[a][n + 1] = row
      /\ \A k \in 1 .. n : ledger'[a][k] = rows[k]
  BY <1>2, <1>4
<1>6. credit[a] = BalanceBefore(rows, n + 1)
  BY DEF CreditIsLastBalance
<1>7. /\ \A k \in 1 .. n : rows[k].balanceAfter = BalanceBefore(rows, k) + rows[k].amount
      /\ \A b \in Accounts : \A k \in 1 .. Len(ledger[b]) :
           ledger[b][k].balanceAfter = BalanceBefore(ledger[b], k) + ledger[b][k].amount
  BY DEF RowsAddUp
<1> HIDE DEF n, rows
<1>8. n + 1 \in Nat /\ n + 1 \notin 1 .. n /\ (\A k : k \in 1 .. n + 1 <=> k \in 1 .. n \/ k = n + 1)
  BY <1>5
<1>9. RowsAddUp'
  <2> SUFFICES ASSUME NEW b \in Accounts, NEW k \in 1 .. Len(ledger'[b])
               PROVE  ledger'[b][k].balanceAfter = BalanceBefore(ledger'[b], k) + ledger'[b][k].amount
    BY DEF RowsAddUp
  <2>1. CASE b # a
    BY <1>4, <1>7, <2>1
  <2>2. CASE b = a
    <3>1. k \in 1 .. n + 1
      BY <1>5, <2>2
    <3>2. BalanceBefore(ledger'[a], k) = BalanceBefore(rows, k)
      <4>1. k # 1 => k - 1 \in 1 .. n
        BY <1>5, <3>1
      <4> QED BY <1>5, <4>1 DEF BalanceBefore
    <3>3. CASE k \in 1 .. n
      BY <1>5, <1>7, <2>2, <3>2, <3>3
    <3>4. CASE k = n + 1
      BY <1>2, <1>5, <1>6, <2>2, <3>2, <3>4 DEF balance
    <3> QED BY <1>8, <3>1, <3>3, <3>4
  <2> QED BY <2>1, <2>2
<1>10. /\ \A b, r : RowsFor(b, r) = {k \in DOMAIN ledger[b] : ledger[b][k].ref = r}
       /\ \A b, r : RowsFor(b, r)' = {k \in DOMAIN ledger'[b] : ledger'[b][k].ref = r}
  BY DEF RowsFor
<1>11. \A r, k : k \in RowsFor(a, r)' <=> k \in RowsFor(a, r) \/ (k = n + 1 /\ r = ref)
  <2>1. \A r, k : k \in RowsFor(a, r)' <=> k \in 1 .. n + 1 /\ ledger'[a][k].ref = r
    BY <1>5 DEF RowsFor
  <2>2. \A r, k : k \in RowsFor(a, r) <=> k \in 1 .. n /\ rows[k].ref = r
    BY <1>5 DEF RowsFor, rows
  <2> QED BY <1>2, <1>5, <1>8, <2>1, <2>2
<1>12. Cardinality(RowsFor(a, ref)') = Cardinality(RowsFor(a, ref)) + 1
  <2>1. RowsFor(a, ref) \subseteq 1 .. n /\ n + 1 \notin RowsFor(a, ref)
    BY <1>5, <1>8 DEF RowsFor, rows
  <2>2. IsFiniteSet(RowsFor(a, ref))
    <3>1. IsFiniteSet(1 .. n)
      BY <1>5, FS_Interval
    <3> QED BY <2>1, <3>1, FS_Subset
  <2>3. RowsFor(a, ref)' = RowsFor(a, ref) \union {n + 1}
    BY <1>11
  <2> QED BY <2>1, <2>2, <2>3, FS_AddElement
<1>13. ASSUME NEW b \in Accounts, NEW r \in Refs, b # a \/ r # ref
       PROVE  RowsFor(b, r)' = RowsFor(b, r)
  <2>1. CASE b # a
    BY <1>4, <1>10, <2>1
  <2>2. CASE b = a
    <3>1. r # ref /\ \A k : k \in RowsFor(a, r)' <=> k \in RowsFor(a, r)
      BY <1>11, <1>13, <2>2
    <3> QED BY <1>10, <2>2, <3>1
  <2> QED BY <2>1, <2>2
<1> QED BY <1>9, <1>12, <1>13

\* The charge that settles what the handler owes.
LEMMA RunCommit ==
  ASSUME BInv, IInv', NEW p \in Procs, chargeCommit(p)
  PROVE  BInv'
<1>1. /\ loc[p].pc = "chargeCommit" /\ UNCHANGED <<quota, limit, deleted, faults>>
      /\ Post(loc[p].acct, loc[p].next, loc[p].amount, Ref(loc[p]))
      /\ charged' = [c \in Clients |-> IF c = loc[p].client /\ Purchase(loc[p])
                                       THEN charged[c] - loc[p].amount ELSE charged[c]]
  BY DEF chargeCommit, At, clientVars
<1>2. IInv /\ Alone(p) /\ RunningOK(loc[p]) /\ loc[p] \in Locals
  BY <1>1, RunningHandler
<1>3. /\ loc[p].acct \in Accounts /\ loc[p].amount \in Int /\ HandlerOK(loc[p])
      /\ loc[p].op \in Ops /\ loc[p].client \in Clients \union {NoClient}
  BY <1>1, <1>2, HandlerTypes DEF HandlerOK
<1>4. loc[p].next = credit[loc[p].acct] + loc[p].amount
  BY <1>1, <1>2 DEF RunningOK, StillTrue
<1>5. Ref(loc[p]) \in Refs /\ <<"PURCHASE", NoClient>> \in Refs
  BY <1>3, ResellerAssumptions DEF Ref, Purchase
<1>6. Ref(loc[p]) = <<"PURCHASE", NoClient>> <=> loc[p].op = "plan"
  <2>1. CASE loc[p].op \in {"create", "update"}
    BY <1>3, <2>1, ResellerAssumptions DEF HandlerOK, Ref, Purchase
  <2>2. CASE loc[p].op = "plan"
    BY <1>3, <2>2 DEF HandlerOK, Ref, Purchase
  <2>3. CASE loc[p].op \notin {"create", "update", "plan"}
    BY <1>3, <2>3 DEF Ref, Purchase
  <2> QED BY <2>1, <2>2, <2>3
<1>7. PICK a \in Accounts, n \in Int, ref \in Refs : a = loc[p].acct /\ n = loc[p].amount /\ ref = Ref(loc[p])
  BY <1>3, <1>5
<1>8. Post(a, credit[a] + n, n, ref)
  BY <1>1, <1>4, <1>7
<1>9. LedgerTypeOK /\ CreditIsLastBalance /\ RowsAddUp
  BY DEF BInv, IInv, TypeOK
<1>10. /\ RowsAddUp'
       /\ Cardinality(RowsFor(a, ref)') = Cardinality(RowsFor(a, ref)) + 1
       /\ \A b \in Accounts, r \in Refs : b # a \/ r # ref => RowsFor(b, r)' = RowsFor(b, r)
  BY <1>8, <1>9, PostedBooks
<1>11. /\ charged \in [Clients -> Nat] /\ limit \in [Clients -> Nat] /\ quota \in [Accounts -> Int]
       /\ PlanGB \in Nat /\ OpeningQuota \in Nat
  BY <1>2, ResellerAssumptions DEF IInv, TypeOK
<1>12. CASE loc[p].op = "plan"
  <2>1. PICK l : l = [loc[p] EXCEPT !.pc = "planWrite"]
    OBVIOUS
  <2>2. l.pc = "planWrite" /\ l.op = "plan" /\ l.acct = a /\ l.quota = loc[p].quota
    BY <1>2, <1>7, <1>12, <2>1 DEF Locals
  <2>3. loc' = [loc EXCEPT ![p] = l]
    BY <1>12, <2>1 DEF chargeCommit, Goto
  <2>4. StillTrue(l)'
    BY <1>1, <1>2, <1>7, <1>12, <2>2 DEF RunningOK, StillTrue, Sale
  <2>5. \A c \in Clients : charged'[c] = charged[c]
    BY <1>1, <1>3, <1>11, <1>12, ResellerAssumptions DEF HandlerOK
  <2>6. ASSUME faults = 0 PROVE PaidUp(l)' /\ PlansUp(l)'
    <3>1. PaidUp(loc[p]) /\ PlansUp(loc[p])
      BY <1>2, <2>6 DEF RunningOK
    <3>2. \A c \in Clients : limit[c] > 0 => charged[c] >= limit[c] * PerGB
      BY <1>12, <3>1 DEF PaidUp, Paying, Sale
    <3>3. \A c \in Clients : limit'[c] > 0 => charged'[c] >= limit'[c] * PerGB
      BY <1>1, <2>5, <3>2
    <3>4. PaidUp(l)'
      BY <2>2, <3>3 DEF PaidUp, Paying, Sale
    <3>5. ASSUME NEW b \in Accounts
          PROVE  quota'[b] + Due(l, b)' = OpeningQuota + PlanGB * Cardinality(PlanRows(b)')
      <4>1. quota[b] = OpeningQuota + PlanGB * Cardinality(PlanRows(b))
        <5>1. Due(loc[p], b) = 0 /\ quota[b] \in Int
          BY <1>1, <1>11 DEF Due
        <5>2. quota[b] + Due(loc[p], b) = OpeningQuota + PlanGB * Cardinality(PlanRows(b))
          BY <3>1 DEF PlansUp
        <5> QED BY <5>1, <5>2
      <4>2. CASE b = a
        <5>1. Cardinality(PlanRows(b)') = Cardinality(PlanRows(b)) + 1
          BY <1>6, <1>7, <1>10, <1>12, <4>2 DEF PlanRows
        <5>2. Cardinality(PlanRows(b)) \in Nat
          <6>1. DOMAIN ledger[b] = 1 .. Len(ledger[b]) /\ Len(ledger[b]) \in Nat
            BY <1>9 DEF LedgerTypeOK
          <6>2. PlanRows(b) \subseteq 1 .. Len(ledger[b])
            BY <6>1 DEF PlanRows, RowsFor
          <6>3. IsFiniteSet(1 .. Len(ledger[b]))
            BY <6>1, FS_Interval
          <6>4. IsFiniteSet(PlanRows(b))
            BY <6>2, <6>3, FS_Subset
          <6> QED BY <6>4, FS_CardinalityType
        <5>3. PlanGB * (Cardinality(PlanRows(b)) + 1) = PlanGB * Cardinality(PlanRows(b)) + PlanGB
          BY <1>11, <5>2, Products
        <5>4. Due(l, b)' = PlanGB
          BY <2>2, <4>2 DEF Due
        <5>5. PlanGB * Cardinality(PlanRows(b)) \in Nat
          BY <1>11, <5>2
        <5> QED BY <1>1, <1>11, <4>1, <5>1, <5>3, <5>4, <5>5
      <4>3. CASE b # a
        <5>1. PlanRows(b)' = PlanRows(b)
          BY <1>5, <1>10, <4>3 DEF PlanRows
        <5>2. Due(l, b)' = 0 /\ quota[b] \in Int
          BY <1>11, <2>2, <4>3 DEF Due
        <5> QED BY <1>1, <4>1, <5>1, <5>2
      <4> QED BY <4>2, <4>3
    <3>6. PlansUp(l)'
      BY <3>5 DEF PlansUp
    <3> QED BY <3>4, <3>6
  <2>7. RunningOK(l)'
    BY <1>1, <2>4, <2>6 DEF RunningOK
  <2> QED BY <1>2, <1>10, <2>2, <2>3, <2>7, RunStep
<1>13. CASE loc[p].op # "plan"
  <2>1. loc' = [loc EXCEPT ![p] = Idle]
    BY <1>13 DEF chargeCommit, Return
  <2>2. Idle.pc = "idle" /\ Idle.op = "none"
    BY DEF Idle
  <2>3. StillTrue(Idle)'
    BY <2>2 DEF StillTrue, Sale
  <2>4. \A b \in Accounts : PlanRows(b)' = PlanRows(b)
    BY <1>5, <1>6, <1>7, <1>10, <1>13 DEF PlanRows
  <2>5. ASSUME faults = 0 PROVE PaidUp(Idle)' /\ PlansUp(Idle)'
    <3>1. PaidUp(loc[p]) /\ PlansUp(loc[p])
      BY <1>2, <2>5 DEF RunningOK
    <3>2. ASSUME NEW c \in Clients, limit[c] > 0 PROVE charged'[c] >= limit[c] * PerGB
      <4>1. CASE Paying(loc[p], c)
        <5>1. /\ charged[c] - loc[p].amount >= loc[p].size * PerGB /\ limit[c] = loc[p].size
              /\ c = loc[p].client /\ Purchase(loc[p])
          BY <3>1, <4>1 DEF PaidUp, Paying, Sale, Purchase
        <5>2. charged'[c] = charged[c] - loc[p].amount
          BY <1>1, <5>1
        <5> QED BY <5>1, <5>2
      <4>2. CASE ~Paying(loc[p], c)
        <5>1. charged[c] >= limit[c] * PerGB
          BY <3>1, <3>2, <4>2 DEF PaidUp
        <5>2. charged'[c] = charged[c]
          BY <1>1, <1>13, <4>2 DEF Paying, Sale, Purchase
        <5> QED BY <5>1, <5>2
      <4> QED BY <4>1, <4>2
    <3>3. PaidUp(Idle)'
      BY <1>1, <2>2, <3>2 DEF PaidUp, Paying, Sale
    <3>4. PlansUp(Idle)'
      BY <1>1, <2>2, <2>4, <3>1 DEF PlansUp, Due
    <3> QED BY <3>3, <3>4
  <2>6. RunningOK(Idle)'
    BY <1>1, <2>3, <2>5 DEF RunningOK
  <2> QED BY <1>2, <1>10, <2>1, <2>6, RunStep
<1> QED BY <1>12, <1>13

\* Before the first request the books are empty.
LEMMA BooksOpen == Init => BInv
<1> SUFFICES ASSUME Init PROVE BInv
  OBVIOUS
<1>1. IInv
  BY Initially
<1>2. \A p \in Procs : loc[p] = Idle
  BY DEF Init
<1>3. Idle.pc = "idle" /\ Idle.op = "none"
  BY DEF Idle
<1>4. OneActive /\ IdleForgets /\ Running = Idle
  BY <1>2, <1>3 DEF OneActive, IdleForgets, Running
<1>5. \A a \in Accounts : ledger[a] = << >> /\ quota[a] = OpeningQuota
  BY DEF Init, LedgerInit
<1>6. RowsAddUp
  BY <1>5 DEF RowsAddUp
<1>7. StillTrue(Idle)
  BY <1>3 DEF StillTrue, Sale
<1>8. PaidUp(Idle)
  BY <1>3 DEF PaidUp, Paying, Sale, Init
<1>9. PlansUp(Idle)
  <2> SUFFICES ASSUME NEW a \in Accounts
               PROVE  quota[a] + Due(Idle, a) = OpeningQuota + PlanGB * Cardinality(PlanRows(a))
    BY DEF PlansUp
  <2>1. PlanRows(a) = {}
    BY <1>5 DEF PlanRows, RowsFor
  <2>2. Cardinality(PlanRows(a)) = 0
    BY <2>1, FS_EmptySet
  <2>3. Due(Idle, a) = 0 /\ PlanGB \in Nat /\ OpeningQuota \in Nat
    BY <1>3, ResellerAssumptions DEF Due
  <2> QED BY <1>5, <2>2, <2>3
<1>10. RunningOK(Running)
  BY <1>4, <1>7, <1>8, <1>9 DEF RunningOK
<1> QED BY <1>1, <1>4, <1>6, <1>10 DEF BInv

\* Every step keeps the books in order while requests follow one another.
LEMMA BooksInductive ==
  ASSUME IsFiniteSet(Procs), MaxActive = 1
  PROVE  BInv /\ [Next]_vars => BInv'
<1> SUFFICES ASSUME BInv, [Next]_vars PROVE BInv'
  OBVIOUS
<1>1. IInv'
  BY Inductive DEF BInv
<1>2. CASE UNCHANGED vars
  <2>1. UNCHANGED <<credit, ledger, quota, limit, charged, loc, faults>>
    BY <1>2 DEF vars, accountVars, clientVars, totalVars
  <2>2. OneActive' /\ IdleForgets' /\ RowsAddUp' /\ Running' = Running
    BY <2>1 DEF BInv, OneActive, IdleForgets, RowsAddUp, Running
  <2>3. PICK l : l = Running
    OBVIOUS
  <2>4. RunningOK(l)'
    <3>1. RunningOK(l)
      BY <2>3 DEF BInv
    <3>2. StillTrue(l)'
      BY <2>1, <3>1 DEF RunningOK, StillTrue
    <3>3. faults = 0 => PaidUp(l)' /\ PlansUp(l)'
      BY <2>1, <3>1 DEF RunningOK, PaidUp, PlansUp, PlanRows, RowsFor
    <3> QED BY <2>1, <3>2, <3>3 DEF RunningOK
  <2>5. RunningOK(Running)'
    BY <2>2, <2>3, <2>4 DEF RunningOK, StillTrue, PaidUp, PlansUp
  <2> QED BY <1>1, <2>2, <2>5 DEF BInv
<1>3. CASE Next
  BY <1>1, <1>3, RunStarts, RunChecks, RunWrite, RunDelete, RunPlan, RunRead, RunCommit, RunFault
  DEF Next
<1> QED BY <1>2, <1>3

(* ------------------------------ the quota -------------------------------- *)

\* The clients of account a that exist.
Owned(a) == {c \in Live : Owner[c] = a}

\* What a sale has checked is still true when it writes: the other clients of
\* the reseller and the new limit fit in the quota.
Fits(l) ==
  /\ Sale(l) => l.acct = Owner[l.client] /\ l.quota = quota[l.acct] /\ l.size > 0
  /\ l.op = "create" /\ l.pc \in {"assertQuota", "assertAffordable", "clientWrite"} =>
       limit[l.client] = 0
  /\ l.pc \in {"assertAffordable", "clientWrite"} =>
       SumOf(limit, Owned(l.acct) \ {l.client}) + l.size <= quota[l.acct]

QInv == BInv /\ QuotaNotExceeded /\ Fits(Running)

\* The quota as a sum over the clients owned.
LEMMA QuotaIs ==
  /\ QuotaNotExceeded <=> \A a \in Accounts : SumOf(limit, Owned(a)) <= quota[a]
  /\ QuotaNotExceeded' <=> \A a \in Accounts : SumOf(limit', Owned(a)') <= quota'[a]
<1>1. QuotaNotExceeded <=> \A a \in Accounts : SumOf(limit, Owned(a)) <= quota[a]
  BY DEF QuotaNotExceeded, Owned, SumOf
<1>2. QuotaNotExceeded' <=> \A a \in Accounts : SumOf(limit', Owned(a)') <= quota'[a]
  BY DEF QuotaNotExceeded, Owned, SumOf, MapThenSumSet, MapThenFoldSet
<1> QED BY <1>1, <1>2

\* There are finitely many clients to add up, and their limits are numbers.
LEMMA OwnedIs ==
  ASSUME IsFiniteSet(Clients), IInv, NEW a, NEW c
  PROVE  /\ IsFiniteSet(Owned(a)) /\ \A d \in Owned(a) : d \in Clients /\ limit[d] \in Nat
         /\ SumOf(limit, Owned(a) \ {c}) \in Nat /\ SumOf(limit, Owned(a)) \in Nat
         /\ SumOf(limit, Owned(a) \ {c}) <= SumOf(limit, Owned(a))
<1>1. Owned(a) \in SUBSET Clients
  BY DEF Owned, Live
<1>2. IsFiniteSet(Owned(a)) /\ \A d \in Owned(a) : limit[d] \in Nat
  BY <1>1, FS_Subset DEF IInv, TypeOK
<1>3. PICK S : S = Owned(a)
  OBVIOUS
<1>4. /\ SumOf(limit, S \ {c}) \in Nat /\ SumOf(limit, S) \in Nat
      /\ SumOf(limit, S \ {c}) <= SumOf(limit, S)
  BY <1>2, <1>3, SumLess
<1> QED BY <1>1, <1>2, <1>3, <1>4

\* What the step of one handler must show about the quota.
LEMMA FitStep ==
  ASSUME QInv, BInv', NEW p \in Procs, Alone(p), NEW l, loc' = [loc EXCEPT ![p] = l],
         l.pc = "idle" => l = Idle, QuotaNotExceeded', Fits(l)'
  PROVE  QInv'
<1>1. Running' = l
  BY RunNext DEF QInv
<1>2. Fits(Running)'
  BY <1>1 DEF Fits, Sale
<1> QED BY <1>2 DEF QInv

\* A step that touches neither limits nor quotas.
LEMMA FitQuiet ==
  ASSUME QInv, BInv', NEW p \in Procs, Alone(p), NEW l, loc' = [loc EXCEPT ![p] = l],
         l.pc = "idle" => l = Idle, UNCHANGED <<limit, quota>>, Fits(l)
  PROVE  QInv'
<1>1. \A a : Owned(a)' = Owned(a)
  BY DEF Owned, Live
<1>2. QuotaNotExceeded'
  BY <1>1, QuotaIs DEF QInv
<1>3. Fits(l)'
  BY <1>1 DEF Fits, Sale
<1> QED BY <1>2, <1>3, FitStep

\* A running handler and what it has checked; a handler that has returned.
LEMMA FitHandler ==
  ASSUME QInv, NEW p \in Procs, loc[p].pc # "idle"
  PROVE  BInv /\ IInv /\ Alone(p) /\ Fits(loc[p]) /\ loc[p] \in Locals
<1>1. BInv
  BY DEF QInv
<1>2. Alone(p) /\ IInv /\ loc[p] \in Locals
  BY <1>1, RunningHandler
<1>3. Running = loc[p]
  BY <1>1, <1>2, RunningIs DEF BInv
<1> QED BY <1>1, <1>2, <1>3 DEF QInv

\* An idle handler has promised no traffic.
LEMMA FitIdle == Fits(Idle) /\ Idle.pc = "idle" /\ Idle.op = "none"
  BY DEF Fits, Idle, Sale

\* Requests begin with the quota of the reseller's row.
LEMMA FitStarts ==
  ASSUME IsFiniteSet(Procs), MaxActive = 1, QInv, BInv', NEW p \in Procs
  PROVE  /\ \A c \in Clients, n \in Sizes : createClient(p, c, n) => QInv'
         /\ \A c \in Clients, n \in Sizes : updateClient(p, c, n) => QInv'
         /\ \A c \in Clients, g \in Gross : deleteClientWithRefund(p, c, g) => QInv'
         /\ \A a \in Accounts : buyResellerPlan(p, a) => QInv'
         /\ \A a \in Accounts, n \in Adjustments : adjustCredit(p, a, n) => QInv'
<1>0. ASSUME NEW l, Start(p, l), l.pc # "idle", Fits(l) PROVE QInv'
  <2>1. Alone(p)
    BY <1>0, NobodyRuns DEF Alone
  <2>2. UNCHANGED <<limit, quota>> /\ loc' = [loc EXCEPT ![p] = l]
    BY <1>0 DEF Start, accountVars, clientVars
  <2> QED BY <1>0, <2>1, <2>2, FitQuiet
<1>1. ASSUME NEW c \in Clients, NEW n \in Sizes, createClient(p, c, n) PROVE QInv'
  <2>1. PICK l : l = [Idle EXCEPT !.op = "create", !.pc = "assertQuota", !.acct = Owner[c],
               !.client = c, !.size = n, !.quota = quota[Owner[c]], !.amount = -(n * PerGB)]
    OBVIOUS
  <2>2. /\ l.op = "create" /\ l.pc = "assertQuota" /\ l.client = c /\ l.size = n
        /\ l.acct = Owner[c] /\ l.quota = quota[Owner[c]]
    BY <2>1 DEF Idle
  <2>3. Start(p, l) /\ limit[c] = 0 /\ n > 0
    BY <1>1, <2>1, ResellerAssumptions DEF createClient
  <2>4. Fits(l)
    BY <2>2, <2>3 DEF Fits
  <2> QED BY <1>0, <2>2, <2>3, <2>4
<1>2. ASSUME NEW c \in Clients, NEW n \in Sizes, updateClient(p, c, n) PROVE QInv'
  <2>1. PICK l : l = [Idle EXCEPT !.op = "update", !.pc = "assertQuota", !.acct = Owner[c],
               !.client = c, !.size = n, !.quota = quota[Owner[c]],
               !.amount = IF n > limit[c] THEN -((n - limit[c]) * PerGB) ELSE 0]
    OBVIOUS
  <2>2. /\ l.op = "update" /\ l.pc = "assertQuota" /\ l.client = c /\ l.size = n
        /\ l.acct = Owner[c] /\ l.quota = quota[Owner[c]]
    BY <2>1 DEF Idle
  <2>3. Start(p, l) /\ n > 0
    BY <1>2, <2>1, ResellerAssumptions DEF updateClient
  <2>4. Fits(l)
    BY <2>2, <2>3 DEF Fits
  <2> QED BY <1>0, <2>2, <2>3, <2>4
<1>3. ASSUME NEW c \in Clients, NEW g \in Gross, deleteClientWithRefund(p, c, g) PROVE QInv'
  <2>1. PICK l : l = [Idle EXCEPT !.op = "delete", !.pc = "clientDelete", !.acct = Owner[c],
               !.client = c, !.amount = quoteRefund(c, g)]
    OBVIOUS
  <2>2. l.op = "delete" /\ l.pc = "clientDelete"
    BY <2>1 DEF Idle
  <2>3. Start(p, l) /\ Fits(l)
    BY <1>3, <2>1, <2>2 DEF deleteClientWithRefund, Fits, Sale
  <2> QED BY <1>0, <2>2, <2>3
<1>4. ASSUME NEW a \in Accounts, buyResellerPlan(p, a) PROVE QInv'
  <2>1. PICK l : l = [Idle EXCEPT !.op = "plan", !.pc = "chargeRead", !.acct = a,
            !.quota = quota[a], !.amount = -PlanPrice]
    OBVIOUS
  <2>2. l.op = "plan" /\ l.pc = "chargeRead"
    BY <2>1 DEF Idle
  <2>3. Start(p, l) /\ Fits(l)
    BY <1>4, <2>1, <2>2 DEF buyResellerPlan, Fits, Sale
  <2> QED BY <1>0, <2>2, <2>3
<1>5. ASSUME NEW a \in Accounts, NEW n \in Adjustments, adjustCredit(p, a, n) PROVE QInv'
  <2>1. PICK l : l = [Idle EXCEPT !.op = "adjust", !.pc = "chargeRead", !.acct = a, !.amount = n]
    OBVIOUS
  <2>2. l.op = "adjust" /\ l.pc = "chargeRead"
    BY <2>1 DEF Idle
  <2>3. Start(p, l) /\ Fits(l)
    BY <1>5, <2>1, <2>2 DEF adjustCredit, Fits, Sale
  <2> QED BY <1>0, <2>2, <2>3
<1> QED BY <1>1, <1>2, <1>3, <1>4, <1>5

\* assertQuota adds up the other clients; later reads leave the sum alone.
LEMMA FitChecks ==
  ASSUME IsFiniteSet(Clients), QInv, BInv', NEW p \in Procs,
         assertQuota(p) \/ assertAffordable(p)
  PROVE  QInv'
<1>1. /\ UNCHANGED <<limit, quota>>
      /\ loc[p].pc \in {"assertQuota", "assertAffordable"}
  BY DEF assertQuota, assertAffordable, At, accountVars, clientVars
<1>2. IInv /\ Alone(p) /\ Fits(loc[p]) /\ loc[p] \in Locals /\ BInv
  BY <1>1, FitHandler
<1>3. CASE Return(p)
  <2>1. loc' = [loc EXCEPT ![p] = Idle]
    BY <1>3 DEF Return
  <2> QED BY <1>1, <1>2, <2>1, FitIdle, FitQuiet
<1>4. ASSUME NEW label \in {"assertAffordable", "clientWrite"}, Goto(p, label),
             SumOf(limit, Owned(loc[p].acct) \ {loc[p].client}) + loc[p].size <= quota[loc[p].acct]
      PROVE  QInv'
  <2>1. PICK l : l = [loc[p] EXCEPT !.pc = label]
    OBVIOUS
  <2>2. /\ l.pc = label /\ l.op = loc[p].op /\ l.client = loc[p].client /\ l.size = loc[p].size
        /\ l.acct = loc[p].acct /\ l.quota = loc[p].quota
    BY <1>2, <2>1 DEF Locals
  <2>3. Fits(l)
    BY <1>1, <1>2, <1>4, <2>2 DEF Fits, Sale
  <2>4. loc' = [loc EXCEPT ![p] = l]
    BY <1>4, <2>1 DEF Goto
  <2> QED BY <1>1, <1>2, <2>2, <2>3, <2>4, FitQuiet
<1>5. CASE assertQuota(p)
  <2>1. PICK others : others = {c \in Live : Owner[c] = loc[p].acct
                                             /\ (loc[p].op = "update" => c # loc[p].client)}
    OBVIOUS
  <2>2. loc[p].pc = "assertQuota" /\ loc[p].op \in {"create", "update"}
    BY <1>2, <1>5, HandlerTypes DEF assertQuota, At, HandlerOK
  <2>3. others = Owned(loc[p].acct) \ {loc[p].client}
    <3>1. loc[p].op = "create" => loc[p].client \notin Live
      BY <1>2, <2>2 DEF Fits, Live
    <3> QED BY <2>1, <2>2, <3>1 DEF Owned
  <2>4. \/ Return(p)
        \/ ~(SumOf(limit, others) + loc[p].size > loc[p].quota) /\ Goto(p, "assertAffordable")
    BY <1>5, <2>1 DEF assertQuota, SumOf
  <2>5. ASSUME ~(SumOf(limit, others) + loc[p].size > loc[p].quota)
        PROVE  SumOf(limit, others) + loc[p].size <= quota[loc[p].acct]
    <3>1. SumOf(limit, others) \in Nat /\ loc[p].size \in Nat /\ loc[p].quota \in Int
      BY <1>2, <2>3, HandlerTypes, OwnedIs
    <3>2. loc[p].quota = quota[loc[p].acct]
      BY <1>2, <2>2 DEF Fits, Sale
    <3> QED BY <2>5, <3>1, <3>2
  <2> QED BY <1>3, <1>4, <2>3, <2>4, <2>5
<1>6. CASE assertAffordable(p)
  <2>1. loc[p].pc = "assertAffordable" /\ (Return(p) \/ Goto(p, "clientWrite"))
    BY <1>6 DEF assertAffordable, At
  <2> QED BY <1>2, <1>3, <1>4, <2>1 DEF Fits
<1> QED BY <1>5, <1>6

\* The limit that is written fits: nobody else moved since assertQuota.
LEMMA FitWrite ==
  ASSUME IsFiniteSet(Clients), QInv, BInv', NEW p \in Procs, clientWrite(p)
  PROVE  QInv'
<1>1. loc[p].pc = "clientWrite" /\ quota' = quota
  BY DEF clientWrite, At, accountVars
<1>2. IInv /\ Alone(p) /\ Fits(loc[p]) /\ loc[p] \in Locals /\ BInv /\ IInv'
  BY <1>1, FitHandler DEF BInv
<1>3. /\ Sale(loc[p]) /\ loc[p].client \in Clients /\ loc[p].acct \in Accounts
      /\ loc[p].size \in Nat
  BY <1>1, <1>2, HandlerTypes DEF HandlerOK, Sale
<1>4. PICK l : loc' = [loc EXCEPT ![p] = l] /\ (l = Idle \/ l = [loc[p] EXCEPT !.pc = "chargeRead"])
  BY DEF clientWrite, Return, Goto
<1>5. (l.pc = "idle" => l = Idle) /\ l.pc \in {"idle", "chargeRead"}
      /\ (Sale(l) => /\ l.acct = loc[p].acct /\ l.client = loc[p].client
                     /\ l.quota = loc[p].quota /\ l.size = loc[p].size)
  <2>1. CASE l = Idle
    BY <2>1, FitIdle DEF Sale
  <2>2. CASE l = [loc[p] EXCEPT !.pc = "chargeRead"]
    BY <1>2, <2>2 DEF Locals
  <2> QED BY <1>4, <2>1, <2>2
<1>6. Fits(l)'
  BY <1>1, <1>2, <1>3, <1>5 DEF Fits, Sale
<1>7. CASE loc[p].client \in deleted
  <2>1. limit' = limit
    BY <1>7 DEF clientWrite
  <2>2. \A a : Owned(a)' = Owned(a)
    BY <2>1 DEF Owned, Live
  <2>3. QuotaNotExceeded'
    BY <1>1, <2>1, <2>2, QuotaIs DEF QInv
  <2> QED BY <1>2, <1>4, <1>5, <1>6, <2>3, FitStep
<1>8. CASE loc[p].client \notin deleted
  <2>1. PICK c \in Clients, a \in Accounts, n \in Nat :
          c = loc[p].client /\ a = loc[p].acct /\ n = loc[p].size
    BY <1>3
  <2>2. limit' = [limit EXCEPT ![c] = n] /\ limit \in [Clients -> Nat]
    BY <1>2, <1>8, <2>1 DEF clientWrite, IInv, TypeOK
  <2>3. limit'[c] = n /\ \A d \in Clients \ {c} : limit'[d] = limit[d]
    BY <2>2
  <2>4. Owner[c] = a /\ n > 0 /\ SumOf(limit, Owned(a) \ {c}) + n <= quota[a]
    BY <1>1, <1>2, <1>3, <2>1 DEF Fits
  <2>5. Owned(a)' = Owned(a) \union {c} /\ \A b \in Accounts \ {a} : Owned(b)' = Owned(b)
    BY <2>1, <2>3, <2>4 DEF Owned, Live
  <2>6. QuotaNotExceeded'
    <3> SUFFICES ASSUME NEW b \in Accounts PROVE SumOf(limit', Owned(b)') <= quota'[b]
      BY QuotaIs
    <3>1. CASE b = a
      <4>1. PICK S : S = Owned(a)'
        OBVIOUS
      <4>2. IsFiniteSet(S) /\ c \in S /\ \A d \in S : d \in Clients
        <5>1. S = Owned(a) \union {c} /\ IsFiniteSet(Owned(a)) /\ \A d \in Owned(a) : d \in Clients
          BY <1>2, <2>5, <4>1, OwnedIs
        <5>2. IsFiniteSet(Owned(a) \union {c})
          BY <5>1, FS_AddElement
        <5> QED BY <5>1, <5>2
      <4>3. SumOf(limit', S) = limit'[c] + SumOf(limit, S \ {c})
        <5>1. \A d \in S \ {c} : limit[d] \in Nat
          BY <2>2, <4>2
        <5>2. \A d \in S \ {c} : limit'[d] = limit[d]
          BY <2>3, <4>2
        <5>3. limit'[c] \in Nat
          BY <2>3
        <5> QED BY <4>2, <5>1, <5>2, <5>3, SumWrite
      <4>4. S \ {c} = Owned(a) \ {c}
        BY <2>5, <4>1
      <4>5. SumOf(limit, Owned(a) \ {c}) \in Nat
        BY <1>2, OwnedIs
      <4> QED BY <1>1, <2>3, <2>4, <3>1, <4>1, <4>3, <4>4, <4>5
    <3>2. CASE b # a
      <4>1. PICK S : S = Owned(b)
        OBVIOUS
      <4>2. IsFiniteSet(S) /\ (\A d \in S : limit[d] \in Nat) /\ \A d \in S : d \in Clients \ {c}
        BY <1>2, <2>4, <3>2, <4>1, OwnedIs DEF Owned
      <4>3. \A d \in S : limit'[d] = limit[d]
        BY <2>3, <4>2
      <4>4. SumOf(limit, S) = SumOf(limit', S)
        BY <4>2, <4>3, SumSame
      <4>5. SumOf(limit, S) <= quota[b]
        BY <4>1, QuotaIs DEF QInv
      <4> QED BY <1>1, <2>5, <3>2, <4>1, <4>4, <4>5
    <3> QED BY <3>1, <3>2
  <2> QED BY <1>2, <1>4, <1>5, <1>6, <2>6, FitStep
<1> QED BY <1>7, <1>8

\* A deletion takes one limit out of the sum.
LEMMA FitDelete ==
  ASSUME IsFiniteSet(Clients), QInv, BInv', NEW p \in Procs, clientDelete(p)
  PROVE  QInv'
<1>1. loc[p].pc = "clientDelete" /\ quota' = quota
  BY DEF clientDelete, At, accountVars
<1>2. IInv /\ Alone(p) /\ loc[p] \in Locals /\ BInv
  BY <1>1, FitHandler
<1>3. loc[p].op = "delete" /\ loc[p].client \in Clients
  BY <1>1, <1>2, HandlerTypes DEF HandlerOK
<1>4. PICK l : loc' = [loc EXCEPT ![p] = l] /\ (l = Idle \/ l = [loc[p] EXCEPT !.pc = "chargeRead"])
  BY DEF clientDelete, Return, Goto
<1>5. (l.pc = "idle" => l = Idle) /\ l.pc \in {"idle", "chargeRead"} /\ ~Sale(l)
  <2>1. CASE l = Idle
    BY <2>1, FitIdle DEF Sale
  <2>2. CASE l = [loc[p] EXCEPT !.pc = "chargeRead"]
    BY <1>2, <1>3, <2>2 DEF Locals, Sale
  <2> QED BY <1>4, <2>1, <2>2
<1>6. Fits(l)'
  BY <1>5 DEF Fits, Sale
<1>7. PICK c \in Clients : c = loc[p].client
  BY <1>3
<1>8. limit' = limit \/ limit' = [limit EXCEPT ![c] = 0]
  BY <1>7 DEF clientDelete, clientVars
<1>9. QuotaNotExceeded'
  <2>1. CASE limit' = limit
    <3>1. \A a : Owned(a)' = Owned(a)
      BY <2>1 DEF Owned, Live
    <3> QED BY <1>1, <2>1, <3>1, QuotaIs DEF QInv
  <2>2. CASE limit' = [limit EXCEPT ![c] = 0]
    <3>1. limit \in [Clients -> Nat]
      BY <1>2 DEF IInv, TypeOK
    <3>2. limit'[c] = 0 /\ \A d \in Clients \ {c} : limit'[d] = limit[d]
      BY <2>2, <3>1
    <3> SUFFICES ASSUME NEW b \in Accounts PROVE SumOf(limit', Owned(b)') <= quota'[b]
      BY QuotaIs
    <3>3. PICK S : S = Owned(b) \ {c}
      OBVIOUS
    <3>4. Owned(b)' = S
      BY <3>2, <3>3 DEF Owned, Live
    <3>5. IsFiniteSet(Owned(b)) /\ \A d \in Owned(b) : d \in Clients /\ limit[d] \in Nat
      BY <1>2, OwnedIs
    <3>6. IsFiniteSet(S) /\ (\A d \in S : limit[d] \in Nat)
      BY <3>3, <3>5, FS_RemoveElement
    <3>7. \A d \in S : limit'[d] = limit[d]
      BY <3>2, <3>3, <3>5
    <3>8. SumOf(limit, S) = SumOf(limit', S)
      BY <3>6, <3>7, SumSame
    <3>9. /\ SumOf(limit, S) \in Nat /\ SumOf(limit, Owned(b)) \in Nat
          /\ SumOf(limit, S) <= SumOf(limit, Owned(b))
      BY <1>2, <3>3, OwnedIs
    <3>10. SumOf(limit, Owned(b)) <= quota[b] /\ quota[b] \in Int
      BY <1>2, QuotaIs DEF QInv, IInv, TypeOK
    <3> QED BY <1>1, <3>4, <3>8, <3>9, <3>10
  <2> QED BY <1>8, <2>1, <2>2
<1> QED BY <1>2, <1>4, <1>5, <1>6, <1>9, FitStep

\* A plan only adds to the quota.
LEMMA FitPlan ==
  ASSUME IsFiniteSet(Clients), QInv, BInv', NEW p \in Procs, planWrite(p)
  PROVE  QInv'
<1>1. /\ loc[p].pc = "planWrite" /\ limit' = limit
      /\ quota' = [quota EXCEPT ![loc[p].acct] = loc[p].quota + PlanGB]
      /\ loc' = [loc EXCEPT ![p] = Idle]
  BY DEF planWrite, At, Return, clientVars
<1>2. IInv /\ Alone(p) /\ BInv /\ RunningOK(loc[p])
  BY <1>1, FitHandler, RunningHandler
<1>3. loc[p].op = "plan" /\ loc[p].acct \in Accounts
  BY <1>1, <1>2, HandlerTypes DEF HandlerOK
<1>4. loc[p].quota = quota[loc[p].acct] /\ quota \in [Accounts -> Int] /\ PlanGB \in Nat
  BY <1>2, <1>3, ResellerAssumptions DEF RunningOK, StillTrue, IInv, TypeOK
<1>5. \A a \in Accounts : quota[a] \in Int /\ quota'[a] \in Int /\ quota[a] <= quota'[a]
  BY <1>1, <1>3, <1>4
<1>6. \A a : Owned(a)' = Owned(a)
  BY <1>1 DEF Owned, Live
<1>7. QuotaNotExceeded'
  <2> SUFFICES ASSUME NEW b \in Accounts PROVE SumOf(limit', Owned(b)') <= quota'[b]
    BY QuotaIs
  <2>1. SumOf(limit, Owned(b)) \in Nat /\ SumOf(limit, Owned(b)) <= quota[b]
    BY <1>2, OwnedIs, QuotaIs DEF QInv
  <2> QED BY <1>1, <1>5, <1>6, <2>1
<1>8. Fits(Idle)'
  BY FitIdle DEF Fits, Sale
<1> QED BY <1>1, <1>2, <1>7, <1>8, FitIdle, FitStep

\* The wallet's own statements and faults touch neither limits nor quotas.
LEMMA FitMoney ==
  ASSUME QInv, BInv', NEW p \in Procs, chargeRead(p) \/ chargeCommit(p) \/ Fault(p)
  PROVE  QInv'
<1>1. UNCHANGED <<limit, quota>> /\ loc[p].pc # "idle"
  BY DEF chargeRead, chargeCommit, Fault, At, accountVars, clientVars
<1>2. IInv /\ Alone(p) /\ Fits(loc[p]) /\ loc[p] \in Locals /\ BInv
  BY <1>1, FitHandler
<1>3. CASE Return(p)
  <2>1. loc' = [loc EXCEPT ![p] = Idle]
    BY <1>3 DEF Return
  <2> QED BY <1>1, <1>2, <2>1, FitIdle, FitQuiet
<1>4. ASSUME NEW l, loc' = [loc EXCEPT ![p] = l],
             l.pc \in {"chargeCommit", "chargeRead", "planWrite"},
             Sale(l) => /\ Sale(loc[p]) /\ l.acct = loc[p].acct /\ l.client = loc[p].client
                        /\ l.quota = loc[p].quota /\ l.size = loc[p].size
      PROVE  QInv'
  <2>1. Fits(l)
    BY <1>2, <1>4 DEF Fits
  <2> QED BY <1>1, <1>2, <1>4, <2>1, FitQuiet
<1>5. CASE chargeRead(p)
  <2>1. CASE loc' = [loc EXCEPT ![p].pc = "chargeCommit",
                                ![p].next = credit[loc[p].acct] + loc[p].amount]
    <3>1. PICK l : l = [loc[p] EXCEPT !.pc = "chargeCommit",
                                      !.next = credit[loc[p].acct] + loc[p].amount]
      OBVIOUS
    <3>2. /\ l.pc = "chargeCommit" /\ l.op = loc[p].op /\ l.client = loc[p].client
          /\ l.size = loc[p].size /\ l.acct = loc[p].acct /\ l.quota = loc[p].quota
      BY <1>2, <3>1 DEF Locals
    <3>3. loc' = [loc EXCEPT ![p] = l]
      BY <2>1, <3>1
    <3> QED BY <1>4, <3>2, <3>3 DEF Sale
  <2> QED BY <1>3, <1>5, <2>1 DEF chargeRead
<1>6. CASE chargeCommit(p)
  <2>1. CASE Goto(p, "planWrite") /\ loc[p].op = "plan"
    <3>1. PICK l : l = [loc[p] EXCEPT !.pc = "planWrite"]
      OBVIOUS
    <3>2. l.pc = "planWrite" /\ l.op = "plan" /\ loc' = [loc EXCEPT ![p] = l]
      BY <1>2, <2>1, <3>1 DEF Locals, Goto
    <3> QED BY <1>4, <3>2 DEF Sale
  <2> QED BY <1>3, <1>6, <2>1 DEF chargeCommit
<1>7. CASE Fault(p)
  <2>1. CASE loc' = [loc EXCEPT ![p].op = "planBack", ![p].pc = "chargeRead", ![p].amount = PlanPrice]
    <3>1. PICK l : l = [loc[p] EXCEPT !.op = "planBack", !.pc = "chargeRead", !.amount = PlanPrice]
      OBVIOUS
    <3>2. l.pc = "chargeRead" /\ l.op = "planBack" /\ loc' = [loc EXCEPT ![p] = l]
      BY <1>2, <2>1, <3>1 DEF Locals
    <3> QED BY <1>4, <3>2 DEF Sale
  <2> QED BY <1>3, <1>7, <2>1 DEF Fault
<1> QED BY <1>5, <1>6, <1>7

\* Every step keeps the quotas.
LEMMA FitInductive ==
  ASSUME IsFiniteSet(Procs), IsFiniteSet(Clients), MaxActive = 1
  PROVE  QInv /\ [Next]_vars => QInv'
<1> SUFFICES ASSUME QInv, [Next]_vars PROVE QInv'
  OBVIOUS
<1>1. BInv'
  BY BooksInductive DEF QInv
<1>2. CASE UNCHANGED vars
  <2>1. UNCHANGED <<quota, limit, loc>>
    BY <1>2 DEF vars, accountVars, clientVars
  <2>2. (\A a : Owned(a)' = Owned(a)) /\ Running' = Running
    BY <2>1 DEF Owned, Live, Running
  <2>3. QuotaNotExceeded'
    BY <2>1, <2>2, QuotaIs DEF QInv
  <2>4. Fits(Running)'
    BY <2>1, <2>2 DEF QInv, Fits, Sale
  <2> QED BY <1>1, <2>3, <2>4 DEF QInv
<1>3. CASE Next
  BY <1>1, <1>3, FitStarts, FitChecks, FitWrite, FitDelete, FitPlan, FitMoney DEF Next
<1> QED BY <1>2, <1>3

\* No client, no limit to add up.
LEMMA QuotaOpen == Init => QInv
<1> SUFFICES ASSUME Init PROVE QInv
  OBVIOUS
<1>1. BInv
  BY BooksOpen
<1>2. Running = Idle
  BY FitIdle DEF Init, Running
<1>3. \A a \in Accounts : Owned(a) = {} /\ quota[a] = OpeningQuota
  <2>1. \A c \in Clients : ~(limit[c] > 0)
    BY DEF Init
  <2> QED BY <2>1 DEF Init, Owned, Live
<1>4. QuotaNotExceeded
  <2>1. 0 <= OpeningQuota
    BY ResellerAssumptions
  <2>2. \A a \in Accounts : SumOf(limit, Owned(a)) = 0
    BY <1>3, SumEmpty
  <2> QED BY <1>3, <2>1, <2>2, QuotaIs
<1> QED BY <1>1, <1>2, <1>4, FitIdle DEF QInv

(***************************************************************************)
(* With requests one after the other, for any number of resellers,         *)
(* clients, sizes and prices: the ledger explains every balance and the    *)
(* limits of a reseller's clients fit in its quota, also when handlers die *)
(* between two statements; and as long as none has, every plan that was    *)
(* charged is in the quota (buyResellerPlan) and every client that exists  *)
(* has cost its traffic (createClient, updateClient).                      *)
(***************************************************************************)
THEOREM SerialBooksInOrder ==
  IsFiniteSet(Procs) /\ IsFiniteSet(Clients) /\ MaxActive = 1 => (Spec => []BooksInOrder)
<1> SUFFICES ASSUME IsFiniteSet(Procs), IsFiniteSet(Clients), MaxActive = 1
             PROVE  Spec => []BooksInOrder
  OBVIOUS
<1>1. BInv => RowsAddUp /\ PlanToppedUp /\ LiveClientIsPaidFor
  <2> SUFFICES ASSUME BInv PROVE RowsAddUp /\ PlanToppedUp /\ LiveClientIsPaidFor
    OBVIOUS
  <2>1. PICK l : l = Running
    OBVIOUS
  <2>2. RunningOK(l) /\ (l = Idle \/ \E p \in Procs : l = loc[p] /\ loc[p].pc # "idle")
    BY <2>1 DEF BInv, Running
  <2>3. \A a \in Accounts : (\A p \in Procs : loc[p].acct # a) => Due(l, a) = 0
    BY <2>2 DEF Due, Idle
  <2>4. \A c \in Clients : (\A p \in Procs : loc[p].client # c) => ~Paying(l, c)
    BY <2>2 DEF Paying, Sale, Idle
  <2>5. PlanToppedUp
    <3> SUFFICES ASSUME NEW a \in Accounts, faults = 0, \A p \in Procs : loc[p].acct # a
                 PROVE  quota[a] = OpeningQuota + PlanGB * Cardinality(PlanRows(a))
      BY DEF PlanToppedUp, PlanRows
    <3>1. quota[a] + Due(l, a) = OpeningQuota + PlanGB * Cardinality(PlanRows(a))
      BY <2>2 DEF RunningOK, PlansUp
    <3>2. Due(l, a) = 0 /\ quota[a] \in Int
      BY <2>3 DEF BInv, IInv, TypeOK
    <3> QED BY <3>1, <3>2
  <2>6. LiveClientIsPaidFor
    BY <2>2, <2>4 DEF LiveClientIsPaidFor, Live, RunningOK, PaidUp
  <2> QED BY <2>5, <2>6 DEF BInv
<1>2. QInv => BooksInOrder
  BY <1>1 DEF QInv, BooksInOrder
<1>3. QInv /\ [Next]_vars => QInv'
  BY FitInductive
<1> QED BY <1>2, <1>3, QuotaOpen, PTL DEF Spec
=============================================================================
