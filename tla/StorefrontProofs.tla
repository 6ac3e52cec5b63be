-------------------------- MODULE StorefrontProofs --------------------------
(***************************************************************************)
(* The storefront with any number of sales, buyers and handlers in flight: *)
(* nothing is given away, and a confirmed payment reaches its order or     *)
(* wallet as long as no call fails.                                        *)
(***************************************************************************)
EXTENDS Storefront, FiniteSetTheorems, TLAPS

(* ------------------------- the inductive invariant ---------------------- *)

\* Statements a handler reaches only for a sale that is paid for.
PaidLabels == {"settleRead", "settleCheck", "settleCredit", "chargeSeller", "orderPaid",
               "deliver", "orderDone", "manualConfirm"}
\* Statements that are about no particular sale.
Unbound == {"idle", "expireWrite", "expireCount", "usdtNext"}
\* Statements only the handler of an order reaches.
OrderLabels == {"orderPaid", "fulfillRead", "deliver", "orderDone", "manualPaid", "manualConfirm",
                "cancelPayment", "cancelWrite", "walletOpen", "walletCheck", "walletTake",
                "walletRecheck", "walletRefund", "walletReject", "walletCancel"}
\* The way of a confirmed top-up to a wallet.
Crediting == {"settleRead", "settleCheck", "settleCredit", "chargeSeller"}

Touched(i) == IsOrder(i) => order[i] # "NONE"
Settled(i) == order[i] \in {"PAID", "FULFILLED", "CANCELED"}
Credited(i) == TopupRows(i) # {} \/ sellerCredits[i] > 0

\* Statements that belong to one job or loop.
RunsFor(l) ==
  /\ l.pc = "usdtNext" => l.op = "usdt"
  /\ l.pc = "rematchDeposits" => l.op = "rematch"
  /\ l.pc \in {"expireWrite", "expireCount", "expireOrder"} => l.op = "other"

\* What a handler may rely on, whatever the others do.
HandlerOK(l) ==
  /\ l.pc \notin Unbound \/ l.op = "rematch" => l.id \in Sales
  /\ RunsFor(l)
  /\ l.op = "usdt" => \A i \in l.todo : l.tries[i] < MaxTries
  /\ l.id \in Sales => Touched(l.id)
  /\ \A i \in l.todo : Touched(i)
  /\ l.pc \in PaidLabels => paidFor[l.id]
  /\ l.pc \in OrderLabels \/ l.op = "wallet" => l.id \in Sales /\ IsOrder(l.id)
  /\ l.pc = "confirmWrite" /\ l.cust => info[l.id].cust
  /\ l.pc = "settleRead" => info[l.id].cust
  /\ l.pc = "manualConfirm" => Settled(l.id)

\* What the rows of a sale say about each other.
SaleOK(i) ==
  /\ status[i] = "CONFIRMED" => paidFor[i]
  /\ order[i] \in {"PAID", "FULFILLED"} => paidFor[i]
  /\ delivered[i] > 0 \/ sellerCredits[i] > 0 \/ TopupRows(i) # {} => paidFor[i]
  /\ order[i] # "NONE" => IsOrder(i)
  /\ ~Touched(i) => status[i] = "NONE" /\ ~info[i].authority /\ ~paidFor[i]

HandlersOK == \A p \in Procs : HandlerOK(loc[p])
SalesOK == \A i \in Sales : SaleOK(i)

IInv == TypeOK /\ HandlersOK /\ SalesOK /\ ConfirmedOrderIsPaid /\ ConfirmedTopupIsCredited

(* ------------------------ what every step respects ---------------------- *)

\* The type invariant without the handlers.
RowTypes ==
  /\ terms \in [Sales -> Terms] /\ status \in [Sales -> PaymentStatus]
  /\ info \in [Sales -> Infos] /\ order \in [Sales -> OrderStatus]
  /\ LedgerTypeOK
  /\ sellerCredits \in [Sales -> 0 .. 2] /\ delivered \in [Sales -> 0 .. 2]
  /\ paidFor \in [Sales -> BOOLEAN] /\ faults \in 0 .. MaxFaults

\* What no step takes back.
Grows ==
  /\ terms' = terms
  /\ faults' = 0 => faults = 0
  /\ \A i \in Sales : /\ paidFor[i] => paidFor'[i]
                      /\ order[i] # "NONE" => order'[i] # "NONE"
                      /\ info[i].cust => info'[i].cust
                      /\ Settled(i) => Settled(i)'
                      /\ Credited(i) => Credited(i)'

\* Handler p, which becomes l, leaves no confirmed payment behind unless a call
\* failed; and a payment it confirms is its own to carry on.
Carries(p, l) == \A i \in Sales :
  /\ loc[p].id = i /\ loc[p].pc = "orderPaid" /\ faults' = 0 => Settled(i)'
  /\ loc[p].id = i /\ loc[p].pc \in Crediting /\ faults' = 0 =>
       status'[i] # "CONFIRMED" \/ Credited(i)' \/ (l.pc \in Crediting /\ l.id = i)
  /\ status'[i] = "CONFIRMED" /\ status[i] # "CONFIRMED" =>
       \/ IsOrder(i) /\ (Settled(i)' \/ (l.pc = "orderPaid" /\ l.id = i))
       \/ ~IsOrder(i) /\ (Credited(i)' \/ (l.pc \in Crediting /\ l.id = i))

(* -------------------------------- lemmas -------------------------------- *)

\* A handler that has returned is well formed.
LEMMA IdleOK == Idle \in Locals /\ HandlerOK(Idle) /\ Idle.pc = "idle" /\ Idle.op = "none"
<1>1. [i \in Sales |-> 0] \in [Sales -> 0 .. MaxTries]
  BY SaleAssumptions
<1>2. Idle \in Locals
  BY <1>1 DEF Idle, Locals, Ops, Labels
<1>3. /\ Idle.pc = "idle" /\ Idle.op = "none" /\ Idle.id = NoSale /\ Idle.todo = {}
  BY DEF Idle
<1> QED BY <1>2, <1>3, SaleAssumptions DEF HandlerOK, RunsFor, Unbound, PaidLabels, OrderLabels

\* Assigning one field keeps a handler typed.
LEMMA SetField ==
  ASSUME NEW l \in Locals
  PROVE  /\ \A v \in Ops : [l EXCEPT !.op = v] \in Locals
         /\ \A v \in Labels : [l EXCEPT !.pc = v] \in Locals
         /\ \A v \in Sales \union {NoSale} : [l EXCEPT !.id = v] \in Locals
         /\ \A v \in BOOLEAN : [l EXCEPT !.cust = v] \in Locals
         /\ \A v \in SUBSET Sales : [l EXCEPT !.todo = v] \in Locals
         /\ \A v \in [Sales -> 0 .. MaxTries] : [l EXCEPT !.tries = v] \in Locals
  BY DEF Locals

\* What the type invariant says of one handler.
LEMMA HandlerTypes ==
  ASSUME IInv, NEW p \in Procs
  PROVE  /\ loc[p] \in Locals /\ loc[p].op \in Ops /\ loc[p].pc \in Labels
         /\ loc[p].id \in Sales \union {NoSale} /\ loc[p].cust \in BOOLEAN
         /\ loc[p].todo \in SUBSET Sales /\ loc[p].tries \in [Sales -> 0 .. MaxTries]
         /\ HandlerOK(loc[p])
<1>1. loc[p] \in Locals
  BY DEF IInv, TypeOK
<1>2. HandlerOK(loc[p])
  BY DEF IInv, HandlersOK
<1> QED BY <1>1, <1>2 DEF Locals

\* What a handler relies on is never taken back.
LEMMA HandlerGrows ==
  ASSUME Grows, NEW l \in Locals, HandlerOK(l)
  PROVE  HandlerOK(l)'
<1>1. l.todo \in SUBSET Sales
  BY DEF Locals
<1>2. \A i \in Sales : Touched(i) => Touched(i)'
  BY DEF Grows, Touched, IsOrder
<1>3. l.pc \in PaidLabels \union OrderLabels \union {"confirmWrite", "settleRead"} => l.id \in Sales
  BY DEF HandlerOK, PaidLabels, OrderLabels, Unbound
<1>4. \A i \in Sales : IsOrder(i) => IsOrder(i)'
  BY DEF Grows, IsOrder
<1>5. /\ l.pc \notin Unbound \/ l.op = "rematch" => l.id \in Sales
      /\ RunsFor(l)
      /\ l.op = "usdt" => \A i \in l.todo : l.tries[i] < MaxTries
  BY DEF HandlerOK
<1>6. l.id \in Sales => Touched(l.id)'
  BY <1>2 DEF HandlerOK
<1>7. \A i \in l.todo : Touched(i)'
  BY <1>1, <1>2 DEF HandlerOK
<1>8. l.pc \in PaidLabels => paidFor'[l.id]
  BY <1>3 DEF HandlerOK, Grows
<1>9. l.pc \in OrderLabels \/ l.op = "wallet" => l.id \in Sales /\ IsOrder(l.id)'
  BY <1>4 DEF HandlerOK
<1>10. /\ l.pc = "confirmWrite" /\ l.cust => info'[l.id].cust
       /\ l.pc = "settleRead" => info'[l.id].cust
  BY <1>3 DEF HandlerOK, Grows
<1>11. l.pc = "manualConfirm" => Settled(l.id)'
  BY <1>3 DEF HandlerOK, Grows, OrderLabels
<1> QED BY <1>5, <1>6, <1>7, <1>8, <1>9, <1>10, <1>11 DEF HandlerOK

(***************************************************************************)
(* A step of handler p keeps the invariant when it takes nothing back,     *)
(* leaves the rows consistent and carries its confirmed payment on.        *)
(***************************************************************************)
LEMMA StepOK ==
  ASSUME IInv, NEW p \in Procs, NEW l \in Locals, loc' = [loc EXCEPT ![p] = l],
         Grows, Carries(p, l), HandlerOK(l)', RowTypes', SalesOK'
  PROVE  IInv'
<1>1. loc'[p] = l /\ \A q \in Procs \ {p} : loc'[q] = loc[q]
  BY DEF IInv, TypeOK
<1>2. TypeOK'
  <2>1. loc' \in [Procs -> Locals]
    BY DEF IInv, TypeOK
  <2> QED BY <2>1 DEF RowTypes, TypeOK, LedgerTypeOK
<1>3. HandlersOK'
  <2> SUFFICES ASSUME NEW q \in Procs PROVE HandlerOK(loc[q])'
    BY DEF HandlersOK
  <2>1. CASE q = p
    BY <1>1, <2>1 DEF HandlerOK
  <2>2. CASE q # p
    <3>1. PICK m \in Locals : m = loc[q]
      BY HandlerTypes
    <3>2. HandlerOK(m)'
      BY <3>1, HandlerTypes, HandlerGrows
    <3> QED BY <1>1, <2>2, <3>1, <3>2 DEF HandlerOK
  <2> QED BY <2>1, <2>2
<1>4. \A i \in Sales : IsOrder(i)' <=> IsOrder(i)
  BY DEF Grows, IsOrder
<1>5. ConfirmedOrderIsPaid'
  <2> SUFFICES ASSUME faults' = 0, NEW i \in Sales, IsOrder(i), status'[i] = "CONFIRMED"
               PROVE  Settled(i)' \/ \E q \in Procs : loc'[q].id = i /\ loc'[q].pc = "orderPaid"
    BY <1>4 DEF ConfirmedOrderIsPaid, Handling, Settled
  <2>1. CASE status[i] # "CONFIRMED"
    BY <1>1, <2>1 DEF Carries
  <2>2. CASE status[i] = "CONFIRMED"
    <3>0. faults = 0
      BY DEF Grows
    <3>1. Settled(i) \/ \E q \in Procs : loc[q].id = i /\ loc[q].pc = "orderPaid"
      BY <2>2, <3>0 DEF IInv, ConfirmedOrderIsPaid, Handling, Settled
    <3>2. CASE Settled(i)
      BY <3>2 DEF Grows
    <3>3. ASSUME NEW q \in Procs, loc[q].id = i, loc[q].pc = "orderPaid"
          PROVE  Settled(i)' \/ \E r \in Procs : loc'[r].id = i /\ loc'[r].pc = "orderPaid"
      <4>1. CASE q = p
        BY <3>3, <4>1 DEF Carries
      <4>2. CASE q # p
        BY <1>1, <3>3, <4>2
      <4> QED BY <4>1, <4>2
    <3> QED BY <3>1, <3>2, <3>3
  <2> QED BY <2>1, <2>2
<1>6. ConfirmedTopupIsCredited'
  <2> SUFFICES ASSUME faults' = 0, NEW i \in Sales, ~IsOrder(i), status'[i] = "CONFIRMED"
               PROVE  Credited(i)' \/ \E q \in Procs : loc'[q].id = i /\ loc'[q].pc \in Crediting
    BY <1>4 DEF ConfirmedTopupIsCredited, Handling, Credited, Crediting
  <2>1. CASE status[i] # "CONFIRMED"
    BY <1>1, <2>1 DEF Carries
  <2>2. CASE status[i] = "CONFIRMED"
    <3>0. faults = 0
      BY DEF Grows
    <3>1. Credited(i) \/ \E q \in Procs : loc[q].id = i /\ loc[q].pc \in Crediting
      BY <2>2, <3>0 DEF IInv, ConfirmedTopupIsCredited, Handling, Credited, Crediting
    <3>2. CASE Credited(i)
      BY <3>2 DEF Grows
    <3>3. ASSUME NEW q \in Procs, loc[q].id = i, loc[q].pc \in Crediting
          PROVE  Credited(i)' \/ \E r \in Procs : loc'[r].id = i /\ loc'[r].pc \in Crediting
      <4>1. CASE q = p
        BY <1>1, <3>3, <4>1 DEF Carries
      <4>2. CASE q # p
        BY <1>1, <3>3, <4>2
      <4> QED BY <4>1, <4>2
    <3> QED BY <3>1, <3>2, <3>3
  <2> QED BY <2>1, <2>2
<1> QED BY <1>2, <1>3, <1>5, <1>6 DEF IInv

\* A handler that moves to another statement of the same sale stays well formed.
LEMMA GotoOK ==
  ASSUME IInv, NEW p \in Procs, loc[p].id \in Sales, NEW label \in Labels \ Unbound,
         label \notin {"confirmWrite", "expireOrder"},
         label = "rematchDeposits" => loc[p].op = "rematch",
         label \in PaidLabels => paidFor[loc[p].id],
         label \in OrderLabels => IsOrder(loc[p].id),
         label = "settleRead" => info[loc[p].id].cust,
         label = "manualConfirm" => Settled(loc[p].id)
  PROVE  /\ [loc[p] EXCEPT !.pc = label] \in Locals
         /\ HandlerOK([loc[p] EXCEPT !.pc = label])
         /\ [loc[p] EXCEPT !.pc = label].pc = label
         /\ [loc[p] EXCEPT !.pc = label].id = loc[p].id
<1> DEFINE l == [loc[p] EXCEPT !.pc = label]
<1>1. l \in Locals
  BY HandlerTypes, SetField
<1>2. /\ l.pc = label /\ l.id = loc[p].id /\ l.op = loc[p].op /\ l.todo = loc[p].todo
      /\ l.tries = loc[p].tries
  BY HandlerTypes DEF Locals
<1> HIDE DEF l
<1>3. label \notin {"usdtNext", "expireWrite", "expireCount"}
  BY DEF Unbound
<1>4. RunsFor(l)
  BY <1>2, <1>3 DEF RunsFor
<1>5. HandlerOK(l)
  BY <1>2, <1>4, HandlerTypes DEF HandlerOK
<1> QED BY <1>1, <1>2, <1>5 DEF l

\* Where a call returns to is well formed.
LEMMA ReturnedOK ==
  ASSUME IInv, NEW p \in Procs
  PROVE  /\ Returned(loc[p]) \in Locals
         /\ HandlerOK(Returned(loc[p]))
<1>1. CASE loc[p].op = "usdt" /\ loc[p].todo # {}
  <2> DEFINE l == [loc[p] EXCEPT !.pc = "usdtNext"]
  <2>1. Returned(loc[p]) = l
    BY <1>1 DEF Returned
  <2>2. l \in Locals
    BY HandlerTypes, SetField DEF Labels
  <2>3. /\ l.pc = "usdtNext" /\ l.id = loc[p].id /\ l.op = "usdt" /\ l.todo = loc[p].todo
        /\ l.tries = loc[p].tries
    BY <1>1, HandlerTypes DEF Locals
  <2> HIDE DEF l
  <2>4. HandlerOK(l)
    <3>1. \A i \in l.todo : l.tries[i] < MaxTries
      BY <1>1, <2>3, HandlerTypes DEF HandlerOK
    <3>2. \A i \in l.todo : Touched(i)
      BY <2>3, HandlerTypes DEF HandlerOK
    <3>3. l.id \in Sales => Touched(l.id)
      BY <2>3, HandlerTypes DEF HandlerOK
    <3>4. "usdtNext" \in Unbound /\ "usdtNext" \notin PaidLabels \union OrderLabels
      BY DEF Unbound, PaidLabels, OrderLabels
    <3> QED BY <2>3, <3>1, <3>2, <3>3, <3>4 DEF HandlerOK, RunsFor
  <2> QED BY <2>1, <2>2, <2>4
<1>2. CASE loc[p].op = "rematch"
  <2>1. Returned(loc[p]) = [loc[p] EXCEPT !.pc = "rematchDeposits"]
    BY <1>2 DEF Returned
  <2>2. loc[p].id \in Sales
    BY <1>2, HandlerTypes DEF HandlerOK
  <2>3. /\ "rematchDeposits" \in Labels \ Unbound
        /\ "rematchDeposits" \notin PaidLabels \union OrderLabels
    BY DEF Labels, Unbound, PaidLabels, OrderLabels
  <2> QED BY <1>2, <2>1, <2>2, <2>3, GotoOK
<1>3. CASE ~(loc[p].op = "usdt" /\ loc[p].todo # {}) /\ loc[p].op # "rematch"
  <2>1. Returned(loc[p]) = Idle
    BY <1>3 DEF Returned
  <2> QED BY <2>1, IdleOK
<1> QED BY <1>1, <1>2, <1>3

\* Where a call throws to is well formed.
LEMMA ThrownOK ==
  ASSUME IInv, NEW p \in Procs
  PROVE  /\ Thrown(loc[p]) \in Locals
         /\ HandlerOK(Thrown(loc[p]))
<1> DEFINE l == loc[p]
           c1 == l.pc \in {"deliver", "orderDone"} \/ (l.op = "rematch" /\ l.pc # "rematchDeposits")
           c2 == l.op = "wallet" /\ l.pc \in {"walletCheck", "walletTake"}
           c3 == l.op = "wallet" /\ l.pc \in {"confirmRead", "confirmWrite", "orderPaid", "fulfillRead"}
<1>1. CASE c1
  <2>1. Thrown(l) = Returned(l)
    BY <1>1 DEF Thrown
  <2> QED BY <2>1, ReturnedOK
<1>2. CASE c2
  <2>1. Thrown(l) = [l EXCEPT !.pc = "walletReject"]
    BY <1>2 DEF Thrown
  <2>2. l.id \in Sales /\ IsOrder(l.id)
    BY <1>2, HandlerTypes DEF HandlerOK
  <2>3. "walletReject" \in Labels \ Unbound /\ "walletReject" \notin PaidLabels
    BY DEF Labels, Unbound, PaidLabels
  <2> QED BY <2>1, <2>2, <2>3, GotoOK
<1>3. CASE c3
  <2>1. Thrown(l) = [l EXCEPT !.pc = "walletRecheck"]
    BY <1>3 DEF Thrown
  <2>2. l.id \in Sales /\ IsOrder(l.id)
    BY <1>3, HandlerTypes DEF HandlerOK
  <2>3. "walletRecheck" \in Labels \ Unbound /\ "walletRecheck" \notin PaidLabels
    BY DEF Labels, Unbound, PaidLabels
  <2> QED BY <2>1, <2>2, <2>3, GotoOK
<1>4. CASE ~c1 /\ ~c2 /\ ~c3
  <2>1. Thrown(l) = Idle
    BY <1>4 DEF Thrown
  <2> QED BY <2>1, IdleOK
<1> QED BY <1>1, <1>2, <1>3, <1>4

(***************************************************************************)
(* A step that changes only what one handler remembers.                    *)
(***************************************************************************)
LEMMA LocalStep ==
  ASSUME IInv, NEW p \in Procs, NEW l \in Locals, loc' = [loc EXCEPT ![p] = l],
         UNCHANGED <<terms, saleVars, moneyVars, ghostVars>>,
         faults' \in 0 .. MaxFaults, faults' = 0 => faults = 0,
         HandlerOK(l), Carries(p, l)
  PROVE  IInv'
<1> USE DEF saleVars, moneyVars, ghostVars
<1>1. Grows
  BY DEF Grows, Settled, Credited, TopupRows, RowsFor
<1>2. HandlerOK(l)'
  BY <1>1, HandlerGrows
<1>3. RowTypes'
  BY DEF IInv, TypeOK, RowTypes, LedgerTypeOK
<1>4. SalesOK'
  BY DEF IInv, SalesOK, SaleOK, Touched, IsOrder, TopupRows, RowsFor
<1> QED BY <1>1, <1>2, <1>3, <1>4, StepOK

\* ... of a handler that has no confirmed payment to carry on.
LEMMA QuietStep ==
  ASSUME IInv, NEW p \in Procs, NEW l \in Locals, loc' = [loc EXCEPT ![p] = l],
         UNCHANGED <<terms, saleVars, moneyVars, ghostVars, faults>>,
         HandlerOK(l), loc[p].pc \notin Crediting \union {"orderPaid"}
  PROVE  IInv'
<1>1. Carries(p, l)
  BY DEF Carries, saleVars
<1>2. faults' \in 0 .. MaxFaults /\ (faults' = 0 => faults = 0)
  BY DEF IInv, TypeOK
<1> QED BY <1>1, <1>2, LocalStep

\* A request begins on a sale that exists.
LEMMA StartStep ==
  ASSUME IInv, NEW p \in Procs, NEW i \in Sales, Touched(i),
         NEW op \in Ops, op # "usdt", op = "wallet" => IsOrder(i),
         NEW label \in Labels \ Unbound, label \notin PaidLabels,
         label \notin {"confirmWrite", "rematchDeposits", "expireOrder"},
         label \in OrderLabels => IsOrder(i), Start(p, op, i, label),
         UNCHANGED <<terms, saleVars, moneyVars, ghostVars, faults>>
  PROVE  IInv'
<1> DEFINE l == [Idle EXCEPT !.op = op, !.pc = label, !.id = i]
<1>1. l \in Locals
  BY IdleOK, SetField
<1>2. l.op = op /\ l.pc = label /\ l.id = i /\ l.todo = {}
  BY DEF Idle
<1>3. loc' = [loc EXCEPT ![p] = l] /\ loc[p].pc = "idle"
  BY DEF Start, At
<1> HIDE DEF l
<1>4. HandlerOK(l)
  BY <1>2 DEF HandlerOK, RunsFor, Unbound, PaidLabels
<1> QED BY <1>1, <1>3, <1>4, QuietStep DEF Crediting

(* ------------------------ requests and job starts ----------------------- *)

\* A sale that has rows, and every top-up, is one somebody has opened.
LEMMA HasRows ==
  ASSUME IInv, NEW i \in Sales,
         \/ status[i] # "NONE" \/ order[i] # "NONE" \/ info[i].authority \/ ~IsOrder(i)
  PROVE  Touched(i)
  BY DEF IInv, SalesOK, SaleOK, Touched

\* Every request but createOrder only reads before its first await.
LEMMA Requests ==
  ASSUME IInv, NEW p \in Procs, NEW i \in Sales,
         \/ createTopup(p, i) \/ confirmByHand(p, i) \/ submitProof(p, i) \/ rejectPayment(p, i)
         \/ ingestDeposit(p, i) \/ handleZarinpalCallback(p, i)
         \/ handlePaymentPluginCallback(p, i) \/ retryFulfill(p, i) \/ cancelOrder(p, i)
  PROVE  IInv'
<1> DEFINE plain == {"beginPayment", "confirmRead", "proofWrite", "rejectWrite", "zarinpalVerify",
                     "zarinpalReject", "pluginReject", "pluginReview"}
           ofOrder == {"manualPaid", "fulfillRead", "cancelPayment"}
<1>1. UNCHANGED <<terms, saleVars, moneyVars, ghostVars, faults>>
  BY DEF createTopup, confirmByHand, submitProof, rejectPayment, ingestDeposit,
         handleZarinpalCallback, handlePaymentPluginCallback, retryFulfill, cancelOrder
<1>2. plain \subseteq Labels \ Unbound /\ plain \intersect (PaidLabels \union OrderLabels) = {}
  BY DEF Labels, Unbound, PaidLabels, OrderLabels
<1>3. ofOrder \subseteq Labels \ Unbound /\ ofOrder \intersect PaidLabels = {}
  BY DEF Labels, Unbound, PaidLabels
<1>4. {"topup", "confirm", "auto", "other", "retry"} \subseteq Ops \ {"usdt", "wallet"}
  BY DEF Ops
<1>5. {"confirmWrite", "rematchDeposits", "expireOrder"} \intersect (plain \union ofOrder) = {}
  OBVIOUS
<1>6. ASSUME NEW op \in {"topup", "confirm", "auto", "other", "retry"}, NEW label \in plain,
             Start(p, op, i, label), Touched(i)
      PROVE  IInv'
  <2>1. label \in Labels \ Unbound /\ label \notin PaidLabels \union OrderLabels
    BY <1>2
  <2>2. op \in Ops /\ op # "usdt" /\ op # "wallet"
    BY <1>4
  <2> QED BY <1>1, <1>5, <1>6, <2>1, <2>2, StartStep
<1>7. ASSUME NEW op \in {"retry", "other"}, NEW label \in ofOrder, Start(p, op, i, label), order[i] # "NONE"
      PROVE  IInv'
  <2>1. label \in Labels \ Unbound /\ label \notin PaidLabels
    BY <1>3
  <2>2. op \in Ops /\ op # "usdt" /\ op # "wallet"
    BY <1>4
  <2>3. Touched(i) /\ IsOrder(i)
    BY <1>7, HasRows DEF IInv, SalesOK, SaleOK
  <2> QED BY <1>1, <1>5, <1>7, <2>1, <2>2, <2>3, StartStep
<1>8. CASE createTopup(p, i)
  <2>1. ~IsOrder(i) /\ Start(p, "topup", i, "beginPayment")
    BY <1>8 DEF createTopup, IsOrder
  <2> QED BY <1>6, <2>1, HasRows
<1>9. CASE confirmByHand(p, i)
  BY <1>6, <1>9, HasRows DEF confirmByHand
<1>10. CASE submitProof(p, i)
  <2>1. Start(p, "auto", i, "proofWrite") /\ status[i] # "NONE"
    BY <1>10 DEF submitProof
  <2> QED BY <1>6, <2>1, HasRows
<1>11. CASE rejectPayment(p, i)
  <2>1. Start(p, "other", i, "rejectWrite") /\ status[i] # "NONE"
    BY <1>11 DEF rejectPayment
  <2> QED BY <1>6, <2>1, HasRows
<1>12. CASE ingestDeposit(p, i)
  <2>1. Start(p, "auto", i, "confirmRead") /\ status[i] # "NONE"
    BY <1>12 DEF ingestDeposit, DepositMayMatch, Open
  <2> QED BY <1>6, <2>1, HasRows
<1>13. CASE handleZarinpalCallback(p, i)
  <2>1. PICK label \in {"zarinpalVerify", "zarinpalReject"} : Start(p, "auto", i, label)
    BY <1>13 DEF handleZarinpalCallback
  <2>2. Touched(i)
    BY <1>13, HasRows DEF handleZarinpalCallback
  <2> QED BY <1>6, <2>1, <2>2
<1>14. CASE handlePaymentPluginCallback(p, i)
  <2>1. PICK label \in {"pluginReject", "pluginReview", "confirmRead"} : Start(p, "auto", i, label)
    BY <1>14 DEF handlePaymentPluginCallback
  <2>2. status[i] # "NONE"
    BY <1>14 DEF handlePaymentPluginCallback, Open
  <2> QED BY <1>6, <2>1, <2>2, HasRows
<1>15. CASE retryFulfill(p, i)
  <2>1. PICK label \in {"manualPaid", "fulfillRead"} : Start(p, "retry", i, label)
    BY <1>15 DEF retryFulfill
  <2> QED BY <1>7, <1>15, <2>1 DEF retryFulfill
<1>16. CASE cancelOrder(p, i)
  <2>1. Start(p, "other", i, "cancelPayment") /\ order[i] # "NONE"
    BY <1>16 DEF cancelOrder
  <2> QED BY <1>7, <2>1
<1> QED BY <1>8, <1>9, <1>10, <1>11, <1>12, <1>13, <1>14, <1>15, <1>16

\* The jobs start from a list of rows.
LEMMA JobStarts ==
  ASSUME IInv, NEW p \in Procs, JobStart(p)
  PROVE  IInv'
<1>1. CASE expirePayments(p)
  <2> DEFINE l == [Idle EXCEPT !.op = "other", !.pc = "expireWrite", !.todo = Stale]
  <2>1. loc' = [loc EXCEPT ![p] = l] /\ loc[p].pc = "idle"
    BY <1>1 DEF expirePayments, At
  <2>2. Stale \in SUBSET Sales /\ \A i \in Stale : Touched(i)
    BY HasRows DEF Stale
  <2>3. l \in Locals
    BY <2>2, IdleOK, SetField DEF Ops, Labels
  <2>4. l.op = "other" /\ l.pc = "expireWrite" /\ l.id = NoSale /\ l.todo = Stale
    BY DEF Idle
  <2> HIDE DEF l
  <2>5. HandlerOK(l)
    BY <2>2, <2>4, SaleAssumptions DEF HandlerOK, RunsFor, Unbound, PaidLabels, OrderLabels
  <2> QED BY <1>1, <2>1, <2>3, <2>5, QuietStep DEF expirePayments, Crediting
<1>2. CASE verifyPendingUsdt(p)
  <2> DEFINE tries == [i \in Sales |-> IF i \in UsdtWaiting THEN info[i].tries ELSE 0]
             l == [Idle EXCEPT !.op = "usdt", !.pc = "usdtNext", !.todo = UsdtWaiting, !.tries = tries]
  <2>1. loc' = [loc EXCEPT ![p] = l] /\ loc[p].pc = "idle"
    BY <1>2 DEF verifyPendingUsdt, At
  <2>2. UsdtWaiting \in SUBSET Sales /\ \A i \in UsdtWaiting : Touched(i)
    BY HasRows DEF UsdtWaiting
  <2>3. tries \in [Sales -> 0 .. MaxTries]
    <3>1. \A i \in Sales : info[i].tries \in 0 .. MaxTries
      BY DEF IInv, TypeOK, Infos
    <3>2. 0 \in 0 .. MaxTries
      BY SaleAssumptions
    <3> QED BY <3>1, <3>2
  <2>4. \A i \in UsdtWaiting : tries[i] < MaxTries
    BY DEF UsdtWaiting
  <2> HIDE DEF tries
  <2>5. l \in Locals
    BY <2>2, <2>3, IdleOK, SetField DEF Ops, Labels
  <2>6. /\ l.op = "usdt" /\ l.pc = "usdtNext" /\ l.id = NoSale /\ l.todo = UsdtWaiting
        /\ l.tries = tries
    BY DEF Idle
  <2> HIDE DEF l
  <2>7. HandlerOK(l)
    BY <2>2, <2>4, <2>6, SaleAssumptions DEF HandlerOK, RunsFor, Unbound, PaidLabels, OrderLabels
  <2> QED BY <1>2, <2>1, <2>5, <2>7, QuietStep DEF verifyPendingUsdt, Crediting
<1> QED BY <1>1, <1>2 DEF JobStart

(* ----------------------- steps that only read --------------------------- *)

\* A handler without a confirmed payment returns, throws or moves on.
LEMMA QuietMove ==
  ASSUME IInv, NEW p \in Procs, loc[p].pc \notin Crediting \union {"orderPaid"},
         UNCHANGED <<terms, saleVars, moneyVars, ghostVars, faults>>,
         \/ Return(p) \/ Throw(p) \/ loc' = [loc EXCEPT ![p] = Idle]
         \/ \E label \in Labels \ Unbound :
              /\ Goto(p, label) /\ loc[p].id \in Sales
              /\ label \notin {"confirmWrite", "rematchDeposits", "expireOrder",
                               "settleRead", "manualConfirm"}
              /\ label \in PaidLabels => paidFor[loc[p].id]
              /\ label \in OrderLabels => IsOrder(loc[p].id)
  PROVE  IInv'
<1>1. CASE Return(p)
  BY <1>1, ReturnedOK, QuietStep DEF Return
<1>2. CASE Throw(p)
  BY <1>2, ThrownOK, QuietStep DEF Throw
<1>3. CASE loc' = [loc EXCEPT ![p] = Idle]
  BY <1>3, IdleOK, QuietStep
<1>4. ASSUME NEW label \in Labels \ Unbound, Goto(p, label), loc[p].id \in Sales,
             label \notin {"confirmWrite", "rematchDeposits", "expireOrder",
                           "settleRead", "manualConfirm"},
             label \in PaidLabels => paidFor[loc[p].id],
             label \in OrderLabels => IsOrder(loc[p].id)
      PROVE  IInv'
  <2>1. loc' = [loc EXCEPT ![p] = [loc[p] EXCEPT !.pc = label]]
    BY <1>4 DEF Goto
  <2>2. [loc[p] EXCEPT !.pc = label] \in Locals /\ HandlerOK([loc[p] EXCEPT !.pc = label])
    BY <1>4, GotoOK
  <2> QED BY <2>1, <2>2, QuietStep
<1> QED BY <1>1, <1>2, <1>3, <1>4

\* The reads that decide which way a handler goes.
LEMMA Reads ==
  ASSUME IInv, NEW p \in Procs,
         \/ fulfillRead(p) \/ zarinpalVerify(p) \/ walletCheck(p) \/ walletRecheck(p)
  PROVE  IInv'
<1>1. UNCHANGED <<terms, saleVars, moneyVars, ghostVars, faults>>
  BY DEF fulfillRead, zarinpalVerify, walletCheck, walletRecheck
<1>2. loc[p].pc \in {"fulfillRead", "zarinpalVerify", "walletCheck", "walletRecheck"}
  BY DEF fulfillRead, zarinpalVerify, walletCheck, walletRecheck, At
<1>3. loc[p].pc \notin Crediting \union {"orderPaid"}
  BY <1>2 DEF Crediting
<1>4. loc[p].id \in Sales
  BY <1>2, HandlerTypes DEF HandlerOK, Unbound
<1>5. loc[p].pc # "zarinpalVerify" => IsOrder(loc[p].id)
  BY <1>2, HandlerTypes DEF HandlerOK, OrderLabels
<1>6. CASE fulfillRead(p)
  <2>1. \/ Return(p)
        \/ Throw(p)
        \/ order[loc[p].id] = "PAID" /\ Goto(p, "deliver")
    BY <1>6, Zenon DEF fulfillRead
  <2>2. order[loc[p].id] = "PAID" => paidFor[loc[p].id]
    BY <1>4 DEF IInv, SalesOK, SaleOK
  <2>3. "deliver" \in Labels \ Unbound /\ IsOrder(loc[p].id)
    BY <1>5, <1>6 DEF Labels, Unbound, fulfillRead, At
  <2> QED BY <1>1, <1>3, <1>4, <2>1, <2>2, <2>3, QuietMove
<1>7. CASE zarinpalVerify(p)
  <2>1. \E label \in {"confirmRead", "zarinpalReject"} : Goto(p, label)
    BY <1>7 DEF zarinpalVerify
  <2>2. \A label \in {"confirmRead", "zarinpalReject"} :
          label \in Labels \ Unbound /\ label \notin PaidLabels \union OrderLabels
    BY DEF Labels, Unbound, PaidLabels, OrderLabels
  <2> QED BY <1>1, <1>3, <1>4, <2>1, <2>2, QuietMove
<1>8. CASE walletCheck(p)
  <2>1. \E label \in {"walletReject", "walletTake"} : Goto(p, label)
    BY <1>8 DEF walletCheck
  <2>2. \A label \in {"walletReject", "walletTake"} : label \in Labels \ Unbound /\ label \notin PaidLabels
    BY DEF Labels, Unbound, PaidLabels
  <2>3. IsOrder(loc[p].id)
    BY <1>5, <1>8 DEF walletCheck, At
  <2> QED BY <1>1, <1>3, <1>4, <2>1, <2>2, <2>3, QuietMove
<1>9. CASE walletRecheck(p)
  <2>1. Return(p) \/ Goto(p, "walletRefund")
    BY <1>9 DEF walletRecheck
  <2>2. "walletRefund" \in Labels \ Unbound /\ "walletRefund" \notin PaidLabels
    BY DEF Labels, Unbound, PaidLabels
  <2>3. IsOrder(loc[p].id)
    BY <1>5, <1>9 DEF walletRecheck, At
  <2> QED BY <1>1, <1>3, <1>4, <2>1, <2>2, <2>3, QuietMove
<1> QED BY <1>6, <1>7, <1>8, <1>9

\* confirmPayment's read remembers whether the payment has a customer.
LEMMA ConfirmReadStep ==
  ASSUME IInv, NEW p \in Procs, confirmRead(p)
  PROVE  IInv'
<1> DEFINE i == loc[p].id
           l == [loc[p] EXCEPT !.pc = "confirmWrite", !.cust = info[i].cust]
<1>1. /\ UNCHANGED <<terms, saleVars, moneyVars, ghostVars, faults>>
      /\ loc[p].pc = "confirmRead" /\ loc[p].pc \notin Crediting \union {"orderPaid"}
  BY DEF confirmRead, At, Crediting
<1>2. i \in Sales
  BY <1>1, HandlerTypes DEF HandlerOK, Unbound
<1>3. Return(p) \/ Throw(p) \/ loc' = [loc EXCEPT ![p] = l]
  BY DEF confirmRead
<1>4. CASE Return(p) \/ Throw(p)
  BY <1>1, <1>4, QuietMove
<1>5. CASE loc' = [loc EXCEPT ![p] = l]
  <2>1. info[i].cust \in BOOLEAN
    BY <1>2 DEF IInv, TypeOK, Infos
  <2>2. l \in Locals
    BY <2>1, HandlerTypes, SetField DEF Labels
  <2>3. /\ l.pc = "confirmWrite" /\ l.cust = info[i].cust /\ l.id = i /\ l.op = loc[p].op
        /\ l.todo = loc[p].todo /\ l.tries = loc[p].tries
    BY HandlerTypes DEF Locals
  <2> HIDE DEF l
  <2>4. HandlerOK(l)
    <3>1. "confirmWrite" \notin PaidLabels \union OrderLabels \union Unbound
      BY DEF PaidLabels, OrderLabels, Unbound
    <3> QED BY <1>2, <2>3, <3>1, HandlerTypes DEF HandlerOK, RunsFor
  <2> QED BY <1>1, <1>5, <2>2, <2>4, QuietStep
<1> QED BY <1>3, <1>4, <1>5

\* settleCustomerTopup's two reads: it gives up only on a payment that is no
\* longer CONFIRMED or is credited already.
LEMMA SettleReads ==
  ASSUME IInv, NEW p \in Procs, settleRead(p) \/ settleCheck(p)
  PROVE  IInv'
<1> DEFINE i == loc[p].id
<1>1. /\ UNCHANGED <<terms, saleVars, moneyVars, ghostVars, faults>>
      /\ loc[p].pc \in {"settleRead", "settleCheck"}
      /\ faults' \in 0 .. MaxFaults /\ (faults' = 0 => faults = 0)
  BY DEF settleRead, settleCheck, At, IInv, TypeOK
<1>2. i \in Sales /\ paidFor[i] /\ loc[p].pc \in Crediting
  BY <1>1, HandlerTypes DEF HandlerOK, Unbound, PaidLabels, Crediting
<1>3. \/ /\ Return(p)
         /\ status[i] # "CONFIRMED" \/ TopupRows(i) # {}
      \/ \E label \in {"settleCheck", "settleCredit"} : Goto(p, label)
  BY HandlerTypes DEF settleRead, settleCheck, At, HandlerOK
<1>4. CASE /\ Return(p)
           /\ status[i] # "CONFIRMED" \/ TopupRows(i) # {}
  <2>1. Carries(p, Returned(loc[p]))
    <3>1. status' = status /\ \A j \in Sales : TopupRows(j)' = TopupRows(j)
      BY <1>1 DEF saleVars, moneyVars, TopupRows, RowsFor
    <3> QED BY <1>1, <1>2, <1>4, <3>1 DEF Carries, Credited
  <2> QED BY <1>1, <1>4, <2>1, ReturnedOK, LocalStep DEF Return
<1>5. ASSUME NEW label \in {"settleCheck", "settleCredit"}, Goto(p, label) PROVE IInv'
  <2> DEFINE l == [loc[p] EXCEPT !.pc = label]
  <2>1. /\ label \in Labels \ Unbound /\ label \notin OrderLabels /\ label \in Crediting
        /\ label \notin {"confirmWrite", "expireOrder", "rematchDeposits", "settleRead", "manualConfirm"}
    BY DEF Labels, Unbound, OrderLabels, Crediting
  <2>2. l \in Locals /\ HandlerOK(l) /\ l.pc = label /\ l.id = i
    BY <1>2, <2>1, GotoOK
  <2>3. loc' = [loc EXCEPT ![p] = l]
    BY <1>5 DEF Goto
  <2> HIDE DEF l
  <2>4. Carries(p, l)
    BY <1>1, <2>1, <2>2 DEF Carries, saleVars
  <2> QED BY <1>1, <2>2, <2>3, <2>4, LocalStep
<1> QED BY <1>3, <1>4, <1>5

(* ----------------- steps that write the payment's columns --------------- *)

\* A handler without a confirmed payment writes columns of payment rows, and
\* confirms nothing.
LEMMA ColumnStep ==
  ASSUME IInv, NEW p \in Procs, NEW l \in Locals, loc' = [loc EXCEPT ![p] = l],
         UNCHANGED <<terms, order, moneyVars, ghostVars, faults>>,
         HandlerOK(l), loc[p].pc \notin Crediting \union {"orderPaid"},
         status' \in [Sales -> PaymentStatus], info' \in [Sales -> Infos],
         \A i \in Sales : /\ info[i].cust => info'[i].cust
                          /\ status'[i] = "CONFIRMED" => status[i] = "CONFIRMED"
                          /\ ~Touched(i) => status'[i] = status[i]
                                            /\ info'[i].authority = info[i].authority
  PROVE  IInv'
<1>1. Grows
  BY DEF Grows, Settled, Credited, TopupRows, RowsFor, moneyVars, ghostVars
<1>2. HandlerOK(l)'
  BY <1>1, HandlerGrows
<1>3. RowTypes'
  BY DEF IInv, TypeOK, RowTypes, LedgerTypeOK, moneyVars, ghostVars
<1>4. \A i \in Sales : /\ TopupRows(i)' = TopupRows(i) /\ (Touched(i)' <=> Touched(i))
                       /\ IsOrder(i)' <=> IsOrder(i)
  BY DEF Touched, IsOrder, TopupRows, RowsFor, moneyVars
<1>5. SalesOK'
  BY <1>4 DEF IInv, SalesOK, SaleOK, moneyVars, ghostVars
<1>6. Carries(p, l)
  BY DEF Carries
<1> QED BY <1>1, <1>2, <1>3, <1>5, <1>6, StepOK

\* ... of the one sale i.
LEMMA ColumnOf ==
  ASSUME IInv, NEW p \in Procs, NEW l \in Locals, loc' = [loc EXCEPT ![p] = l],
         UNCHANGED <<terms, order, moneyVars, ghostVars, faults>>,
         HandlerOK(l), loc[p].pc \notin Crediting \union {"orderPaid"},
         NEW i \in Sales, Touched(i), NEW s \in PaymentStatus \ {"CONFIRMED"}, NEW r \in Infos,
         status' = status \/ status' = [status EXCEPT ![i] = s],
         info' = info \/ info' = [info EXCEPT ![i] = r],
         info[i].cust => r.cust
  PROVE  IInv'
<1>1. status \in [Sales -> PaymentStatus] /\ info \in [Sales -> Infos]
  BY DEF IInv, TypeOK
<1>2. status' \in [Sales -> PaymentStatus] /\ info' \in [Sales -> Infos]
  BY <1>1
<1>3. \A j \in Sales \ {i} : status'[j] = status[j] /\ info'[j] = info[j]
  BY <1>1
<1>4. /\ status'[i] = "CONFIRMED" => status[i] = "CONFIRMED"
      /\ info[i].cust => info'[i].cust
  BY <1>1
<1> QED BY <1>2, <1>3, <1>4, ColumnStep

\* A handler that returns, throws or moves on becomes a well formed handler.
LEMMA MoveOK ==
  ASSUME IInv, NEW p \in Procs,
         \/ Return(p) \/ Throw(p)
         \/ \E label \in Labels \ Unbound :
              /\ Goto(p, label) /\ loc[p].id \in Sales
              /\ label \notin {"confirmWrite", "rematchDeposits", "expireOrder",
                               "settleRead", "manualConfirm"}
              /\ label \in PaidLabels => paidFor[loc[p].id]
              /\ label \in OrderLabels => IsOrder(loc[p].id)
  PROVE  \E l \in Locals : HandlerOK(l) /\ loc' = [loc EXCEPT ![p] = l]
<1>1. CASE Return(p)
  BY <1>1, ReturnedOK DEF Return
<1>2. CASE Throw(p)
  BY <1>2, ThrownOK DEF Throw
<1>3. ASSUME NEW label \in Labels \ Unbound, Goto(p, label), loc[p].id \in Sales,
             label \notin {"confirmWrite", "rematchDeposits", "expireOrder",
                           "settleRead", "manualConfirm"},
             label \in PaidLabels => paidFor[loc[p].id],
             label \in OrderLabels => IsOrder(loc[p].id)
      PROVE  \E l \in Locals : HandlerOK(l) /\ loc' = [loc EXCEPT ![p] = l]
  <2>1. loc' = [loc EXCEPT ![p] = [loc[p] EXCEPT !.pc = label]]
    BY <1>3 DEF Goto
  <2>2. [loc[p] EXCEPT !.pc = label] \in Locals /\ HandlerOK([loc[p] EXCEPT !.pc = label])
    BY <1>3, GotoOK
  <2> QED BY <2>1, <2>2
<1> QED BY <1>1, <1>2, <1>3

\* The writers that reject a payment, put it under review or cancel it.
LEMMA StatusWrites ==
  ASSUME IInv, NEW p \in Procs,
         \/ rejectWrite(p) \/ zarinpalReject(p) \/ pluginWrite(p) \/ cancelPayment(p)
         \/ walletReject(p)
  PROVE  IInv'
<1> DEFINE i == loc[p].id
<1>1. /\ UNCHANGED <<terms, order, moneyVars, ghostVars, faults>> /\ info' = info
      /\ loc[p].pc \in {"rejectWrite", "zarinpalReject", "pluginReject", "pluginReview",
                        "cancelPayment", "walletReject"}
  BY DEF rejectWrite, zarinpalReject, pluginWrite, cancelPayment, walletReject, At
<1>2. /\ loc[p].pc \notin Crediting \union {"orderPaid"}
      /\ i \in Sales /\ Touched(i)
  BY <1>1, HandlerTypes DEF HandlerOK, Unbound, Crediting
<1>3. \E s \in {"REJECTED", "REVIEW"} : status' = status \/ status' = [status EXCEPT ![i] = s]
  <2>1. CASE cancelPayment(p)
    <3>1. status' = [status EXCEPT ![i] = IF status[i] \in Open THEN "REJECTED" ELSE status[i]]
      BY <2>1 DEF cancelPayment
    <3>2. status = [status EXCEPT ![i] = status[i]]
      BY DEF IInv, TypeOK
    <3> QED BY <3>1, <3>2
  <2>2. CASE rejectWrite(p) \/ zarinpalReject(p) \/ pluginWrite(p) \/ walletReject(p)
    BY <2>2 DEF rejectWrite, zarinpalReject, pluginWrite, walletReject, SetStatus
  <2> QED BY <2>1, <2>2
<1>4. \E l \in Locals : HandlerOK(l) /\ loc' = [loc EXCEPT ![p] = l]
  <2>1. CASE cancelPayment(p) \/ walletReject(p)
    <3>1. \E label \in {"cancelWrite", "walletCancel"} : Goto(p, label)
      BY <2>1 DEF cancelPayment, walletReject
    <3>2. {"cancelWrite", "walletCancel"} \subseteq Labels \ (Unbound \union PaidLabels)
      BY DEF Labels, Unbound, PaidLabels
    <3>3. IsOrder(i)
      BY <2>1, HandlerTypes DEF cancelPayment, walletReject, At, HandlerOK, OrderLabels
    <3> QED BY <1>2, <3>1, <3>2, <3>3, MoveOK
  <2>2. CASE rejectWrite(p) \/ zarinpalReject(p) \/ pluginWrite(p)
    BY <2>2, MoveOK DEF rejectWrite, zarinpalReject, pluginWrite
  <2> QED BY <2>1, <2>2
<1>5. info[i] \in Infos /\ {"REJECTED", "REVIEW"} \subseteq PaymentStatus \ {"CONFIRMED"}
  BY <1>2 DEF IInv, TypeOK, PaymentStatus
<1> QED BY <1>1, <1>2, <1>3, <1>4, <1>5, ColumnOf

\* Assigning columns keeps a payment row typed.
LEMMA SetColumn ==
  ASSUME NEW r \in Infos
  PROVE  /\ [r EXCEPT !.due = "later"] \in Infos /\ [r EXCEPT !.due = "past"] \in Infos
         /\ [r EXCEPT !.cust = TRUE] \in Infos
         /\ [r EXCEPT !.authority = TRUE] \in Infos
         /\ \A v \in {"none", "pending", "mismatch"}, n \in 0 .. MaxTries :
              [r EXCEPT !.verify = v, !.tries = n] \in Infos
  BY DEF Infos

\* What follows beginPayment is well formed.
LEMMA AfterBeginOK ==
  ASSUME IInv, NEW p \in Procs, loc[p].id \in Sales, AfterBegin(p),
         loc[p].pc \in {"beginPayment", "zarinpalRequest"}
  PROVE  \E l \in Locals : HandlerOK(l) /\ loc' = [loc EXCEPT ![p] = l]
<1> DEFINE t == terms[loc[p].id]
           l == [loc[p] EXCEPT !.pc = "rematchDeposits", !.op = "rematch"]
<1>1. \/ Goto(p, "tagCustomer")
      \/ t = [flow |-> "order", method |-> "CARD"] /\ loc' = [loc EXCEPT ![p] = l]
      \/ Return(p)
  BY DEF AfterBegin
<1>2. CASE Goto(p, "tagCustomer")
  <2>1. "tagCustomer" \in Labels \ (Unbound \union PaidLabels \union OrderLabels)
    BY DEF Labels, Unbound, PaidLabels, OrderLabels
  <2> QED BY <1>2, <2>1, MoveOK
<1>3. CASE loc' = [loc EXCEPT ![p] = l]
  <2>1. l \in Locals
    BY HandlerTypes, SetField DEF Ops, Labels
  <2>2. l.pc = "rematchDeposits" /\ l.op = "rematch" /\ l.id = loc[p].id /\ l.todo = loc[p].todo
    BY HandlerTypes DEF Locals
  <2> HIDE DEF l
  <2>3. HandlerOK(l)
    <3>1. "rematchDeposits" \notin PaidLabels \union OrderLabels
      BY DEF PaidLabels, OrderLabels
    <3> QED BY <2>2, <3>1, HandlerTypes DEF HandlerOK, RunsFor
  <2> QED BY <1>3, <2>1, <2>3
<1>4. CASE Return(p)
  BY <1>4, MoveOK
<1> QED BY <1>1, <1>2, <1>3, <1>4

\* The writers of more than the status.
LEMMA ColumnWrites ==
  ASSUME IInv, NEW p \in Procs,
         \/ beginPayment(p) \/ zarinpalRequest(p) \/ tagCustomer(p) \/ proofWrite(p)
         \/ proofVerify(p) \/ walletOpen(p)
  PROVE  IInv'
<1> DEFINE i == loc[p].id
<1>1. /\ UNCHANGED <<terms, order, moneyVars, ghostVars, faults>>
      /\ loc[p].pc \in {"beginPayment", "zarinpalRequest", "tagCustomer", "proofWrite",
                        "proofVerify", "walletOpen"}
  BY DEF beginPayment, zarinpalRequest, tagCustomer, proofWrite, proofVerify, walletOpen, At
<1>2. /\ loc[p].pc \notin Crediting \union {"orderPaid"}
      /\ i \in Sales /\ Touched(i) /\ info[i] \in Infos
  BY <1>1, HandlerTypes DEF HandlerOK, Unbound, Crediting, IInv, TypeOK
<1>3. {"REJECTED", "REVIEW", "PENDING"} \subseteq PaymentStatus \ {"CONFIRMED"}
  BY DEF PaymentStatus
<1>4. {"zarinpalRequest", "proofVerify", "confirmRead"}
        \subseteq Labels \ (Unbound \union PaidLabels \union OrderLabels)
  BY DEF Labels, Unbound, PaidLabels, OrderLabels
<1>5. CASE beginPayment(p)
  <2> DEFINE r == [info[i] EXCEPT !.due = "later"]
  <2>1. status' = status \/ status' = [status EXCEPT ![i] = "PENDING"]
    BY <1>5 DEF beginPayment, SetStatus
  <2>2. info' = info \/ info' = [info EXCEPT ![i] = r]
    BY <1>5 DEF beginPayment
  <2>3. r \in Infos
    BY <1>2, SetColumn
  <2>6. r.cust = info[i].cust
    BY <1>2 DEF Infos
  <2> HIDE DEF r
  <2>4. Throw(p) \/ Goto(p, "zarinpalRequest") \/ AfterBegin(p)
    BY <1>5 DEF beginPayment
  <2>5. PICK l \in Locals : HandlerOK(l) /\ loc' = [loc EXCEPT ![p] = l]
    BY <1>2, <1>4, <1>5, <2>4, MoveOK, AfterBeginOK DEF beginPayment, At
  <2> QED BY <1>1, <1>2, <1>3, <2>1, <2>2, <2>3, <2>5, <2>6, ColumnOf
<1>6. CASE zarinpalRequest(p)
  <2> DEFINE r == [info[i] EXCEPT !.authority = TRUE]
  <2>1. status' = status \/ status' = [status EXCEPT ![i] = "REJECTED"]
    BY <1>6 DEF zarinpalRequest, SetStatus
  <2>2. info' = info \/ info' = [info EXCEPT ![i] = r]
    BY <1>6 DEF zarinpalRequest
  <2>3. r \in Infos
    BY <1>2, SetColumn
  <2>6. r.cust = info[i].cust
    BY <1>2 DEF Infos
  <2> HIDE DEF r
  <2>4. Throw(p) \/ AfterBegin(p)
    BY <1>6 DEF zarinpalRequest
  <2>5. PICK l \in Locals : HandlerOK(l) /\ loc' = [loc EXCEPT ![p] = l]
    BY <1>2, <1>6, <2>4, MoveOK, AfterBeginOK DEF zarinpalRequest, At
  <2> QED BY <1>1, <1>2, <1>3, <2>1, <2>2, <2>3, <2>5, <2>6, ColumnOf
<1>7. CASE tagCustomer(p) \/ walletOpen(p)
  <2> DEFINE r == [info[i] EXCEPT !.cust = TRUE]
  <2>1. status' = status \/ status' = [status EXCEPT ![i] = "PENDING"]
    BY <1>7 DEF tagCustomer, walletOpen, SetStatus
  <2>2. info' = [info EXCEPT ![i] = r]
    BY <1>7 DEF tagCustomer, walletOpen
  <2>3. r \in Infos /\ r.cust
    BY <1>2, SetColumn DEF Infos
  <2>4. PICK l \in Locals : HandlerOK(l) /\ loc' = [loc EXCEPT ![p] = l]
    <3>1. CASE walletOpen(p)
      <4>1. "walletCheck" \in Labels \ (Unbound \union PaidLabels)
        BY DEF Labels, Unbound, PaidLabels
      <4>2. IsOrder(i)
        BY <3>1, HandlerTypes DEF walletOpen, At, HandlerOK, OrderLabels
      <4> QED BY <1>2, <3>1, <4>1, <4>2, MoveOK DEF walletOpen
    <3>2. CASE tagCustomer(p)
      BY <3>2, MoveOK DEF tagCustomer
    <3> QED BY <1>7, <3>1, <3>2
  <2> QED BY <1>1, <1>2, <1>3, <2>1, <2>2, <2>3, <2>4, ColumnOf
<1>8. CASE proofWrite(p)
  <2> DEFINE r == [info[i] EXCEPT !.verify = "pending", !.tries = 0]
  <2>1. status' = status \/ status' = [status EXCEPT ![i] = "REVIEW"]
    BY <1>8 DEF proofWrite, SetStatus
  <2>2. info' = info \/ info' = [info EXCEPT ![i] = r]
    BY <1>8 DEF proofWrite
  <2>3. r \in Infos
    <3>1. 0 \in 0 .. MaxTries
      BY SaleAssumptions
    <3> QED BY <1>2, <3>1, SetColumn
  <2>6. r.cust = info[i].cust
    BY <1>2 DEF Infos
  <2> HIDE DEF r
  <2>4. Throw(p) \/ Goto(p, "proofVerify") \/ Return(p)
    BY <1>8 DEF proofWrite
  <2>5. PICK l \in Locals : HandlerOK(l) /\ loc' = [loc EXCEPT ![p] = l]
    BY <1>2, <1>4, <2>4, MoveOK
  <2> QED BY <1>1, <1>2, <1>3, <2>1, <2>2, <2>3, <2>5, <2>6, ColumnOf
<1>9. CASE proofVerify(p)
  <2>1. PICK v \in {"pending", "mismatch"} :
          info' = info \/ info' = [info EXCEPT ![i] = [info[i] EXCEPT !.verify = v, !.tries = 1]]
    BY <1>9 DEF proofVerify
  <2> DEFINE r == [info[i] EXCEPT !.verify = v, !.tries = 1]
  <2>2. r \in Infos
    <3>1. 1 \in 0 .. MaxTries
      BY SaleAssumptions
    <3> QED BY <1>2, <3>1, SetColumn
  <2>5. r.cust = info[i].cust
    BY <1>2 DEF Infos
  <2>6. info' = info \/ info' = [info EXCEPT ![i] = r]
    BY <2>1
  <2> HIDE DEF r
  <2>3. status' = status /\ (Goto(p, "confirmRead") \/ Return(p))
    BY <1>9 DEF proofVerify
  <2>4. PICK l \in Locals : HandlerOK(l) /\ loc' = [loc EXCEPT ![p] = l]
    BY <1>2, <1>4, <2>3, MoveOK
  <2> QED BY <1>1, <1>2, <1>3, <2>2, <2>3, <2>4, <2>5, <2>6, ColumnOf
<1> QED BY <1>5, <1>6, <1>7, <1>8, <1>9

(* ---------------------------- the worker's jobs ------------------------- *)

\* The USDT job takes its next payment.
LEMMA UsdtStep ==
  ASSUME IInv, NEW p \in Procs, usdtNext(p)
  PROVE  IInv'
<1>1. /\ UNCHANGED <<terms, status, order, moneyVars, ghostVars, faults>>
      /\ loc[p].pc = "usdtNext" /\ loc[p].pc \notin Crediting \union {"orderPaid"}
  BY DEF usdtNext, At, Crediting
<1>2. loc[p].op = "usdt" /\ loc[p].todo \in SUBSET Sales
  BY <1>1, HandlerTypes DEF HandlerOK, RunsFor
<1>3. PICK i \in loc[p].todo :
        \/ /\ loc' = [loc EXCEPT ![p].pc = "confirmRead", ![p].id = i, ![p].todo = @ \ {i}]
           /\ info' = info
        \/ \E v \in {"pending", "mismatch"} :
             /\ info' = [info EXCEPT ![i].verify = v, ![i].tries = loc[p].tries[i] + 1]
             /\ loc' = [loc EXCEPT ![p] = Returned([loc[p] EXCEPT !.id = i, !.todo = @ \ {i}])]
  BY DEF usdtNext
<1>4. i \in Sales /\ Touched(i) /\ loc[p].tries[i] < MaxTries
  BY <1>2, HandlerTypes DEF HandlerOK
<1>5. {"confirmRead", "usdtNext"} \intersect (PaidLabels \union OrderLabels) = {}
  BY DEF PaidLabels, OrderLabels
<1>6. CASE /\ loc' = [loc EXCEPT ![p].pc = "confirmRead", ![p].id = i, ![p].todo = @ \ {i}]
           /\ info' = info
  <2> DEFINE l == [loc[p] EXCEPT !.pc = "confirmRead", !.id = i, !.todo = loc[p].todo \ {i}]
  <2>1. l \in Locals
    BY <1>2, <1>4, HandlerTypes, SetField DEF Labels
  <2>2. /\ l.pc = "confirmRead" /\ l.id = i /\ l.todo = loc[p].todo \ {i} /\ l.op = "usdt"
        /\ l.tries = loc[p].tries
    BY <1>2, HandlerTypes DEF Locals
  <2>3. loc' = [loc EXCEPT ![p] = l]
    BY <1>6 DEF IInv, TypeOK
  <2> HIDE DEF l
  <2>4. HandlerOK(l)
    <3>1. \A j \in l.todo : l.tries[j] < MaxTries /\ Touched(j)
      BY <1>2, <2>2, HandlerTypes DEF HandlerOK
    <3> QED BY <1>4, <1>5, <2>2, <3>1 DEF HandlerOK, RunsFor
  <2> QED BY <1>1, <1>6, <2>1, <2>3, <2>4, QuietStep DEF saleVars
<1>7. ASSUME NEW v \in {"pending", "mismatch"},
             info' = [info EXCEPT ![i].verify = v, ![i].tries = loc[p].tries[i] + 1],
             loc' = [loc EXCEPT ![p] = Returned([loc[p] EXCEPT !.id = i, !.todo = @ \ {i}])]
      PROVE  IInv'
  <2> DEFINE r == [info[i] EXCEPT !.verify = v, !.tries = loc[p].tries[i] + 1]
             m == [loc[p] EXCEPT !.id = i, !.todo = loc[p].todo \ {i}]
             n == [m EXCEPT !.pc = "usdtNext"]
  <2>1. m \in Locals
    BY <1>2, <1>4, HandlerTypes, SetField
  <2>2. m.id = i /\ m.todo = loc[p].todo \ {i} /\ m.op = "usdt" /\ m.tries = loc[p].tries
    BY <1>2, HandlerTypes DEF Locals
  <2>3. info[i] \in Infos
    BY <1>4 DEF IInv, TypeOK
  <2>4. r \in Infos
    <3>1. loc[p].tries[i] + 1 \in 0 .. MaxTries
      BY <1>4, SaleAssumptions, HandlerTypes
    <3> QED BY <2>3, <3>1, SetColumn
  <2>5. r.cust = info[i].cust
    BY <2>3 DEF Infos
  <2>6. info' = [info EXCEPT ![i] = r] /\ loc' = [loc EXCEPT ![p] = Returned(m)]
    BY <1>7
  <2> HIDE DEF r, m
  <2>7. n \in Locals
    BY <2>1, SetField DEF Labels
  <2>8. n.pc = "usdtNext" /\ n.id = i /\ n.todo = m.todo /\ n.op = "usdt" /\ n.tries = m.tries
    BY <2>1, <2>2 DEF Locals
  <2>9. Returned(m) = n \/ Returned(m) = Idle
    BY <2>2 DEF Returned
  <2> HIDE DEF n
  <2>10. HandlerOK(n)
    <3>1. \A j \in n.todo : n.tries[j] < MaxTries /\ Touched(j)
      BY <1>2, <2>2, <2>8, HandlerTypes DEF HandlerOK
    <3> QED BY <1>4, <1>5, <2>8, <3>1 DEF HandlerOK, RunsFor, Unbound
  <2>11. PICK l \in Locals : HandlerOK(l) /\ loc' = [loc EXCEPT ![p] = l]
    BY <2>6, <2>7, <2>9, <2>10, IdleOK
  <2>12. "PENDING" \in PaymentStatus \ {"CONFIRMED"}
    BY DEF PaymentStatus
  <2> QED BY <1>1, <1>4, <2>4, <2>5, <2>6, <2>11, <2>12, ColumnOf
<1> QED BY <1>3, <1>6, <1>7

\* expirePayments goes on with the orders left, or ends.
LEMMA ExpireGoOnOK ==
  ASSUME IInv, NEW p \in Procs, loc[p].op = "other", NEW rest \in SUBSET loc[p].todo,
         ExpireGoOn(p, rest)
  PROVE  \E l \in Locals : HandlerOK(l) /\ loc' = [loc EXCEPT ![p] = l]
<1> DEFINE l == [loc[p] EXCEPT !.pc = "expireCount", !.id = NoSale, !.todo = rest]
<1>1. loc' = [loc EXCEPT ![p] = Idle] \/ loc' = [loc EXCEPT ![p] = l]
  BY DEF ExpireGoOn
<1>2. l \in Locals
  BY HandlerTypes, SetField DEF Labels
<1>3. l.pc = "expireCount" /\ l.id = NoSale /\ l.todo = rest /\ l.op = "other"
  BY HandlerTypes DEF Locals
<1> HIDE DEF l
<1>4. HandlerOK(l)
  <2>1. \A i \in l.todo : Touched(i)
    BY <1>3, HandlerTypes DEF HandlerOK
  <2>2. "expireCount" \in Unbound \ (PaidLabels \union OrderLabels)
    BY DEF Unbound, PaidLabels, OrderLabels
  <2> QED BY <1>3, <2>1, <2>2, SaleAssumptions DEF HandlerOK, RunsFor
<1> QED BY <1>1, <1>2, <1>4, IdleOK

\* expirePayments closes the payments it found and counts per order.
LEMMA ExpireSteps ==
  ASSUME IInv, NEW p \in Procs, expireWrite(p) \/ expireCount(p)
  PROVE  IInv'
<1>1. /\ UNCHANGED <<terms, info, order, moneyVars, ghostVars, faults>>
      /\ loc[p].pc \in {"expireWrite", "expireCount"}
      /\ loc[p].pc \notin Crediting \union {"orderPaid"}
  BY DEF expireWrite, expireCount, At, Crediting, saleVars
<1>2. loc[p].op = "other" /\ loc[p].todo \in SUBSET Sales /\ \A i \in loc[p].todo : Touched(i)
  BY <1>1, HandlerTypes DEF HandlerOK, RunsFor
<1>3. CASE expireWrite(p)
  <2>1. {i \in loc[p].todo : IsOrder(i)} \in SUBSET loc[p].todo
    OBVIOUS
  <2>2. PICK l \in Locals : HandlerOK(l) /\ loc' = [loc EXCEPT ![p] = l]
    BY <1>2, <1>3, <2>1, ExpireGoOnOK DEF expireWrite
  <2>3. status' = [i \in Sales |-> IF i \in loc[p].todo THEN "EXPIRED" ELSE status[i]]
    BY <1>3 DEF expireWrite
  <2>4. status' \in [Sales -> PaymentStatus]
    BY <2>3 DEF IInv, TypeOK, PaymentStatus
  <2>5. \A i \in Sales : /\ status'[i] = "CONFIRMED" => status[i] = "CONFIRMED"
                         /\ ~Touched(i) => status'[i] = status[i]
    BY <1>2, <2>3
  <2>6. info' \in [Sales -> Infos]
    BY <1>1 DEF IInv, TypeOK
  <2> QED BY <1>1, <2>2, <2>4, <2>5, <2>6, ColumnStep
<1>4. CASE expireCount(p)
  <2>1. PICK i \in loc[p].todo :
          \/ ExpireGoOn(p, loc[p].todo \ {i})
          \/ loc' = [loc EXCEPT ![p] = [loc[p] EXCEPT !.pc = "expireOrder", !.id = i]]
    BY <1>4 DEF expireCount
  <2> DEFINE l == [loc[p] EXCEPT !.pc = "expireOrder", !.id = i]
  <2>2. l \in Locals
    BY <1>2, HandlerTypes, SetField DEF Labels
  <2>3. l.pc = "expireOrder" /\ l.id = i /\ l.todo = loc[p].todo /\ l.op = "other"
    BY <1>2, HandlerTypes DEF Locals
  <2>4. ExpireGoOn(p, loc[p].todo \ {i}) \/ loc' = [loc EXCEPT ![p] = l]
    BY <2>1
  <2> HIDE DEF l
  <2>5. HandlerOK(l)
    <3>1. "expireOrder" \notin PaidLabels \union OrderLabels
      BY DEF PaidLabels, OrderLabels
    <3> QED BY <1>2, <2>3, <3>1 DEF HandlerOK, RunsFor
  <2>6. \E m \in Locals : HandlerOK(m) /\ loc' = [loc EXCEPT ![p] = m]
    BY <1>2, <2>2, <2>4, <2>5, ExpireGoOnOK
  <2> QED BY <1>1, <1>4, <2>6, QuietStep DEF expireCount
<1> QED BY <1>3, <1>4

\* The deposit matcher takes the next deposit, or ends.
LEMMA RematchStep ==
  ASSUME IInv, NEW p \in Procs, rematchDeposits(p)
  PROVE  IInv'
<1>1. /\ UNCHANGED <<terms, saleVars, moneyVars, ghostVars, faults>>
      /\ loc[p].pc = "rematchDeposits" /\ loc[p].pc \notin Crediting \union {"orderPaid"}
  BY DEF rematchDeposits, At, Crediting
<1>2. CASE loc' = [loc EXCEPT ![p] = Idle]
  BY <1>1, <1>2, QuietMove
<1>3. ASSUME NEW i \in Sales, DepositMayMatch(i),
             loc' = [loc EXCEPT ![p].pc = "confirmRead", ![p].id = i]
      PROVE  IInv'
  <2> DEFINE l == [loc[p] EXCEPT !.pc = "confirmRead", !.id = i]
  <2>1. loc' = [loc EXCEPT ![p] = l]
    BY <1>3 DEF IInv, TypeOK
  <2>2. l \in Locals
    BY HandlerTypes, SetField DEF Labels
  <2>3. /\ l.pc = "confirmRead" /\ l.id = i /\ l.todo = loc[p].todo /\ l.op = "rematch"
    BY <1>1, HandlerTypes DEF Locals, HandlerOK, RunsFor
  <2> HIDE DEF l
  <2>4. Touched(i)
    BY <1>3, HasRows DEF DepositMayMatch, Open
  <2>5. HandlerOK(l)
    <3>1. "confirmRead" \notin PaidLabels \union OrderLabels
      BY DEF PaidLabels, OrderLabels
    <3> QED BY <2>3, <2>4, <3>1, HandlerTypes DEF HandlerOK, RunsFor
  <2> QED BY <1>1, <2>1, <2>2, <2>5, QuietStep
<1> QED BY <1>2, <1>3 DEF rematchDeposits

(* --------------------------- faults and the clock ----------------------- *)

\* The process dies or a call throws: nothing is promised of p's payment then.
LEMMA FaultStep ==
  ASSUME IInv, NEW p \in Procs, Fault(p)
  PROVE  IInv'
<1>1. faults' \in 0 .. MaxFaults /\ faults' # 0
  BY SaleAssumptions DEF Fault, IInv, TypeOK
<1>2. PICK l \in Locals : HandlerOK(l) /\ loc' = [loc EXCEPT ![p] = l]
  BY IdleOK, ThrownOK DEF Fault, Throw
<1>3. Carries(p, l)
  BY <1>1 DEF Carries, Fault, saleVars
<1> QED BY <1>1, <1>2, <1>3, LocalStep DEF Fault

\* A deadline passes.
LEMMA ClockStep ==
  ASSUME IInv, NEW i \in Sales, ttlElapses(i)
  PROVE  IInv'
<1>1. /\ UNCHANGED <<terms, status, order, moneyVars, ghostVars, loc, faults>>
      /\ info' = [info EXCEPT ![i] = [info[i] EXCEPT !.due = "past"]]
  BY DEF ttlElapses
<1>2. info \in [Sales -> Infos] /\ info[i] \in Infos
  BY DEF IInv, TypeOK
<1>3. info' \in [Sales -> Infos]
  BY <1>1, <1>2, SetColumn
<1>4. \A j \in Sales : info'[j].cust = info[j].cust /\ info'[j].authority = info[j].authority
  BY <1>1, <1>2 DEF Infos
<1>5. Grows
  BY <1>1, <1>4 DEF Grows, Settled, Credited, TopupRows, RowsFor, moneyVars, ghostVars
<1>6. TypeOK'
  BY <1>1, <1>3 DEF IInv, TypeOK, LedgerTypeOK, moneyVars, ghostVars
<1>7. HandlersOK'
  <2> SUFFICES ASSUME NEW q \in Procs PROVE HandlerOK(loc[q])'
    BY DEF HandlersOK
  <2>1. PICK m \in Locals : m = loc[q] /\ HandlerOK(m)
    BY HandlerTypes
  <2>2. HandlerOK(m)'
    BY <1>5, <2>1, HandlerGrows
  <2> QED BY <1>1, <2>1, <2>2 DEF HandlerOK
<1>8. \A j \in Sales : /\ TopupRows(j)' = TopupRows(j) /\ (Touched(j)' <=> Touched(j))
                       /\ IsOrder(j)' <=> IsOrder(j)
  BY <1>1 DEF Touched, IsOrder, TopupRows, RowsFor, moneyVars
<1>9. SalesOK'
  BY <1>1, <1>4, <1>8 DEF IInv, SalesOK, SaleOK, moneyVars, ghostVars
<1>10. ConfirmedOrderIsPaid' /\ ConfirmedTopupIsCredited'
  BY <1>1, <1>8 DEF IInv, ConfirmedOrderIsPaid, ConfirmedTopupIsCredited, Handling, moneyVars
<1> QED BY <1>6, <1>7, <1>9, <1>10 DEF IInv

(* --------------------------- steps of the order ------------------------- *)

\* A handler sets the status of its order.
LEMMA OrderStep ==
  ASSUME IInv, NEW p \in Procs, NEW l \in Locals, loc' = [loc EXCEPT ![p] = l],
         UNCHANGED <<terms, status, info, moneyVars, ghostVars, faults>>,
         HandlerOK(l), loc[p].pc \notin Crediting,
         NEW i \in Sales, IsOrder(i), order[i] # "NONE", loc[p].pc = "orderPaid" => loc[p].id = i,
         NEW s \in OrderStatus \ {"NONE"}, order' = [order EXCEPT ![i] = s],
         s \in {"PAID", "FULFILLED"} => paidFor[i],
         Settled(i) \/ loc[p].pc = "orderPaid" => s \in {"PAID", "FULFILLED", "CANCELED"}
  PROVE  IInv'
<1>0. order \in [Sales -> OrderStatus]
  BY DEF IInv, TypeOK
<1>1. order'[i] = s /\ \A j \in Sales \ {i} : order'[j] = order[j]
  BY <1>0
<1>2. \A j \in Sales : /\ TopupRows(j)' = TopupRows(j) /\ (Touched(j)' <=> Touched(j))
                       /\ IsOrder(j)' <=> IsOrder(j)
  BY <1>1 DEF Touched, IsOrder, TopupRows, RowsFor, moneyVars
<1>3. \A j \in Sales : Settled(j) => Settled(j)'
  BY <1>1 DEF Settled
<1>4. Grows
  BY <1>1, <1>2, <1>3 DEF Grows, Credited, moneyVars, ghostVars
<1>5. HandlerOK(l)'
  BY <1>4, HandlerGrows
<1>6. RowTypes'
  BY <1>0 DEF IInv, TypeOK, RowTypes, LedgerTypeOK, moneyVars, ghostVars
<1>7. SalesOK'
  BY <1>1, <1>2 DEF IInv, SalesOK, SaleOK, moneyVars, ghostVars
<1>8. Carries(p, l)
  BY <1>1 DEF Carries, Settled
<1> QED BY <1>4, <1>5, <1>6, <1>7, <1>8, StepOK

\* The writers of the order's status.
LEMMA OrderWrites ==
  ASSUME IInv, NEW p \in Procs,
         orderPaid(p) \/ orderDone(p) \/ cancelWrite(p) \/ walletCancel(p)
  PROVE  IInv'
<1> DEFINE i == loc[p].id
<1>1. /\ UNCHANGED <<terms, status, info, moneyVars, ghostVars, faults>>
      /\ loc[p].pc \in {"orderPaid", "orderDone", "cancelWrite", "walletCancel"}
  BY DEF orderPaid, orderDone, cancelWrite, walletCancel, At
<1>2. /\ loc[p].pc \notin Crediting
      /\ i \in Sales /\ IsOrder(i) /\ Touched(i)
  BY <1>1, HandlerTypes DEF HandlerOK, OrderLabels, Crediting
<1>3. order[i] # "NONE"
  BY <1>2 DEF Touched
<1>4. {"PAID", "FULFILLED", "CANCELED"} \subseteq OrderStatus \ {"NONE"}
  BY DEF OrderStatus
<1>5. CASE orderPaid(p)
  <2>1. order' = [order EXCEPT ![i] = "PAID"] /\ Goto(p, "fulfillRead")
    BY <1>5 DEF orderPaid, SetOrder
  <2>2. paidFor[i]
    BY <1>5, HandlerTypes DEF orderPaid, At, HandlerOK, PaidLabels
  <2>3. "fulfillRead" \in Labels \ (Unbound \union PaidLabels)
    BY DEF Labels, Unbound, PaidLabels
  <2>4. PICK l \in Locals : HandlerOK(l) /\ loc' = [loc EXCEPT ![p] = l]
    BY <1>2, <2>1, <2>3, MoveOK
  <2> QED BY <1>1, <1>2, <1>3, <1>4, <2>1, <2>2, <2>4, OrderStep
<1>6. CASE orderDone(p)
  <2>1. order' = [order EXCEPT ![i] = "FULFILLED"] /\ Return(p)
    BY <1>6 DEF orderDone, SetOrder
  <2>2. paidFor[i]
    BY <1>6, HandlerTypes DEF orderDone, At, HandlerOK, PaidLabels
  <2>3. PICK l \in Locals : HandlerOK(l) /\ loc' = [loc EXCEPT ![p] = l]
    BY <2>1, MoveOK
  <2> QED BY <1>1, <1>2, <1>3, <1>4, <2>1, <2>2, <2>3, OrderStep
<1>7. CASE cancelWrite(p) \/ walletCancel(p)
  <2>1. order' = [order EXCEPT ![i] = "CANCELED"] /\ Return(p)
    BY <1>7 DEF cancelWrite, walletCancel, SetOrder
  <2>2. PICK l \in Locals : HandlerOK(l) /\ loc' = [loc EXCEPT ![p] = l]
    BY <2>1, MoveOK
  <2> QED BY <1>1, <1>2, <1>3, <1>4, <2>1, <2>2, OrderStep
<1> QED BY <1>5, <1>6, <1>7

\* expirePayments closes an order that is still PENDING.
LEMMA ExpireOrderStep ==
  ASSUME IInv, NEW p \in Procs, expireOrder(p)
  PROVE  IInv'
<1> DEFINE i == loc[p].id
<1>1. /\ UNCHANGED <<terms, status, info, moneyVars, ghostVars, faults>>
      /\ loc[p].pc = "expireOrder" /\ loc[p].pc \notin Crediting \union {"orderPaid"}
      /\ order' = [order EXCEPT ![i] = IF order[i] = "PENDING" THEN "EXPIRED" ELSE order[i]]
      /\ ExpireGoOn(p, loc[p].todo \ {i})
  BY DEF expireOrder, At, Crediting
<1>2. loc[p].op = "other" /\ i \in Sales
  BY <1>1, HandlerTypes DEF HandlerOK, RunsFor, Unbound
<1>3. loc[p].todo \ {i} \in SUBSET loc[p].todo
  OBVIOUS
<1>4. PICK l \in Locals : HandlerOK(l) /\ loc' = [loc EXCEPT ![p] = l]
  BY <1>1, <1>2, <1>3, ExpireGoOnOK
<1>5. CASE order[i] = "PENDING"
  <2>1. IsOrder(i) /\ ~Settled(i) /\ order' = [order EXCEPT ![i] = "EXPIRED"]
    BY <1>1, <1>2, <1>5 DEF IInv, SalesOK, SaleOK, Settled
  <2>2. "EXPIRED" \in OrderStatus \ {"NONE"}
    BY DEF OrderStatus
  <2> QED BY <1>1, <1>2, <1>4, <1>5, <2>1, <2>2, OrderStep
<1>6. CASE order[i] # "PENDING"
  <2>1. order' = order
    BY <1>1, <1>2, <1>6 DEF IInv, TypeOK
  <2> QED BY <1>1, <1>4, <2>1, QuietStep DEF saleVars
<1> QED BY <1>5, <1>6

(* -------------------------- steps that move money ----------------------- *)

\* A posted row is found under its reference, and no row is lost.
LEMMA PostRows ==
  ASSUME LedgerTypeOK, NEW a \in Accounts, NEW balance \in Int, NEW amount \in Int,
         NEW ref \in Refs, Post(a, balance, amount, ref)
  PROVE  /\ LedgerTypeOK'
         /\ RowsFor(a, ref)' # {}
         /\ \A c \in Accounts, q \in Refs :
              /\ RowsFor(c, q) # {} => RowsFor(c, q)' # {}
              /\ RowsFor(c, q)' # {} => RowsFor(c, q) # {} \/ (c = a /\ q = ref)
<1> DEFINE row == [ref |-> ref, amount |-> amount, balanceAfter |-> balance]
           n == Len(ledger[a])
<1>1. row \in Rows /\ row.ref = ref /\ ledger \in [Accounts -> Seq(Rows)]
  BY DEF Rows, LedgerTypeOK
<1>2. credit' = [credit EXCEPT ![a] = balance] /\ ledger' = [ledger EXCEPT ![a] = Append(ledger[a], row)]
  BY DEF Post
<1>3. LedgerTypeOK'
  BY <1>1, <1>2 DEF LedgerTypeOK
<1> HIDE DEF row
<1>4. /\ \A c \in Accounts \ {a} : ledger'[c] = ledger[c]
      /\ ledger'[a] = Append(ledger[a], row) /\ ledger[a] \in Seq(Rows)
  BY <1>1, <1>2
<1>5. /\ n \in Nat /\ DOMAIN ledger[a] = 1 .. n /\ DOMAIN ledger'[a] = 1 .. n + 1
      /\ \A k \in 1 .. n : ledger'[a][k] = ledger[a][k]
      /\ ledger'[a][n + 1] = row
  BY <1>1, <1>4
<1>6. RowsFor(a, ref)' # {}
  BY <1>1, <1>5 DEF RowsFor
<1>7. ASSUME NEW c \in Accounts, NEW q \in Refs
      PROVE  /\ RowsFor(c, q) # {} => RowsFor(c, q)' # {}
             /\ RowsFor(c, q)' # {} => RowsFor(c, q) # {} \/ (c = a /\ q = ref)
  <2>1. CASE c # a
    BY <1>4, <2>1 DEF RowsFor
  <2>2. CASE c = a
    <3>1. RowsFor(a, q) # {} => RowsFor(a, q)' # {}
      BY <1>5 DEF RowsFor
    <3>2. \A k \in 1 .. n + 1 : k \in 1 .. n \/ k = n + 1
      BY <1>5
    <3>3. RowsFor(a, q)' # {} => RowsFor(a, q) # {} \/ q = ref
      BY <1>1, <1>5, <3>2 DEF RowsFor
    <3> QED BY <2>2, <3>1, <3>3
  <2> QED BY <2>1, <2>2
<1> QED BY <1>3, <1>6, <1>7

\* A handler credits a wallet or provisions a service, for paid sales only.
LEMMA MoneyStep ==
  ASSUME IInv, NEW p \in Procs, NEW l \in Locals, loc' = [loc EXCEPT ![p] = l],
         UNCHANGED <<terms, saleVars, paidFor>>,
         faults' \in 0 .. MaxFaults, faults' = 0 => faults = 0,
         HandlerOK(l), Carries(p, l), LedgerTypeOK',
         sellerCredits' \in [Sales -> 0 .. 2], delivered' \in [Sales -> 0 .. 2],
         \A i \in Sales : /\ Credited(i) => Credited(i)'
                          /\ Credited(i)' => Credited(i) \/ paidFor[i]
                          /\ delivered'[i] > 0 => delivered[i] > 0 \/ paidFor[i]
  PROVE  IInv'
<1>1. Grows
  BY DEF Grows, Settled, saleVars
<1>2. HandlerOK(l)'
  BY <1>1, HandlerGrows
<1>3. RowTypes'
  BY DEF IInv, TypeOK, RowTypes, saleVars
<1>4. \A i \in Sales : (Touched(i)' <=> Touched(i)) /\ (IsOrder(i)' <=> IsOrder(i))
  BY DEF Touched, IsOrder, saleVars
<1>5. SalesOK'
  BY <1>4 DEF IInv, SalesOK, SaleOK, Credited, saleVars
<1> QED BY <1>1, <1>2, <1>3, <1>5, StepOK

\* The seller's wallet is credited for a confirmed top-up.
LEMMA ChargeSellerStep ==
  ASSUME IInv, NEW p \in Procs, chargeSeller(p)
  PROVE  IInv'
<1> DEFINE i == loc[p].id
<1>1. /\ UNCHANGED <<terms, saleVars, credit, ledger, ghostVars, faults>>
      /\ loc[p].pc = "chargeSeller" /\ Return(p)
      /\ sellerCredits' = [sellerCredits EXCEPT ![i] = AtMostTwo(sellerCredits[i] + 1)]
  BY DEF chargeSeller, At
<1>2. i \in Sales /\ paidFor[i]
  BY <1>1, HandlerTypes DEF HandlerOK, Unbound, PaidLabels
<1>3. sellerCredits \in [Sales -> 0 .. 2]
  BY DEF IInv, TypeOK
<1>4. AtMostTwo(sellerCredits[i] + 1) \in 1 .. 2
  BY <1>2, <1>3 DEF AtMostTwo
<1>5. /\ sellerCredits' \in [Sales -> 0 .. 2] /\ sellerCredits'[i] > 0
      /\ \A j \in Sales \ {i} : sellerCredits'[j] = sellerCredits[j]
  BY <1>1, <1>2, <1>3, <1>4
<1>6. \A j \in Sales : TopupRows(j)' = TopupRows(j)
  BY <1>1 DEF TopupRows, RowsFor
<1>7. \A j \in Sales : (Credited(j) => Credited(j)') /\ (Credited(j)' => Credited(j) \/ paidFor[j])
  BY <1>2, <1>5, <1>6 DEF Credited
<1>8. \A j : j = i => Credited(j)'
  BY <1>5 DEF Credited
<1>9. PICK l \in Locals : HandlerOK(l) /\ loc' = [loc EXCEPT ![p] = l]
  BY <1>1, MoveOK
<1>10. Carries(p, l)
  BY <1>1, <1>8 DEF Carries, saleVars
<1>11. /\ faults' \in 0 .. MaxFaults /\ (faults' = 0 => faults = 0)
       /\ LedgerTypeOK' /\ delivered' \in [Sales -> 0 .. 2] /\ delivered' = delivered
       /\ UNCHANGED <<terms, saleVars, paidFor>>
  BY <1>1 DEF IInv, TypeOK, LedgerTypeOK, ghostVars
<1> QED BY <1>5, <1>7, <1>9, <1>10, <1>11, MoneyStep

\* The customer's wallet is credited for a confirmed top-up; the checkout takes
\* the price, and may give it back.
LEMMA WalletSteps ==
  ASSUME IInv, NEW p \in Procs, settleCredit(p) \/ walletTake(p) \/ walletRefund(p)
  PROVE  IInv'
<1> DEFINE i == loc[p].id
<1>1. /\ UNCHANGED <<terms, saleVars, sellerCredits, ghostVars>>
      /\ loc[p].pc \in {"settleCredit", "walletTake", "walletRefund"}
  BY DEF settleCredit, walletTake, walletRefund, At
<1>2. i \in Sales /\ Buyer[i] \in Accounts /\ credit[Buyer[i]] \in Int
  BY <1>1, HandlerTypes, SaleAssumptions DEF HandlerOK, Unbound, IInv, TypeOK, LedgerTypeOK
<1>3. loc[p].pc = "settleCredit" => paidFor[i]
  BY HandlerTypes DEF HandlerOK, PaidLabels
<1>4. loc[p].pc # "settleCredit" => IsOrder(i)
  BY <1>1, HandlerTypes DEF HandlerOK, OrderLabels
<1>5. \A k \in {"topup", "purchase", "refund"}, j \in Sales : <<k, j>> \in Refs
  BY SaleAssumptions DEF SaleRefs
<1>6. faults' \in 0 .. MaxFaults /\ (faults' = 0 => faults = 0)
  BY SaleAssumptions DEF settleCredit, walletTake, walletRefund, IInv, TypeOK
<1>7. \/ \E balance \in Int, amount \in Int :
           \/ loc[p].pc = "settleCredit" /\ Post(Buyer[i], balance, amount, <<"topup", i>>)
           \/ loc[p].pc = "walletTake" /\ Post(Buyer[i], balance, amount, <<"purchase", i>>)
           \/ loc[p].pc = "walletRefund" /\ Post(Buyer[i], balance, amount, <<"refund", i>>)
      \/ loc[p].pc = "walletRefund" /\ UNCHANGED <<credit, ledger>>
  <2>1. TopupValue \in Int /\ Price \in Int /\ -Price \in Int
    BY SaleAssumptions DEF TopupValue
  <2>2. /\ credit[Buyer[i]] + TopupValue \in Int
        /\ credit[Buyer[i]] - Price \in Int /\ credit[Buyer[i]] + Price \in Int
    BY <1>2, <2>1
  <2>3. CASE settleCredit(p)
    BY <2>1, <2>2, <2>3 DEF settleCredit, At
  <2>4. CASE walletTake(p)
    BY <2>1, <2>2, <2>4 DEF walletTake, At
  <2>5. CASE walletRefund(p)
    BY <2>1, <2>2, <2>5 DEF walletRefund, At
  <2> QED BY <2>3, <2>4, <2>5
<1>8. /\ LedgerTypeOK'
      /\ \A j \in Sales : /\ TopupRows(j) # {} => TopupRows(j)' # {}
                          /\ TopupRows(j)' # {} => TopupRows(j) # {} \/ paidFor[j]
      /\ loc[p].pc = "settleCredit" => \A j : j = i => TopupRows(j)' # {}
  <2>0. LedgerTypeOK /\ \A j \in Sales : Buyer[j] \in Accounts
    BY SaleAssumptions DEF IInv, TypeOK
  <2>1. CASE UNCHANGED <<credit, ledger>> /\ loc[p].pc = "walletRefund"
    BY <2>0, <2>1 DEF LedgerTypeOK, TopupRows, RowsFor
  <2>2. ASSUME NEW balance \in Int, NEW amount \in Int, NEW kind \in {"topup", "purchase", "refund"},
               kind = "topup" <=> loc[p].pc = "settleCredit",
               Post(Buyer[i], balance, amount, <<kind, i>>)
        PROVE  /\ LedgerTypeOK'
               /\ \A j \in Sales : /\ TopupRows(j) # {} => TopupRows(j)' # {}
                                   /\ TopupRows(j)' # {} => TopupRows(j) # {} \/ paidFor[j]
               /\ loc[p].pc = "settleCredit" => \A j : j = i => TopupRows(j)' # {}
    <3>1. PICK b \in Sales, a \in Accounts : b = i /\ a = Buyer[b]
      BY <1>2
    <3>2. /\ LedgerTypeOK'
          /\ RowsFor(a, <<kind, b>>)' # {}
          /\ \A c \in Accounts, q \in Refs :
               /\ RowsFor(c, q) # {} => RowsFor(c, q)' # {}
               /\ RowsFor(c, q)' # {} => RowsFor(c, q) # {} \/ (c = a /\ q = <<kind, b>>)
      BY <1>5, <2>0, <2>2, <3>1, PostRows
    <3>3. \A j \in Sales : <<"topup", j>> = <<kind, b>> => j = b /\ kind = "topup"
      OBVIOUS
    <3>4. \A j \in Sales : /\ TopupRows(j) # {} => TopupRows(j)' # {}
                           /\ TopupRows(j)' # {} => TopupRows(j) # {} \/ paidFor[j]
      BY <1>3, <1>5, <2>0, <2>2, <3>1, <3>2, <3>3 DEF TopupRows
    <3>5. loc[p].pc = "settleCredit" => \A j : j = i => TopupRows(j)' # {}
      BY <2>2, <3>1, <3>2 DEF TopupRows
    <3> QED BY <3>2, <3>4, <3>5
  <2> QED BY <1>7, <2>1, <2>2
<1>9. PICK l \in Locals : HandlerOK(l) /\ loc' = [loc EXCEPT ![p] = l]
  <2>1. {"confirmRead", "walletReject"} \subseteq Labels \ (Unbound \union PaidLabels)
    BY DEF Labels, Unbound, PaidLabels
  <2>2. CASE settleCredit(p)
    BY <2>2, MoveOK DEF settleCredit
  <2>3. CASE walletTake(p)
    BY <1>2, <1>4, <2>1, <2>3, MoveOK DEF walletTake, At
  <2>4. CASE walletRefund(p)
    BY <1>2, <1>4, <2>1, <2>4, MoveOK DEF walletRefund, At
  <2> QED BY <2>2, <2>3, <2>4
<1>10. \A j \in Sales : (Credited(j) => Credited(j)') /\ (Credited(j)' => Credited(j) \/ paidFor[j])
  BY <1>1, <1>8 DEF Credited
<1>11. Carries(p, l)
  <2>1. loc[p].pc # "orderPaid" /\ (loc[p].pc \in Crediting => loc[p].pc = "settleCredit")
    BY <1>1 DEF Crediting
  <2>2. status' = status
    BY <1>1 DEF saleVars
  <2>3. loc[p].pc = "settleCredit" => \A j : j = i => Credited(j)'
    BY <1>8 DEF Credited
  <2> QED BY <2>1, <2>2, <2>3 DEF Carries
<1>12. /\ sellerCredits' \in [Sales -> 0 .. 2] /\ delivered' \in [Sales -> 0 .. 2]
       /\ delivered' = delivered /\ UNCHANGED <<terms, saleVars, paidFor>>
  BY <1>1 DEF IInv, TypeOK, ghostVars
<1> QED BY <1>6, <1>8, <1>9, <1>10, <1>11, <1>12, MoneyStep

\* fulfillOrder provisions the service of an order it has read as PAID.
LEMMA DeliverStep ==
  ASSUME IInv, NEW p \in Procs, deliver(p)
  PROVE  IInv'
<1> DEFINE i == loc[p].id
<1>1. /\ UNCHANGED <<terms, saleVars, moneyVars, paidFor, faults>>
      /\ loc[p].pc = "deliver" /\ (Goto(p, "orderDone") \/ Return(p))
      /\ \/ delivered' = delivered
         \/ delivered' = [delivered EXCEPT ![i] = AtMostTwo(delivered[i] + 1)]
  BY DEF deliver, At
<1>2. i \in Sales /\ paidFor[i] /\ IsOrder(i)
  BY <1>1, HandlerTypes DEF HandlerOK, PaidLabels, OrderLabels
<1>3. delivered \in [Sales -> 0 .. 2]
  BY DEF IInv, TypeOK
<1>4. AtMostTwo(delivered[i] + 1) \in 0 .. 2
  BY <1>2, <1>3 DEF AtMostTwo
<1>5. /\ delivered' \in [Sales -> 0 .. 2]
      /\ \A j \in Sales \ {i} : delivered'[j] = delivered[j]
  BY <1>1, <1>2, <1>3, <1>4
<1>6. "orderDone" \in Labels \ Unbound
  BY DEF Labels, Unbound
<1>7. PICK l \in Locals : HandlerOK(l) /\ loc' = [loc EXCEPT ![p] = l]
  BY <1>1, <1>2, <1>6, MoveOK
<1>8. Carries(p, l)
  BY <1>1 DEF Carries, Crediting, saleVars
<1>9. /\ LedgerTypeOK' /\ sellerCredits' \in [Sales -> 0 .. 2]
      /\ faults' \in 0 .. MaxFaults /\ (faults' = 0 => faults = 0)
      /\ \A j \in Sales : Credited(j)' <=> Credited(j)
  BY <1>1 DEF IInv, TypeOK, LedgerTypeOK, moneyVars, Credited, TopupRows, RowsFor
<1> QED BY <1>1, <1>2, <1>5, <1>7, <1>8, <1>9, MoneyStep

(* ----------------------- steps that pay for a sale ---------------------- *)

\* confirmPayment's write, and what it goes on with.
LEMMA ConfirmWriteStep ==
  ASSUME IInv, NEW p \in Procs, confirmWrite(p)
  PROVE  IInv'
<1>0. PICK i \in Sales : i = loc[p].id
  BY HandlerTypes DEF confirmWrite, At, HandlerOK, Unbound
<1> DEFINE label == IF IsOrder(i) THEN "orderPaid"
                    ELSE IF loc[p].cust THEN "settleRead" ELSE "chargeSeller"
<1>1. /\ UNCHANGED <<terms, info, order, moneyVars, delivered, faults>>
      /\ loc[p].pc = "confirmWrite"
      /\ status' = [status EXCEPT ![i] = "CONFIRMED"] /\ paidFor' = [paidFor EXCEPT ![i] = TRUE]
      /\ loc' = [loc EXCEPT ![p] = [loc[p] EXCEPT !.pc = label]]
  BY <1>0 DEF confirmWrite, At, SetStatus, Goto
<1>2. PICK l \in Locals : l = [loc[p] EXCEPT !.pc = label]
  BY HandlerTypes, SetField DEF Labels
<1>3. /\ l.pc = label /\ l.id = i /\ l.op = loc[p].op /\ l.todo = loc[p].todo
      /\ l.tries = loc[p].tries
  BY <1>0, <1>2, HandlerTypes DEF Locals
<1>4. /\ label \in {"orderPaid", "settleRead", "chargeSeller"} /\ (label = "orderPaid" <=> IsOrder(i))
      /\ label = "settleRead" => loc[p].cust
  OBVIOUS
<1>5. loc' = [loc EXCEPT ![p] = l]
  BY <1>1, <1>2
<1> HIDE DEF label
<1>6. /\ status \in [Sales -> PaymentStatus] /\ paidFor \in [Sales -> BOOLEAN]
      /\ Touched(i)
  BY <1>0, HandlerTypes DEF IInv, TypeOK, HandlerOK
<1>7. /\ status'[i] = "CONFIRMED" /\ paidFor'[i] = TRUE
      /\ \A j \in Sales \ {i} : status'[j] = status[j] /\ paidFor'[j] = paidFor[j]
  BY <1>1, <1>6
<1>8. \A j \in Sales : /\ TopupRows(j)' = TopupRows(j) /\ (Touched(j)' <=> Touched(j))
                       /\ IsOrder(j)' <=> IsOrder(j)
  BY <1>1 DEF Touched, IsOrder, TopupRows, RowsFor, moneyVars
<1>9. Grows
  BY <1>1, <1>7, <1>8 DEF Grows, Settled, Credited, moneyVars
<1>10. RowTypes'
  BY <1>1, <1>6 DEF IInv, TypeOK, RowTypes, LedgerTypeOK, moneyVars, PaymentStatus
<1>11. SalesOK'
  BY <1>1, <1>6, <1>7, <1>8 DEF IInv, SalesOK, SaleOK, moneyVars
<1>12. HandlerOK(l)'
  <2>1. loc[p].cust => info[i].cust
    BY <1>0, <1>1, HandlerTypes DEF HandlerOK
  <2>2. /\ label \notin OrderLabels \/ label = "orderPaid"
        /\ label # "manualConfirm" /\ label # "confirmWrite"
    BY <1>4 DEF OrderLabels
  <2>3. RunsFor(l)
    BY <1>3, <1>4 DEF RunsFor
  <2>4. \A j \in l.todo : j \in Sales /\ Touched(j)
    BY <1>3, HandlerTypes DEF HandlerOK
  <2>5. l.op = "usdt" => \A j \in l.todo : l.tries[j] < MaxTries
    BY <1>3, HandlerTypes DEF HandlerOK
  <2>6. l.op = "wallet" => IsOrder(i)
    BY <1>0, <1>3, HandlerTypes DEF HandlerOK
  <2>7. info'[i].cust = info[i].cust
    BY <1>1
  <2> QED BY <1>3, <1>4, <1>6, <1>7, <1>8, <2>1, <2>2, <2>3, <2>4, <2>5, <2>6, <2>7 DEF HandlerOK
<1>13. Carries(p, l)
  BY <1>1, <1>3, <1>4, <1>7 DEF Carries, Crediting
<1> QED BY <1>5, <1>9, <1>10, <1>11, <1>12, <1>13, StepOK

\* retryFulfill declares a PENDING order paid ...
LEMMA ManualPaidStep ==
  ASSUME IInv, NEW p \in Procs, manualPaid(p)
  PROVE  IInv'
<1>0. PICK i \in Sales : i = loc[p].id
  BY HandlerTypes DEF manualPaid, At, HandlerOK, Unbound
<1>1. /\ UNCHANGED <<terms, status, info, moneyVars, delivered, faults>>
      /\ loc[p].pc = "manualPaid"
      /\ order' = [order EXCEPT ![i] = "PAID"] /\ paidFor' = [paidFor EXCEPT ![i] = TRUE]
      /\ loc' = [loc EXCEPT ![p] = [loc[p] EXCEPT !.pc = "manualConfirm"]]
  BY <1>0 DEF manualPaid, At, SetOrder, Goto
<1>2. PICK l \in Locals : l = [loc[p] EXCEPT !.pc = "manualConfirm"]
  BY HandlerTypes, SetField DEF Labels
<1>3. /\ l.pc = "manualConfirm" /\ l.id = i /\ l.op = loc[p].op /\ l.todo = loc[p].todo
      /\ l.tries = loc[p].tries
  BY <1>0, <1>2, HandlerTypes DEF Locals
<1>4. loc' = [loc EXCEPT ![p] = l]
  BY <1>1, <1>2
<1>5. /\ order \in [Sales -> OrderStatus] /\ paidFor \in [Sales -> BOOLEAN]
      /\ Touched(i) /\ IsOrder(i)
  BY <1>0, <1>1, HandlerTypes DEF IInv, TypeOK, HandlerOK, OrderLabels
<1>6. /\ order'[i] = "PAID" /\ paidFor'[i] = TRUE
      /\ \A j \in Sales \ {i} : order'[j] = order[j] /\ paidFor'[j] = paidFor[j]
  BY <1>1, <1>5
<1>7. \A j \in Sales : /\ TopupRows(j)' = TopupRows(j) /\ (Touched(j)' <=> Touched(j))
                       /\ IsOrder(j)' <=> IsOrder(j)
  BY <1>1, <1>5, <1>6 DEF Touched, IsOrder, TopupRows, RowsFor, moneyVars
<1>8. Grows
  BY <1>1, <1>6, <1>7 DEF Grows, Settled, Credited, moneyVars
<1>9. RowTypes'
  BY <1>1, <1>5 DEF IInv, TypeOK, RowTypes, LedgerTypeOK, moneyVars, OrderStatus
<1>10. SalesOK'
  BY <1>1, <1>5, <1>6, <1>7 DEF IInv, SalesOK, SaleOK, moneyVars
<1>11. HandlerOK(l)'
  <2>1. RunsFor(l)
    BY <1>3 DEF RunsFor
  <2>2. \A j \in l.todo : j \in Sales /\ Touched(j)
    BY <1>3, HandlerTypes DEF HandlerOK
  <2>3. l.op = "usdt" => \A j \in l.todo : l.tries[j] < MaxTries
    BY <1>3, HandlerTypes DEF HandlerOK
  <2>4. Settled(i)'
    BY <1>6 DEF Settled
  <2> QED BY <1>3, <1>5, <1>6, <1>7, <2>1, <2>2, <2>3, <2>4 DEF HandlerOK
<1>12. Carries(p, l)
  BY <1>1 DEF Carries, Crediting
<1> QED BY <1>4, <1>8, <1>9, <1>10, <1>11, <1>12, StepOK

\* ... and confirms its payment when that is still open.
LEMMA ManualConfirmStep ==
  ASSUME IInv, NEW p \in Procs, manualConfirm(p)
  PROVE  IInv'
<1>0. PICK i \in Sales : i = loc[p].id
  BY HandlerTypes DEF manualConfirm, At, HandlerOK, Unbound
<1>1. /\ UNCHANGED <<terms, info, order, moneyVars, ghostVars, faults>>
      /\ loc[p].pc = "manualConfirm" /\ Goto(p, "fulfillRead")
      /\ status' = [status EXCEPT ![i] = IF status[i] \in Open THEN "CONFIRMED" ELSE status[i]]
  BY <1>0 DEF manualConfirm, At
<1>2. Settled(i) /\ paidFor[i] /\ IsOrder(i) /\ Touched(i)
  BY <1>0, <1>1, HandlerTypes DEF HandlerOK, PaidLabels, OrderLabels
<1>3. status \in [Sales -> PaymentStatus]
  BY DEF IInv, TypeOK
<1>4. \A j \in Sales \ {i} : status'[j] = status[j]
  BY <1>1, <1>3
<1>5. "fulfillRead" \in Labels \ (Unbound \union PaidLabels)
  BY DEF Labels, Unbound, PaidLabels
<1>6. PICK l \in Locals : HandlerOK(l) /\ loc' = [loc EXCEPT ![p] = l]
  BY <1>0, <1>1, <1>2, <1>5, MoveOK
<1>7. \A j \in Sales : /\ TopupRows(j)' = TopupRows(j) /\ (Touched(j)' <=> Touched(j))
                       /\ IsOrder(j)' <=> IsOrder(j)
  BY <1>1 DEF Touched, IsOrder, TopupRows, RowsFor, moneyVars
<1>8. Grows
  BY <1>1, <1>7 DEF Grows, Settled, Credited, moneyVars, ghostVars
<1>9. HandlerOK(l)'
  BY <1>6, <1>8, HandlerGrows
<1>10. RowTypes'
  <2>1. status' \in [Sales -> PaymentStatus]
    BY <1>1, <1>3 DEF PaymentStatus
  <2> QED BY <1>1, <2>1 DEF IInv, TypeOK, RowTypes, LedgerTypeOK, moneyVars, ghostVars
<1>11. SalesOK'
  BY <1>1, <1>2, <1>4, <1>7 DEF IInv, SalesOK, SaleOK, moneyVars, ghostVars
<1>12. Carries(p, l)
  BY <1>1, <1>2, <1>4 DEF Carries, Crediting, Settled
<1> QED BY <1>6, <1>8, <1>9, <1>10, <1>11, <1>12, StepOK

\* createOrder opens the order of a sale, paid at once when it is free.
LEMMA CreateOrderStep ==
  ASSUME IInv, NEW p \in Procs, NEW i \in Sales, createOrder(p, i)
  PROVE  IInv'
<1> DEFINE m == terms[i].method
           s == IF m = "FREE" THEN "PAID" ELSE "PENDING"
<1>1. /\ UNCHANGED <<terms, status, info, moneyVars, delivered, faults>>
      /\ IsOrder(i) /\ order[i] = "NONE"
      /\ order' = [order EXCEPT ![i] = s] /\ paidFor' = [paidFor EXCEPT ![i] = (m = "FREE")]
  BY DEF createOrder, SetOrder
<1>2. PICK op \in {"createOrder", "wallet"}, label \in {"fulfillRead", "walletOpen", "beginPayment"} :
        Start(p, op, i, label)
  BY DEF createOrder
<1>3. loc[p].pc = "idle" /\ loc' = [loc EXCEPT ![p] = [Idle EXCEPT !.op = op, !.pc = label, !.id = i]]
  BY <1>2 DEF Start, At
<1>4. PICK l \in Locals : l = [Idle EXCEPT !.op = op, !.pc = label, !.id = i]
  <2>1. op \in Ops /\ label \in Labels
    BY DEF Ops, Labels
  <2> QED BY <2>1, IdleOK, SetField
<1>5. l.op = op /\ l.pc = label /\ l.id = i /\ l.todo = {}
  BY <1>4 DEF Idle
<1>6. loc' = [loc EXCEPT ![p] = l]
  BY <1>3, <1>4
<1>7. /\ order \in [Sales -> OrderStatus] /\ paidFor \in [Sales -> BOOLEAN]
      /\ s \in OrderStatus \ {"NONE"} /\ (m = "FREE") \in BOOLEAN
  BY DEF IInv, TypeOK, OrderStatus
<1>8. ~Touched(i) /\ status[i] = "NONE" /\ ~paidFor[i]
  BY <1>1 DEF Touched, IInv, SalesOK, SaleOK
<1>9. /\ order'[i] = s /\ paidFor'[i] = (m = "FREE")
      /\ \A j \in Sales \ {i} : order'[j] = order[j] /\ paidFor'[j] = paidFor[j]
  BY <1>1, <1>7
<1>10. \A j \in Sales : /\ TopupRows(j)' = TopupRows(j) /\ (Touched(j) => Touched(j)')
                        /\ IsOrder(j)' <=> IsOrder(j)
                        /\ j # i => (Touched(j)' <=> Touched(j))
  BY <1>1, <1>7, <1>9 DEF Touched, IsOrder, TopupRows, RowsFor, moneyVars
<1>11. Touched(i)'
  BY <1>7, <1>9 DEF Touched
<1>12. \A j \in Sales : Settled(j) => Settled(j)'
  BY <1>1, <1>9 DEF Settled
<1>13. Grows
  BY <1>1, <1>8, <1>9, <1>10, <1>12 DEF Grows, Credited, moneyVars
<1>14. RowTypes'
  BY <1>1, <1>7 DEF IInv, TypeOK, RowTypes, LedgerTypeOK, moneyVars
<1>15. SalesOK'
  <2> SUFFICES ASSUME NEW j \in Sales PROVE SaleOK(j)'
    BY DEF SalesOK
  <2>1. SaleOK(j)
    BY DEF IInv, SalesOK
  <2>2. CASE j # i
    BY <1>1, <1>9, <1>10, <2>1, <2>2 DEF SaleOK, moneyVars
  <2>3. CASE j = i
    <3>1. /\ status'[i] = "NONE" /\ IsOrder(i)' /\ TopupRows(i)' = TopupRows(i)
          /\ delivered'[i] = delivered[i] /\ sellerCredits'[i] = sellerCredits[i]
      BY <1>1, <1>8, <1>10 DEF moneyVars
    <3>2. ~(delivered[i] > 0 \/ sellerCredits[i] > 0 \/ TopupRows(i) # {})
      BY <1>8, <2>1, <2>3 DEF SaleOK
    <3>3. order'[i] \in {"PAID", "FULFILLED"} => paidFor'[i]
      BY <1>9
    <3> QED BY <1>11, <2>3, <3>1, <3>2, <3>3 DEF SaleOK
  <2> QED BY <2>2, <2>3
<1>16. HandlerOK(l)'
  <2>1. label \notin PaidLabels \union Unbound
    BY DEF PaidLabels, Unbound
  <2> QED BY <1>1, <1>5, <1>10, <1>11, <2>1 DEF HandlerOK, RunsFor
<1>17. Carries(p, l)
  BY <1>1, <1>3 DEF Carries, Crediting
<1> QED BY <1>6, <1>13, <1>14, <1>15, <1>16, <1>17, StepOK

(* ------------------------------ the theorems ---------------------------- *)

\* No sale is open, no handler runs and only the opening rows exist.
LEMMA Initially == SaleInit => IInv
<1> SUFFICES ASSUME SaleInit PROVE IInv
  OBVIOUS
<1>1. OpeningRow \in Rows
  <2>1. <<"opening", NoSale>> \in Refs
    BY SaleAssumptions DEF SaleRefs
  <2> QED BY <2>1, SaleAssumptions DEF OpeningRow, Rows
<1>2. LedgerTypeOK
  <2>1. <<OpeningRow>> \in Seq(Rows)
    BY <1>1
  <2> QED BY <2>1, SaleAssumptions DEF SaleInit, LedgerTypeOK
<1>3. info \in [Sales -> Infos]
  <2>1. 0 \in 0 .. MaxTries
    BY SaleAssumptions
  <2> QED BY <2>1 DEF SaleInit, Infos
<1>4. loc \in [Procs -> Locals] /\ \A p \in Procs : loc[p] = Idle
  BY IdleOK DEF SaleInit
<1>5. TypeOK
  BY <1>2, <1>3, <1>4, SaleAssumptions DEF SaleInit, TypeOK, PaymentStatus, OrderStatus
<1>6. HandlersOK
  BY <1>4, IdleOK DEF HandlersOK
<1>7. \A i \in Sales : TopupRows(i) = {}
  <2> SUFFICES ASSUME NEW i \in Sales PROVE TopupRows(i) = {}
    OBVIOUS
  <2>1. Buyer[i] \in Accounts /\ ledger[Buyer[i]] = <<OpeningRow>>
    BY SaleAssumptions DEF SaleInit
  <2>2. DOMAIN <<OpeningRow>> = {1} /\ <<OpeningRow>>[1] = OpeningRow
    OBVIOUS
  <2>3. OpeningRow.ref # <<"topup", i>>
    BY DEF OpeningRow
  <2> QED BY <2>1, <2>2, <2>3 DEF TopupRows, RowsFor
<1>8. SalesOK
  BY <1>7 DEF SaleInit, SalesOK, SaleOK, Touched
<1>9. ConfirmedOrderIsPaid /\ ConfirmedTopupIsCredited
  BY DEF SaleInit, ConfirmedOrderIsPaid, ConfirmedTopupIsCredited
<1> QED BY <1>5, <1>6, <1>8, <1>9 DEF IInv

\* A step in which nothing happens.
LEMMA Stutter ==
  ASSUME IInv, UNCHANGED vars
  PROVE  IInv'
<1>1. UNCHANGED <<terms, status, info, order, credit, ledger, sellerCredits, delivered, paidFor,
                  loc, faults>>
  BY DEF vars, saleVars, moneyVars, ghostVars
<1>2. TypeOK' /\ (\A i \in Sales : TopupRows(i)' = TopupRows(i))
  BY <1>1 DEF IInv, TypeOK, LedgerTypeOK, TopupRows, RowsFor
<1>3. HandlersOK'
  BY <1>1 DEF IInv, HandlersOK, HandlerOK, Touched, IsOrder, Settled
<1>4. SalesOK'
  BY <1>1, <1>2 DEF IInv, SalesOK, SaleOK, Touched, IsOrder
<1>5. ConfirmedOrderIsPaid' /\ ConfirmedTopupIsCredited'
  BY <1>1, <1>2 DEF IInv, ConfirmedOrderIsPaid, ConfirmedTopupIsCredited, Handling, IsOrder
<1> QED BY <1>2, <1>3, <1>4, <1>5 DEF IInv

\* Every step of the storefront keeps the invariant.
LEMMA Inductive == IInv /\ [Next]_vars => IInv'
<1> SUFFICES ASSUME IInv, [Next]_vars PROVE IInv'
  OBVIOUS
<1>1. ASSUME NEW p \in Web, NEW i \in Sales, Request(p, i) PROVE IInv'
  BY <1>1, Requests, CreateOrderStep DEF Request, Procs
<1>2. ASSUME NEW p \in Jobs, JobStart(p) PROVE IInv'
  BY <1>2, JobStarts DEF Procs
<1>3. ASSUME NEW p \in Procs, FulfillmentNext(p) PROVE IInv'
  BY <1>3, Reads, DeliverStep, OrderWrites, ManualPaidStep, ManualConfirmStep, StatusWrites
     DEF FulfillmentNext
<1>4. ASSUME NEW p \in Procs, PaymentsNext(p) PROVE IInv'
  BY <1>4, ColumnWrites, RematchStep, ConfirmReadStep, ConfirmWriteStep, OrderWrites,
     ChargeSellerStep, SettleReads, WalletSteps, StatusWrites, Reads, ExpireSteps,
     ExpireOrderStep, UsdtStep DEF PaymentsNext
<1>5. ASSUME NEW p \in Procs, CheckoutNext(p) PROVE IInv'
  BY <1>5, ColumnWrites, Reads, WalletSteps, StatusWrites, OrderWrites DEF CheckoutNext
<1>6. ASSUME NEW p \in Procs, Fault(p) PROVE IInv'
  BY <1>6, FaultStep
<1>7. ASSUME NEW i \in Sales, ttlElapses(i) PROVE IInv'
  BY <1>7, ClockStep
<1>8. CASE UNCHANGED vars
  BY <1>8, Stutter
<1> QED BY <1>1, <1>2, <1>3, <1>4, <1>5, <1>6, <1>7, <1>8 DEF Next, Step

(***************************************************************************)
(* Every column and every handler keeps its type: in particular no         *)
(* interleaving of the USDT job with a resubmitted TXID counts past        *)
(* MaxTries (verifyPendingUsdt).                                           *)
(***************************************************************************)
THEOREM StorefrontTypes == Spec => []TypeOK
<1>1. IInv => TypeOK
  BY DEF IInv
<1> QED BY <1>1, Initially, Inductive, PTL DEF Spec

(***************************************************************************)
(* Nothing is given away: with any number of sales, web requests and job   *)
(* runs interleaved at their awaits, and any call failing, a service is    *)
(* provisioned and a wallet credited only for a sale that was confirmed,   *)
(* free, or declared paid (fulfillOrder, settleCustomerTopup).             *)
(***************************************************************************)
THEOREM NothingGivenAway == Spec => []DeliveredOnlyIfPaid
<1>1. IInv => DeliveredOnlyIfPaid
  BY DEF IInv, SalesOK, SaleOK, DeliveredOnlyIfPaid
<1> QED BY <1>1, Initially, Inductive, PTL DEF Spec

(***************************************************************************)
(* While no call fails, neither expirePayments nor any other handler takes *)
(* the order of a confirmed payment back (confirmPayment).                 *)
(***************************************************************************)
THEOREM PaidOrdersStayPaid == Spec => []ConfirmedOrderIsPaid
<1>1. IInv => ConfirmedOrderIsPaid
  BY DEF IInv
<1> QED BY <1>1, Initially, Inductive, PTL DEF Spec

(***************************************************************************)
(* While no call fails, a confirmed top-up is in a wallet or its handler   *)
(* is on the way there (confirmPayment, settleCustomerTopup).              *)
(***************************************************************************)
THEOREM TopupsReachAWallet == Spec => []ConfirmedTopupIsCredited
<1>1. IInv => ConfirmedTopupIsCredited
  BY DEF IInv
<1> QED BY <1>1, Initially, Inductive, PTL DEF Spec

(* --------------------------- the wallet checkout ------------------------ *)

\* Where a wallet checkout stands: it has not taken the price yet, ...
Before == {"walletOpen", "walletCheck", "walletTake"}
\* ... it has taken the price and may have to give it back, ...
Taken == {"confirmRead", "confirmWrite", "orderPaid", "fulfillRead", "deliver", "orderDone",
          "walletRecheck", "walletRefund"}
\* ... or it only closes the payment and the order.
Ending == {"walletReject", "walletCancel"}
\* Statements of payOrderWithWallet itself.
OfWallet == Before \union {"walletRecheck", "walletRefund"} \union Ending

\* A wallet checkout is at one of its own statements, and nobody else is.
CheckoutForm(l) ==
  /\ l.op = "wallet" => l.pc \in Before \union Taken \union Ending
  /\ l.pc \in OfWallet => l.op = "wallet"

\* What the rows of its sale look like to a checkout.
CheckoutRows(l) == \A i \in Sales : l.op = "wallet" /\ l.id = i =>
  /\ l.pc \in Before => PurchaseRows(i) = {} /\ RefundRows(i) = {}
  /\ l.pc \in Taken => PurchaseRows(i) # {} /\ RefundRows(i) = {}

\* What the ledger says of a sale.
LedgerOfSale(i) ==
  /\ order[i] = "NONE" => PurchaseRows(i) = {}
  /\ PurchaseRows(i) = {} \/ \E n \in Nat : PurchaseRows(i) = {n}
  /\ RefundRows(i) = {} \/ \E n \in Nat : RefundRows(i) = {n}
  /\ RefundRows(i) # {} => PurchaseRows(i) # {}

Checkouts == \A p \in Procs : CheckoutForm(loc[p]) /\ CheckoutRows(loc[p])
OneCheckout == \A p, q \in Procs :
  loc[p].op = "wallet" /\ loc[q].op = "wallet" /\ loc[p].id = loc[q].id => p = q
LedgerOfSales == \A i \in Sales : LedgerOfSale(i)

WInv == IInv /\ Checkouts /\ OneCheckout /\ LedgerOfSales

\* Handler l becomes m without moving money: a checkout stays on its sale and
\* never goes back to a statement before the price was taken, nor skips taking it.
CheckoutMove(l, m) ==
  /\ m.op = "wallet" => /\ l.op = "wallet" /\ m.id = l.id
                        /\ m.pc \in Before \union Taken \union Ending
                        /\ m.pc \in Before => l.pc \in Before
                        /\ m.pc \in Taken => l.pc \in Taken
  /\ m.pc \in OfWallet => m.op = "wallet"

\* The ledger rows of the wallet checkouts stay as they are.
SameRows == \A i \in Sales : PurchaseRows(i)' = PurchaseRows(i) /\ RefundRows(i)' = RefundRows(i)
\* No order disappears.
OrdersStay == \A i \in Sales : order'[i] = "NONE" => order[i] = "NONE"

\* One posted row: it is the only row that is new.
LEMMA PostedRow ==
  ASSUME LedgerTypeOK, NEW a \in Accounts, NEW balance \in Int, NEW amount \in Int,
         NEW ref \in Refs, Post(a, balance, amount, ref)
  PROVE  /\ \E n \in Nat : RowsFor(a, ref)' = RowsFor(a, ref) \union {n}
         /\ \A c \in Accounts, q \in Refs : c # a \/ q # ref => RowsFor(c, q)' = RowsFor(c, q)
<1> DEFINE row == [ref |-> ref, amount |-> amount, balanceAfter |-> balance]
           n == Len(ledger[a])
<1>1. row \in Rows /\ row.ref = ref /\ ledger \in [Accounts -> Seq(Rows)]
  BY DEF Rows, LedgerTypeOK
<1>2. ledger' = [ledger EXCEPT ![a] = Append(ledger[a], row)]
  BY DEF Post
<1> HIDE DEF row
<1>3. /\ \A c \in Accounts \ {a} : ledger'[c] = ledger[c]
      /\ ledger'[a] = Append(ledger[a], row) /\ ledger[a] \in Seq(Rows)
  BY <1>1, <1>2
<1>4. /\ n \in Nat /\ DOMAIN ledger[a] = 1 .. n /\ DOMAIN ledger'[a] = 1 .. n + 1
      /\ \A k \in 1 .. n : ledger'[a][k] = ledger[a][k]
      /\ ledger'[a][n + 1] = row
  BY <1>1, <1>3
<1>5. n + 1 \in Nat /\ (\A k : k \in 1 .. n + 1 <=> k \in 1 .. n \/ k = n + 1)
  BY <1>4
<1> HIDE DEF n
<1>6. RowsFor(a, ref)' = RowsFor(a, ref) \union {n + 1}
  <2>1. \A k : k \in RowsFor(a, ref)' <=> k \in 1 .. n + 1 /\ ledger'[a][k].ref = ref
    BY <1>4 DEF RowsFor
  <2>2. \A k : k \in RowsFor(a, ref) <=> k \in 1 .. n /\ ledger[a][k].ref = ref
    BY <1>4 DEF RowsFor
  <2> QED BY <1>1, <1>4, <1>5, <2>1, <2>2
<1>7. ASSUME NEW c \in Accounts, NEW q \in Refs, c # a \/ q # ref
      PROVE  RowsFor(c, q)' = RowsFor(c, q)
  <2>1. CASE c # a
    BY <1>3, <2>1 DEF RowsFor
  <2>2. CASE c = a
    <3>1. \A k : k \in RowsFor(a, q)' <=> k \in 1 .. n + 1 /\ ledger'[a][k].ref = q
      BY <1>4 DEF RowsFor
    <3>2. \A k : k \in RowsFor(a, q) <=> k \in 1 .. n /\ ledger[a][k].ref = q
      BY <1>4 DEF RowsFor
    <3>3. \A k : k \in RowsFor(a, q)' <=> k \in RowsFor(a, q)
      BY <1>1, <1>4, <1>5, <1>7, <2>2, <3>1, <3>2
    <3> QED BY <2>2, <3>3 DEF RowsFor
  <2> QED BY <2>1, <2>2
<1> QED BY <1>5, <1>6, <1>7

\* A step that moves no money of a checkout.
LEMMA QuietCheckout ==
  ASSUME WInv, IInv', NEW p \in Procs, NEW l, loc' = [loc EXCEPT ![p] = l],
         SameRows, OrdersStay, CheckoutMove(loc[p], l)
  PROVE  WInv'
<1>1. loc'[p] = l /\ \A q \in Procs \ {p} : loc'[q] = loc[q]
  BY DEF WInv, IInv, TypeOK
<1>3. Checkouts'
  <2> SUFFICES ASSUME NEW q \in Procs PROVE CheckoutForm(loc'[q]) /\ CheckoutRows(loc[q])'
    BY DEF Checkouts, CheckoutForm
  <2>1. CheckoutForm(loc[q]) /\ CheckoutRows(loc[q])
    BY DEF WInv, Checkouts
  <2>2. CASE q # p
    BY <1>1, <2>1, <2>2 DEF CheckoutForm, CheckoutRows, SameRows
  <2>3. CASE q = p
    <3>1. CheckoutForm(loc'[q])
      BY <1>1, <2>3 DEF CheckoutMove, CheckoutForm
    <3>2. CheckoutRows(loc[q])'
      BY <1>1, <2>1, <2>3 DEF CheckoutMove, CheckoutRows, SameRows
    <3> QED BY <3>1, <3>2
  <2> QED BY <2>2, <2>3
<1>4. OneCheckout'
  <2>1. \A q \in Procs : loc'[q].op = "wallet" => loc[q].op = "wallet" /\ loc'[q].id = loc[q].id
    BY <1>1 DEF CheckoutMove
  <2> QED BY <2>1 DEF WInv, OneCheckout
<1>5. LedgerOfSales'
  <2> SUFFICES ASSUME NEW i \in Sales PROVE LedgerOfSale(i)'
    BY DEF LedgerOfSales
  <2>1. LedgerOfSale(i) /\ PurchaseRows(i)' = PurchaseRows(i) /\ RefundRows(i)' = RefundRows(i)
    BY DEF WInv, LedgerOfSales, SameRows
  <2> QED BY <2>1 DEF LedgerOfSale, OrdersStay
<1> QED BY <1>3, <1>4, <1>5 DEF WInv

\* Returning, throwing and ending are such moves; so is going to a later
\* statement of the same part.
LEMMA CheckoutMoves ==
  ASSUME WInv, NEW p \in Procs
  PROVE  /\ CheckoutMove(loc[p], Idle)
         /\ CheckoutMove(loc[p], Returned(loc[p]))
         /\ loc[p].pc # "walletRefund" => CheckoutMove(loc[p], Thrown(loc[p]))
         /\ \A label \in Labels \ OfWallet :
              (loc[p].op = "wallet" => label \in Taken /\ loc[p].pc \in Taken)
                => CheckoutMove(loc[p], [loc[p] EXCEPT !.pc = label])
         /\ \A label \in OfWallet :
              /\ loc[p].pc \in OfWallet
              /\ label \in Before => loc[p].pc \in Before
              /\ label \in Taken => loc[p].pc \in Taken
              => CheckoutMove(loc[p], [loc[p] EXCEPT !.pc = label])
<1>1. Idle.op = "none" /\ Idle.pc = "idle"
  BY DEF Idle
<1>2. CheckoutMove(loc[p], Idle)
  BY <1>1 DEF CheckoutMove, OfWallet, Before, Ending
<1>3. CheckoutForm(loc[p]) /\ loc[p] \in Locals
  BY HandlerTypes DEF WInv, Checkouts
<1>4. \A label : [loc[p] EXCEPT !.pc = label].pc = label
                 /\ [loc[p] EXCEPT !.pc = label].op = loc[p].op
                 /\ [loc[p] EXCEPT !.pc = label].id = loc[p].id
  BY <1>3 DEF Locals
<1>5. CheckoutMove(loc[p], Returned(loc[p]))
  <2>1. CASE loc[p].op = "wallet"
    BY <1>2, <2>1 DEF Returned
  <2>2. CASE loc[p].op # "wallet"
    <3>1. \/ Returned(loc[p]) = Idle
          \/ Returned(loc[p]) = [loc[p] EXCEPT !.pc = "usdtNext"]
          \/ Returned(loc[p]) = [loc[p] EXCEPT !.pc = "rematchDeposits"]
      BY DEF Returned
    <3>2. "usdtNext" \notin OfWallet /\ "rematchDeposits" \notin OfWallet
      BY DEF OfWallet, Before, Ending
    <3>3. \A label : label \notin OfWallet => CheckoutMove(loc[p], [loc[p] EXCEPT !.pc = label])
      BY <1>4, <2>2 DEF CheckoutMove
    <3> QED BY <1>2, <3>1, <3>2, <3>3
  <2> QED BY <2>1, <2>2
<1>6. ASSUME loc[p].pc # "walletRefund" PROVE CheckoutMove(loc[p], Thrown(loc[p]))
  <2>1. CASE loc[p].op = "wallet" /\ loc[p].pc \in {"walletCheck", "walletTake"}
    <3>1. Thrown(loc[p]) = [loc[p] EXCEPT !.pc = "walletReject"]
      BY <2>1 DEF Thrown
    <3> QED BY <1>4, <2>1, <3>1 DEF CheckoutMove, Before, Taken, Ending
  <2>2. CASE loc[p].op = "wallet" /\ loc[p].pc \in {"confirmRead", "confirmWrite", "orderPaid", "fulfillRead"}
    <3>1. Thrown(loc[p]) = [loc[p] EXCEPT !.pc = "walletRecheck"]
      BY <2>2 DEF Thrown
    <3> QED BY <1>4, <2>2, <3>1 DEF CheckoutMove, Before, Taken, Ending
  <2>3. CASE ~(loc[p].op = "wallet" /\ loc[p].pc \in {"walletCheck", "walletTake", "confirmRead",
                 "confirmWrite", "orderPaid", "fulfillRead"})
    <3>1. Thrown(loc[p]) \in {Idle, Returned(loc[p])}
      BY <2>3 DEF Thrown
    <3> QED BY <1>2, <1>5, <3>1
  <2> QED BY <2>1, <2>2, <2>3
<1>7. ASSUME NEW label \in Labels \ OfWallet,
             loc[p].op = "wallet" => label \in Taken /\ loc[p].pc \in Taken
      PROVE  CheckoutMove(loc[p], [loc[p] EXCEPT !.pc = label])
  <2>1. label \notin Before
    BY DEF OfWallet
  <2> QED BY <1>4, <1>7, <2>1 DEF CheckoutMove
<1>8. ASSUME NEW label \in OfWallet, loc[p].pc \in OfWallet,
             label \in Before => loc[p].pc \in Before,
             label \in Taken => loc[p].pc \in Taken
      PROVE  CheckoutMove(loc[p], [loc[p] EXCEPT !.pc = label])
  <2>1. loc[p].op = "wallet"
    BY <1>3, <1>8 DEF CheckoutForm
  <2>2. label \in Before \union Taken \union Ending
    BY DEF OfWallet, Taken
  <2> QED BY <1>4, <1>8, <2>1, <2>2 DEF CheckoutMove
<1> QED BY <1>2, <1>5, <1>6, <1>7, <1>8

\* Steps that leave the customer's ledger alone keep its rows.
LEMMA LedgerUntouched ==
  ASSUME ledger' = ledger
  PROVE  SameRows
  BY DEF SameRows, PurchaseRows, RefundRows, RowsFor

\* Writing a status to an order never makes it disappear.
LEMMA OrderWritten ==
  ASSUME IInv, NEW i \in Sales, NEW s \in OrderStatus \ {"NONE"}, SetOrder(i, s)
  PROVE  OrdersStay
  BY DEF IInv, TypeOK, SetOrder, OrdersStay

\* A handler at a statement no checkout reaches is no checkout, and stays none.
LEMMA NoCheckout ==
  ASSUME WInv, NEW p \in Procs, loc[p].pc \notin Before \union Taken \union Ending
  PROVE  /\ loc[p].op # "wallet"
         /\ \A l : l.op # "wallet" /\ l.pc \notin OfWallet => CheckoutMove(loc[p], l)
         /\ \A label \in Labels \ OfWallet : CheckoutMove(loc[p], [loc[p] EXCEPT !.pc = label])
<1>1. loc[p].op # "wallet"
  BY DEF WInv, Checkouts, CheckoutForm
<1>2. \A l : l.op # "wallet" /\ l.pc \notin OfWallet => CheckoutMove(loc[p], l)
  BY DEF CheckoutMove
<1> QED BY <1>1, <1>2, CheckoutMoves

\* fulfillOrder, retryFulfill and cancelOrder move no money of a checkout.
LEMMA CheckoutFulfillment ==
  ASSUME WInv, IInv', NEW p \in Procs, FulfillmentNext(p)
  PROVE  WInv'
<1>0. IInv
  BY DEF WInv
<1>1. ledger' = ledger
  BY DEF FulfillmentNext, fulfillRead, deliver, orderDone, manualPaid, manualConfirm,
         cancelPayment, cancelWrite, moneyVars
<1>2. OrdersStay
  <2>1. CASE UNCHANGED order
    BY <2>1 DEF OrdersStay
  <2>2. CASE orderDone(p) \/ manualPaid(p) \/ cancelWrite(p)
    <3>1. PICK i \in Sales : i = loc[p].id
      BY <1>0, <2>2, HandlerTypes DEF orderDone, manualPaid, cancelWrite, At, HandlerOK, Unbound
    <3>2. {"FULFILLED", "PAID", "CANCELED"} \subseteq OrderStatus \ {"NONE"}
      BY DEF OrderStatus
    <3>3. PICK s \in {"FULFILLED", "PAID", "CANCELED"} : SetOrder(i, s)
      BY <2>2, <3>1 DEF orderDone, manualPaid, cancelWrite
    <3> QED BY <1>0, <3>2, <3>3, OrderWritten
  <2> QED BY <2>1, <2>2 DEF FulfillmentNext, fulfillRead, deliver, manualConfirm, cancelPayment, saleVars
<1>3. PICK l : loc' = [loc EXCEPT ![p] = l] /\ CheckoutMove(loc[p], l)
  <2>1. CASE Return(p)
    BY <2>1, CheckoutMoves DEF Return
  <2>2. CASE Throw(p) /\ loc[p].pc = "fulfillRead"
    BY <2>2, CheckoutMoves DEF Throw
  <2>3. CASE Goto(p, "deliver") /\ loc[p].pc = "fulfillRead"
    <3>1. {"deliver", "fulfillRead"} \subseteq Taken /\ "deliver" \in Labels \ OfWallet
      BY DEF Taken, Labels, OfWallet, Before, Ending
    <3> QED BY <2>3, <3>1, CheckoutMoves DEF Goto
  <2>4. CASE Goto(p, "orderDone") /\ loc[p].pc = "deliver"
    <3>1. {"deliver", "orderDone"} \subseteq Taken /\ "orderDone" \in Labels \ OfWallet
      BY DEF Taken, Labels, OfWallet, Before, Ending
    <3> QED BY <2>4, <3>1, CheckoutMoves DEF Goto
  <2>5. CASE /\ loc[p].pc \in {"manualPaid", "manualConfirm", "cancelPayment"}
             /\ \E label \in {"manualConfirm", "fulfillRead", "cancelWrite"} : Goto(p, label)
    <3>1. /\ {"manualConfirm", "fulfillRead", "cancelWrite"} \subseteq Labels \ OfWallet
          /\ loc[p].pc \notin Before \union Taken \union Ending
      BY <2>5 DEF Taken, Labels, OfWallet, Before, Ending
    <3> QED BY <2>5, <3>1, NoCheckout DEF Goto
  <2> QED BY <2>1, <2>2, <2>3, <2>4, <2>5 DEF FulfillmentNext, fulfillRead, deliver, orderDone,
             manualPaid, manualConfirm, cancelPayment, cancelWrite, At
<1> QED BY <1>1, <1>2, <1>3, LedgerUntouched, QuietCheckout

\* confirmPayment, called by a checkout or by anybody else.
LEMMA CheckoutConfirm ==
  ASSUME WInv, IInv', NEW p \in Procs, confirmRead(p) \/ confirmWrite(p) \/ orderPaid(p)
  PROVE  WInv'
<1>0. IInv
  BY DEF WInv
<1>1. ledger' = ledger
  BY DEF confirmRead, confirmWrite, orderPaid, moneyVars
<1>2. PICK i \in Sales : i = loc[p].id
  BY <1>0, HandlerTypes DEF confirmRead, confirmWrite, orderPaid, At, HandlerOK, Unbound
<1>3. OrdersStay
  <2>1. CASE UNCHANGED order
    BY <2>1 DEF OrdersStay
  <2>2. CASE SetOrder(i, "PAID")
    BY <1>0, <2>2, OrderWritten DEF OrderStatus
  <2> QED BY <1>2, <2>1, <2>2 DEF confirmRead, confirmWrite, orderPaid, saleVars
<1>4. PICK l : loc' = [loc EXCEPT ![p] = l] /\ CheckoutMove(loc[p], l)
  <2>1. CASE Return(p)
    BY <2>1, CheckoutMoves DEF Return
  <2>2. CASE Throw(p) /\ loc[p].pc = "confirmRead"
    BY <2>2, CheckoutMoves DEF Throw
  <2>3. CASE /\ loc' = [loc EXCEPT ![p].pc = "confirmWrite", ![p].cust = info[loc[p].id].cust]
             /\ loc[p].pc = "confirmRead"
    <3> DEFINE c == info[loc[p].id].cust
               l == [loc[p] EXCEPT !.pc = "confirmWrite", !.cust = c]
    <3>1. loc[p] \in Locals /\ CheckoutForm(loc[p]) /\ loc \in [Procs -> Locals]
      BY <1>0, HandlerTypes DEF WInv, Checkouts, IInv, TypeOK
    <3>2. loc' = [loc EXCEPT ![p] = l]
      BY <2>3, <3>1
    <3>3. l.pc = "confirmWrite" /\ l.op = loc[p].op /\ l.id = loc[p].id
      BY <3>1 DEF Locals
    <3> HIDE DEF l
    <3>4. CheckoutMove(loc[p], l)
      BY <2>3, <3>3 DEF CheckoutMove, Before, Taken, OfWallet, Ending
    <3> QED BY <3>2, <3>4
  <2>4. CASE /\ loc[p].pc = "confirmWrite"
             /\ Goto(p, IF IsOrder(i) THEN "orderPaid"
                        ELSE IF loc[p].cust THEN "settleRead" ELSE "chargeSeller")
    <3>1. PICK label \in {"orderPaid", "settleRead", "chargeSeller"} :
            Goto(p, label) /\ (IsOrder(i) => label = "orderPaid")
      BY <2>4
    <3>2. loc[p].op = "wallet" => IsOrder(i)
      BY <1>0, <1>2, HandlerTypes DEF HandlerOK
    <3>3. /\ {"orderPaid", "settleRead", "chargeSeller"} \subseteq Labels \ OfWallet
          /\ {"confirmWrite", "orderPaid"} \subseteq Taken
      BY DEF Labels, OfWallet, Before, Ending, Taken
    <3> QED BY <2>4, <3>1, <3>2, <3>3, CheckoutMoves DEF Goto
  <2>5. CASE loc[p].pc = "orderPaid" /\ Goto(p, "fulfillRead")
    <3>1. "fulfillRead" \in Labels \ OfWallet /\ {"orderPaid", "fulfillRead"} \subseteq Taken
      BY DEF Labels, OfWallet, Before, Ending, Taken
    <3> QED BY <2>5, <3>1, CheckoutMoves DEF Goto
  <2> QED BY <1>2, <2>1, <2>2, <2>3, <2>4, <2>5 DEF confirmRead, confirmWrite, orderPaid, At
<1> QED BY <1>1, <1>3, <1>4, LedgerUntouched, QuietCheckout

\* Statements of the other payment handlers that only one step of them reaches.
Elsewhere == {"beginPayment", "zarinpalRequest", "tagCustomer", "rematchDeposits", "settleRead",
              "settleCheck", "settleCredit", "chargeSeller", "proofWrite", "proofVerify",
              "rejectWrite", "zarinpalVerify", "zarinpalReject", "pluginReject", "pluginReview",
              "expireWrite", "expireCount", "expireOrder", "usdtNext"}

\* Where those handlers go next.
LEMMA ElsewhereMoves ==
  ASSUME WInv, NEW p \in Procs, loc[p].pc \in Elsewhere,
         \/ beginPayment(p) \/ zarinpalRequest(p) \/ tagCustomer(p) \/ rematchDeposits(p)
         \/ chargeSeller(p) \/ settleRead(p) \/ settleCheck(p) \/ settleCredit(p)
         \/ proofWrite(p) \/ proofVerify(p) \/ rejectWrite(p)
         \/ zarinpalVerify(p) \/ zarinpalReject(p) \/ pluginWrite(p)
         \/ expireWrite(p) \/ expireCount(p) \/ expireOrder(p) \/ usdtNext(p)
  PROVE  \E l : loc' = [loc EXCEPT ![p] = l] /\ CheckoutMove(loc[p], l)
<1>0. IInv /\ loc[p].pc \notin Before \union Taken \union Ending /\ loc[p].pc # "walletRefund"
  BY DEF WInv, Elsewhere, Before, Taken, Ending
<1>1. loc[p] \in Locals /\ loc \in [Procs -> Locals] /\ loc[p].op # "wallet"
  BY <1>0, HandlerTypes, NoCheckout DEF IInv, TypeOK
<1>2. \A l : l.op # "wallet" /\ l.pc \notin OfWallet => CheckoutMove(loc[p], l)
  BY <1>0, NoCheckout
<1> DEFINE Goal == \E l : loc' = [loc EXCEPT ![p] = l] /\ CheckoutMove(loc[p], l)
<1>3. Return(p) => Goal
  BY CheckoutMoves DEF Return
<1>4. Throw(p) => Goal
  BY <1>0, CheckoutMoves DEF Throw
<1>5. loc' = [loc EXCEPT ![p] = Idle] => Goal
  BY CheckoutMoves
<1>6. \A label \in Elsewhere \union {"confirmRead"} : Goto(p, label) => Goal
  <2>1. Elsewhere \union {"confirmRead"} \subseteq Labels \ OfWallet
    BY DEF Elsewhere, Labels, OfWallet, Before, Ending
  <2> QED BY <1>0, <2>1, NoCheckout DEF Goto
<1>7. AfterBegin(p) => Goal
  <2>1. ASSUME loc' = [loc EXCEPT ![p].pc = "rematchDeposits", ![p].op = "rematch"] PROVE Goal
    <3> DEFINE l == [loc[p] EXCEPT !.pc = "rematchDeposits", !.op = "rematch"]
    <3>1. loc' = [loc EXCEPT ![p] = l] /\ l.op = "rematch" /\ l.pc = "rematchDeposits"
      BY <1>1, <2>1 DEF Locals
    <3> HIDE DEF l
    <3>2. CheckoutMove(loc[p], l)
      BY <1>2, <3>1 DEF OfWallet, Before, Ending
    <3> QED BY <3>1, <3>2
  <2>2. Goto(p, "tagCustomer") => Goal
    BY <1>6 DEF Elsewhere
  <2> HIDE DEF Goal
  <2> QED BY <1>3, <2>1, <2>2 DEF AfterBegin
<1>8. ASSUME NEW rest, ExpireGoOn(p, rest) PROVE Goal
  <2> DEFINE l == [loc[p] EXCEPT !.pc = "expireCount", !.id = NoSale, !.todo = rest]
  <2>1. loc' = [loc EXCEPT ![p] = Idle] \/ loc' = [loc EXCEPT ![p] = l]
    BY <1>1, <1>8 DEF ExpireGoOn
  <2>2. l.op = loc[p].op /\ l.pc = "expireCount"
    BY <1>1 DEF Locals
  <2> HIDE DEF l
  <2>3. CheckoutMove(loc[p], l)
    BY <1>1, <1>2, <2>2 DEF OfWallet, Before, Ending
  <2> QED BY <1>5, <2>1, <2>3
<1>9. ASSUME NEW i \in Sales, NEW label \in {"confirmRead", "expireOrder"},
             loc' = [loc EXCEPT ![p].pc = label, ![p].id = i]
      PROVE  Goal
  <2> DEFINE l == [loc[p] EXCEPT !.pc = label, !.id = i]
  <2>1. loc' = [loc EXCEPT ![p] = l] /\ l.op = loc[p].op /\ l.pc = label
    BY <1>1, <1>9 DEF Locals
  <2> HIDE DEF l
  <2>2. CheckoutMove(loc[p], l)
    BY <1>1, <1>2, <2>1 DEF OfWallet, Before, Ending
  <2> QED BY <2>1, <2>2
<1>10. usdtNext(p) => Goal
  <2> SUFFICES ASSUME usdtNext(p) PROVE Goal
    OBVIOUS
  <2>1. PICK i \in loc[p].todo :
          \/ loc' = [loc EXCEPT ![p].pc = "confirmRead", ![p].id = i, ![p].todo = @ \ {i}]
          \/ loc' = [loc EXCEPT ![p] = Returned([loc[p] EXCEPT !.id = i, !.todo = @ \ {i}])]
    BY DEF usdtNext
  <2>2. CASE loc' = [loc EXCEPT ![p].pc = "confirmRead", ![p].id = i, ![p].todo = @ \ {i}]
    <3> DEFINE l == [loc[p] EXCEPT !.pc = "confirmRead", !.id = i, !.todo = @ \ {i}]
    <3>1. loc' = [loc EXCEPT ![p] = l] /\ l.op = loc[p].op /\ l.pc = "confirmRead"
      BY <1>1, <2>2 DEF Locals
    <3> HIDE DEF l
    <3>2. CheckoutMove(loc[p], l)
      BY <1>1, <1>2, <3>1 DEF OfWallet, Before, Ending
    <3> QED BY <3>1, <3>2
  <2>3. CASE loc' = [loc EXCEPT ![p] = Returned([loc[p] EXCEPT !.id = i, !.todo = @ \ {i}])]
    <3> DEFINE m == [loc[p] EXCEPT !.id = i, !.todo = @ \ {i}]
               l == Returned(m)
    <3>1. m.op = loc[p].op /\ m.pc \notin OfWallet
      <4>1. m.op = loc[p].op /\ m.pc = loc[p].pc
        BY <1>1 DEF Locals
      <4> QED BY <1>0, <4>1 DEF OfWallet, Taken
    <3>2. /\ [m EXCEPT !.pc = "usdtNext"].op = loc[p].op
          /\ [m EXCEPT !.pc = "usdtNext"].pc = "usdtNext"
          /\ [m EXCEPT !.pc = "rematchDeposits"].op = loc[p].op
          /\ [m EXCEPT !.pc = "rematchDeposits"].pc = "rematchDeposits"
      BY <1>1 DEF Locals
    <3>3. Idle.op = "none" /\ Idle.pc = "idle"
      BY DEF Idle
    <3> HIDE DEF m
    <3>4. l \in {Idle, [m EXCEPT !.pc = "usdtNext"], [m EXCEPT !.pc = "rematchDeposits"]}
      BY DEF Returned
    <3>5. l.op # "wallet" /\ l.pc \notin OfWallet
      BY <1>1, <3>2, <3>3, <3>4 DEF OfWallet, Before, Ending
    <3>6. loc' = [loc EXCEPT ![p] = l]
      BY <2>3 DEF m
    <3> HIDE DEF l
    <3> QED BY <1>2, <3>5, <3>6
  <2> QED BY <2>1, <2>2, <2>3
<1>11. rematchDeposits(p) => Goal
  <2> HIDE DEF Goal
  <2> QED BY <1>5, <1>9 DEF rematchDeposits
<1>12. expireWrite(p) \/ expireCount(p) \/ expireOrder(p) => Goal
  <2>1. loc[p].todo \subseteq Sales
    BY <1>1 DEF Locals
  <2> HIDE DEF Goal
  <2>2. expireWrite(p) \/ expireOrder(p) => Goal
    BY <1>8 DEF expireWrite, expireOrder
  <2>3. expireCount(p) => Goal
    BY <1>8, <1>9, <2>1 DEF expireCount
  <2> QED BY <2>2, <2>3
<1>13. beginPayment(p) \/ zarinpalRequest(p) \/ tagCustomer(p) => Goal
  <2>1. Goto(p, "zarinpalRequest") => Goal
    BY <1>6 DEF Elsewhere
  <2> HIDE DEF Goal
  <2> QED BY <1>3, <1>4, <1>7, <2>1 DEF beginPayment, zarinpalRequest, tagCustomer
<1>14. chargeSeller(p) \/ settleRead(p) \/ settleCheck(p) \/ settleCredit(p) => Goal
  <2>1. (Goto(p, "settleCheck") => Goal) /\ (Goto(p, "settleCredit") => Goal)
    BY <1>6 DEF Elsewhere
  <2> HIDE DEF Goal
  <2> QED BY <1>3, <2>1 DEF chargeSeller, settleRead, settleCheck, settleCredit
<1>15. proofWrite(p) \/ proofVerify(p) \/ rejectWrite(p) \/ zarinpalVerify(p)
         \/ zarinpalReject(p) \/ pluginWrite(p) => Goal
  <2>1. /\ Goto(p, "proofVerify") => Goal
        /\ Goto(p, "confirmRead") => Goal
        /\ Goto(p, "zarinpalReject") => Goal
    BY <1>6 DEF Elsewhere
  <2> HIDE DEF Goal
  <2>2. zarinpalVerify(p) => Goto(p, "confirmRead") \/ Goto(p, "zarinpalReject")
    BY DEF zarinpalVerify
  <2> QED BY <1>3, <1>4, <2>1, <2>2 DEF proofWrite, proofVerify, rejectWrite, zarinpalReject, pluginWrite
<1> QED BY <1>10, <1>11, <1>12, <1>13, <1>14, <1>15

\* The other payment handlers: settleCredit posts a top-up row, the rest nothing.
LEMMA CheckoutElsewhere ==
  ASSUME WInv, IInv', NEW p \in Procs,
         \/ beginPayment(p) \/ zarinpalRequest(p) \/ tagCustomer(p) \/ rematchDeposits(p)
         \/ chargeSeller(p) \/ settleRead(p) \/ settleCheck(p) \/ settleCredit(p)
         \/ proofWrite(p) \/ proofVerify(p) \/ rejectWrite(p)
         \/ zarinpalVerify(p) \/ zarinpalReject(p) \/ pluginWrite(p)
         \/ expireWrite(p) \/ expireCount(p) \/ expireOrder(p) \/ usdtNext(p)
  PROVE  WInv'
<1>0. IInv
  BY DEF WInv
<1>1. loc[p].pc \in Elsewhere
  BY DEF beginPayment, zarinpalRequest, tagCustomer, rematchDeposits, chargeSeller, settleRead,
         settleCheck, settleCredit, proofWrite, proofVerify, rejectWrite, zarinpalVerify,
         zarinpalReject, pluginWrite, expireWrite, expireCount, expireOrder, usdtNext, At, Elsewhere
<1>2. PICK l : loc' = [loc EXCEPT ![p] = l] /\ CheckoutMove(loc[p], l)
  BY <1>1, ElsewhereMoves
<1>3. SameRows
  <2>1. CASE ledger' = ledger
    BY <2>1, LedgerUntouched
  <2>2. CASE settleCredit(p)
    <3>1. PICK i \in Sales : i = loc[p].id
      BY <1>0, <2>2, HandlerTypes DEF settleCredit, At, HandlerOK, Unbound
    <3>2. PICK a \in Accounts : a = Buyer[i]
      BY SaleAssumptions
    <3>3. PICK ref \in Refs : ref = <<"topup", i>>
      BY SaleAssumptions DEF SaleRefs
    <3>4. LedgerTypeOK
      BY <1>0 DEF IInv, TypeOK
    <3>5. PICK amount \in Int : amount = TopupValue
      <4>1. (Price * BonusPct) \div 100 \in Int
        BY SaleAssumptions
      <4> QED BY <4>1, SaleAssumptions DEF TopupValue
    <3>6. PICK balance \in Int : balance = credit[a] + amount
      BY <3>4 DEF LedgerTypeOK
    <3>7. Post(a, balance, amount, ref)
      BY <2>2, <3>1, <3>2, <3>3, <3>5, <3>6 DEF settleCredit
    <3>8. \A c \in Accounts, q \in Refs : c # a \/ q # ref => RowsFor(c, q)' = RowsFor(c, q)
      BY <3>4, <3>7, PostedRow
    <3>9. \A j \in Sales : /\ Buyer[j] \in Accounts
                           /\ <<"purchase", j>> \in Refs /\ <<"purchase", j>> # ref
                           /\ <<"refund", j>> \in Refs /\ <<"refund", j>> # ref
      BY <3>3, SaleAssumptions DEF SaleRefs
    <3> QED BY <3>8, <3>9 DEF SameRows, PurchaseRows, RefundRows
  <2> QED BY <2>1, <2>2 DEF beginPayment, zarinpalRequest, tagCustomer, rematchDeposits,
             chargeSeller, settleRead, settleCheck, proofWrite, proofVerify, rejectWrite,
             zarinpalVerify, zarinpalReject, pluginWrite, expireWrite, expireCount, expireOrder,
             usdtNext, moneyVars
<1>4. OrdersStay
  <2>1. CASE order' = order
    BY <2>1 DEF OrdersStay
  <2>2. CASE expireOrder(p)
    BY <1>0, <2>2 DEF expireOrder, OrdersStay, IInv, TypeOK
  <2> QED BY <2>1, <2>2 DEF beginPayment, zarinpalRequest, tagCustomer, rematchDeposits,
             chargeSeller, settleRead, settleCheck, settleCredit, proofWrite, proofVerify,
             rejectWrite, zarinpalVerify, zarinpalReject, pluginWrite, expireWrite, expireCount,
             usdtNext, saleVars
<1> QED BY <1>2, <1>3, <1>4, QuietCheckout

\* The statements of the checkout that move no money.
LEMMA CheckoutOwn ==
  ASSUME WInv, IInv', NEW p \in Procs,
         walletOpen(p) \/ walletCheck(p) \/ walletRecheck(p) \/ walletReject(p) \/ walletCancel(p)
  PROVE  WInv'
<1>0. IInv
  BY DEF WInv
<1>1. ledger' = ledger
  BY DEF walletOpen, walletCheck, walletRecheck, walletReject, walletCancel, moneyVars
<1>2. OrdersStay
  <2>1. CASE order' = order
    BY <2>1 DEF OrdersStay
  <2>2. CASE walletCancel(p)
    <3>1. PICK i \in Sales : i = loc[p].id
      BY <1>0, <2>2, HandlerTypes DEF walletCancel, At, HandlerOK, Unbound
    <3> QED BY <1>0, <2>2, <3>1, OrderWritten DEF walletCancel, OrderStatus
  <2> QED BY <2>1, <2>2 DEF walletOpen, walletCheck, walletRecheck, walletReject, saleVars
<1>3. PICK l : loc' = [loc EXCEPT ![p] = l] /\ CheckoutMove(loc[p], l)
  <2>1. CASE Return(p)
    BY <2>1, CheckoutMoves DEF Return
  <2>2. CASE loc[p].pc = "walletOpen" /\ Goto(p, "walletCheck")
    BY <2>2, CheckoutMoves DEF Goto, OfWallet, Before, Taken
  <2>3. CASE loc[p].pc = "walletCheck" /\ Goto(p, "walletReject")
    BY <2>3, CheckoutMoves DEF Goto, OfWallet, Before, Taken, Ending
  <2>4. CASE loc[p].pc = "walletCheck" /\ Goto(p, "walletTake")
    BY <2>4, CheckoutMoves DEF Goto, OfWallet, Before, Taken
  <2>5. CASE loc[p].pc = "walletRecheck" /\ Goto(p, "walletRefund")
    BY <2>5, CheckoutMoves DEF Goto, OfWallet, Before, Taken
  <2>6. CASE loc[p].pc = "walletReject" /\ Goto(p, "walletCancel")
    BY <2>6, CheckoutMoves DEF Goto, OfWallet, Before, Taken, Ending
  <2> QED BY <2>1, <2>2, <2>3, <2>4, <2>5, <2>6
          DEF walletOpen, walletCheck, walletRecheck, walletReject, walletCancel, At
<1> QED BY <1>1, <1>2, <1>3, LedgerUntouched, QuietCheckout

\* The rows of a checkout that posts: taking the price, or giving it back.
LEMMA CheckoutPosts ==
  ASSUME WInv, NEW p \in Procs, NEW i \in Sales, i = loc[p].id,
         NEW kind \in {"purchase", "refund"}, NEW amount \in Int,
         Post(Buyer[i], credit[Buyer[i]] + amount, amount, <<kind, i>>)
  PROVE  /\ \A j \in Sales \ {i} : PurchaseRows(j)' = PurchaseRows(j) /\ RefundRows(j)' = RefundRows(j)
         /\ kind = "purchase" => /\ RefundRows(i)' = RefundRows(i)
                                 /\ \E n \in Nat : PurchaseRows(i)' = PurchaseRows(i) \union {n}
         /\ kind = "refund" => /\ PurchaseRows(i)' = PurchaseRows(i)
                               /\ \E n \in Nat : RefundRows(i)' = RefundRows(i) \union {n}
<1>1. PICK a \in Accounts : a = Buyer[i]
  BY SaleAssumptions
<1>2. PICK ref \in Refs : ref = <<kind, i>>
  BY SaleAssumptions DEF SaleRefs
<1>3. LedgerTypeOK
  BY DEF WInv, IInv, TypeOK
<1>4. PICK balance \in Int : balance = credit[a] + amount
  BY <1>3 DEF LedgerTypeOK
<1>5. Post(a, balance, amount, ref)
  BY <1>1, <1>2, <1>4
<1>6. /\ \E n \in Nat : RowsFor(a, ref)' = RowsFor(a, ref) \union {n}
      /\ \A c \in Accounts, q \in Refs : c # a \/ q # ref => RowsFor(c, q)' = RowsFor(c, q)
  BY <1>3, <1>5, PostedRow
<1>7. \A j \in Sales : /\ Buyer[j] \in Accounts
                       /\ <<"purchase", j>> \in Refs /\ (<<"purchase", j>> = ref => kind = "purchase" /\ j = i)
                       /\ <<"refund", j>> \in Refs /\ (<<"refund", j>> = ref => kind = "refund" /\ j = i)
  BY <1>2, SaleAssumptions DEF SaleRefs
<1>8. \A j \in Sales : /\ kind # "purchase" \/ j # i => PurchaseRows(j)' = PurchaseRows(j)
                       /\ kind # "refund" \/ j # i => RefundRows(j)' = RefundRows(j)
  BY <1>6, <1>7 DEF PurchaseRows, RefundRows
<1>9. kind = "purchase" => \E n \in Nat : PurchaseRows(i)' = PurchaseRows(i) \union {n}
  BY <1>1, <1>2, <1>6 DEF PurchaseRows
<1>10. kind = "refund" => \E n \in Nat : RefundRows(i)' = RefundRows(i) \union {n}
  BY <1>1, <1>2, <1>6 DEF RefundRows
<1> QED BY <1>8, <1>9, <1>10

\* The checkout takes the price: its sale had no row, and has one purchase row.
LEMMA CheckoutTake ==
  ASSUME WInv, IInv', NEW p \in Procs, walletTake(p)
  PROVE  WInv'
<1>0. IInv
  BY DEF WInv
<1>1. PICK i \in Sales : i = loc[p].id
  BY <1>0, HandlerTypes DEF walletTake, At, HandlerOK, Unbound
<1>2. /\ loc[p].pc = "walletTake" /\ order' = order
      /\ loc' = [loc EXCEPT ![p] = [loc[p] EXCEPT !.pc = "confirmRead"]]
  BY DEF walletTake, At, Goto, saleVars
<1>3. loc[p] \in Locals /\ loc \in [Procs -> Locals]
  BY <1>0, HandlerTypes DEF IInv, TypeOK
<1>4. loc[p].op = "wallet" /\ PurchaseRows(i) = {} /\ RefundRows(i) = {}
  BY <1>1, <1>2 DEF WInv, Checkouts, CheckoutForm, CheckoutRows, OfWallet, Before
<1>5. Post(Buyer[i], credit[Buyer[i]] - Price, -Price, <<"purchase", i>>)
  BY <1>1 DEF walletTake
<1>6. /\ Buyer[i] \in Accounts /\ credit[Buyer[i]] \in Int /\ -Price \in Int
      /\ credit[Buyer[i]] - Price = credit[Buyer[i]] + (-Price)
  BY <1>0, SaleAssumptions DEF IInv, TypeOK, LedgerTypeOK
<1>7. PICK amount \in Int : amount = -Price
  BY <1>6
<1>8. Post(Buyer[i], credit[Buyer[i]] + amount, amount, <<"purchase", i>>)
  BY <1>5, <1>6, <1>7
<1>9. /\ \A j \in Sales \ {i} : PurchaseRows(j)' = PurchaseRows(j) /\ RefundRows(j)' = RefundRows(j)
      /\ RefundRows(i)' = {}
      /\ \E n \in Nat : PurchaseRows(i)' = {n}
  BY <1>1, <1>4, <1>8, CheckoutPosts
<1>10. /\ loc'[p].op = "wallet" /\ loc'[p].id = i /\ loc'[p].pc = "confirmRead"
       /\ \A q \in Procs \ {p} : loc'[q] = loc[q]
  BY <1>1, <1>2, <1>3, <1>4 DEF Locals
<1>11. Checkouts'
  <2> SUFFICES ASSUME NEW q \in Procs PROVE CheckoutForm(loc'[q]) /\ CheckoutRows(loc[q])'
    BY DEF Checkouts, CheckoutForm
  <2>1. CASE q = p
    BY <1>9, <1>10, <2>1 DEF CheckoutForm, CheckoutRows, OfWallet, Before, Taken, Ending
  <2>2. CASE q # p
    <3>1. loc[q].op = "wallet" => loc[q].id # i
      BY <1>1, <1>4, <2>2 DEF WInv, OneCheckout
    <3> QED BY <1>9, <1>10, <2>2, <3>1 DEF WInv, Checkouts, CheckoutForm, CheckoutRows
  <2> QED BY <2>1, <2>2
<1>12. OneCheckout'
  BY <1>1, <1>4, <1>10 DEF WInv, OneCheckout
<1>13. LedgerOfSales'
  <2> SUFFICES ASSUME NEW j \in Sales PROVE LedgerOfSale(j)'
    BY DEF LedgerOfSales
  <2>1. LedgerOfSale(j)
    BY DEF WInv, LedgerOfSales
  <2>2. CASE j # i
    BY <1>2, <1>9, <2>1, <2>2 DEF LedgerOfSale
  <2>3. CASE j = i
    <3>1. order[i] # "NONE"
      BY <1>0, <1>1, <1>2, HandlerTypes DEF HandlerOK, Touched, OrderLabels
    <3> QED BY <1>2, <1>9, <2>3, <3>1 DEF LedgerOfSale
  <2> QED BY <2>2, <2>3
<1> QED BY <1>11, <1>12, <1>13 DEF WInv

\* The checkout gives the price back: its sale had a purchase row and no refund
\* row, and the checkout is past every statement that could refund again.
LEMMA CheckoutRefund ==
  ASSUME WInv, IInv', NEW p \in Procs, walletRefund(p)
  PROVE  WInv'
<1>0. IInv
  BY DEF WInv
<1>1. PICK i \in Sales : i = loc[p].id
  BY <1>0, HandlerTypes DEF walletRefund, At, HandlerOK, Unbound
<1>2. /\ loc[p].pc = "walletRefund" /\ order' = order /\ Goto(p, "walletReject")
      /\ loc' = [loc EXCEPT ![p] = [loc[p] EXCEPT !.pc = "walletReject"]]
  BY DEF walletRefund, At, Goto, saleVars
<1>3. loc[p] \in Locals /\ loc \in [Procs -> Locals]
  BY <1>0, HandlerTypes DEF IInv, TypeOK
<1>4. CASE ledger' = ledger
  <2>1. CheckoutMove(loc[p], [loc[p] EXCEPT !.pc = "walletReject"])
    BY <1>2, CheckoutMoves DEF OfWallet, Before, Taken, Ending
  <2>2. OrdersStay
    BY <1>2 DEF OrdersStay
  <2> QED BY <1>2, <1>4, <2>1, <2>2, LedgerUntouched, QuietCheckout
<1>5. CASE Post(Buyer[i], credit[Buyer[i]] + Price, Price, <<"refund", i>>)
  <2>1. loc[p].op = "wallet" /\ PurchaseRows(i) # {} /\ RefundRows(i) = {}
    BY <1>1, <1>2 DEF WInv, Checkouts, CheckoutForm, CheckoutRows, OfWallet, Taken
  <2>2. Price \in Int
    BY SaleAssumptions
  <2>3. /\ \A j \in Sales \ {i} : PurchaseRows(j)' = PurchaseRows(j) /\ RefundRows(j)' = RefundRows(j)
        /\ PurchaseRows(i)' = PurchaseRows(i)
        /\ \E n \in Nat : RefundRows(i)' = {n}
    BY <1>1, <1>5, <2>1, <2>2, CheckoutPosts
  <2>4. /\ loc'[p].op = "wallet" /\ loc'[p].id = i /\ loc'[p].pc = "walletReject"
        /\ \A q \in Procs \ {p} : loc'[q] = loc[q]
    BY <1>1, <1>2, <1>3, <2>1 DEF Locals
  <2>5. Checkouts'
    <3> SUFFICES ASSUME NEW q \in Procs PROVE CheckoutForm(loc'[q]) /\ CheckoutRows(loc[q])'
      BY DEF Checkouts, CheckoutForm
    <3>1. CASE q = p
      BY <2>4, <3>1 DEF CheckoutForm, CheckoutRows, OfWallet, Before, Taken, Ending
    <3>2. CASE q # p
      <4>1. loc[q].op = "wallet" => loc[q].id # i
        BY <1>1, <2>1, <3>2 DEF WInv, OneCheckout
      <4> QED BY <2>3, <2>4, <3>2, <4>1 DEF WInv, Checkouts, CheckoutForm, CheckoutRows
    <3> QED BY <3>1, <3>2
  <2>6. OneCheckout'
    BY <1>1, <2>1, <2>4 DEF WInv, OneCheckout
  <2>7. LedgerOfSales'
    <3> SUFFICES ASSUME NEW j \in Sales PROVE LedgerOfSale(j)'
      BY DEF LedgerOfSales
    <3>1. LedgerOfSale(j)
      BY DEF WInv, LedgerOfSales
    <3>2. CASE j # i
      BY <1>2, <2>3, <3>1, <3>2 DEF LedgerOfSale
    <3>3. CASE j = i
      BY <1>2, <2>1, <2>3, <3>1, <3>3 DEF LedgerOfSale
    <3> QED BY <3>2, <3>3
  <2> QED BY <2>5, <2>6, <2>7 DEF WInv
<1> QED BY <1>1, <1>4, <1>5 DEF walletRefund

\* Requests, createOrder included: a new checkout begins on a sale nobody has
\* opened, so no other checkout and no row of that sale exists.
LEMMA CheckoutRequests ==
  ASSUME WInv, IInv', NEW p \in Web, NEW i \in Sales, Request(p, i)
  PROVE  WInv'
<1>0. IInv /\ p \in Procs
  BY DEF WInv, Procs
<1>1. PICK op, label : Start(p, op, i, label) /\ ledger' = ledger
        /\ \/ op = "wallet" /\ label = "walletOpen" /\ createOrder(p, i)
           \/ op # "wallet" /\ label \notin OfWallet /\ (createOrder(p, i) \/ order' = order)
  <2>1. CASE createOrder(p, i)
    BY <2>1 DEF createOrder, moneyVars, OfWallet, Before, Ending
  <2>2. CASE handleZarinpalCallback(p, i) \/ handlePaymentPluginCallback(p, i)
    <3>1. {"zarinpalVerify", "zarinpalReject", "pluginReject", "pluginReview", "confirmRead"}
             \intersect OfWallet = {}
      BY DEF OfWallet, Before, Ending
    <3>2. PICK label \in {"zarinpalVerify", "zarinpalReject", "pluginReject", "pluginReview", "confirmRead"} :
            Start(p, "auto", i, label)
      BY <2>2 DEF handleZarinpalCallback, handlePaymentPluginCallback
    <3>3. ledger' = ledger /\ order' = order
      BY <2>2 DEF handleZarinpalCallback, handlePaymentPluginCallback, moneyVars, saleVars
    <3> QED BY <3>1, <3>2, <3>3
  <2>3. CASE \/ createTopup(p, i) \/ confirmByHand(p, i) \/ submitProof(p, i) \/ rejectPayment(p, i)
             \/ ingestDeposit(p, i) \/ retryFulfill(p, i) \/ cancelOrder(p, i)
    <3>1. {"beginPayment", "confirmRead", "proofWrite", "rejectWrite", "manualPaid", "fulfillRead",
           "cancelPayment"} \intersect OfWallet = {}
      BY DEF OfWallet, Before, Ending
    <3>2. ledger' = ledger /\ order' = order
      BY <2>3 DEF createTopup, confirmByHand, submitProof, rejectPayment, ingestDeposit,
                  retryFulfill, cancelOrder, moneyVars, saleVars
    <3>3. PICK op \in {"topup", "confirm", "auto", "other", "retry"},
               label \in {"beginPayment", "confirmRead", "proofWrite", "rejectWrite", "manualPaid",
                          "fulfillRead", "cancelPayment"} : Start(p, op, i, label)
      BY <2>3 DEF createTopup, confirmByHand, submitProof, rejectPayment, ingestDeposit,
                  retryFulfill, cancelOrder
    <3> QED BY <3>1, <3>2, <3>3
  <2> QED BY <2>1, <2>2, <2>3 DEF Request
<1> DEFINE l == [Idle EXCEPT !.op = op, !.pc = label, !.id = i]
<1>2. loc' = [loc EXCEPT ![p] = l] /\ l.op = op /\ l.pc = label /\ l.id = i
  BY <1>1 DEF Start, Idle
<1> HIDE DEF l
<1>3. SameRows
  BY <1>1, LedgerUntouched
<1>4. OrdersStay
  <2>1. CASE order' = order
    BY <2>1 DEF OrdersStay
  <2>2. CASE createOrder(p, i)
    <3>1. PICK s \in OrderStatus \ {"NONE"} : SetOrder(i, s)
      BY <2>2 DEF createOrder, OrderStatus
    <3> QED BY <1>0, <3>1, OrderWritten
  <2> QED BY <1>1, <2>1, <2>2
<1>5. CASE op # "wallet"
  <2>1. CheckoutMove(loc[p], l)
    BY <1>1, <1>2, <1>5 DEF CheckoutMove
  <2> QED BY <1>0, <1>2, <1>3, <1>4, <2>1, QuietCheckout
<1>6. CASE op = "wallet"
  <2>1. label = "walletOpen" /\ IsOrder(i) /\ order[i] = "NONE"
    BY <1>1, <1>6 DEF createOrder
  <2>2. \A q \in Procs : loc[q].id # i
    BY <1>0, <2>1, HandlerTypes DEF HandlerOK, Touched
  <2>3. loc'[p] = l /\ \A q \in Procs \ {p} : loc'[q] = loc[q]
    BY <1>0, <1>2 DEF IInv, TypeOK
  <2>4. PurchaseRows(i) = {} /\ RefundRows(i) = {}
    BY <2>1 DEF WInv, LedgerOfSales, LedgerOfSale
  <2>5. Checkouts'
    <3> SUFFICES ASSUME NEW q \in Procs PROVE CheckoutForm(loc'[q]) /\ CheckoutRows(loc[q])'
      BY DEF Checkouts, CheckoutForm
    <3>1. CASE q = p
      BY <1>2, <1>3, <1>6, <2>1, <2>3, <2>4, <3>1
         DEF CheckoutForm, CheckoutRows, SameRows, OfWallet, Before, Taken, Ending
    <3>2. CASE q # p
      BY <1>3, <2>3, <3>2 DEF WInv, Checkouts, CheckoutForm, CheckoutRows, SameRows
    <3> QED BY <3>1, <3>2
  <2>6. OneCheckout'
    BY <1>2, <2>2, <2>3 DEF WInv, OneCheckout
  <2>7. LedgerOfSales'
    <3> SUFFICES ASSUME NEW j \in Sales PROVE LedgerOfSale(j)'
      BY DEF LedgerOfSales
    <3>1. LedgerOfSale(j) /\ PurchaseRows(j)' = PurchaseRows(j) /\ RefundRows(j)' = RefundRows(j)
      BY <1>3 DEF WInv, LedgerOfSales, SameRows
    <3> QED BY <1>4, <3>1 DEF LedgerOfSale, OrdersStay
  <2> QED BY <2>5, <2>6, <2>7 DEF WInv
<1> QED BY <1>5, <1>6

\* Every step of the storefront keeps what is known of the checkouts.
LEMMA CheckoutInductive == WInv /\ [Next]_vars => WInv'
<1> SUFFICES ASSUME WInv, [Next]_vars PROVE WInv'
  OBVIOUS
<1>0. IInv /\ IInv'
  BY Inductive DEF WInv
<1>1. ASSUME NEW p \in Web, NEW i \in Sales, Request(p, i) PROVE WInv'
  BY <1>0, <1>1, CheckoutRequests
<1>2. ASSUME NEW p \in Jobs, JobStart(p) PROVE WInv'
  <2>1. PICK l : loc' = [loc EXCEPT ![p] = l] /\ l.op # "wallet" /\ l.pc \notin OfWallet
    <3> DEFINE e == [Idle EXCEPT !.op = "other", !.pc = "expireWrite", !.todo = Stale]
               t == [i \in Sales |-> IF i \in UsdtWaiting THEN info[i].tries ELSE 0]
               u == [Idle EXCEPT !.op = "usdt", !.pc = "usdtNext", !.todo = UsdtWaiting, !.tries = t]
    <3>1. e.op = "other" /\ e.pc = "expireWrite" /\ u.op = "usdt" /\ u.pc = "usdtNext"
      BY DEF Idle
    <3>2. loc' = [loc EXCEPT ![p] = e] \/ loc' = [loc EXCEPT ![p] = u]
      BY <1>2 DEF JobStart, expirePayments, verifyPendingUsdt
    <3> HIDE DEF e, u
    <3> QED BY <3>1, <3>2 DEF OfWallet, Before, Ending
  <2>2. SameRows /\ OrdersStay
    BY <1>2, LedgerUntouched DEF JobStart, expirePayments, verifyPendingUsdt, saleVars, moneyVars, OrdersStay
  <2>3. CheckoutMove(loc[p], l) /\ p \in Procs
    BY <2>1 DEF CheckoutMove, Procs
  <2> QED BY <1>0, <2>1, <2>2, <2>3, QuietCheckout
<1>3. ASSUME NEW p \in Procs, Step(p) PROVE WInv'
  BY <1>0, <1>3, CheckoutFulfillment, CheckoutConfirm, CheckoutElsewhere, CheckoutOwn,
     CheckoutTake, CheckoutRefund DEF Step, PaymentsNext, CheckoutNext
<1>4. ASSUME NEW p \in Procs, Fault(p) PROVE WInv'
  <2>1. SameRows /\ OrdersStay
    BY <1>4, LedgerUntouched DEF Fault, saleVars, moneyVars, OrdersStay
  <2>2. PICK l : loc' = [loc EXCEPT ![p] = l] /\ CheckoutMove(loc[p], l)
    BY <1>4, CheckoutMoves DEF Fault, Throw, At
  <2> QED BY <1>0, <2>1, <2>2, QuietCheckout
<1>5. CASE (\E i \in Sales : ttlElapses(i)) \/ UNCHANGED vars
  <2>1. loc' = loc /\ ledger' = ledger /\ order' = order
    BY <1>5 DEF ttlElapses, vars, saleVars, moneyVars
  <2>2. SameRows
    BY <2>1, LedgerUntouched
  <2>3. Checkouts'
    BY <2>1, <2>2 DEF WInv, Checkouts, CheckoutForm, CheckoutRows, SameRows
  <2>4. OneCheckout'
    BY <2>1 DEF WInv, OneCheckout
  <2>5. LedgerOfSales'
    <3> SUFFICES ASSUME NEW j \in Sales PROVE LedgerOfSale(j)'
      BY DEF LedgerOfSales
    <3>1. LedgerOfSale(j) /\ PurchaseRows(j)' = PurchaseRows(j) /\ RefundRows(j)' = RefundRows(j)
      BY <2>2 DEF WInv, LedgerOfSales, SameRows
    <3> QED BY <2>1, <3>1 DEF LedgerOfSale
  <2> QED BY <1>0, <2>3, <2>4, <2>5 DEF WInv
<1> QED BY <1>1, <1>2, <1>3, <1>4, <1>5 DEF Next

(***************************************************************************)
(* With any number of checkouts, other handlers and failing calls, the     *)
(* wallet checkout takes the price of a sale at most once, and gives it    *)
(* back at most once and only after it took it (payOrderWithWallet).       *)
(***************************************************************************)
THEOREM CheckoutRefundsOnce == Spec => []RefundOnlyWhatWasTaken
<1>1. SaleInit => WInv
  <2> SUFFICES ASSUME SaleInit PROVE WInv
    OBVIOUS
  <2>1. \A p \in Procs : loc[p].op = "none" /\ loc[p].pc = "idle"
    BY DEF SaleInit, Idle
  <2>2. ASSUME NEW i \in Sales PROVE PurchaseRows(i) = {} /\ RefundRows(i) = {}
    <3>1. Buyer[i] \in Accounts /\ ledger[Buyer[i]] = <<OpeningRow>>
      BY SaleAssumptions DEF SaleInit
    <3>2. DOMAIN <<OpeningRow>> = {1} /\ <<OpeningRow>>[1] = OpeningRow
      OBVIOUS
    <3>3. OpeningRow.ref # <<"purchase", i>> /\ OpeningRow.ref # <<"refund", i>>
      BY DEF OpeningRow
    <3> QED BY <3>1, <3>2, <3>3 DEF PurchaseRows, RefundRows, RowsFor
  <2>3. Checkouts /\ OneCheckout
    BY <2>1 DEF Checkouts, OneCheckout, CheckoutForm, CheckoutRows, OfWallet, Before, Ending
  <2>4. LedgerOfSales
    BY <2>2 DEF LedgerOfSales, LedgerOfSale
  <2> QED BY <2>3, <2>4, Initially DEF WInv
<1>2. WInv => RefundOnlyWhatWasTaken
  <2> SUFFICES ASSUME WInv, NEW i \in Sales
               PROVE  /\ Cardinality(RefundRows(i)) <= Cardinality(PurchaseRows(i))
                      /\ Cardinality(PurchaseRows(i)) <= 1
    BY DEF RefundOnlyWhatWasTaken
  <2>1. LedgerOfSale(i)
    BY DEF WInv, LedgerOfSales
  <2>2. Cardinality({}) = 0 /\ \A n \in Nat : Cardinality({n}) = 1
    BY FS_EmptySet, FS_Singleton
  <2>3. Cardinality(PurchaseRows(i)) = 0 \/ Cardinality(PurchaseRows(i)) = 1
    BY <2>1, <2>2 DEF LedgerOfSale
  <2>4. CASE RefundRows(i) = {}
    BY <2>2, <2>3, <2>4
  <2>5. CASE RefundRows(i) # {}
    BY <2>1, <2>2, <2>5 DEF LedgerOfSale
  <2> QED BY <2>4, <2>5
<1> QED BY <1>1, <1>2, CheckoutInductive, PTL DEF Spec

(* ----------------------- one handler after the other -------------------- *)

(***************************************************************************)
(* With one handler in flight at a time (and crashes inside it), what a    *)
(* handler read is still true when it writes.  This is what the contract   *)
(* of a payment rests on; interleaved handlers break it.                   *)
(***************************************************************************)

\* The payment, of status s, that a handler at this statement is about.
LabelOK(label, s, isCredited) ==
  /\ label \in {"beginPayment", "walletOpen"} => s = "NONE"
  /\ label \in {"zarinpalRequest", "walletCheck", "walletTake", "pluginReject", "pluginReview"} =>
       s \in Open
  /\ label = "proofWrite" => s \in {"PENDING", "REVIEW", "REJECTED"}
  /\ label \in {"confirmWrite", "walletRefund", "walletReject", "rejectWrite", "zarinpalVerify",
                "zarinpalReject"} => s \notin {"NONE", "CONFIRMED"}
  /\ label \in {"confirmRead", "walletRecheck", "proofVerify"} => s # "NONE"
  /\ label \in Crediting => s = "CONFIRMED" /\ ~isCredited

\* What a handler l still knows, the payments being st and the credited sales C.
SerialOK(l, st, C) ==
  /\ l.pc = "idle" => l = Idle
  /\ \A i \in Sales : l.id = i => /\ LabelOK(l.pc, st[i], i \in C)
                                  /\ l.op = "wallet" /\ l.pc # "walletOpen" => st[i] # "NONE"
  /\ \A i \in l.todo : /\ l.pc = "expireWrite" => st[i] = "PENDING"
                       /\ l.op = "usdt" => st[i] # "NONE"

CreditedSales == {i \in Sales : Credited(i)}

OneActive == \A p, q \in Procs : loc[p].pc # "idle" /\ loc[q].pc # "idle" => p = q
SerialHandlers == \A p \in Procs : SerialOK(loc[p], status, CreditedSales)
SerialSales == \A i \in Sales : /\ status[i] # "CONFIRMED" => i \notin CreditedSales
                                /\ info[i].authority => status[i] # "NONE"

SInv == IInv /\ OneActive /\ SerialHandlers /\ SerialSales

\* The step keeps the invariant and is a step of the contract, or none.
KeepsSerial == SInv' /\ (Contract!Next \/ UNCHANGED <<status, credits>>)

\* Handler p runs alone.
Alone(p) == \A q \in Procs \ {p} : loc[q].pc = "idle"

\* Where a handler goes when it returns, throws, or moves to another statement.
LEMMA SerialReturn ==
  ASSUME NEW l \in Locals, NEW st, NEW C, NEW st2, NEW C2, SerialOK(l, st, C),
         \A i \in Sales : st[i] # "NONE" => st2[i] # "NONE"
  PROVE  /\ SerialOK(Idle, st2, C2)
         /\ SerialOK(Returned(l), st2, C2)
<1>1. Idle.id = NoSale /\ Idle.todo = {} /\ NoSale \notin Sales
  BY SaleAssumptions DEF Idle
<1>2. SerialOK(Idle, st2, C2)
  BY <1>1 DEF SerialOK
<1>3. l.todo \subseteq Sales
  BY DEF Locals
<1>4. ASSUME NEW label \in {"usdtNext", "rematchDeposits"}, l.op # "wallet"
      PROVE  SerialOK([l EXCEPT !.pc = label], st2, C2)
  <2> DEFINE m == [l EXCEPT !.pc = label]
  <2>1. m.pc = label /\ m.op = l.op /\ m.todo = l.todo
    BY DEF Locals
  <2> HIDE DEF m
  <2>2. \A s, c : LabelOK(label, s, c)
    BY DEF LabelOK, Crediting
  <2>3. SerialOK(m, st2, C2)
    BY <1>3, <1>4, <2>1, <2>2 DEF SerialOK
  <2> QED BY <2>3 DEF m
<1>5. \/ Returned(l) = Idle
      \/ l.op # "wallet" /\ Returned(l) = [l EXCEPT !.pc = "usdtNext"]
      \/ l.op # "wallet" /\ Returned(l) = [l EXCEPT !.pc = "rematchDeposits"]
  BY DEF Returned
<1> QED BY <1>2, <1>4, <1>5

\* Moving to another statement of the same sale.
LEMMA SerialGoto ==
  ASSUME NEW l \in Locals, NEW st, NEW C, NEW st2, NEW C2, SerialOK(l, st, C),
         \A i \in Sales : st[i] # "NONE" => st2[i] # "NONE",
         NEW label, label \notin {"idle", "expireWrite"}, l.pc # "walletOpen" \/ st2[l.id] # "NONE",
         l.id \in Sales, LabelOK(label, st2[l.id], l.id \in C2)
  PROVE  SerialOK([l EXCEPT !.pc = label], st2, C2)
<1> DEFINE m == [l EXCEPT !.pc = label]
<1>1. m.pc = label /\ m.op = l.op /\ m.todo = l.todo /\ m.id = l.id /\ l.todo \subseteq Sales
  BY DEF Locals
<1> HIDE DEF m
<1>2. SerialOK(m, st2, C2)
  BY <1>1 DEF SerialOK
<1> QED BY <1>2 DEF m

\* Throwing, with the payments as they were or from a statement nobody catches.
LEMMA SerialThrow ==
  ASSUME NEW l \in Locals, NEW st, NEW C, SerialOK(l, st, C), l.id \in Sales
  PROVE  /\ SerialOK(Thrown(l), st, C)
         /\ \A st2, C2 : /\ \A i \in Sales : st[i] # "NONE" => st2[i] # "NONE"
                         /\ l.pc \in {"zarinpalRequest", "beginPayment", "proofWrite"}
                         => SerialOK(Thrown(l), st2, C2)
<1>1. ASSUME NEW st2, NEW C2, \A i \in Sales : st[i] # "NONE" => st2[i] # "NONE",
             l.op # "wallet" \/ l.pc \notin {"walletCheck", "walletTake", "confirmRead",
                                             "confirmWrite", "orderPaid", "fulfillRead"}
      PROVE  SerialOK(Thrown(l), st2, C2)
  <2>1. Thrown(l) \in {Idle, Returned(l)}
    BY <1>1 DEF Thrown
  <2>2. SerialOK(Idle, st2, C2) /\ SerialOK(Returned(l), st2, C2)
    BY <1>1, SerialReturn
  <2> QED BY <2>1, <2>2
<1>2. CASE l.op = "wallet" /\ l.pc \in {"walletCheck", "walletTake"}
  <2>1. Thrown(l) = [l EXCEPT !.pc = "walletReject"]
    BY <1>2 DEF Thrown
  <2>2. LabelOK(l.pc, st[l.id], l.id \in C)
    BY DEF SerialOK
  <2>3. LabelOK("walletReject", st[l.id], l.id \in C)
    BY <1>2, <2>2 DEF LabelOK, Open, Crediting
  <2>4. SerialOK([l EXCEPT !.pc = "walletReject"], st, C)
    BY <1>2, <2>3, SerialGoto
  <2> QED BY <1>2, <2>1, <2>4
<1>3. CASE l.op = "wallet" /\ l.pc \in {"confirmRead", "confirmWrite", "orderPaid", "fulfillRead"}
  <2>1. Thrown(l) = [l EXCEPT !.pc = "walletRecheck"]
    BY <1>3 DEF Thrown
  <2>2. st[l.id] # "NONE"
    BY <1>3 DEF SerialOK
  <2>3. LabelOK("walletRecheck", st[l.id], l.id \in C)
    BY <2>2 DEF LabelOK, Crediting
  <2>4. SerialOK([l EXCEPT !.pc = "walletRecheck"], st, C)
    BY <1>3, <2>3, SerialGoto
  <2> QED BY <1>3, <2>1, <2>4
<1>4. \A st2, C2 : /\ \A i \in Sales : st[i] # "NONE" => st2[i] # "NONE"
                   /\ l.pc \in {"zarinpalRequest", "beginPayment", "proofWrite"}
                   => SerialOK(Thrown(l), st2, C2)
  BY <1>1
<1> QED BY <1>1, <1>2, <1>3, <1>4

\* What the step of one handler must show.
LEMMA SerialStep ==
  ASSUME SInv, IInv', NEW p \in Procs, Alone(p), NEW l, loc' = [loc EXCEPT ![p] = l],
         SerialOK(l, status', CreditedSales'), SerialSales'
  PROVE  SInv'
<1>1. loc'[p] = l /\ \A q \in Procs \ {p} : loc'[q] = loc[q]
  BY DEF SInv, IInv, TypeOK
<1>2. OneActive'
  BY <1>1 DEF OneActive, Alone
<1>3. SerialHandlers'
  <2> SUFFICES ASSUME NEW q \in Procs PROVE SerialOK(loc'[q], status', CreditedSales')
    BY DEF SerialHandlers
  <2>1. CASE q = p
    BY <1>1, <2>1
  <2>2. CASE q # p
    <3>1. loc'[q] = Idle
      BY <1>1, <2>2 DEF SInv, SerialHandlers, SerialOK, Alone
    <3>2. Idle.id = NoSale /\ Idle.todo = {} /\ NoSale \notin Sales
      BY SaleAssumptions DEF Idle
    <3> QED BY <3>1, <3>2 DEF SerialOK
  <2> QED BY <2>1, <2>2
<1> QED BY <1>2, <1>3 DEF SInv

\* The sales with a credit, while neither wallet is written.
LEMMA SameCredits ==
  ASSUME UNCHANGED <<ledger, sellerCredits>>
  PROVE  CreditedSales' = CreditedSales /\ credits' = credits
  BY DEF CreditedSales, Credited, credits, TopupRows, RowsFor

\* A step that writes no payment status and no wallet.
LEMMA SerialQuiet ==
  ASSUME SInv, IInv', NEW p \in Procs, Alone(p), NEW l, loc' = [loc EXCEPT ![p] = l],
         UNCHANGED <<status, ledger, sellerCredits>>,
         \A j \in Sales : info'[j].authority => info[j].authority \/ status[j] # "NONE",
         SerialOK(l, status, CreditedSales)
  PROVE  KeepsSerial
<1>1. CreditedSales' = CreditedSales /\ credits' = credits
  BY SameCredits
<1>2. SerialSales'
  BY <1>1 DEF SInv, SerialSales
<1>3. SerialOK(l, status', CreditedSales')
  BY <1>1
<1>4. SInv'
  BY <1>2, <1>3, SerialStep
<1> QED BY <1>1, <1>4 DEF KeepsSerial

\* A step that writes the status of one payment, as the contract allows it.
LEMMA SerialMove ==
  ASSUME SInv, IInv', NEW p \in Procs, Alone(p), NEW l, loc' = [loc EXCEPT ![p] = l],
         NEW i \in Sales, NEW s, SetStatus(i, s), UNCHANGED <<ledger, sellerCredits>>,
         \/ s = "PENDING" /\ status[i] = "NONE"
         \/ s = "REVIEW" /\ status[i] \in {"PENDING", "REVIEW", "REJECTED"}
         \/ s \in {"CONFIRMED", "REJECTED"} /\ status[i] \notin {"NONE", "CONFIRMED"},
         \A j \in Sales : info'[j].authority => info[j].authority,
         SerialOK(l, status', CreditedSales)
  PROVE  KeepsSerial
<1>1. CreditedSales' = CreditedSales /\ credits' = credits
  BY SameCredits
<1>2. status \in [Sales -> PaymentStatus] /\ status' = [status EXCEPT ![i] = s]
  BY DEF SInv, IInv, TypeOK, SetStatus
<1>3. status'[i] = s /\ \A j \in Sales \ {i} : status'[j] = status[j]
  BY <1>2
<1>4. SerialSales'
  BY <1>1, <1>3 DEF SInv, SerialSales
<1>5. SInv'
  BY <1>1, <1>4, SerialStep
<1>6. status[i] \notin {"NONE", "CONFIRMED"} => status[i] \in {"PENDING", "REVIEW", "REJECTED", "EXPIRED"}
  BY <1>2 DEF PaymentStatus
<1>7. Contract!Next
  BY <1>1, <1>2, <1>6 DEF Contract!Next, Contract!Open, Contract!Review, Contract!Confirm,
         Contract!Reject, Contract!Move
<1> QED BY <1>5, <1>7 DEF KeepsSerial

\* What is known of a handler that runs.
LEMMA SerialHandler ==
  ASSUME SInv, NEW p \in Procs, loc[p].pc # "idle"
  PROVE  /\ Alone(p) /\ IInv /\ loc[p] \in Locals /\ loc \in [Procs -> Locals]
         /\ SerialOK(loc[p], status, CreditedSales)
         /\ loc[p].pc \notin Unbound =>
              loc[p].id \in Sales /\ LabelOK(loc[p].pc, status[loc[p].id], loc[p].id \in CreditedSales)
<1>1. IInv /\ loc[p] \in Locals /\ loc \in [Procs -> Locals] /\ HandlerOK(loc[p])
  BY HandlerTypes DEF SInv, IInv, TypeOK
<1>2. Alone(p)
  BY DEF Alone, SInv, OneActive
<1>3. SerialOK(loc[p], status, CreditedSales)
  BY DEF SInv, SerialHandlers
<1>4. loc[p].pc \notin Unbound => loc[p].id \in Sales
  BY <1>1 DEF HandlerOK
<1> QED BY <1>1, <1>2, <1>3, <1>4 DEF SerialOK

\* A running handler that returns, throws or moves on without writing anything
\* the contract is about.
LEMMA SerialMovesOn ==
  ASSUME SInv, IInv', NEW p \in Procs, loc[p].pc \notin Unbound,
         UNCHANGED <<status, ledger, sellerCredits>>,
         \A j \in Sales : info'[j].authority => info[j].authority \/ status[j] # "NONE",
         \/ Return(p) \/ Throw(p) \/ loc' = [loc EXCEPT ![p] = Idle]
         \/ \E label : /\ Goto(p, label) /\ label \notin {"idle", "expireWrite"}
                       /\ loc[p].pc # "walletOpen"
                       /\ LabelOK(label, status[loc[p].id], loc[p].id \in CreditedSales)
  PROVE  KeepsSerial
<1>1. /\ Alone(p) /\ loc[p] \in Locals /\ SerialOK(loc[p], status, CreditedSales)
      /\ loc[p].id \in Sales
  BY SerialHandler DEF Unbound
<1>2. PICK l : loc' = [loc EXCEPT ![p] = l] /\ SerialOK(l, status, CreditedSales)
  <2>1. CASE Return(p)
    BY <1>1, <2>1, SerialReturn DEF Return
  <2>2. CASE Throw(p)
    BY <1>1, <2>2, SerialThrow DEF Throw
  <2>3. CASE loc' = [loc EXCEPT ![p] = Idle]
    BY <1>1, <2>3, SerialReturn
  <2>4. ASSUME NEW label, Goto(p, label), label \notin {"idle", "expireWrite"},
               loc[p].pc # "walletOpen", LabelOK(label, status[loc[p].id], loc[p].id \in CreditedSales)
        PROVE  \E l : loc' = [loc EXCEPT ![p] = l] /\ SerialOK(l, status, CreditedSales)
    <3>1. SerialOK([loc[p] EXCEPT !.pc = label], status, CreditedSales)
      BY <1>1, <2>4, SerialGoto
    <3> QED BY <2>4, <3>1 DEF Goto
  <2> QED BY <2>1, <2>2, <2>3, <2>4
<1> QED BY <1>1, <1>2, SerialQuiet

\* A running handler that writes the status of its payment and returns or moves on.
LEMMA SerialWrites ==
  ASSUME SInv, IInv', NEW p \in Procs, loc[p].pc \notin Unbound,
         NEW s, SetStatus(loc[p].id, s), UNCHANGED <<ledger, sellerCredits>>,
         \/ s = "PENDING" /\ status[loc[p].id] = "NONE"
         \/ s = "REVIEW" /\ status[loc[p].id] \in {"PENDING", "REVIEW", "REJECTED"}
         \/ s \in {"CONFIRMED", "REJECTED"} /\ status[loc[p].id] \notin {"NONE", "CONFIRMED"},
         \A j \in Sales : info'[j].authority => info[j].authority,
         \/ Return(p)
         \/ Throw(p) /\ loc[p].pc = "zarinpalRequest"
         \/ \E label : /\ Goto(p, label) /\ label \notin {"idle", "expireWrite"}
                       /\ LabelOK(label, s, loc[p].id \in CreditedSales)
  PROVE  KeepsSerial
<1>1. /\ Alone(p) /\ loc[p] \in Locals /\ SerialOK(loc[p], status, CreditedSales)
      /\ loc[p].id \in Sales /\ status \in [Sales -> PaymentStatus]
  BY SerialHandler DEF Unbound, IInv, TypeOK
<1>2. status'[loc[p].id] = s /\ s # "NONE" /\ \A j \in Sales : status[j] # "NONE" => status'[j] # "NONE"
  BY <1>1 DEF SetStatus
<1>3. PICK l : loc' = [loc EXCEPT ![p] = l] /\ SerialOK(l, status', CreditedSales)
  <2>1. CASE Return(p)
    BY <1>1, <1>2, <2>1, SerialReturn DEF Return
  <2>2. CASE Throw(p) /\ loc[p].pc = "zarinpalRequest"
    BY <1>1, <1>2, <2>2, SerialThrow DEF Throw
  <2>3. ASSUME NEW label, Goto(p, label), label \notin {"idle", "expireWrite"},
               LabelOK(label, s, loc[p].id \in CreditedSales)
        PROVE  \E l : loc' = [loc EXCEPT ![p] = l] /\ SerialOK(l, status', CreditedSales)
    <3>1. SerialOK([loc[p] EXCEPT !.pc = label], status', CreditedSales)
      BY <1>1, <1>2, <2>3, SerialGoto
    <3> QED BY <2>3, <3>1 DEF Goto
  <2> QED BY <2>1, <2>2, <2>3
<1>4. PICK i \in Sales : i = loc[p].id
  BY <1>1
<1> QED BY <1>1, <1>3, <1>4, SerialMove

\* Statements at which a handler assumes nothing of its payment.
FreeLabels == {"deliver", "orderDone", "manualConfirm", "fulfillRead", "orderPaid", "cancelWrite",
               "manualPaid", "cancelPayment", "tagCustomer", "rematchDeposits", "walletCancel"}

\* Any payment will do there.
LEMMA FreeLabelOK == \A label \in FreeLabels : \A s, c : LabelOK(label, s, c)
  BY DEF FreeLabels, LabelOK, Crediting

\* fulfillOrder, retryFulfill and cancelOrder, one handler at a time.
LEMMA SerialFulfillment ==
  ASSUME SInv, IInv', NEW p \in Procs, FulfillmentNext(p)
  PROVE  KeepsSerial
<1>1. loc[p].pc \notin Unbound /\ loc[p].pc \notin {"walletOpen", "idle"}
  BY DEF FulfillmentNext, fulfillRead, deliver, orderDone, manualPaid, manualConfirm,
         cancelPayment, cancelWrite, At, Unbound
<1>2. UNCHANGED <<ledger, sellerCredits, info>>
  BY DEF FulfillmentNext, fulfillRead, deliver, orderDone, manualPaid, manualConfirm,
         cancelPayment, cancelWrite, moneyVars, saleVars
<1>3. loc[p].id \in Sales /\ status \in [Sales -> PaymentStatus]
  BY <1>1, SerialHandler DEF SInv, IInv, TypeOK
<1>4. \A label \in FreeLabels : /\ label \notin {"idle", "expireWrite"}
                                /\ LabelOK(label, status[loc[p].id], loc[p].id \in CreditedSales)
  BY FreeLabelOK DEF FreeLabels
<1>5. CASE fulfillRead(p) \/ deliver(p) \/ orderDone(p) \/ manualPaid(p) \/ cancelWrite(p)
  <2>1. status' = status
    BY <1>5 DEF fulfillRead, deliver, orderDone, manualPaid, cancelWrite, saleVars
  <2>2. Return(p) \/ Throw(p) \/ \E label \in FreeLabels : Goto(p, label)
    BY <1>5 DEF fulfillRead, deliver, orderDone, manualPaid, cancelWrite, FreeLabels
  <2> QED BY <1>1, <1>2, <1>4, <2>1, <2>2, SerialMovesOn
<1>6. CASE manualConfirm(p) \/ cancelPayment(p)
  <2>1. PICK label \in FreeLabels : Goto(p, label)
    BY <1>6 DEF manualConfirm, cancelPayment, FreeLabels
  <2>2. CASE status[loc[p].id] \in Open
    <3>1. PICK s \in {"CONFIRMED", "REJECTED"} : SetStatus(loc[p].id, s)
      BY <1>6, <2>2 DEF manualConfirm, cancelPayment, SetStatus
    <3>2. LabelOK(label, s, loc[p].id \in CreditedSales)
      BY FreeLabelOK
    <3> QED BY <1>1, <1>2, <1>4, <2>1, <2>2, <3>1, <3>2, SerialWrites DEF Open
  <2>3. CASE status[loc[p].id] \notin Open
    <3>1. status' = status
      BY <1>3, <1>6, <2>3 DEF manualConfirm, cancelPayment
    <3> QED BY <1>1, <1>2, <1>4, <2>1, <3>1, SerialMovesOn
  <2> QED BY <2>2, <2>3
<1> QED BY <1>5, <1>6 DEF FulfillmentNext

\* createOrder and the wallet checkout, but for its two postings.
LEMMA SerialCheckout ==
  ASSUME SInv, IInv', NEW p \in Procs,
         walletOpen(p) \/ walletCheck(p) \/ walletRecheck(p) \/ walletReject(p) \/ walletCancel(p)
  PROVE  KeepsSerial
<1>1. loc[p].pc \notin Unbound /\ loc[p].pc # "idle"
  BY DEF walletOpen, walletCheck, walletRecheck, walletReject, walletCancel, At, Unbound
<1>2. loc[p].id \in Sales /\ LabelOK(loc[p].pc, status[loc[p].id], loc[p].id \in CreditedSales)
  BY <1>1, SerialHandler
<1>3. UNCHANGED <<ledger, sellerCredits>>
  BY DEF walletOpen, walletCheck, walletRecheck, walletReject, walletCancel, moneyVars
<1>4. CASE walletOpen(p)
  <2>1. SetStatus(loc[p].id, "PENDING") /\ Goto(p, "walletCheck") /\ status[loc[p].id] = "NONE"
    BY <1>2, <1>4 DEF walletOpen, At, LabelOK
  <2>2. LabelOK("walletCheck", "PENDING", loc[p].id \in CreditedSales)
    BY DEF LabelOK, Open, Crediting
  <2>3. \A j \in Sales : info'[j].authority => info[j].authority
    BY <1>2, <1>4 DEF walletOpen, SInv, IInv, TypeOK, Infos
  <2> QED BY <1>1, <1>3, <2>1, <2>2, <2>3, SerialWrites
<1>5. CASE walletReject(p)
  <2>1. /\ SetStatus(loc[p].id, "REJECTED") /\ Goto(p, "walletCancel") /\ info' = info
        /\ status[loc[p].id] \notin {"NONE", "CONFIRMED"}
    BY <1>2, <1>5 DEF walletReject, At, LabelOK
  <2>2. LabelOK("walletCancel", "REJECTED", loc[p].id \in CreditedSales)
    BY DEF LabelOK, Crediting
  <2> QED BY <1>1, <1>3, <2>1, <2>2, SerialWrites
<1>6. CASE walletCheck(p)
  <2>1. loc[p].pc = "walletCheck" /\ UNCHANGED <<status, info>>
    BY <1>6 DEF walletCheck, At, saleVars
  <2>2. PICK label \in {"walletReject", "walletTake"} : Goto(p, label)
    BY <1>6 DEF walletCheck
  <2>3. LabelOK(label, status[loc[p].id], loc[p].id \in CreditedSales)
    BY <1>2, <2>1 DEF LabelOK, Open, Crediting
  <2> QED BY <1>1, <1>3, <2>1, <2>2, <2>3, SerialMovesOn
<1>7. CASE walletRecheck(p)
  <2>1. loc[p].pc = "walletRecheck" /\ UNCHANGED <<status, info>>
    BY <1>7 DEF walletRecheck, At, saleVars
  <2>2. Return(p) \/ (Goto(p, "walletRefund") /\ status[loc[p].id] # "CONFIRMED")
    BY <1>7 DEF walletRecheck
  <2>3. status[loc[p].id] # "CONFIRMED" =>
          LabelOK("walletRefund", status[loc[p].id], loc[p].id \in CreditedSales)
    BY <1>2, <2>1 DEF LabelOK, Crediting
  <2> QED BY <1>1, <1>3, <2>1, <2>2, <2>3, SerialMovesOn
<1>8. CASE walletCancel(p)
  <2>1. UNCHANGED <<status, info>> /\ Return(p)
    BY <1>8 DEF walletCancel
  <2> QED BY <1>1, <1>3, <2>1, SerialMovesOn
<1> QED BY <1>4, <1>5, <1>6, <1>7, <1>8

\* The status writes and the reads of the payment handlers.
LEMMA SerialPayments ==
  ASSUME SInv, IInv', NEW p \in Procs,
         \/ tagCustomer(p) \/ confirmRead(p) \/ confirmWrite(p) \/ orderPaid(p) \/ settleRead(p)
         \/ settleCheck(p) \/ proofWrite(p) \/ proofVerify(p) \/ rejectWrite(p)
         \/ zarinpalVerify(p) \/ zarinpalReject(p) \/ pluginWrite(p)
  PROVE  KeepsSerial
<1>1. loc[p].pc \notin Unbound /\ loc[p].pc \notin {"idle", "walletOpen"}
  BY DEF tagCustomer, confirmRead, confirmWrite, orderPaid, settleRead, settleCheck, proofWrite,
         proofVerify, rejectWrite, zarinpalVerify, zarinpalReject, pluginWrite, At, Unbound
<1>2. /\ loc[p].id \in Sales /\ LabelOK(loc[p].pc, status[loc[p].id], loc[p].id \in CreditedSales)
      /\ loc[p] \in Locals /\ SerialOK(loc[p], status, CreditedSales) /\ Alone(p)
      /\ loc \in [Procs -> Locals]
  BY <1>1, SerialHandler
<1>3. UNCHANGED <<ledger, sellerCredits>>
  BY DEF tagCustomer, confirmRead, confirmWrite, orderPaid, settleRead, settleCheck, proofWrite,
         proofVerify, rejectWrite, zarinpalVerify, zarinpalReject, pluginWrite, moneyVars
<1>4. \A j \in Sales : info'[j].authority => info[j].authority
  <2>1. CASE info' = info
    BY <2>1
  <2>2. CASE tagCustomer(p) \/ proofWrite(p) \/ proofVerify(p)
    <3>1. info \in [Sales -> Infos]
      BY DEF SInv, IInv, TypeOK
    <3>2. CASE info' = [info EXCEPT ![loc[p].id].cust = TRUE]
      BY <1>2, <3>1, <3>2 DEF Infos
    <3>3. ASSUME NEW v, NEW n, info' = [info EXCEPT ![loc[p].id].verify = v, ![loc[p].id].tries = n]
          PROVE  \A j \in Sales : info'[j].authority => info[j].authority
      BY <1>2, <3>1, <3>3 DEF Infos
    <3> QED BY <2>1, <2>2, <3>2, <3>3 DEF tagCustomer, proofWrite, proofVerify
  <2> QED BY <2>1, <2>2 DEF confirmRead, confirmWrite, orderPaid, settleRead, settleCheck,
         rejectWrite, zarinpalVerify, zarinpalReject, pluginWrite, saleVars
<1>5. CASE tagCustomer(p)
  BY <1>1, <1>3, <1>4, <1>5, SerialMovesOn DEF tagCustomer
<1>6. CASE confirmRead(p)
  <2>1. loc[p].pc = "confirmRead" /\ UNCHANGED <<status, info>>
    BY <1>6 DEF confirmRead, At, saleVars
  <2>2. CASE Return(p) \/ Throw(p)
    BY <1>1, <1>3, <1>4, <2>1, <2>2, SerialMovesOn
  <2>3. CASE /\ status[loc[p].id] # "CONFIRMED"
             /\ loc' = [loc EXCEPT ![p].pc = "confirmWrite", ![p].cust = info[loc[p].id].cust]
    <3> DEFINE c == info[loc[p].id].cust
               l == [loc[p] EXCEPT !.pc = "confirmWrite", !.cust = c]
    <3>1. loc' = [loc EXCEPT ![p] = l]
      BY <1>2, <2>3
    <3>2. l.pc = "confirmWrite" /\ l.op = loc[p].op /\ l.id = loc[p].id /\ l.todo = loc[p].todo
      BY <1>2 DEF Locals
    <3> HIDE DEF l
    <3>3. LabelOK("confirmWrite", status[loc[p].id], loc[p].id \in CreditedSales)
      BY <1>2, <2>1, <2>3 DEF LabelOK, Crediting
    <3>4. SerialOK(l, status, CreditedSales)
      BY <1>2, <2>1, <3>2, <3>3 DEF SerialOK
    <3> QED BY <1>2, <1>3, <1>4, <2>1, <3>1, <3>4, SerialQuiet
  <2> QED BY <1>6, <2>2, <2>3 DEF confirmRead
<1>7. CASE confirmWrite(p)
  <2>1. /\ loc[p].pc = "confirmWrite" /\ SetStatus(loc[p].id, "CONFIRMED")
        /\ status[loc[p].id] \notin {"NONE", "CONFIRMED"}
    BY <1>2, <1>7 DEF confirmWrite, At, LabelOK
  <2>2. PICK label \in {"orderPaid", "settleRead", "chargeSeller"} : Goto(p, label)
    BY <1>7 DEF confirmWrite
  <2>3. loc[p].id \notin CreditedSales
    BY <1>2, <2>1 DEF SInv, SerialSales
  <2>4. LabelOK(label, "CONFIRMED", loc[p].id \in CreditedSales)
    BY <2>3 DEF LabelOK, Crediting
  <2> QED BY <1>1, <1>3, <1>4, <2>1, <2>2, <2>4, SerialWrites
<1>8. CASE orderPaid(p)
  <2>1. UNCHANGED status /\ Goto(p, "fulfillRead")
    BY <1>8 DEF orderPaid
  <2>2. LabelOK("fulfillRead", status[loc[p].id], loc[p].id \in CreditedSales)
    BY FreeLabelOK DEF FreeLabels
  <2> QED BY <1>1, <1>3, <1>4, <2>1, <2>2, SerialMovesOn
<1>9. CASE settleRead(p) \/ settleCheck(p)
  <2>1. loc[p].pc \in Crediting /\ status' = status
    BY <1>9 DEF settleRead, settleCheck, At, Crediting, saleVars
  <2>2. Return(p) \/ Goto(p, "settleCheck") \/ Goto(p, "settleCredit")
    BY <1>9 DEF settleRead, settleCheck
  <2>3. \A label \in Crediting : LabelOK(label, status[loc[p].id], loc[p].id \in CreditedSales)
    BY <1>2, <2>1 DEF LabelOK, Crediting
  <2> QED BY <1>1, <1>3, <1>4, <2>1, <2>2, <2>3, SerialMovesOn DEF Crediting
<1>10. CASE proofWrite(p)
  <2>1. loc[p].pc = "proofWrite" /\ status[loc[p].id] \in {"PENDING", "REVIEW", "REJECTED"}
    BY <1>2, <1>10 DEF proofWrite, At, LabelOK
  <2>2. CASE Throw(p) /\ status' = status
    BY <1>1, <1>3, <1>4, <2>2, SerialMovesOn
  <2>3. CASE SetStatus(loc[p].id, "REVIEW") /\ (Return(p) \/ Goto(p, "proofVerify"))
    <3>1. LabelOK("proofVerify", "REVIEW", loc[p].id \in CreditedSales)
      BY DEF LabelOK, Crediting
    <3> QED BY <1>1, <1>3, <1>4, <2>1, <2>3, <3>1, SerialWrites
  <2> QED BY <1>10, <2>2, <2>3 DEF proofWrite
<1>11. CASE proofVerify(p)
  <2>1. status' = status /\ (Return(p) \/ Goto(p, "confirmRead")) /\ loc[p].pc = "proofVerify"
    BY <1>11 DEF proofVerify, At
  <2>2. LabelOK("confirmRead", status[loc[p].id], loc[p].id \in CreditedSales)
    BY <1>2, <2>1 DEF LabelOK, Crediting
  <2> QED BY <1>1, <1>3, <1>4, <2>1, <2>2, SerialMovesOn
<1>12. CASE rejectWrite(p) \/ zarinpalReject(p)
  <2>1. /\ SetStatus(loc[p].id, "REJECTED") /\ Return(p)
        /\ status[loc[p].id] \notin {"NONE", "CONFIRMED"}
    BY <1>2, <1>12 DEF rejectWrite, zarinpalReject, At, LabelOK
  <2> QED BY <1>1, <1>3, <1>4, <2>1, SerialWrites
<1>13. CASE pluginWrite(p)
  <2>1. /\ Return(p) /\ \E s \in {"REJECTED", "REVIEW"} : SetStatus(loc[p].id, s)
        /\ status[loc[p].id] \in Open
    BY <1>2, <1>13 DEF pluginWrite, At, LabelOK
  <2> QED BY <1>1, <1>3, <1>4, <2>1, SerialWrites DEF Open
<1>14. CASE zarinpalVerify(p)
  <2>1. status' = status /\ loc[p].pc = "zarinpalVerify"
    BY <1>14 DEF zarinpalVerify, At, saleVars
  <2>2. PICK label \in {"confirmRead", "zarinpalReject"} : Goto(p, label)
    BY <1>14 DEF zarinpalVerify
  <2>3. LabelOK(label, status[loc[p].id], loc[p].id \in CreditedSales)
    BY <1>2, <2>1 DEF LabelOK, Crediting
  <2> QED BY <1>1, <1>3, <1>4, <2>1, <2>2, <2>3, SerialMovesOn
<1> QED BY <1>5, <1>6, <1>7, <1>8, <1>9, <1>10, <1>11, <1>12, <1>13, <1>14

\* The first steps of a payment: opening it, and asking the gateway.
LEMMA SerialBegin ==
  ASSUME SInv, IInv', NEW p \in Procs, beginPayment(p) \/ zarinpalRequest(p)
  PROVE  KeepsSerial
<1>1. loc[p].pc \notin Unbound /\ loc[p].pc \notin {"idle", "walletOpen"}
  BY DEF beginPayment, zarinpalRequest, At, Unbound
<1>2. /\ loc[p].id \in Sales /\ LabelOK(loc[p].pc, status[loc[p].id], loc[p].id \in CreditedSales)
      /\ loc[p] \in Locals /\ SerialOK(loc[p], status, CreditedSales) /\ Alone(p)
      /\ loc \in [Procs -> Locals] /\ info \in [Sales -> Infos] /\ status \in [Sales -> PaymentStatus]
  BY <1>1, SerialHandler DEF IInv, TypeOK
<1>3. UNCHANGED <<ledger, sellerCredits>>
  BY DEF beginPayment, zarinpalRequest, moneyVars
<1>4. ASSUME NEW st, \A j \in Sales : status[j] # "NONE" => st[j] # "NONE",
             AfterBegin(p)
      PROVE  \E l : loc' = [loc EXCEPT ![p] = l] /\ SerialOK(l, st, CreditedSales)
  <2>1. CASE Return(p)
    BY <1>2, <1>4, <2>1, SerialReturn DEF Return
  <2>2. CASE Goto(p, "tagCustomer")
    <3>1. LabelOK("tagCustomer", st[loc[p].id], loc[p].id \in CreditedSales)
      BY FreeLabelOK DEF FreeLabels
    <3>2. SerialOK([loc[p] EXCEPT !.pc = "tagCustomer"], st, CreditedSales)
      BY <1>1, <1>2, <1>4, <3>1, SerialGoto
    <3> QED BY <2>2, <3>2 DEF Goto
  <2>3. CASE loc' = [loc EXCEPT ![p].pc = "rematchDeposits", ![p].op = "rematch"]
    <3> DEFINE l == [loc[p] EXCEPT !.pc = "rematchDeposits", !.op = "rematch"]
    <3>1. /\ loc' = [loc EXCEPT ![p] = l] /\ l.op = "rematch" /\ l.pc = "rematchDeposits"
          /\ l.id = loc[p].id /\ l.todo = loc[p].todo
      BY <1>2, <2>3 DEF Locals
    <3> HIDE DEF l
    <3>2. \A s, c : LabelOK("rematchDeposits", s, c)
      BY FreeLabelOK DEF FreeLabels
    <3>3. SerialOK(l, st, CreditedSales)
      BY <3>1, <3>2 DEF SerialOK
    <3> QED BY <3>1, <3>3
  <2> QED BY <1>4, <2>1, <2>2, <2>3 DEF AfterBegin
<1>5. CASE beginPayment(p)
  <2>1. loc[p].pc = "beginPayment" /\ status[loc[p].id] = "NONE"
    BY <1>2, <1>5 DEF beginPayment, At, LabelOK
  <2>2. CASE Throw(p) /\ UNCHANGED <<status, info>>
    BY <1>1, <1>3, <2>2, SerialMovesOn
  <2>3. CASE /\ SetStatus(loc[p].id, "PENDING")
             /\ info' = [info EXCEPT ![loc[p].id].due = "later"]
             /\ Goto(p, "zarinpalRequest") \/ AfterBegin(p)
    <3>1. \A j \in Sales : info'[j].authority => info[j].authority
      BY <1>2, <2>3 DEF Infos
    <3>2. CASE Goto(p, "zarinpalRequest")
      <4>1. LabelOK("zarinpalRequest", "PENDING", loc[p].id \in CreditedSales)
        BY DEF LabelOK, Open, Crediting
      <4> QED BY <1>1, <1>3, <2>1, <2>3, <3>1, <3>2, <4>1, SerialWrites
    <3>3. CASE AfterBegin(p)
      <4>1. \A j \in Sales : status[j] # "NONE" => status'[j] # "NONE"
        BY <1>2, <2>3 DEF SetStatus
      <4>2. PICK l : loc' = [loc EXCEPT ![p] = l] /\ SerialOK(l, status', CreditedSales)
        BY <1>4, <3>3, <4>1
      <4>3. PICK i \in Sales : i = loc[p].id
        BY <1>2
      <4> QED BY <1>2, <1>3, <2>1, <2>3, <3>1, <4>2, <4>3, SerialMove
    <3> QED BY <2>3, <3>2, <3>3
  <2> QED BY <1>5, <2>2, <2>3 DEF beginPayment
<1>6. CASE zarinpalRequest(p)
  <2>1. loc[p].pc = "zarinpalRequest" /\ status[loc[p].id] \in Open
    BY <1>2, <1>6 DEF zarinpalRequest, At, LabelOK
  <2>2. CASE SetStatus(loc[p].id, "REJECTED") /\ Throw(p) /\ UNCHANGED info
    BY <1>1, <1>3, <2>1, <2>2, SerialWrites DEF Open
  <2>3. CASE /\ info' = [info EXCEPT ![loc[p].id].authority = TRUE]
             /\ AfterBegin(p) /\ UNCHANGED status
    <3>1. PICK l : loc' = [loc EXCEPT ![p] = l] /\ SerialOK(l, status, CreditedSales)
      BY <1>4, <2>3
    <3>2. \A j \in Sales : info'[j].authority => info[j].authority \/ status[j] # "NONE"
      BY <1>2, <2>1, <2>3 DEF Infos, Open
    <3> QED BY <1>2, <1>3, <2>3, <3>1, <3>2, SerialQuiet
  <2> QED BY <1>6, <2>2, <2>3 DEF zarinpalRequest
<1> QED BY <1>5, <1>6

\* The worker's jobs and the deposit matcher.
LEMMA SerialJobs ==
  ASSUME SInv, IInv', NEW p \in Procs,
         \/ rematchDeposits(p) \/ expireWrite(p) \/ expireCount(p) \/ expireOrder(p) \/ usdtNext(p)
  PROVE  KeepsSerial
<1>1. loc[p].pc \notin {"idle", "walletOpen"}
  BY DEF rematchDeposits, expireWrite, expireCount, expireOrder, usdtNext, At
<1>2. /\ loc[p] \in Locals /\ SerialOK(loc[p], status, CreditedSales) /\ Alone(p)
      /\ loc \in [Procs -> Locals] /\ info \in [Sales -> Infos] /\ status \in [Sales -> PaymentStatus]
      /\ HandlerOK(loc[p]) /\ loc[p].todo \subseteq Sales
  BY <1>1, SerialHandler, HandlerTypes DEF IInv, TypeOK
<1>3. UNCHANGED <<ledger, sellerCredits>>
  BY DEF rematchDeposits, expireWrite, expireCount, expireOrder, usdtNext, moneyVars
<1>4. \A st : SerialOK(Idle, st, CreditedSales)
  <2>1. Idle.id = NoSale /\ Idle.todo = {} /\ NoSale \notin Sales
    BY SaleAssumptions DEF Idle
  <2> QED BY <2>1 DEF SerialOK
<1>5. \A s, c : /\ LabelOK("expireCount", s, c) /\ LabelOK("expireOrder", s, c)
                /\ LabelOK("usdtNext", s, c)
                /\ s # "NONE" => LabelOK("confirmRead", s, c)
  BY DEF LabelOK, Crediting
<1>6. ASSUME NEW rest \in SUBSET loc[p].todo, NEW st, ExpireGoOn(p, rest), loc[p].op = "other"
      PROVE  \E l : loc' = [loc EXCEPT ![p] = l] /\ SerialOK(l, st, CreditedSales)
  <2> DEFINE l == [loc[p] EXCEPT !.pc = "expireCount", !.id = NoSale, !.todo = rest]
  <2>1. loc' = [loc EXCEPT ![p] = Idle] \/ loc' = [loc EXCEPT ![p] = l]
    BY <1>2, <1>6 DEF ExpireGoOn
  <2>2. l.op = "other" /\ l.pc = "expireCount"
    BY <1>2, <1>6 DEF Locals
  <2> HIDE DEF l
  <2>3. SerialOK(l, st, CreditedSales)
    BY <1>5, <2>2 DEF SerialOK
  <2> QED BY <1>4, <2>1, <2>3
<1>7. CASE rematchDeposits(p)
  <2>1. UNCHANGED <<status, info>> /\ loc[p].op = "rematch"
    BY <1>2, <1>7 DEF rematchDeposits, At, saleVars, HandlerOK, RunsFor
  <2>2. CASE loc' = [loc EXCEPT ![p] = Idle]
    BY <1>2, <1>3, <1>4, <2>1, <2>2, SerialQuiet
  <2>3. ASSUME NEW i \in Sales, DepositMayMatch(i),
               loc' = [loc EXCEPT ![p].pc = "confirmRead", ![p].id = i]
        PROVE  KeepsSerial
    <3> DEFINE l == [loc[p] EXCEPT !.pc = "confirmRead", !.id = i]
    <3>1. /\ loc' = [loc EXCEPT ![p] = l] /\ l.op = "rematch" /\ l.pc = "confirmRead" /\ l.id = i
      BY <1>2, <2>1, <2>3 DEF Locals
    <3> HIDE DEF l
    <3>2. status[i] # "NONE"
      BY <2>3 DEF DepositMayMatch, Open
    <3>3. SerialOK(l, status, CreditedSales)
      BY <1>5, <3>1, <3>2 DEF SerialOK
    <3> QED BY <1>2, <1>3, <2>1, <3>1, <3>3, SerialQuiet
  <2> QED BY <1>7, <2>2, <2>3 DEF rematchDeposits
<1>8. CASE expireCount(p) \/ expireOrder(p)
  <2>1. UNCHANGED <<status, info>> /\ loc[p].op = "other"
    BY <1>2, <1>8 DEF expireCount, expireOrder, At, saleVars, HandlerOK, RunsFor
  <2>2. ASSUME NEW rest \in SUBSET loc[p].todo, ExpireGoOn(p, rest) PROVE KeepsSerial
    <3>1. PICK l : loc' = [loc EXCEPT ![p] = l] /\ SerialOK(l, status, CreditedSales)
      BY <1>6, <2>1, <2>2
    <3> QED BY <1>2, <1>3, <2>1, <3>1, SerialQuiet
  <2>3. ASSUME NEW i \in loc[p].todo, loc' = [loc EXCEPT ![p].pc = "expireOrder", ![p].id = i]
        PROVE  KeepsSerial
    <3> DEFINE l == [loc[p] EXCEPT !.pc = "expireOrder", !.id = i]
    <3>1. /\ loc' = [loc EXCEPT ![p] = l] /\ l.op = "other" /\ l.pc = "expireOrder" /\ l.id = i
      BY <1>2, <2>1, <2>3 DEF Locals
    <3> HIDE DEF l
    <3>2. SerialOK(l, status, CreditedSales)
      BY <1>5, <3>1 DEF SerialOK
    <3> QED BY <1>2, <1>3, <2>1, <3>1, <3>2, SerialQuiet
  <2>4. CASE expireCount(p)
    BY <2>2, <2>3, <2>4 DEF expireCount
  <2>5. CASE expireOrder(p)
    BY <2>2, <2>5 DEF expireOrder
  <2> QED BY <1>8, <2>4, <2>5
<1>9. CASE expireWrite(p)
  <2> DEFINE S == loc[p].todo
  <2>1. /\ loc[p].pc = "expireWrite" /\ loc[p].op = "other" /\ info' = info
        /\ status' = [i \in Sales |-> IF i \in S THEN "EXPIRED" ELSE status[i]]
    BY <1>2, <1>9 DEF expireWrite, At, HandlerOK, RunsFor
  <2>2. \A i \in S : status[i] = "PENDING"
    BY <1>2, <2>1 DEF SerialOK
  <2>3. PICK l : loc' = [loc EXCEPT ![p] = l] /\ SerialOK(l, status', CreditedSales)
    <3>1. {i \in S : IsOrder(i)} \in SUBSET S
      OBVIOUS
    <3>2. ExpireGoOn(p, {i \in S : IsOrder(i)})
      BY <1>9 DEF expireWrite
    <3> QED BY <1>6, <2>1, <3>1, <3>2
  <2>4. CreditedSales' = CreditedSales /\ credits' = credits
    BY <1>3, SameCredits
  <2>5. \A j \in Sales : /\ status'[j] = status[j] \/ (status'[j] = "EXPIRED" /\ status[j] = "PENDING")
    BY <1>2, <2>1, <2>2
  <2>6. SerialSales'
    BY <2>1, <2>4, <2>5 DEF SInv, SerialSales
  <2>7. SInv'
    BY <1>2, <2>3, <2>4, <2>6, SerialStep
  <2>8. Contract!Expire
    BY <1>2, <2>1, <2>2, <2>4 DEF Contract!Expire
  <2> QED BY <2>7, <2>8 DEF KeepsSerial, Contract!Next
<1>10. CASE usdtNext(p)
  <2>1. UNCHANGED status /\ loc[p].op = "usdt" /\ loc[p].pc = "usdtNext"
    BY <1>2, <1>10 DEF usdtNext, At, HandlerOK, RunsFor
  <2>2. \A i \in loc[p].todo : status[i] # "NONE"
    BY <1>2, <2>1 DEF SerialOK
  <2>3. PICK i \in loc[p].todo :
          \/ /\ loc' = [loc EXCEPT ![p].pc = "confirmRead", ![p].id = i, ![p].todo = @ \ {i}]
             /\ UNCHANGED info
          \/ \E v \in {"pending", "mismatch"} :
               /\ info' = [info EXCEPT ![i].verify = v, ![i].tries = loc[p].tries[i] + 1]
               /\ loc' = [loc EXCEPT ![p] = Returned([loc[p] EXCEPT !.id = i, !.todo = @ \ {i}])]
    BY <1>10 DEF usdtNext
  <2>4. i \in Sales
    BY <1>2
  <2>5. \A j \in Sales : info'[j].authority => info[j].authority
    BY <1>2, <2>3, <2>4 DEF Infos
  <2>6. CASE loc' = [loc EXCEPT ![p].pc = "confirmRead", ![p].id = i, ![p].todo = @ \ {i}]
    <3> DEFINE l == [loc[p] EXCEPT !.pc = "confirmRead", !.id = i, !.todo = @ \ {i}]
    <3>1. /\ loc' = [loc EXCEPT ![p] = l] /\ l.op = "usdt" /\ l.pc = "confirmRead" /\ l.id = i
          /\ l.todo \subseteq loc[p].todo
      BY <1>2, <2>1, <2>6 DEF Locals
    <3> HIDE DEF l
    <3>2. SerialOK(l, status, CreditedSales)
      BY <1>5, <2>2, <3>1 DEF SerialOK
    <3> QED BY <1>2, <1>3, <2>1, <2>5, <3>1, <3>2, SerialQuiet
  <2>7. CASE loc' = [loc EXCEPT ![p] = Returned([loc[p] EXCEPT !.id = i, !.todo = @ \ {i}])]
    <3> DEFINE m == [loc[p] EXCEPT !.id = i, !.todo = @ \ {i}]
    <3>1. m \in Locals /\ m.op = "usdt" /\ m.pc = "usdtNext" /\ m.todo \subseteq loc[p].todo
      BY <1>2, <2>1, <2>4 DEF Locals
    <3>2. loc' = [loc EXCEPT ![p] = Returned(m)]
      BY <2>7
    <3> HIDE DEF m
    <3>3. SerialOK(m, status, CreditedSales)
      BY <1>5, <2>2, <3>1 DEF SerialOK
    <3>4. SerialOK(Returned(m), status, CreditedSales)
      BY <3>1, <3>3, SerialReturn
    <3> QED BY <1>2, <1>3, <2>1, <2>5, <3>2, <3>4, SerialQuiet
  <2> QED BY <2>3, <2>6, <2>7
<1> QED BY <1>7, <1>8, <1>9, <1>10

\* The four postings: a top-up credited to the customer or to the seller is the
\* contract's one credit; the checkout's price and refund are none.
LEMMA SerialPostings ==
  ASSUME SInv, IInv', NEW p \in Procs,
         chargeSeller(p) \/ settleCredit(p) \/ walletTake(p) \/ walletRefund(p)
  PROVE  KeepsSerial
<1>1. loc[p].pc \notin Unbound /\ loc[p].pc \notin {"idle", "walletOpen"}
  BY DEF chargeSeller, settleCredit, walletTake, walletRefund, At, Unbound
<1>2. /\ loc[p].id \in Sales /\ LabelOK(loc[p].pc, status[loc[p].id], loc[p].id \in CreditedSales)
      /\ loc[p] \in Locals /\ SerialOK(loc[p], status, CreditedSales) /\ Alone(p)
      /\ loc \in [Procs -> Locals] /\ sellerCredits \in [Sales -> 0 .. 2]
      /\ LedgerTypeOK
  BY <1>1, SerialHandler DEF IInv, TypeOK
<1>3. PICK i \in Sales : i = loc[p].id
  BY <1>2
<1>4. UNCHANGED <<status, info>>
  BY DEF chargeSeller, settleCredit, walletTake, walletRefund, saleVars
<1>5. CASE chargeSeller(p) \/ settleCredit(p)
  <2>1. status[i] = "CONFIRMED" /\ ~Credited(i) /\ Return(p)
    BY <1>2, <1>3, <1>5 DEF chargeSeller, settleCredit, At, LabelOK, Crediting, CreditedSales
  <2>2. TopupRows(i) = {} /\ sellerCredits[i] = 0
    BY <1>2, <2>1 DEF Credited
  <2>3. /\ \A j \in Sales \ {i} : TopupRows(j)' = TopupRows(j) /\ sellerCredits'[j] = sellerCredits[j]
        /\ \/ TopupRows(i)' = {} /\ sellerCredits'[i] = 1
           \/ sellerCredits'[i] = 0 /\ \E n \in Nat : TopupRows(i)' = {n}
    <3>1. CASE chargeSeller(p)
      <4>1. ledger' = ledger /\ sellerCredits' = [sellerCredits EXCEPT ![i] = AtMostTwo(sellerCredits[i] + 1)]
        BY <1>3, <3>1 DEF chargeSeller
      <4>2. AtMostTwo(sellerCredits[i] + 1) = 1
        BY <2>2 DEF AtMostTwo
      <4>3. \A j \in Sales : TopupRows(j)' = TopupRows(j)
        BY <4>1 DEF TopupRows, RowsFor
      <4> QED BY <1>2, <2>2, <4>1, <4>2, <4>3
    <3>2. CASE settleCredit(p)
      <4>1. PICK a \in Accounts : a = Buyer[i]
        BY SaleAssumptions
      <4>2. PICK ref \in Refs : ref = <<"topup", i>>
        BY SaleAssumptions DEF SaleRefs
      <4>3. PICK amount \in Int : amount = TopupValue
        <5>1. (Price * BonusPct) \div 100 \in Int
          BY SaleAssumptions
        <5> QED BY <5>1, SaleAssumptions DEF TopupValue
      <4>4. PICK balance \in Int : balance = credit[a] + amount
        BY <1>2 DEF LedgerTypeOK
      <4>5. Post(a, balance, amount, ref) /\ sellerCredits' = sellerCredits
        BY <1>3, <3>2, <4>1, <4>2, <4>3, <4>4 DEF settleCredit
      <4>6. /\ \E n \in Nat : RowsFor(a, ref)' = RowsFor(a, ref) \union {n}
            /\ \A c \in Accounts, q \in Refs : c # a \/ q # ref => RowsFor(c, q)' = RowsFor(c, q)
        BY <1>2, <4>5, PostedRow
      <4>7. \A j \in Sales : /\ Buyer[j] \in Accounts /\ <<"topup", j>> \in Refs
                             /\ j # i => <<"topup", j>> # ref
        BY <4>2, SaleAssumptions DEF SaleRefs
      <4>8. \A j \in Sales \ {i} : TopupRows(j)' = TopupRows(j)
        BY <4>6, <4>7 DEF TopupRows
      <4>9. \E n \in Nat : TopupRows(i)' = TopupRows(i) \union {n}
        BY <4>1, <4>2, <4>6 DEF TopupRows
      <4> QED BY <2>2, <4>5, <4>8, <4>9
    <3> QED BY <1>5, <3>1, <3>2
  <2>4. \A j \in Sales \ {i} : j \in CreditedSales' <=> j \in CreditedSales
    BY <2>3 DEF CreditedSales, Credited
  <2>5. SerialOK(Returned(loc[p]), status', CreditedSales')
    BY <1>2, <1>4, SerialReturn
  <2>6. SerialSales'
    BY <1>4, <2>1, <2>4 DEF SInv, SerialSales
  <2>7. SInv'
    BY <1>2, <2>1, <2>5, <2>6, SerialStep DEF Return
  <2>8. Cardinality({}) = 0 /\ \A n \in Nat : Cardinality({n}) = 1
    BY FS_EmptySet, FS_Singleton
  <2>9. credits[i] = 0 /\ credits'[i] = 1 /\ \A j \in Sales \ {i} : credits'[j] = credits[j]
    BY <2>2, <2>3, <2>8 DEF credits
  <2>10. credits' = [credits EXCEPT ![i] = 1]
    <3>1. credits = [j \in Sales |-> credits[j]] /\ credits' = [j \in Sales |-> credits'[j]]
      BY DEF credits
    <3> HIDE DEF credits
    <3> QED BY <2>9, <3>1
  <2>11. Contract!Credit(i)
    BY <1>4, <2>1, <2>9, <2>10 DEF Contract!Credit
  <2> QED BY <2>7, <2>11 DEF KeepsSerial, Contract!Next
<1>6. CASE walletTake(p) \/ walletRefund(p)
  <2>1. sellerCredits' = sellerCredits
    BY <1>6 DEF walletTake, walletRefund
  <2>2. \A j \in Sales : TopupRows(j)' = TopupRows(j)
    <3>1. CASE ledger' = ledger
      BY <3>1 DEF TopupRows, RowsFor
    <3>2. CASE ledger' # ledger
      <4>1. PICK kind \in {"purchase", "refund"}, amount \in {Price, -Price}, balance \in Int :
              Post(Buyer[i], balance, amount, <<kind, i>>)
        <5>1. credit[Buyer[i]] + Price \in Int /\ credit[Buyer[i]] - Price \in Int
          BY <1>2, SaleAssumptions DEF LedgerTypeOK
        <5> QED BY <1>3, <1>6, <3>2, <5>1 DEF walletTake, walletRefund
      <4>2. PICK a \in Accounts : a = Buyer[i]
        BY SaleAssumptions
      <4>3. PICK ref \in Refs : ref = <<kind, i>>
        BY SaleAssumptions DEF SaleRefs
      <4>4. amount \in Int
        BY SaleAssumptions
      <4>5. \A c \in Accounts, q \in Refs : c # a \/ q # ref => RowsFor(c, q)' = RowsFor(c, q)
        BY <1>2, <4>1, <4>2, <4>3, <4>4, PostedRow
      <4>6. \A j \in Sales : Buyer[j] \in Accounts /\ <<"topup", j>> \in Refs /\ <<"topup", j>> # ref
        BY <4>3, SaleAssumptions DEF SaleRefs
      <4> QED BY <4>5, <4>6 DEF TopupRows
    <3> QED BY <3>1, <3>2
  <2>3. CreditedSales' = CreditedSales /\ credits' = credits
    BY <2>1, <2>2 DEF CreditedSales, Credited, credits
  <2>4. PICK label \in {"confirmRead", "walletReject"} :
          Goto(p, label) /\ LabelOK(label, status[loc[p].id], loc[p].id \in CreditedSales)
    BY <1>2, <1>6 DEF walletTake, walletRefund, At, LabelOK, Open, Crediting
  <2>5. SerialOK([loc[p] EXCEPT !.pc = label], status', CreditedSales')
    BY <1>1, <1>2, <1>4, <2>3, <2>4, SerialGoto
  <2>6. loc' = [loc EXCEPT ![p] = [loc[p] EXCEPT !.pc = label]]
    BY <2>4 DEF Goto
  <2>7. SerialSales'
    BY <1>4, <2>3 DEF SInv, SerialSales
  <2>8. SInv'
    BY <1>2, <2>5, <2>6, <2>7, SerialStep
  <2> QED BY <1>4, <2>3, <2>8 DEF KeepsSerial
<1> QED BY <1>5, <1>6

\* A handler is let in only when no other runs.
LEMMA NobodyRuns ==
  ASSUME IsFiniteSet(Web), MaxActive = 1, IInv, Cardinality(Active) < MaxActive
  PROVE  \A q \in Procs : loc[q].pc = "idle"
<1>1. IsFiniteSet(JobNames)
  <2>1. JobNames = {"expirePayments"} \union {"verifyPendingUsdt"}
    BY DEF JobNames
  <2> QED BY <2>1, FS_Singleton, FS_Union
<1>2. IsFiniteSet(Procs)
  BY <1>1, SaleAssumptions, FS_Subset, FS_Union DEF Procs
<1>3. IsFiniteSet(Active)
  BY <1>2, FS_Subset DEF Active
<1>4. Cardinality(Active) = 0
  BY <1>3, FS_CardinalityType
<1>5. Active = {}
  BY <1>3, <1>4, FS_EmptySet
<1> QED BY <1>5 DEF Active

\* Requests and job starts.
LEMMA SerialStarts ==
  ASSUME IsFiniteSet(Web), MaxActive = 1, SInv, IInv',
         \/ \E p \in Web, i \in Sales : Request(p, i)
         \/ \E p \in Jobs : JobStart(p)
  PROVE  KeepsSerial
<1>0. IInv /\ status \in [Sales -> PaymentStatus] /\ loc \in [Procs -> Locals]
  BY DEF SInv, IInv, TypeOK
<1>1. UNCHANGED <<status, ledger, sellerCredits, info>>
  BY DEF Request, JobStart, createOrder, createTopup, confirmByHand, submitProof, rejectPayment,
         ingestDeposit, handleZarinpalCallback, handlePaymentPluginCallback, retryFulfill,
         cancelOrder, expirePayments, verifyPendingUsdt, saleVars, moneyVars
<1>2. ASSUME NEW p \in Web, NEW i \in Sales, NEW op, NEW label, Start(p, op, i, label),
             label \notin {"idle", "expireWrite"},
             LabelOK(label, status[i], i \in CreditedSales), op = "wallet" => label = "walletOpen"
      PROVE  KeepsSerial
  <2> DEFINE l == [Idle EXCEPT !.op = op, !.pc = label, !.id = i]
  <2>1. p \in Procs /\ Alone(p)
    BY <1>0, <1>2, NobodyRuns DEF Start, Alone, Procs
  <2>2. loc' = [loc EXCEPT ![p] = l] /\ l.op = op /\ l.pc = label /\ l.id = i /\ l.todo = {}
    BY <1>2 DEF Start, Idle
  <2> HIDE DEF l
  <2>3. SerialOK(l, status, CreditedSales)
    BY <1>2, <2>2 DEF SerialOK
  <2> QED BY <1>1, <2>1, <2>2, <2>3, SerialQuiet
<1>3. \A label \in FreeLabels : label \notin {"idle", "expireWrite"} /\ \A s, c : LabelOK(label, s, c)
  BY FreeLabelOK DEF FreeLabels
<1>4. ASSUME NEW p \in Web, NEW i \in Sales, Request(p, i) PROVE KeepsSerial
  <2>1. CASE createOrder(p, i)
    <3>1. status[i] = "NONE"
      BY <1>0, <2>1 DEF createOrder, IInv, SalesOK, SaleOK, Touched
    <3>2. LabelOK("beginPayment", status[i], i \in CreditedSales)
          /\ LabelOK("walletOpen", status[i], i \in CreditedSales)
          /\ LabelOK("fulfillRead", status[i], i \in CreditedSales)
      BY <3>1 DEF LabelOK, Crediting
    <3> QED BY <1>2, <2>1, <3>2 DEF createOrder
  <2>2. CASE createTopup(p, i)
    <3>1. LabelOK("beginPayment", status[i], i \in CreditedSales)
      BY <2>2 DEF createTopup, LabelOK, Crediting
    <3> QED BY <1>2, <2>2, <3>1 DEF createTopup
  <2>3. CASE confirmByHand(p, i) \/ ingestDeposit(p, i)
    <3>1. LabelOK("confirmRead", status[i], i \in CreditedSales)
      BY <2>3 DEF confirmByHand, ingestDeposit, DepositMayMatch, Open, LabelOK, Crediting
    <3> QED BY <1>2, <2>3, <3>1 DEF confirmByHand, ingestDeposit
  <2>4. CASE submitProof(p, i)
    <3>1. LabelOK("proofWrite", status[i], i \in CreditedSales)
      BY <2>4 DEF submitProof, LabelOK, Crediting
    <3> QED BY <1>2, <2>4, <3>1 DEF submitProof
  <2>5. CASE rejectPayment(p, i)
    <3>1. LabelOK("rejectWrite", status[i], i \in CreditedSales)
      BY <2>5 DEF rejectPayment, LabelOK, Crediting
    <3> QED BY <1>2, <2>5, <3>1 DEF rejectPayment
  <2>6. CASE handleZarinpalCallback(p, i)
    <3>1. status[i] \notin {"NONE", "CONFIRMED"}
      BY <2>6 DEF handleZarinpalCallback, SInv, SerialSales
    <3>2. PICK label \in {"zarinpalVerify", "zarinpalReject"} : Start(p, "auto", i, label)
      BY <2>6 DEF handleZarinpalCallback
    <3>3. LabelOK(label, status[i], i \in CreditedSales)
      BY <3>1 DEF LabelOK, Crediting
    <3> QED BY <1>2, <3>2, <3>3
  <2>7. CASE handlePaymentPluginCallback(p, i)
    <3>1. status[i] \in Open
      BY <2>7 DEF handlePaymentPluginCallback
    <3>2. PICK label \in {"pluginReject", "pluginReview", "confirmRead"} : Start(p, "auto", i, label)
      BY <2>7 DEF handlePaymentPluginCallback
    <3>3. LabelOK(label, status[i], i \in CreditedSales)
      BY <3>1 DEF LabelOK, Open, Crediting
    <3> QED BY <1>2, <3>2, <3>3
  <2>8. CASE retryFulfill(p, i) \/ cancelOrder(p, i)
    <3>1. PICK op \in {"retry", "other"}, label \in {"manualPaid", "fulfillRead", "cancelPayment"} :
            Start(p, op, i, label)
      BY <2>8 DEF retryFulfill, cancelOrder
    <3>2. label \in FreeLabels
      BY DEF FreeLabels
    <3> QED BY <1>2, <1>3, <3>1, <3>2
  <2> QED BY <1>4, <2>1, <2>2, <2>3, <2>4, <2>5, <2>6, <2>7, <2>8 DEF Request
<1>5. ASSUME NEW p \in Jobs, JobStart(p) PROVE KeepsSerial
  <2>1. p \in Procs /\ Alone(p)
    BY <1>0, <1>5, NobodyRuns DEF JobStart, expirePayments, verifyPendingUsdt, Alone, Procs
  <2> DEFINE e == [Idle EXCEPT !.op = "other", !.pc = "expireWrite", !.todo = Stale]
             t == [i \in Sales |-> IF i \in UsdtWaiting THEN info[i].tries ELSE 0]
             u == [Idle EXCEPT !.op = "usdt", !.pc = "usdtNext", !.todo = UsdtWaiting, !.tries = t]
  <2>2. /\ e.op = "other" /\ e.pc = "expireWrite" /\ e.id = NoSale /\ e.todo = Stale
        /\ u.op = "usdt" /\ u.pc = "usdtNext" /\ u.id = NoSale /\ u.todo = UsdtWaiting
    BY DEF Idle
  <2>3. loc' = [loc EXCEPT ![p] = e] \/ loc' = [loc EXCEPT ![p] = u]
    BY <1>5 DEF JobStart, expirePayments, verifyPendingUsdt
  <2> HIDE DEF e, u
  <2>4. SerialOK(e, status, CreditedSales)
    BY <2>2, SaleAssumptions DEF SerialOK, Stale
  <2>5. SerialOK(u, status, CreditedSales)
    BY <2>2, SaleAssumptions DEF SerialOK, UsdtWaiting
  <2> QED BY <1>1, <2>1, <2>3, <2>4, <2>5, SerialQuiet
<1> QED BY <1>4, <1>5

\* Every step of a storefront that runs one handler at a time.
LEMMA SerialInductive ==
  ASSUME IsFiniteSet(Web), MaxActive = 1, SInv, [Next]_vars
  PROVE  KeepsSerial
<1>0. IInv /\ IInv'
  BY Inductive DEF SInv
<1>1. CASE \/ \E p \in Web, i \in Sales : Request(p, i)
           \/ \E p \in Jobs : JobStart(p)
  BY <1>0, <1>1, SerialStarts
<1>2. ASSUME NEW p \in Procs, Step(p) PROVE KeepsSerial
  BY <1>0, <1>2, SerialFulfillment, SerialCheckout, SerialPayments, SerialBegin, SerialJobs,
     SerialPostings DEF Step, PaymentsNext, CheckoutNext
<1>3. ASSUME NEW p \in Procs, Fault(p) PROVE KeepsSerial
  <2>1. loc[p].pc # "idle" /\ UNCHANGED <<status, ledger, sellerCredits, info>>
    BY <1>3 DEF Fault, At, saleVars, moneyVars
  <2>2. Alone(p) /\ loc[p] \in Locals /\ SerialOK(loc[p], status, CreditedSales)
    BY <2>1, SerialHandler
  <2>3. PICK l : loc' = [loc EXCEPT ![p] = l] /\ SerialOK(l, status, CreditedSales)
    <3>1. SerialOK(Idle, status, CreditedSales) /\ SerialOK(Returned(loc[p]), status, CreditedSales)
      BY <2>2, SerialReturn
    <3>2. CASE loc[p].id \in Sales
      <4>1. SerialOK(Thrown(loc[p]), status, CreditedSales)
        BY <2>2, <3>2, SerialThrow
      <4> QED BY <1>3, <3>1, <4>1 DEF Fault, Throw
    <3>3. CASE loc[p].id \notin Sales
      <4>1. loc[p].pc \in Unbound /\ loc[p].op # "wallet"
        BY <1>0, <3>3, HandlerTypes DEF HandlerOK
      <4>2. Thrown(loc[p]) \in {Idle, Returned(loc[p])}
        BY <4>1 DEF Thrown
      <4> QED BY <1>3, <3>1, <4>2 DEF Fault, Throw
    <3> QED BY <3>2, <3>3
  <2> QED BY <1>0, <2>1, <2>2, <2>3, SerialQuiet
<1>4. CASE (\E i \in Sales : ttlElapses(i)) \/ UNCHANGED vars
  <2>1. UNCHANGED <<loc, status, ledger, sellerCredits>>
    BY <1>4 DEF ttlElapses, vars, saleVars, moneyVars
  <2>2. \A j \in Sales : info'[j].authority => info[j].authority
    <3>1. info \in [Sales -> Infos]
      BY <1>0 DEF IInv, TypeOK
    <3> QED BY <1>4, <3>1 DEF ttlElapses, vars, saleVars, Infos
  <2>3. CreditedSales' = CreditedSales /\ credits' = credits
    BY <2>1, SameCredits
  <2>4. OneActive' /\ SerialHandlers' /\ SerialSales'
    BY <2>1, <2>2, <2>3 DEF SInv, OneActive, SerialHandlers, SerialSales
  <2> QED BY <1>0, <2>1, <2>3, <2>4 DEF SInv, KeepsSerial
<1> QED BY <1>1, <1>2, <1>3, <1>4 DEF Next

\* Nothing has been opened, paid or credited.
LEMMA SerialInit == SaleInit => SInv /\ Contract!Init
<1> SUFFICES ASSUME SaleInit PROVE SInv /\ Contract!Init
  OBVIOUS
<1>1. IInv
  BY Initially
<1>2. \A i \in Sales : TopupRows(i) = {}
  <2> SUFFICES ASSUME NEW i \in Sales PROVE TopupRows(i) = {}
    OBVIOUS
  <2>1. Buyer[i] \in Accounts /\ ledger[Buyer[i]] = <<OpeningRow>>
    BY SaleAssumptions DEF SaleInit
  <2>2. DOMAIN <<OpeningRow>> = {1} /\ <<OpeningRow>>[1] = OpeningRow
    OBVIOUS
  <2>3. OpeningRow.ref # <<"topup", i>>
    BY DEF OpeningRow
  <2> QED BY <2>1, <2>2, <2>3 DEF TopupRows, RowsFor
<1>3. CreditedSales = {}
  BY <1>2 DEF SaleInit, CreditedSales, Credited
<1>4. \A p \in Procs : loc[p] = Idle
  BY DEF SaleInit
<1>5. Idle.pc = "idle" /\ Idle.id = NoSale /\ Idle.todo = {} /\ NoSale \notin Sales
  BY SaleAssumptions DEF Idle
<1>6. OneActive /\ SerialHandlers
  BY <1>4, <1>5 DEF OneActive, SerialHandlers, SerialOK
<1>7. SerialSales
  BY <1>3 DEF SerialSales, SaleInit
<1>8. credits = [i \in Sales |-> 0]
  <2>1. Cardinality({}) = 0
    BY FS_EmptySet
  <2>2. \A i \in Sales : Cardinality(TopupRows(i)) + sellerCredits[i] = 0
    <3> SUFFICES ASSUME NEW i \in Sales PROVE Cardinality(TopupRows(i)) + sellerCredits[i] = 0
      OBVIOUS
    <3>1. sellerCredits[i] = 0
      BY DEF SaleInit
    <3>2. TopupRows(i) = {}
      BY <1>2
    <3>3. Cardinality(TopupRows(i)) = 0
      BY <2>1, <3>2
    <3> QED BY <3>1, <3>3
  <2> QED BY <2>2 DEF credits
<1> QED BY <1>1, <1>6, <1>7, <1>8 DEF SInv, Contract!Init, SaleInit

(***************************************************************************)
(* The storefront implements the contract of a payment when its handlers   *)
(* run one after the other, however many requests arrive and wherever a    *)
(* handler dies or a call throws: CONFIRMED is final, an expired payment   *)
(* is revived only by a confirmation, and a confirmed top-up is credited   *)
(* at most once (confirmPayment, rejectPayment, expirePayments,            *)
(* settleCustomerTopup).                                                   *)
(***************************************************************************)
THEOREM SerialHandlersKeepContract == IsFiniteSet(Web) /\ MaxActive = 1 => (Spec => KeepsContract)
<1> SUFFICES ASSUME IsFiniteSet(Web), MaxActive = 1 PROVE Spec => KeepsContract
  OBVIOUS
<1>1. SInv /\ [Next]_vars => SInv'
  BY SerialInductive DEF KeepsSerial
<1>2. SInv /\ [Next]_vars => [Contract!Next]_<<status, credits>>
  BY SerialInductive DEF KeepsSerial
<1> QED BY <1>1, <1>2, SerialInit, PTL DEF Spec, KeepsContract, Contract!Spec

\* Only the checkout's refund writes a refund row, for its own sale.
LEMMA RefundSteps ==
  ASSUME SInv, [Next]_vars, NEW i \in Sales, RefundRows(i)' # RefundRows(i)
  PROVE  status[i] # "CONFIRMED"
<1>1. ledger' # ledger
  BY DEF RefundRows, RowsFor
<1>2. IInv /\ LedgerTypeOK
  BY DEF SInv, IInv, TypeOK
<1>3. PICK p \in Procs : settleCredit(p) \/ walletTake(p) \/ walletRefund(p)
  <2>1. ASSUME NEW p \in Procs, FulfillmentNext(p) PROVE FALSE
    BY <1>1, <2>1 DEF FulfillmentNext, fulfillRead, deliver, orderDone, manualPaid, manualConfirm,
       cancelPayment, cancelWrite, moneyVars
  <2>2. ASSUME NEW p \in Procs, PaymentsNext(p) PROVE settleCredit(p)
    BY <1>1, <2>2 DEF PaymentsNext, beginPayment, zarinpalRequest, tagCustomer, rematchDeposits,
       confirmRead, confirmWrite, orderPaid, chargeSeller, settleRead, settleCheck, proofWrite,
       proofVerify, rejectWrite, zarinpalVerify, zarinpalReject, pluginWrite, expireWrite,
       expireCount, expireOrder, usdtNext, moneyVars
  <2>3. ASSUME NEW p \in Procs, CheckoutNext(p) PROVE walletTake(p) \/ walletRefund(p)
    BY <1>1, <2>3 DEF CheckoutNext, walletOpen, walletCheck, walletRecheck, walletReject,
       walletCancel, moneyVars
  <2>4. ASSUME NEW p \in Web, NEW j \in Sales, Request(p, j) PROVE FALSE
    BY <1>1, <2>4 DEF Request, createOrder, createTopup, confirmByHand, submitProof, rejectPayment,
       ingestDeposit, handleZarinpalCallback, handlePaymentPluginCallback, retryFulfill,
       cancelOrder, moneyVars
  <2>5. ASSUME NEW p \in Procs, JobStart(p) \/ Fault(p) PROVE FALSE
    BY <1>1, <2>5 DEF JobStart, expirePayments, verifyPendingUsdt, Fault, moneyVars
  <2>6. ~(\E j \in Sales : ttlElapses(j)) /\ vars' # vars
    BY <1>1 DEF ttlElapses, vars, moneyVars
  <2> QED BY <2>1, <2>2, <2>3, <2>4, <2>5, <2>6 DEF Next, Step, Procs
<1>4. PICK j \in Sales : j = loc[p].id
  BY <1>2, <1>3, HandlerTypes DEF settleCredit, walletTake, walletRefund, At, HandlerOK, Unbound
<1>5. PICK kind \in {"topup", "purchase", "refund"}, amount \in Int, balance \in Int :
        Post(Buyer[j], balance, amount, <<kind, j>>) /\ (kind = "refund" => walletRefund(p))
  <2>1. credit[Buyer[j]] \in Int
    BY <1>2, SaleAssumptions DEF LedgerTypeOK
  <2>2. TopupValue \in Int
    <3>1. (Price * BonusPct) \div 100 \in Int
      BY SaleAssumptions
    <3> QED BY <3>1, SaleAssumptions DEF TopupValue
  <2>3. Price \in Int /\ -Price \in Int
    BY SaleAssumptions
  <2>4. /\ credit[Buyer[j]] + TopupValue \in Int /\ credit[Buyer[j]] - Price \in Int
        /\ credit[Buyer[j]] + Price \in Int
    BY <2>1, <2>2, <2>3
  <2>5. CASE settleCredit(p)
    BY <1>4, <2>2, <2>4, <2>5 DEF settleCredit
  <2>6. CASE walletTake(p)
    BY <1>4, <2>3, <2>4, <2>6 DEF walletTake
  <2>7. CASE walletRefund(p)
    BY <1>1, <1>4, <2>3, <2>4, <2>7 DEF walletRefund
  <2> QED BY <1>3, <2>5, <2>6, <2>7
<1>6. PICK a \in Accounts, ref \in Refs : a = Buyer[j] /\ ref = <<kind, j>>
  BY SaleAssumptions DEF SaleRefs
<1>7. \A c \in Accounts, q \in Refs : c # a \/ q # ref => RowsFor(c, q)' = RowsFor(c, q)
  BY <1>2, <1>5, <1>6, PostedRow
<1>8. /\ Buyer[i] \in Accounts /\ <<"refund", i>> \in Refs
      /\ <<"refund", i>> = ref => kind = "refund" /\ i = j
  BY <1>6, SaleAssumptions DEF SaleRefs
<1>9. kind = "refund" /\ i = j
  BY <1>7, <1>8 DEF RefundRows
<1>10. loc[p].pc = "walletRefund"
  BY <1>5, <1>9 DEF walletRefund, At
<1>11. LabelOK(loc[p].pc, status[loc[p].id], loc[p].id \in CreditedSales)
  BY <1>10, SerialHandler DEF Unbound
<1> QED BY <1>4, <1>9, <1>10, <1>11 DEF LabelOK

(***************************************************************************)
(* ... and the wallet checkout then gives money back only while its        *)
(* payment is not CONFIRMED (payOrderWithWallet).                          *)
(***************************************************************************)
THEOREM SerialRefundsAreDue == IsFiniteSet(Web) /\ MaxActive = 1 => (Spec => RefundOnlyUnconfirmed)
<1> SUFFICES ASSUME IsFiniteSet(Web), MaxActive = 1 PROVE Spec => RefundOnlyUnconfirmed
  OBVIOUS
<1>1. SInv /\ [Next]_vars => SInv'
  BY SerialInductive DEF KeepsSerial
<1>2. SInv /\ [Next]_vars =>
        [\A i \in Sales : RefundRows(i)' # RefundRows(i) => status[i] # "CONFIRMED"]_vars
  BY RefundSteps
<1> QED BY <1>1, <1>2, SerialInit, PTL DEF Spec, RefundOnlyUnconfirmed
=============================================================================
