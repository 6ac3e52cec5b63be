----------------------------- MODULE SaleState ------------------------------
(***************************************************************************)
(* The tables of a sale (Payment, Order, the buyer's wallet) and the       *)
(* handlers in flight over them.  A handler is an async function: between  *)
(* two awaited database or network calls any other handler of the web      *)
(* process or of the worker process may run, so loc[p] keeps where handler *)
(* p stands and what it remembers, and every action is one such call.      *)
(*                                                                         *)
(* createOrder makes at most one payment per order, so a sale is one id    *)
(* with a payment, and an order when the sale is not a top-up.             *)
(***************************************************************************)
EXTENDS WalletLedger, FiniteSets

CONSTANTS Sales,       \* ids of sales
          NoSale,      \* the id of an idle handler
          Terms,       \* the (flow, method) pairs a sale may be opened with
          Web,         \* web requests that may be in flight together
          Jobs,        \* worker jobs that run, each at most once at a time
          Buyer,       \* Buyer[i]: the customer account behind sale i
          Price,       \* amount of every sale
          BonusPct,    \* storeSettings.topupBonusPct
          Opening,     \* credit each customer already owns
          AutoVerify,  \* storeSettings.usdtAutoVerify
          MaxTries,    \* on-chain looks before a TXID is left to a human (40)
          MaxActive,   \* bound: handlers in flight together
          MaxFaults    \* bound: process deaths and failing database calls

VARIABLES terms,        \* terms[i]: how sale i is opened (chosen once)
          status,       \* Payment.status; "NONE" before the row exists
          info,         \* the other columns of the payment row
          order,        \* Order.status; "NONE" when there is no order
          sellerCredits,\* WalletTx TOPUP rows of payment i in the seller's wallet
          delivered,    \* times sale i was provisioned (2 stands for more)
          paidFor,      \* sale i was ever confirmed, free, or declared paid
          loc,          \* loc[p]: the handler p
          faults        \* faults so far

Procs == Web \union Jobs
Flows == {"order", "resellerTopup", "customerTopup"}
Methods == {"FREE", "WALLET", "USDT", "CARD", "ZARINPAL"}
PaymentStatus == {"NONE", "PENDING", "REVIEW", "CONFIRMED", "REJECTED", "EXPIRED"}
OrderStatus == {"NONE", "PENDING", "PAID", "FULFILLED", "CANCELED", "EXPIRED"}
JobNames == {"expirePayments", "verifyPendingUsdt"}

SaleRefs == {"topup", "purchase", "refund", "opening"} \X (Sales \union {NoSale})

ASSUME SaleAssumptions ==
  /\ NoSale \notin Sales
  /\ Terms \subseteq [flow : Flows, method : Methods]
  /\ Web \intersect JobNames = {} /\ Jobs \subseteq JobNames
  /\ Buyer \in [Sales -> Accounts]
  /\ SaleRefs \subseteq Refs
  /\ Price \in Nat \ {0} /\ BonusPct \in Nat /\ Opening \in Nat
  /\ AutoVerify \in BOOLEAN
  /\ MaxTries \in Nat \ {0} /\ MaxActive \in Nat /\ MaxFaults \in Nat

Infos == [cust : BOOLEAN,                        \* customerId is set
          due : {"never", "later", "past"},      \* expiresAt
          authority : BOOLEAN,                   \* the gateway knows the payment
          verify : {"none", "pending", "mismatch"}, \* meta.verify, once a txid is set
          tries : 0 .. MaxTries]                 \* meta.tries

Labels == {"idle",
  "beginPayment", "zarinpalRequest", "tagCustomer", "rematchDeposits",
  "walletOpen", "walletCheck", "walletTake", "walletReject", "walletCancel",
  "walletRecheck", "walletRefund",
  "confirmRead", "confirmWrite", "settleRead", "settleCheck", "settleCredit",
  "chargeSeller", "orderPaid", "fulfillRead", "deliver", "orderDone",
  "proofWrite", "proofVerify", "rejectWrite",
  "zarinpalVerify", "zarinpalReject", "pluginReject", "pluginReview",
  "manualPaid", "manualConfirm", "cancelPayment", "cancelWrite",
  "expireWrite", "expireCount", "expireOrder", "usdtNext"}
Ops == {"none", "createOrder", "wallet", "topup", "confirm", "auto", "retry", "usdt",
        "rematch", "other"}
Locals == [op : Ops, pc : Labels, id : Sales \union {NoSale},
           cust : BOOLEAN,                  \* customerId, as confirmPayment read it
           todo : SUBSET Sales,             \* rows a job found and has yet to handle
           tries : [Sales -> 0 .. MaxTries]]\* meta.tries, as the job found it

Idle == [op |-> "none", pc |-> "idle", id |-> NoSale, cust |-> FALSE, todo |-> {},
         tries |-> [i \in Sales |-> 0]]

saleVars == <<status, info, order>>
moneyVars == <<credit, ledger, sellerCredits>>
ghostVars == <<delivered, paidFor>>
vars == <<terms, saleVars, moneyVars, ghostVars, loc, faults>>

IsOrder(i) == terms[i].flow = "order"
Active == {p \in Procs : loc[p].pc # "idle"}
Closed == {"REJECTED", "EXPIRED"}
Open == {"PENDING", "REVIEW"}
AtMostTwo(n) == IF n > 2 THEN 2 ELSE n

At(p, label) == loc[p].pc = label
Goto(p, label) == loc' = [loc EXCEPT ![p].pc = label]

\* A web request begins on sale i.
Start(p, op, i, label) ==
  /\ p \in Web /\ At(p, "idle")
  /\ Cardinality(Active) < MaxActive
  /\ loc' = [loc EXCEPT ![p] = [Idle EXCEPT !.op = op, !.pc = label, !.id = i]]

\* The call returns: the USDT job goes on with its list and the deposit matcher
\* with the next deposit, anything else ends.
Returned(l) ==
  CASE l.op = "usdt" /\ l.todo # {} -> [l EXCEPT !.pc = "usdtNext"]
    [] l.op = "rematch" -> [l EXCEPT !.pc = "rematchDeposits"]
    [] OTHER -> Idle
Return(p) == loc' = [loc EXCEPT ![p] = Returned(loc[p])]

\* The call throws.  fulfillOrder catches what the delivery throws and returns;
\* matchDeposit catches what confirmPayment throws and goes on; the wallet checkout catches what the debit and confirmPayment throw; any
\* other handler ends with the error.
Thrown(l) ==
  CASE l.pc \in {"deliver", "orderDone"} \/ (l.op = "rematch" /\ l.pc # "rematchDeposits") -> Returned(l)
    [] l.op = "wallet" /\ l.pc \in {"walletCheck", "walletTake"} -> [l EXCEPT !.pc = "walletReject"]
    [] l.op = "wallet" /\ l.pc \in {"confirmRead", "confirmWrite", "orderPaid", "fulfillRead"} ->
         [l EXCEPT !.pc = "walletRecheck"]
    [] OTHER -> Idle
Throw(p) == loc' = [loc EXCEPT ![p] = Thrown(loc[p])]

\* payment.update({ where: { id }, data: { status } }): no condition on the row.
SetStatus(i, s) == status' = [status EXCEPT ![i] = s]
SetOrder(i, s) == order' = [order EXCEPT ![i] = s]

OpeningRow == [ref |-> <<"opening", NoSale>>, amount |-> Opening, balanceAfter |-> Opening]

SaleInit ==
  /\ terms \in [Sales -> Terms]
  /\ status = [i \in Sales |-> "NONE"]
  /\ info = [i \in Sales |-> [cust |-> FALSE, due |-> "never", authority |-> FALSE,
                              verify |-> "none", tries |-> 0]]
  /\ order = [i \in Sales |-> "NONE"]
  /\ credit = [a \in Accounts |-> Opening]
  /\ ledger = [a \in Accounts |-> <<OpeningRow>>]
  /\ sellerCredits = [i \in Sales |-> 0]
  /\ delivered = [i \in Sales |-> 0]
  /\ paidFor = [i \in Sales |-> FALSE]
  /\ loc = [p \in Procs |-> Idle]
  /\ faults = 0

TypeOK ==
  /\ terms \in [Sales -> Terms]
  /\ status \in [Sales -> PaymentStatus]
  /\ info \in [Sales -> Infos]
  /\ order \in [Sales -> OrderStatus]
  /\ LedgerTypeOK
  /\ sellerCredits \in [Sales -> 0 .. 2]
  /\ delivered \in [Sales -> 0 .. 2]
  /\ paidFor \in [Sales -> BOOLEAN]
  /\ loc \in [Procs -> Locals]
  /\ faults \in 0 .. MaxFaults
=============================================================================
