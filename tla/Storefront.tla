----------------------------- MODULE Storefront -----------------------------
(***************************************************************************)
(* The storefront as a whole: buyers, sellers, gateways and plugins call   *)
(* the web process while the worker's jobs run over the same tables.       *)
(***************************************************************************)
EXTENDS WalletCheckout

\* Requests that may arrive at any time.
Request(p, i) ==
  \/ createOrder(p, i) \/ createTopup(p, i)
  \/ confirmByHand(p, i) \/ submitProof(p, i) \/ rejectPayment(p, i)
  \/ ingestDeposit(p, i) \/ handleZarinpalCallback(p, i) \/ handlePaymentPluginCallback(p, i)
  \/ retryFulfill(p, i) \/ cancelOrder(p, i)

\* The worker's cron starts a job that is not running.
JobStart(p) == expirePayments(p) \/ verifyPendingUsdt(p)

\* A request or a job in flight reaches its next await.
Step(p) == FulfillmentNext(p) \/ PaymentsNext(p) \/ CheckoutNext(p)

\* The process dies, or a database call of p throws.
Fault(p) ==
  /\ faults < MaxFaults /\ ~At(p, "idle")
  /\ faults' = faults + 1
  /\ \/ loc' = [loc EXCEPT ![p] = Idle]
     \/ ~At(p, "walletRefund") /\ Throw(p)
  /\ UNCHANGED <<terms, saleVars, moneyVars, ghostVars>>

Next ==
  \/ \E p \in Web, i \in Sales : Request(p, i)
  \/ \E p \in Jobs : JobStart(p)
  \/ \E p \in Procs : Step(p) \/ Fault(p)
  \/ \E i \in Sales : ttlElapses(i)

Spec == SaleInit /\ [][Next]_vars

\* Node runs every ready continuation, cron keeps starting its jobs and time
\* passes; nobody is obliged to send a request.
FairSpec ==
  /\ Spec
  /\ \A p \in Procs : WF_vars(Step(p))
  /\ \A p \in Jobs : WF_vars(JobStart(p))
  /\ \A i \in Sales : WF_vars(ttlElapses(i))

(* ----------------------- safety, handlers interleaved ------------------- *)

Handling(i, labels) == \E p \in Procs : loc[p].id = i /\ loc[p].pc \in labels

(***************************************************************************)
(* Nothing is given away: a service is provisioned, and a wallet credited, *)
(* only for a sale that was confirmed, is free, or was declared paid by    *)
(* the seller (fulfillOrder's check, settleCustomerTopup's check).         *)
(***************************************************************************)
DeliveredOnlyIfPaid ==
  \A i \in Sales : delivered[i] > 0 \/ sellerCredits[i] > 0 \/ TopupRows(i) # {} => paidFor[i]

(***************************************************************************)
(* While no call fails, the order of a confirmed payment is paid,          *)
(* delivered or canceled by the seller, or the handler that confirmed it   *)
(* is about to mark it: expirePayments never takes a paid order away.      *)
(***************************************************************************)
ConfirmedOrderIsPaid ==
  faults = 0 => \A i \in Sales : IsOrder(i) /\ status[i] = "CONFIRMED" =>
    order[i] \in {"PAID", "FULFILLED", "CANCELED"} \/ Handling(i, {"orderPaid"})

(***************************************************************************)
(* While no call fails, a confirmed top-up has reached a wallet or the     *)
(* handler that confirmed it is on its way there.                          *)
(***************************************************************************)
ConfirmedTopupIsCredited ==
  faults = 0 => \A i \in Sales : ~IsOrder(i) /\ status[i] = "CONFIRMED" =>
    \/ TopupRows(i) # {} \/ sellerCredits[i] > 0
    \/ Handling(i, {"settleRead", "settleCheck", "settleCredit", "chargeSeller"})

(***************************************************************************)
(* The wallet checkout takes the price once and gives back at most what it *)
(* took, with calls failing at any point (payOrderWithWallet).             *)
(***************************************************************************)
RefundOnlyWhatWasTaken ==
  \A i \in Sales : /\ Cardinality(RefundRows(i)) <= Cardinality(PurchaseRows(i))
                   /\ Cardinality(PurchaseRows(i)) <= 1

(* ------------------------------- liveness ------------------------------- *)

(***************************************************************************)
(* expirePayments: a payment left PENDING past its deadline is closed or   *)
(* taken up by somebody.                                                   *)
(***************************************************************************)
OverdueIsClosed ==
  \A i \in Sales : (status[i] = "PENDING" /\ info[i].due = "past") ~> (status[i] # "PENDING")

(***************************************************************************)
(* expirePayments: the order of an expired payment does not stay PENDING   *)
(* (its customer could otherwise wait for it forever).                     *)
(***************************************************************************)
ExpiredOrderIsClosed ==
  \A i \in Sales : (status[i] = "EXPIRED" /\ order[i] = "PENDING")
                     ~> (status[i] # "EXPIRED" \/ order[i] # "PENDING")

(***************************************************************************)
(* The wallet checkout always ends: with the order paid, delivered or      *)
(* closed by the seller, or with the money back and the order canceled.    *)
(***************************************************************************)
CheckoutSettles ==
  \A i \in Sales : (PurchaseRows(i) # {})
    ~> \/ RefundRows(i) # {} /\ order[i] = "CANCELED"
       \/ order[i] \in {"PAID", "FULFILLED", "CANCELED"} /\ status[i] \in {"CONFIRMED", "REJECTED"}

(* --------------------- one handler at a time, or claimed ----------------- *)

credits == [i \in Sales |-> Cardinality(TopupRows(i)) + sellerCredits[i]]
Contract == INSTANCE PaymentContract WITH status <- status, credits <- credits

(***************************************************************************)
(* Handlers that run one after the other, with crashes between and inside  *)
(* them, keep the contract of a payment.                                   *)
(***************************************************************************)
KeepsContract == Contract!Spec

(***************************************************************************)
(* Handlers one after the other, crashes included: the wallet checkout     *)
(* gives money back only while the payment is not CONFIRMED.               *)
(***************************************************************************)
RefundOnlyUnconfirmed ==
  [][\A i \in Sales : RefundRows(i)' # RefundRows(i) => status[i] # "CONFIRMED"]_vars

(***************************************************************************)
(* settleCustomerTopup is "Idempotent: the ledger row is keyed by the      *)
(* payment id" (customers.ts:295): one credit per payment.                 *)
(***************************************************************************)
TopupCreditedOnce == \A i \in Sales : Cardinality(TopupRows(i)) <= 1

(***************************************************************************)
(* expirePayments closes overdue payments and the orders behind them.      *)
(***************************************************************************)
ExpiryCloses == OverdueIsClosed /\ ExpiredOrderIsClosed
=============================================================================
