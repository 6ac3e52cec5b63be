--------------------------- MODULE WalletCheckout ---------------------------
(***************************************************************************)
(* services/store.ts: createOrder, and payOrderWithWallet, which takes the *)
(* money first, confirms the payment and gives the money back when the     *)
(* confirmation throws.                                                    *)
(***************************************************************************)
EXTENDS Payments

\* order.create, after the price, the limits and (for the wallet) the balance
\* were checked: a free order is PAID at once, any other waits for its payment.
createOrder(p, i) ==
  LET m == terms[i].method IN
  /\ IsOrder(i) /\ order[i] = "NONE"
  /\ m = "WALLET" => credit[Buyer[i]] >= Price
  /\ SetOrder(i, IF m = "FREE" THEN "PAID" ELSE "PENDING")
  /\ paidFor' = [paidFor EXCEPT ![i] = (m = "FREE")]
  /\ \/ m = "FREE" /\ Start(p, "createOrder", i, "fulfillRead")
     \/ m = "WALLET" /\ Start(p, "wallet", i, "walletOpen")
     \/ m \notin {"FREE", "WALLET"} /\ Start(p, "createOrder", i, "beginPayment")
  /\ UNCHANGED <<terms, status, info, moneyVars, delivered, faults>>

\* payment.create: PENDING, tagged with the customer, without expiresAt.
walletOpen(p) ==
  /\ At(p, "walletOpen")
  /\ SetStatus(loc[p].id, "PENDING")
  /\ info' = [info EXCEPT ![loc[p].id].cust = TRUE]
  /\ Goto(p, "walletCheck")
  /\ UNCHANGED <<terms, order, moneyVars, ghostVars, faults>>

\* debitCustomerWallet reads the balance ...
walletCheck(p) ==
  /\ At(p, "walletCheck")
  /\ Goto(p, IF credit[Buyer[loc[p].id]] < Price THEN "walletReject" ELSE "walletTake")
  /\ UNCHANGED <<terms, saleVars, moneyVars, ghostVars, faults>>

PurchaseRows(i) == RowsFor(Buyer[i], <<"purchase", i>>)
RefundRows(i) == RowsFor(Buyer[i], <<"refund", i>>)

\* ... and takes the price.
walletTake(p) ==
  LET i == loc[p].id IN
  /\ At(p, "walletTake")
  /\ Post(Buyer[i], credit[Buyer[i]] - Price, -Price, <<"purchase", i>>)
  /\ Goto(p, "confirmRead")
  /\ UNCHANGED <<terms, saleVars, sellerCredits, ghostVars, faults>>

\* Mutant of walletRecheck: money goes back whatever the payment says.
walletRecheckSkipped(p) ==
  /\ At(p, "walletRecheck")
  /\ Goto(p, "walletRefund")
  /\ UNCHANGED <<terms, saleVars, moneyVars, ghostVars, faults>>

\* The confirmation threw: a payment that is CONFIRMED all the same stays paid.
walletRecheck(p) ==
  /\ At(p, "walletRecheck")
  /\ IF status[loc[p].id] = "CONFIRMED" THEN Return(p) ELSE Goto(p, "walletRefund")
  /\ UNCHANGED <<terms, saleVars, moneyVars, ghostVars, faults>>

\* Mutant of walletRefund: the payment is looked at again before it is rejected.
walletRefundAgain(p) ==
  LET i == loc[p].id IN
  /\ At(p, "walletRefund")
  /\ Post(Buyer[i], credit[Buyer[i]] + Price, Price, <<"refund", i>>)
  /\ Goto(p, "walletRecheck")
  /\ UNCHANGED <<terms, saleVars, sellerCredits, ghostVars, faults>>

\* creditCustomerWallet; its failure is swallowed and the checkout goes on.
walletRefund(p) ==
  LET i == loc[p].id IN
  /\ At(p, "walletRefund")
  /\ \/ Post(Buyer[i], credit[Buyer[i]] + Price, Price, <<"refund", i>>) /\ UNCHANGED faults
     \/ faults < MaxFaults /\ faults' = faults + 1 /\ UNCHANGED <<credit, ledger>>
  /\ Goto(p, "walletReject")
  /\ UNCHANGED <<terms, saleVars, sellerCredits, ghostVars>>

walletReject(p) ==
  /\ At(p, "walletReject")
  /\ SetStatus(loc[p].id, "REJECTED")
  /\ Goto(p, "walletCancel")
  /\ UNCHANGED <<terms, info, order, moneyVars, ghostVars, faults>>

walletCancel(p) ==
  /\ At(p, "walletCancel")
  /\ SetOrder(loc[p].id, "CANCELED")
  /\ Return(p)
  /\ UNCHANGED <<terms, status, info, moneyVars, ghostVars, faults>>

CheckoutNext(p) ==
  \/ walletOpen(p) \/ walletCheck(p) \/ walletTake(p)
  \/ walletRecheck(p) \/ walletRefund(p) \/ walletReject(p) \/ walletCancel(p)
=============================================================================
