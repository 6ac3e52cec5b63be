---------------------------- MODULE Fulfillment -----------------------------
(***************************************************************************)
(* services/fulfillment.ts: handing a paid order over, the seller's retry  *)
(* and the seller's cancellation.  fulfillOrder is called by confirmPayment*)
(* (after the order was marked PAID), by createOrder for a free order and  *)
(* by retryFulfill.                                                        *)
(***************************************************************************)
EXTENDS SaleState

\* Mutant of fulfillRead: the "not paid yet" check is gone.
fulfillReadUnchecked(p) ==
  /\ At(p, "fulfillRead")
  /\ IF order[loc[p].id] = "FULFILLED" THEN Return(p) ELSE Goto(p, "deliver")
  /\ UNCHANGED <<terms, saleVars, moneyVars, ghostVars, faults>>

\* Read the order: delivered already returns, anything but PAID throws.
fulfillRead(p) ==
  /\ At(p, "fulfillRead")
  /\ \/ order[loc[p].id] = "FULFILLED" /\ Return(p)
     \/ order[loc[p].id] \notin {"FULFILLED", "PAID"} /\ Throw(p)
     \/ order[loc[p].id] = "PAID" /\ Goto(p, "deliver")
  /\ UNCHANGED <<terms, saleVars, moneyVars, ghostVars, faults>>

\* createClient, the renewal of a client, or a reseller panel: it succeeds, or
\* its error is caught, stored on the order and fulfillOrder returns normally.
\* The error may come after the client row exists (the seller is charged after
\* client.create), so a failed delivery may have delivered.
deliver(p) ==
  /\ At(p, "deliver")
  /\ \/ /\ delivered' = [delivered EXCEPT ![loc[p].id] = AtMostTwo(@ + 1)]
        /\ Goto(p, "orderDone") \/ Return(p)
     \/ UNCHANGED delivered /\ Return(p)
  /\ UNCHANGED <<terms, saleVars, moneyVars, paidFor, faults>>

\* order.update to FULFILLED, whatever the order has become meanwhile.
orderDone(p) ==
  /\ At(p, "orderDone")
  /\ SetOrder(loc[p].id, "FULFILLED")
  /\ Return(p)
  /\ UNCHANGED <<terms, status, info, moneyVars, ghostVars, faults>>

\* The seller retries: a PENDING order is first declared paid by hand.
retryFulfill(p, i) ==
  /\ order[i] # "NONE"
  /\ Start(p, "retry", i, IF order[i] = "PENDING" THEN "manualPaid" ELSE "fulfillRead")
  /\ UNCHANGED <<terms, saleVars, moneyVars, ghostVars, faults>>

manualPaid(p) ==
  /\ At(p, "manualPaid")
  /\ SetOrder(loc[p].id, "PAID")
  /\ paidFor' = [paidFor EXCEPT ![loc[p].id] = TRUE]
  /\ Goto(p, "manualConfirm")
  /\ UNCHANGED <<terms, status, info, moneyVars, delivered, faults>>

\* updateMany where status in (PENDING, REVIEW): checked by the database.
manualConfirm(p) ==
  /\ At(p, "manualConfirm")
  /\ status' = [status EXCEPT ![loc[p].id] = IF @ \in Open THEN "CONFIRMED" ELSE @]
  /\ Goto(p, "fulfillRead")
  /\ UNCHANGED <<terms, info, order, moneyVars, ghostVars, faults>>

\* The seller cancels: a delivered order is refused, at this read.
cancelOrder(p, i) ==
  /\ order[i] \notin {"NONE", "FULFILLED"}
  /\ Start(p, "other", i, "cancelPayment")
  /\ UNCHANGED <<terms, saleVars, moneyVars, ghostVars, faults>>

cancelPayment(p) ==
  /\ At(p, "cancelPayment")
  /\ status' = [status EXCEPT ![loc[p].id] = IF @ \in Open THEN "REJECTED" ELSE @]
  /\ Goto(p, "cancelWrite")
  /\ UNCHANGED <<terms, info, order, moneyVars, ghostVars, faults>>

cancelWrite(p) ==
  /\ At(p, "cancelWrite")
  /\ SetOrder(loc[p].id, "CANCELED")
  /\ Return(p)
  /\ UNCHANGED <<terms, status, info, moneyVars, ghostVars, faults>>

FulfillmentNext(p) ==
  \/ fulfillRead(p) \/ deliver(p) \/ orderDone(p)
  \/ manualPaid(p) \/ manualConfirm(p) \/ cancelPayment(p) \/ cancelWrite(p)
=============================================================================
