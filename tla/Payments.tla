------------------------------ MODULE Payments ------------------------------
(***************************************************************************)
(* services/payments.ts with the settlement of a top-up (customers.ts) and *)
(* the signed plugin webhook (paymentPluginHooks.ts): how a payment row    *)
(* moves from PENDING to REVIEW, CONFIRMED, REJECTED or EXPIRED, and what  *)
(* a confirmation sets off.                                                *)
(***************************************************************************)
EXTENDS Fulfillment

(* -------------------------- opening a payment -------------------------- *)

\* createTopup (reseller) and createCustomerTopup: checks only, no row yet.
createTopup(p, i) ==
  /\ terms[i].flow \in {"resellerTopup", "customerTopup"} /\ status[i] = "NONE"
  /\ \A q \in Procs : loc[q].id # i
  /\ Start(p, "topup", i, "beginPayment")
  /\ UNCHANGED <<terms, saleVars, moneyVars, ghostVars, faults>>

\* A customer top-up is tagged with its customer only after beginPayment; a card
\* order is matched against the deposits that have already arrived.
AfterBegin(p) ==
  LET t == terms[loc[p].id] IN
  CASE t.flow = "customerTopup" -> Goto(p, "tagCustomer")
    [] t = [flow |-> "order", method |-> "CARD"] ->
         loc' = [loc EXCEPT ![p].pc = "rematchDeposits", ![p].op = "rematch"]
    [] OTHER -> Return(p)

\* payment.create with expiresAt; or the crypto quote or the merchant key is
\* missing and it throws before any row exists.
beginPayment(p) ==
  /\ At(p, "beginPayment")
  /\ \/ terms[loc[p].id].method # "CARD" /\ Throw(p) /\ UNCHANGED <<status, info>>
     \/ /\ SetStatus(loc[p].id, "PENDING")
        /\ info' = [info EXCEPT ![loc[p].id].due = "later"]
        /\ IF terms[loc[p].id].method = "ZARINPAL" THEN Goto(p, "zarinpalRequest")
                                                   ELSE AfterBegin(p)
  /\ UNCHANGED <<terms, order, moneyVars, ghostVars, faults>>

\* The gateway refuses (the row is REJECTED, the caller gets the error) or
\* hands out an authority.
zarinpalRequest(p) ==
  /\ At(p, "zarinpalRequest")
  /\ \/ SetStatus(loc[p].id, "REJECTED") /\ Throw(p) /\ UNCHANGED info
     \/ /\ info' = [info EXCEPT ![loc[p].id].authority = TRUE]
        /\ AfterBegin(p) /\ UNCHANGED status
  /\ UNCHANGED <<terms, order, moneyVars, ghostVars, faults>>

\* createCustomerTopup's last step: payment.update customerId.
tagCustomer(p) ==
  /\ At(p, "tagCustomer")
  /\ info' = [info EXCEPT ![loc[p].id].cust = TRUE]
  /\ Return(p)
  /\ UNCHANGED <<terms, status, order, moneyVars, ghostVars, faults>>

\* The clock passes a payment's expiresAt.
ttlElapses(i) ==
  /\ info[i].due = "later"
  /\ info' = [info EXCEPT ![i].due = "past"]
  /\ UNCHANGED <<terms, status, order, moneyVars, ghostVars, loc, faults>>

(* ---------------------------- confirmPayment --------------------------- *)

\* A reviewer presses confirm (opts.by is set).
confirmByHand(p, i) ==
  /\ status[i] # "NONE"
  /\ Start(p, "confirm", i, "confirmRead")
  /\ UNCHANGED <<terms, saleVars, moneyVars, ghostVars, faults>>

\* Read the payment: CONFIRMED returns; EXPIRED throws unless a human asks.
confirmRead(p) ==
  LET s == status[loc[p].id] IN
  /\ At(p, "confirmRead")
  /\ \/ s = "CONFIRMED" /\ Return(p)
     \/ s = "EXPIRED" /\ loc[p].op # "confirm" /\ Throw(p)
     \/ /\ s # "CONFIRMED" /\ (s = "EXPIRED" => loc[p].op = "confirm")
        /\ loc' = [loc EXCEPT ![p].pc = "confirmWrite", ![p].cust = info[loc[p].id].cust]
  /\ UNCHANGED <<terms, saleVars, moneyVars, ghostVars, faults>>

\* Mutant of confirmWrite: an order payment is left to the next retry.
confirmWriteOnly(p) ==
  /\ At(p, "confirmWrite")
  /\ SetStatus(loc[p].id, "CONFIRMED")
  /\ paidFor' = [paidFor EXCEPT ![loc[p].id] = TRUE]
  /\ Return(p)
  /\ UNCHANGED <<terms, info, order, moneyVars, delivered, faults>>

\* payment.update to CONFIRMED by id alone, then by the kind that was read.
confirmWrite(p) ==
  LET i == loc[p].id IN
  /\ At(p, "confirmWrite")
  /\ SetStatus(i, "CONFIRMED")
  /\ paidFor' = [paidFor EXCEPT ![i] = TRUE]
  /\ Goto(p, IF IsOrder(i) THEN "orderPaid"
             ELSE IF loc[p].cust THEN "settleRead" ELSE "chargeSeller")
  /\ UNCHANGED <<terms, info, order, moneyVars, delivered, faults>>

\* order.update to PAID, whatever the order has become meanwhile.
orderPaid(p) ==
  /\ At(p, "orderPaid")
  /\ SetOrder(loc[p].id, "PAID")
  /\ Goto(p, "fulfillRead")
  /\ UNCHANGED <<terms, status, info, moneyVars, ghostVars, faults>>

\* chargeWallet(+amount) on the seller's or reseller's own wallet.
chargeSeller(p) ==
  /\ At(p, "chargeSeller")
  /\ sellerCredits' = [sellerCredits EXCEPT ![loc[p].id] = AtMostTwo(@ + 1)]
  /\ Return(p)
  /\ UNCHANGED <<terms, saleVars, credit, ledger, ghostVars, faults>>

\* settleCustomerTopup reads the payment again: it must be CONFIRMED.
settleRead(p) ==
  /\ At(p, "settleRead")
  /\ IF info[loc[p].id].cust /\ status[loc[p].id] = "CONFIRMED"
     THEN Goto(p, "settleCheck") ELSE Return(p)
  /\ UNCHANGED <<terms, saleVars, moneyVars, ghostVars, faults>>

TopupRows(i) == RowsFor(Buyer[i], <<"topup", i>>)

\* ... and the ledger must hold no row for this payment yet.
settleCheck(p) ==
  /\ At(p, "settleCheck")
  /\ IF TopupRows(loc[p].id) # {} THEN Return(p) ELSE Goto(p, "settleCredit")
  /\ UNCHANGED <<terms, saleVars, moneyVars, ghostVars, faults>>

TopupValue == Price + (Price * BonusPct) \div 100

\* creditCustomerWallet(amount + bonus).
settleCredit(p) ==
  LET i == loc[p].id IN
  /\ At(p, "settleCredit")
  /\ Post(Buyer[i], credit[Buyer[i]] + TopupValue, TopupValue, <<"topup", i>>)
  /\ Return(p)
  /\ UNCHANGED <<terms, saleVars, sellerCredits, ghostVars, faults>>

(* ------------------------ proofs and rejections ------------------------ *)

\* The buyer sends a receipt or a TXID: CONFIRMED returns, EXPIRED and
\* overdue PENDING are refused; a REJECTED payment may be resubmitted.
submitProof(p, i) ==
  /\ terms[i].method \in {"USDT", "CARD"}
  /\ status[i] \in {"PENDING", "REVIEW", "REJECTED"}
  /\ ~(status[i] = "PENDING" /\ info[i].due = "past")
  /\ Start(p, "auto", i, "proofWrite")
  /\ UNCHANGED <<terms, saleVars, moneyVars, ghostVars, faults>>

\* payment.update to REVIEW; a TXID also resets the verification record.  The
\* unique index on txid makes the update throw for a TXID used elsewhere.
proofWrite(p) ==
  LET i == loc[p].id
      usdt == terms[i].method = "USDT" IN
  /\ At(p, "proofWrite")
  /\ \/ usdt /\ Throw(p) /\ UNCHANGED <<status, info>>
     \/ /\ SetStatus(i, "REVIEW")
        /\ info' = IF usdt THEN [info EXCEPT ![i].verify = "pending", ![i].tries = 0] ELSE info
        /\ IF usdt /\ AutoVerify THEN Goto(p, "proofVerify") ELSE Return(p)
  /\ UNCHANGED <<terms, order, moneyVars, ghostVars, faults>>

\* The chain explorer answers: confirmed, or a verdict to store.
proofVerify(p) ==
  /\ At(p, "proofVerify")
  /\ \/ Goto(p, "confirmRead") /\ UNCHANGED info
     \/ \E v \in {"pending", "mismatch"} :
          /\ info' = [info EXCEPT ![loc[p].id].verify = v, ![loc[p].id].tries = 1]
          /\ Return(p)
  /\ UNCHANGED <<terms, status, order, moneyVars, ghostVars, faults>>

\* Mutant of rejectPayment: a CONFIRMED payment is not refused.
rejectAnyPayment(p, i) ==
  /\ status[i] # "NONE"
  /\ Start(p, "other", i, "rejectWrite")
  /\ UNCHANGED <<terms, saleVars, moneyVars, ghostVars, faults>>

\* A reviewer rejects; a CONFIRMED payment is refused, at this read.
rejectPayment(p, i) ==
  /\ status[i] \notin {"NONE", "CONFIRMED"}
  /\ Start(p, "other", i, "rejectWrite")
  /\ UNCHANGED <<terms, saleVars, moneyVars, ghostVars, faults>>

rejectWrite(p) ==
  /\ At(p, "rejectWrite")
  /\ SetStatus(loc[p].id, "REJECTED")
  /\ Return(p)
  /\ UNCHANGED <<terms, info, order, moneyVars, ghostVars, faults>>

(* ---------------------------- card deposits ---------------------------- *)

DepositMayMatch(i) == terms[i].method = "CARD" /\ status[i] \in Open

\* A bank message reports a deposit that fits exactly one open card payment.
ingestDeposit(p, i) ==
  /\ DepositMayMatch(i)
  /\ Start(p, "auto", i, "confirmRead")
  /\ UNCHANGED <<terms, saleVars, moneyVars, ghostVars, faults>>

\* createOrder's last call: the next stored deposit fits an open card payment,
\* or none is left.
rematchDeposits(p) ==
  /\ At(p, "rematchDeposits")
  /\ \/ loc' = [loc EXCEPT ![p] = Idle]
     \/ \E i \in Sales : /\ DepositMayMatch(i)
                        /\ loc' = [loc EXCEPT ![p].pc = "confirmRead", ![p].id = i]
  /\ UNCHANGED <<terms, saleVars, moneyVars, ghostVars, faults>>

(* ------------------------ gateway and plugin calls --------------------- *)

\* The gateway sends the payer back, perhaps twice (only payments it knows get
\* its callback URL): a CONFIRMED payment returns; otherwise the payer gave up,
\* or the gateway must be asked.
handleZarinpalCallback(p, i) ==
  /\ info[i].authority /\ status[i] # "CONFIRMED"
  /\ \E ok \in BOOLEAN : Start(p, "auto", i, IF ok THEN "zarinpalVerify" ELSE "zarinpalReject")
  /\ UNCHANGED <<terms, saleVars, moneyVars, ghostVars, faults>>

\* zarinpalVerify: 100 and 101 (already verified) count as paid.
zarinpalVerify(p) ==
  /\ At(p, "zarinpalVerify")
  /\ \E ok \in BOOLEAN : Goto(p, IF ok THEN "confirmRead" ELSE "zarinpalReject")
  /\ UNCHANGED <<terms, saleVars, moneyVars, ghostVars, faults>>

zarinpalReject(p) ==
  /\ At(p, "zarinpalReject")
  /\ SetStatus(loc[p].id, "REJECTED")
  /\ Return(p)
  /\ UNCHANGED <<terms, info, order, moneyVars, ghostVars, faults>>

\* A correctly signed plugin webhook for an open payment: a failure word, a
\* doubtful one (short amount, over the cap, unknown word, no auto-confirm) or
\* a success.
handlePaymentPluginCallback(p, i) ==
  /\ terms[i].method \in {"USDT", "CARD", "ZARINPAL"} /\ status[i] \in Open
  /\ \E label \in {"pluginReject", "pluginReview", "confirmRead"} : Start(p, "auto", i, label)
  /\ UNCHANGED <<terms, saleVars, moneyVars, ghostVars, faults>>

pluginWrite(p) ==
  /\ \/ At(p, "pluginReject") /\ SetStatus(loc[p].id, "REJECTED")
     \/ At(p, "pluginReview") /\ SetStatus(loc[p].id, "REVIEW")
  /\ Return(p)
  /\ UNCHANGED <<terms, info, order, moneyVars, ghostVars, faults>>

(* ------------------------------ worker jobs ---------------------------- *)

Stale == {i \in Sales : status[i] = "PENDING" /\ info[i].due = "past"}

\* findMany of the overdue PENDING payments.
expirePayments(p) ==
  /\ p = "expirePayments" /\ Stale # {}
  /\ At(p, "idle") /\ Cardinality(Active) < MaxActive
  /\ loc' = [loc EXCEPT ![p] = [Idle EXCEPT !.op = "other", !.pc = "expireWrite", !.todo = Stale]]
  /\ UNCHANGED <<terms, saleVars, moneyVars, ghostVars, faults>>

\* A list of orders left to look at, or the end of the job.
ExpireGoOn(p, rest) ==
  loc' = [loc EXCEPT ![p] = IF rest = {} THEN Idle
                            ELSE [@ EXCEPT !.pc = "expireCount", !.id = NoSale, !.todo = rest]]

\* updateMany by id alone to EXPIRED, whatever the rows have become.
expireWrite(p) ==
  /\ At(p, "expireWrite")
  /\ status' = [i \in Sales |-> IF i \in loc[p].todo THEN "EXPIRED" ELSE status[i]]
  /\ ExpireGoOn(p, {i \in loc[p].todo : IsOrder(i)})
  /\ UNCHANGED <<terms, info, order, moneyVars, ghostVars, faults>>

\* Mutant of expireCount: payments are counted whatever their status.
expireCountAny(p) ==
  /\ At(p, "expireCount")
  /\ \E i \in loc[p].todo : ExpireGoOn(p, loc[p].todo \ {i})
  /\ UNCHANGED <<terms, saleVars, moneyVars, ghostVars, faults>>

\* Count the order's payments that are still open or confirmed.
expireCount(p) ==
  /\ At(p, "expireCount")
  /\ \E i \in loc[p].todo :
       IF status[i] \in {"PENDING", "REVIEW", "CONFIRMED"}
       THEN ExpireGoOn(p, loc[p].todo \ {i})
       ELSE loc' = [loc EXCEPT ![p].pc = "expireOrder", ![p].id = i]
  /\ UNCHANGED <<terms, saleVars, moneyVars, ghostVars, faults>>

\* Mutant of expireOrder: the order's own status is not part of the update.
expireOrderAnyway(p) ==
  /\ At(p, "expireOrder")
  /\ SetOrder(loc[p].id, "EXPIRED")
  /\ ExpireGoOn(p, loc[p].todo \ {loc[p].id})
  /\ UNCHANGED <<terms, status, info, moneyVars, ghostVars, faults>>

\* updateMany where status = PENDING: checked by the database.
expireOrder(p) ==
  /\ At(p, "expireOrder")
  /\ order' = [order EXCEPT ![loc[p].id] = IF @ = "PENDING" THEN "EXPIRED" ELSE @]
  /\ ExpireGoOn(p, loc[p].todo \ {loc[p].id})
  /\ UNCHANGED <<terms, status, info, moneyVars, ghostVars, faults>>

\* Mutant of UsdtWaiting: one look too many.
UsdtWaitingOneMore == {i \in Sales : /\ status[i] = "REVIEW" /\ terms[i].method = "USDT"
                                     /\ info[i].verify = "pending" /\ info[i].tries <= MaxTries}

UsdtWaiting == {i \in Sales : /\ status[i] = "REVIEW" /\ terms[i].method = "USDT"
                              /\ info[i].verify = "pending" /\ info[i].tries < MaxTries}

\* findMany of the USDT payments under review that may still verify.
verifyPendingUsdt(p) ==
  /\ p = "verifyPendingUsdt" /\ AutoVerify /\ UsdtWaiting # {}
  /\ At(p, "idle") /\ Cardinality(Active) < MaxActive
  /\ loc' = [loc EXCEPT ![p] = [Idle EXCEPT !.op = "usdt", !.pc = "usdtNext", !.todo = UsdtWaiting,
                                       !.tries = [i \in Sales |-> IF i \in UsdtWaiting THEN info[i].tries ELSE 0]]]
  /\ UNCHANGED <<terms, saleVars, moneyVars, ghostVars, faults>>

\* Ask the chain about the next payment: confirm it, or store the verdict and
\* the number of tries, from the row as the job found it.
usdtNext(p) ==
  /\ At(p, "usdtNext")
  /\ \E i \in loc[p].todo :
       \/ /\ loc' = [loc EXCEPT ![p].pc = "confirmRead", ![p].id = i, ![p].todo = @ \ {i}]
          /\ UNCHANGED info
       \/ \E v \in {"pending", "mismatch"} :
            /\ info' = [info EXCEPT ![i].verify = v, ![i].tries = loc[p].tries[i] + 1]
            /\ loc' = [loc EXCEPT ![p] = Returned([loc[p] EXCEPT !.id = i, !.todo = @ \ {i}])]
  /\ UNCHANGED <<terms, status, order, moneyVars, ghostVars, faults>>

PaymentsNext(p) ==
  \/ beginPayment(p) \/ zarinpalRequest(p) \/ tagCustomer(p) \/ rematchDeposits(p)
  \/ confirmRead(p) \/ confirmWrite(p) \/ orderPaid(p) \/ chargeSeller(p)
  \/ settleRead(p) \/ settleCheck(p) \/ settleCredit(p)
  \/ proofWrite(p) \/ proofVerify(p) \/ rejectWrite(p)
  \/ zarinpalVerify(p) \/ zarinpalReject(p) \/ pluginWrite(p)
  \/ expireWrite(p) \/ expireCount(p) \/ expireOrder(p) \/ usdtNext(p)
=============================================================================
