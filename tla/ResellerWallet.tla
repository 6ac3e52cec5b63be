--------------------------- MODULE ResellerWallet ---------------------------
(***************************************************************************)
(* A reseller's prepaid wallet and traffic quota: chargeWallet (wallet.ts) *)
(* and everything that calls it: selling, extending and deleting clients   *)
(* (clients/crud.ts, refunds.ts), buying quota (resellerPlans.ts) and the  *)
(* owner's adjustments.  chargeWallet reads the balance, adds in           *)
(* JavaScript and writes the sum back: inside one READ COMMITTED           *)
(* transaction, other transactions may commit between the two.             *)
(*                                                                         *)
(* Every action is one awaited database call; loc[p] is what handler p     *)
(* carries from one to the next.                                           *)
(***************************************************************************)
EXTENDS WalletLedger, FiniteSetsExt

CONSTANTS Procs,        \* requests that may be in flight together
          Clients,      \* ids of clients
          Owner,        \* Owner[c]: the reseller that sells client c
          NoClient,     \* the client of a handler that concerns none
          NoAccount,    \* the account of an idle handler
          Sizes,        \* trafficGB values a client may be sold with
          PerGB,        \* pricing.pricePerGB
          CreditLimit,  \* pricing.creditLimit: how far a purchase may overdraw
          ClientLimit,  \* Admin.clientLimit
          OpeningQuota, \* Admin.trafficQuota at the start, in GB
          PlanGB,       \* GB of the reseller plan on sale
          PlanPrice,    \* its price
          Gross,        \* values unused traffic and days may have at a deletion
          RefundPercent,\* refund.refundPercent
          RefundMin,    \* refund.refundMin
          Adjustments,  \* signed amounts the owner may move
          MaxActive,    \* bound: handlers in flight together
          MaxRows,      \* bound: no handler starts on an account with as many rows
          MaxFaults     \* bound: process deaths and failing database calls

VARIABLES quota,        \* quota[a]: Admin.trafficQuota, in GB
          limit,        \* limit[c]: Client.trafficLimit, in GB; 0 when there is no row
          deleted,      \* clients whose row is gone
          charged,      \* charged[c]: what the PURCHASE rows of client c add up to
          refunded,     \* refunded[c]: what its REFUND rows add up to
          loc,          \* loc[p]: the handler p
          faults        \* faults so far

ASSUME ResellerAssumptions ==
  /\ Owner \in [Clients -> Accounts]
  /\ NoClient \notin Clients /\ NoAccount \notin Accounts
  /\ Refs = {"PURCHASE", "REFUND", "ADJUST"} \X (Clients \union {NoClient})
  /\ Sizes \subseteq Nat \ {0} /\ Gross \subseteq Nat
  /\ Adjustments \subseteq Int \ {0}
  /\ PerGB \in Nat \ {0} /\ PlanPrice \in Nat \ {0}
  /\ CreditLimit \in Nat /\ ClientLimit \in Nat
  /\ OpeningQuota \in Nat /\ PlanGB \in Nat
  /\ RefundPercent \in Nat /\ RefundMin \in Nat
  /\ MaxActive \in Nat /\ MaxRows \in Nat /\ MaxFaults \in Nat

Labels == {"idle", "assertQuota", "assertAffordable", "clientWrite", "clientDelete",
           "chargeRead", "chargeCommit", "planWrite"}
Ops == {"none", "create", "update", "plan", "planBack", "delete", "adjust"}
Locals == [op : Ops, pc : Labels,
           acct : Accounts \union {NoAccount}, client : Clients \union {NoClient},
           size : Nat,        \* the traffic limit the request asks for
           quota : Int,       \* trafficQuota, as read with the account
           amount : Int,      \* the signed amount to charge
           next : Int]        \* the balance chargeWallet computed

Idle == [op |-> "none", pc |-> "idle", acct |-> NoAccount, client |-> NoClient,
         size |-> 0, quota |-> 0, amount |-> 0, next |-> 0]

accountVars == <<credit, ledger, quota>>
clientVars == <<limit, deleted>>
totalVars == <<charged, refunded>>
vars == <<accountVars, clientVars, totalVars, loc, faults>>

Init ==
  /\ LedgerInit
  /\ quota = [a \in Accounts |-> OpeningQuota]
  /\ limit = [c \in Clients |-> 0]
  /\ deleted = {}
  /\ charged = [c \in Clients |-> 0]
  /\ refunded = [c \in Clients |-> 0]
  /\ loc = [p \in Procs |-> Idle]
  /\ faults = 0

TypeOK ==
  /\ LedgerTypeOK
  /\ quota \in [Accounts -> Int]
  /\ limit \in [Clients -> Nat]
  /\ deleted \in SUBSET Clients
  /\ charged \in [Clients -> Nat] /\ refunded \in [Clients -> Nat]
  /\ loc \in [Procs -> Locals]
  /\ faults \in 0 .. MaxFaults

At(p, label) == loc[p].pc = label
Goto(p, label) == loc' = [loc EXCEPT ![p].pc = label]
Return(p) == loc' = [loc EXCEPT ![p] = Idle]
Live == {c \in Clients : limit[c] > 0}
Active == {p \in Procs : ~At(p, "idle")}

\* A request of (or about) account a begins.
Start(p, l) ==
  /\ At(p, "idle")
  /\ Cardinality(Active) < MaxActive
  /\ Len(ledger[l.acct]) < MaxRows
  /\ loc' = [loc EXCEPT ![p] = l]
  /\ UNCHANGED <<accountVars, clientVars, totalVars, faults>>

(* --------------------------- selling clients --------------------------- *)

\* The session loads the reseller's row, quota included; cost = gb * perGB.
createClient(p, c, n) ==
  /\ limit[c] = 0 /\ c \notin deleted /\ \A q \in Procs : loc[q].client # c
  /\ Start(p, [Idle EXCEPT !.op = "create", !.pc = "assertQuota", !.acct = Owner[c],
               !.client = c, !.size = n, !.quota = quota[Owner[c]], !.amount = -(n * PerGB)])

\* ... and the client's current limit: only what is added is paid for.
updateClient(p, c, n) ==
  /\ c \in Live
  /\ Start(p, [Idle EXCEPT !.op = "update", !.pc = "assertQuota", !.acct = Owner[c],
               !.client = c, !.size = n, !.quota = quota[Owner[c]],
               !.amount = IF n > limit[c] THEN -((n - limit[c]) * PerGB) ELSE 0])

\* Count the reseller's clients and add up their limits (without the client
\* being updated), against the limits the session loaded.
assertQuota(p) ==
  LET l == loc[p]
      others == {c \in Live : Owner[c] = l.acct /\ (l.op = "update" => c # l.client)} IN
  /\ At(p, "assertQuota")
  /\ IF \/ l.op = "create" /\ Cardinality(others) >= ClientLimit
        \/ MapThenSumSet(LAMBDA c : limit[c], others) + l.size > l.quota
     THEN Return(p) ELSE Goto(p, "assertAffordable")
  /\ UNCHANGED <<accountVars, clientVars, totalVars, faults>>

\* A first look at the balance, before anything is written.
assertAffordable(p) ==
  /\ At(p, "assertAffordable")
  /\ IF loc[p].amount < 0 /\ credit[loc[p].acct] + loc[p].amount < -CreditLimit
     THEN Return(p) ELSE Goto(p, "clientWrite")
  /\ UNCHANGED <<accountVars, clientVars, totalVars, faults>>

\* client.create or client.update (which throws when the row is gone); then the
\* charge, when there is one.
clientWrite(p) ==
  LET l == loc[p] IN
  /\ At(p, "clientWrite")
  /\ IF l.client \in deleted THEN Return(p) /\ UNCHANGED limit
     ELSE /\ limit' = [limit EXCEPT ![l.client] = l.size]
          /\ IF l.amount = 0 THEN Return(p) ELSE Goto(p, "chargeRead")
  /\ UNCHANGED <<accountVars, deleted, totalVars, faults>>

(* ------------------------- deleting with a refund ----------------------- *)

\* The unused value, capped by what was charged and not yet refunded.
quoteRefund(c, gross) ==
  LET cap == charged[c] - refunded[c]
      amount == (gross * RefundPercent) \div 100
      capped == IF amount > cap THEN cap ELSE amount
  IN IF cap <= 0 \/ capped < RefundMin THEN 0 ELSE capped

\* The quote is taken before the row disappears.
deleteClientWithRefund(p, c, gross) ==
  /\ c \in Live
  /\ Start(p, [Idle EXCEPT !.op = "delete", !.pc = "clientDelete", !.acct = Owner[c],
               !.client = c, !.amount = quoteRefund(c, gross)])

\* Mutant of clientDelete: a row that is gone already does not stop the refund.
clientDeleteAgain(p) ==
  LET l == loc[p] IN
  /\ At(p, "clientDelete")
  /\ limit' = [limit EXCEPT ![l.client] = 0]
  /\ deleted' = deleted \union {l.client}
  /\ IF l.amount = 0 THEN Return(p) ELSE Goto(p, "chargeRead")
  /\ UNCHANGED <<accountVars, totalVars, faults>>

\* client.delete throws when the row is gone; the refund follows the deletion.
clientDelete(p) ==
  LET l == loc[p] IN
  /\ At(p, "clientDelete")
  /\ \/ l.client \in deleted /\ Return(p) /\ UNCHANGED clientVars
     \/ /\ l.client \notin deleted
        /\ limit' = [limit EXCEPT ![l.client] = 0]
        /\ deleted' = deleted \union {l.client}
        /\ IF l.amount = 0 THEN Return(p) ELSE Goto(p, "chargeRead")
  /\ UNCHANGED <<accountVars, totalVars, faults>>

(* ------------------------- plans and adjustments ------------------------ *)

\* account(actor.id) is read once, before the charge.
buyResellerPlan(p, a) ==
  Start(p, [Idle EXCEPT !.op = "plan", !.pc = "chargeRead", !.acct = a,
            !.quota = quota[a], !.amount = -PlanPrice])

\* Mutant of planWrite: the charge was made and nothing is topped up.
planWriteNot(p) ==
  /\ At(p, "planWrite")
  /\ Return(p)
  /\ UNCHANGED <<accountVars, clientVars, totalVars, faults>>

\* admin.update with the sum computed from the row read before the charge.
planWrite(p) ==
  /\ At(p, "planWrite")
  /\ quota' = [quota EXCEPT ![loc[p].acct] = loc[p].quota + PlanGB]
  /\ Return(p)
  /\ UNCHANGED <<credit, ledger, clientVars, totalVars, faults>>

\* The owner moves credit by hand; a reseller's top-up credits it the same way.
adjustCredit(p, a, n) ==
  Start(p, [Idle EXCEPT !.op = "adjust", !.pc = "chargeRead", !.acct = a, !.amount = n])

(* ------------------------------ chargeWallet ---------------------------- *)

Purchase(l) == l.op \in {"create", "update", "plan"}

Ref(l) == CASE Purchase(l) -> <<"PURCHASE", l.client>>
            [] l.op \in {"delete", "planBack"} -> <<"REFUND", l.client>>
            [] OTHER -> <<"ADJUST", NoClient>>

\* Mutant of chargeRead: the credit limit is not looked at.
chargeReadFree(p) ==
  /\ At(p, "chargeRead")
  /\ loc' = [loc EXCEPT ![p].pc = "chargeCommit",
                        ![p].next = credit[loc[p].acct] + loc[p].amount]
  /\ UNCHANGED <<accountVars, clientVars, totalVars, faults>>

\* SELECT the balance; a purchase beyond the credit limit throws.
chargeRead(p) ==
  LET l == loc[p]
      next == credit[l.acct] + l.amount IN
  /\ At(p, "chargeRead")
  /\ \/ Purchase(l) /\ next < -CreditLimit /\ Return(p)
     \/ /\ Purchase(l) => next >= -CreditLimit
        /\ loc' = [loc EXCEPT ![p].pc = "chargeCommit", ![p].next = next]
  /\ UNCHANGED <<accountVars, clientVars, totalVars, faults>>

\* Mutant of chargeCommit: purchases are summed with their sign.
chargeCommitSigned(p) ==
  LET l == loc[p] IN
  /\ At(p, "chargeCommit")
  /\ Post(l.acct, l.next, l.amount, Ref(l))
  /\ charged' = [c \in Clients |->
                   IF c = l.client /\ Purchase(l) THEN charged[c] + l.amount ELSE charged[c]]
  /\ UNCHANGED refunded
  /\ IF l.op = "plan" THEN Goto(p, "planWrite") ELSE Return(p)
  /\ UNCHANGED <<quota, clientVars, faults>>

\* UPDATE credit to the computed balance, the ledger row, COMMIT.
chargeCommit(p) ==
  LET l == loc[p] IN
  /\ At(p, "chargeCommit")
  /\ Post(l.acct, l.next, l.amount, Ref(l))
  /\ charged' = [c \in Clients |->
                   IF c = l.client /\ Purchase(l) THEN charged[c] - l.amount ELSE charged[c]]
  /\ refunded' = [c \in Clients |->
                    IF c = l.client /\ l.op = "delete" THEN refunded[c] + l.amount ELSE refunded[c]]
  /\ IF l.op = "plan" THEN Goto(p, "planWrite") ELSE Return(p)
  /\ UNCHANGED <<quota, clientVars, faults>>

(* -------------------------------- faults -------------------------------- *)

\* The process dies, or a database call throws: an open transaction is rolled
\* back; only a failed top-up of the quota is answered, by putting the money
\* back.
Fault(p) ==
  /\ ~At(p, "idle") /\ faults < MaxFaults
  /\ faults' = faults + 1
  /\ \/ Return(p)
     \/ /\ At(p, "planWrite")
        /\ loc' = [loc EXCEPT ![p].op = "planBack", ![p].pc = "chargeRead", ![p].amount = PlanPrice]
  /\ UNCHANGED <<accountVars, clientVars, totalVars>>

Next == \E p \in Procs :
  \/ \E c \in Clients :
       \/ \E n \in Sizes : createClient(p, c, n) \/ updateClient(p, c, n)
       \/ \E g \in Gross : deleteClientWithRefund(p, c, g)
  \/ \E a \in Accounts :
       \/ buyResellerPlan(p, a)
       \/ \E n \in Adjustments : adjustCredit(p, a, n)
  \/ assertQuota(p) \/ assertAffordable(p) \/ clientWrite(p) \/ clientDelete(p)
  \/ planWrite(p) \/ chargeRead(p) \/ chargeCommit(p)
  \/ Fault(p)

Spec == Init /\ [][Next]_vars

(* -------------------- properties, handlers interleaved ------------------ *)

(***************************************************************************)
(* Deleting a client never pays back more than the client cost: the cap of *)
(* quoteRefund survives the time between the quote, the deletion and the   *)
(* wallet move, whatever runs meanwhile.                                   *)
(***************************************************************************)
RefundNeverExceedsCharge == \A c \in Clients : refunded[c] <= charged[c]

(***************************************************************************)
(* No purchase leaves a balance below the credit limit the owner grants    *)
(* (chargeWallet checks the very balance it writes).                       *)
(***************************************************************************)
PurchaseWithinCreditLimit ==
  \A a \in Accounts : \A i \in 1 .. Len(ledger[a]) :
    ledger[a][i].ref[1] = "PURCHASE" => ledger[a][i].balanceAfter >= -CreditLimit

(* ---------------- properties, one handler at a time or claimed ----------- *)

(***************************************************************************)
(* Admin.trafficQuota is the "Total traffic quota in bytes this admin may  *)
(* allocate" (schema.prisma): the limits of its clients fit in it.         *)
(***************************************************************************)
QuotaNotExceeded ==
  \A a \in Accounts :
    MapThenSumSet(LAMBDA c : limit[c], {c \in Live : Owner[c] = a}) <= quota[a]

(***************************************************************************)
(* buyResellerPlan "Charges the wallet, then tops up the reseller's own    *)
(* quota": without faults and with no purchase under way, every plan paid  *)
(* for is in the quota.                                                    *)
(***************************************************************************)
PlanToppedUp ==
  \A a \in Accounts :
    (faults = 0 /\ \A p \in Procs : loc[p].acct # a) =>
      quota[a] = OpeningQuota + PlanGB * Cardinality(RowsFor(a, <<"PURCHASE", NoClient>>))

(***************************************************************************)
(* Without faults and with no handler on it, a client that exists has cost *)
(* its traffic at the going price at least (createClient, updateClient).   *)
(***************************************************************************)
LiveClientIsPaidFor ==
  \A c \in Clients :
    (faults = 0 /\ c \in Live /\ \A p \in Procs : loc[p].client # c) =>
      charged[c] >= limit[c] * PerGB

(***************************************************************************)
(* Handlers one after the other: the ledger explains every balance, quotas *)
(* hold, plans paid for are in the quota and live clients are paid for.    *)
(***************************************************************************)
BooksInOrder == RowsAddUp /\ QuotaNotExceeded /\ PlanToppedUp /\ LiveClientIsPaidFor
=============================================================================
