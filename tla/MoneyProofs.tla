---------------------------- MODULE MoneyProofs -----------------------------
(***************************************************************************)
(* Money that comes in: the customer ledger adds up, for any number of     *)
(* concurrent requests, and a card-to-card deposit pays at most one        *)
(* invoice, for any number of transfers, invoices and reports.             *)
(***************************************************************************)
EXTENDS CustomerWallet, CardDeposits, SequenceTheorems, FiniteSetTheorems, TLAPS

(* ---------------------------- customer ledger --------------------------- *)

(***************************************************************************)
(* A committed movement computed from the current balance keeps the ledger *)
(* typed and in balance: Append leaves the old rows where they are, and    *)
(* the new row starts from the balance column, which is the last row's.    *)
(***************************************************************************)
LEMMA PostKeepsLedger ==
  ASSUME LedgerTypeOK, CreditIsLastBalance, RowsAddUp,
         NEW a \in Accounts, NEW n \in Int, NEW ref \in Refs,
         Post(a, credit[a] + n, n, ref)
  PROVE  LedgerTypeOK' /\ CreditIsLastBalance' /\ RowsAddUp'
<1> DEFINE row == [ref |-> ref, amount |-> n, balanceAfter |-> credit[a] + n]
           rows == ledger[a]
<1>0. credit[a] \in Int
  BY DEF LedgerTypeOK
<1>1. row \in Rows /\ rows \in Seq(Rows) /\ Len(rows) \in Nat
  <2>1. row \in Rows
    BY <1>0 DEF Rows
  <2>2. rows \in Seq(Rows)
    BY DEF LedgerTypeOK
  <2>3. Len(rows) \in Nat
    BY <2>2
  <2> QED BY <2>1, <2>2, <2>3
<1>2. ledger' = [ledger EXCEPT ![a] = Append(rows, row)] /\ credit' = [credit EXCEPT ![a] = credit[a] + n]
  BY DEF Post
<1>3. LedgerTypeOK'
  BY <1>1, <1>2 DEF LedgerTypeOK
<1>4. /\ Append(rows, row) \in Seq(Rows)
      /\ Len(Append(rows, row)) = Len(rows) + 1
      /\ Append(rows, row)[Len(rows) + 1] = row
      /\ \A i \in 1 .. Len(rows) : Append(rows, row)[i] = rows[i]
  BY <1>1
<1>5. CreditIsLastBalance'
  <2> SUFFICES ASSUME NEW b \in Accounts
               PROVE  credit'[b] = BalanceBefore(ledger'[b], Len(ledger'[b]) + 1)
    BY DEF CreditIsLastBalance
  <2>1. CASE b = a
    <3>1. ledger'[b] = Append(rows, row) /\ credit'[b] = credit[a] + n
      BY <2>1, <1>2 DEF LedgerTypeOK
    <3>2. (Len(rows) + 1) + 1 # 1 /\ ((Len(rows) + 1) + 1) - 1 = Len(rows) + 1
      BY <1>1
    <3>3. row.balanceAfter = credit[a] + n
      OBVIOUS
    <3> QED BY <3>1, <3>2, <3>3, <1>4 DEF BalanceBefore
  <2>2. CASE b # a
    BY <2>2, <1>2 DEF LedgerTypeOK, CreditIsLastBalance
  <2> QED BY <2>1, <2>2
<1>6. RowsAddUp'
  <2> SUFFICES ASSUME NEW b \in Accounts, NEW i \in 1 .. Len(ledger'[b])
               PROVE  ledger'[b][i].balanceAfter = BalanceBefore(ledger'[b], i) + ledger'[b][i].amount
    BY DEF RowsAddUp
  <2>1. CASE b # a
    BY <2>1, <1>2 DEF LedgerTypeOK, RowsAddUp
  <2>2. CASE b = a /\ i = Len(rows) + 1
    <3>1. ledger'[b] = Append(rows, row)
      BY <2>2, <1>2 DEF LedgerTypeOK
    <3>2. credit[a] = BalanceBefore(rows, Len(rows) + 1)
      BY DEF CreditIsLastBalance
    <3>3. BalanceBefore(Append(rows, row), Len(rows) + 1) = BalanceBefore(rows, Len(rows) + 1)
      BY <1>1, <1>4 DEF BalanceBefore
    <3>4. row.balanceAfter = credit[a] + n /\ row.amount = n
      OBVIOUS
    <3> QED BY <2>2, <3>1, <3>2, <3>3, <3>4, <1>4
  <2>3. CASE b = a /\ i # Len(rows) + 1
    <3>1. ledger'[b] = Append(rows, row) /\ i \in 1 .. Len(rows)
      BY <2>3, <1>1, <1>2, <1>4 DEF LedgerTypeOK
    <3>2. rows[i].balanceAfter = BalanceBefore(rows, i) + rows[i].amount
      BY <3>1 DEF RowsAddUp
    <3>3. BalanceBefore(Append(rows, row), i) = BalanceBefore(rows, i)
      BY <3>1, <1>1, <1>4 DEF BalanceBefore
    <3> QED BY <3>1, <3>2, <3>3, <1>4
  <2> QED BY <2>1, <2>2, <2>3
<1> QED BY <1>3, <1>5, <1>6

(***************************************************************************)
(* What every step preserves: types, and the ledger in balance.            *)
(***************************************************************************)
LedgerInv == TypeOK /\ CreditIsLastBalance /\ RowsAddUp

(***************************************************************************)
(* Whatever requests credit and debit customers concurrently, the balance  *)
(* column is the last row's balance and every row continues from the one   *)
(* before: creditCustomerWallet and debitCustomerWallet move the balance   *)
(* with an atomic increment and write the row in the same transaction.     *)
(***************************************************************************)
THEOREM CustomerLedgerAddsUp == Spec => [](TypeOK /\ CreditIsLastBalance /\ RowsAddUp)
<1>1. Init => LedgerInv
  BY DEF Init, LedgerInit, LedgerInv, TypeOK, LedgerTypeOK, CreditIsLastBalance, RowsAddUp, BalanceBefore
<1>2. LedgerInv /\ [Next]_walletVars => LedgerInv'
  <2> SUFFICES ASSUME LedgerInv, [Next]_walletVars PROVE LedgerInv'
    OBVIOUS
  <2> USE DEF LedgerInv
  <2>1. ASSUME NEW p \in Procs, NEW c \in Accounts, NEW n \in Amounts, NEW ref \in Refs,
               creditCustomerWallet(p, c, n, ref)
        PROVE  LedgerInv'
    <3>1. n \in Int
      BY AmountsPositive
    <3>2. LedgerTypeOK' /\ CreditIsLastBalance' /\ RowsAddUp'
      BY <2>1, <3>1, PostKeepsLedger DEF creditCustomerWallet, TypeOK
    <3> QED BY <2>1, <3>2 DEF creditCustomerWallet, TypeOK
  <2>2. ASSUME NEW p \in Procs, NEW c \in Accounts, NEW n \in Amounts, NEW ref \in Refs,
               debitCustomerWalletCheck(p, c, n, ref)
        PROVE  LedgerInv'
    <3>1. [acct |-> c, amount |-> n, ref |-> ref] \in Debits
      BY DEF Debits
    <3>2. TypeOK'
      BY <2>2, <3>1 DEF debitCustomerWalletCheck, TypeOK, LedgerTypeOK
    <3> QED BY <2>2, <3>2 DEF debitCustomerWalletCheck, CreditIsLastBalance, RowsAddUp
  <2>3. ASSUME NEW p \in Procs, debitCustomerWalletTake(p)
        PROVE  LedgerInv'
    <3>1. PICK d \in debit[p] : /\ Post(d.acct, credit[d.acct] - d.amount, -d.amount, d.ref)
                                /\ debit' = [debit EXCEPT ![p] = {}]
      BY <2>3 DEF debitCustomerWalletTake
    <3>2. d.acct \in Accounts /\ d.amount \in Int /\ d.ref \in Refs
      <4>1. debit[p] \in SUBSET Debits
        BY DEF TypeOK
      <4>2. d \in Debits
        BY <4>1
      <4> QED BY <4>2, AmountsPositive DEF Debits
    <3>3. credit[d.acct] \in Int
      BY <3>2 DEF TypeOK, LedgerTypeOK
    <3>4. Post(d.acct, credit[d.acct] + (-d.amount), -d.amount, d.ref)
      BY <3>1, <3>2, <3>3 DEF Post
    <3>5. LedgerTypeOK' /\ CreditIsLastBalance' /\ RowsAddUp'
      BY <3>2, <3>4, PostKeepsLedger DEF TypeOK
    <3> QED BY <3>1, <3>5 DEF TypeOK
  <2>4. ASSUME NEW p \in Procs, debitRollback(p)
        PROVE  LedgerInv'
    BY <2>4 DEF debitRollback, TypeOK, LedgerTypeOK, CreditIsLastBalance, RowsAddUp
  <2>5. CASE UNCHANGED walletVars
    BY <2>5 DEF walletVars, TypeOK, LedgerTypeOK, CreditIsLastBalance, RowsAddUp
  <2> QED BY <2>1, <2>2, <2>3, <2>4, <2>5 DEF Next
<1> QED BY <1>1, <1>2, PTL DEF Spec, LedgerInv

(* ----------------------------- card deposits ---------------------------- *)

Modes == {"MANUAL", "SMS", "BANK"}
ImportOps == {"ingest", "rematch", "bank"}
InvoiceRows ==
  [status : {"NONE", "PENDING", "REVIEW", "CONFIRMED", "REJECTED", "EXPIRED"}, amount : 0..(Base + Spread),
   ref : Transfers \union {None}, born : 0..MaxSlot, priced : {None, "MANUAL", "unique", "reopened"}]
TransferRows == [amount : 0..(Base + Spread), ref : BOOLEAN, sent : Nat]
WorkOps == {"idle", "ingest", "rematch", "bank", "sync", "rotate", "mode", "MANUAL", "unique"}
WorkPcs == {"idle", "match", "confirm", "reread", "write", "ensure", "create", "rematch"}
WorkIds == Invoices \union {None} \union Modes \union (1..MaxToken)
Works ==
  [op : WorkOps, pc : WorkPcs, id : WorkIds, next : Seq(Cards), todo : SUBSET Nat, cur : CardRows]

\* The MATCHED deposits of ds name CONFIRMED payments of inv.
MatchesPaid(ds, inv) ==
  \A n \in DOMAIN ds : ds[n].status = "MATCHED" => ds[n].pay \in Invoices /\ inv[ds[n].pay].status = "CONFIRMED"
CardRowOK(r, inv) == r \in CardRows /\ MatchesPaid(r.deposits, inv)

\* What a request w may rely on between two awaits.
WorkOK(w, inv) ==
  /\ w \in Works /\ MatchesPaid(w.next, inv) /\ CardRowOK(w.cur, inv)
  /\ w.pc \in {"match", "confirm"} => w.todo # {} /\ w.todo \subseteq DOMAIN w.next /\ w.op \in ImportOps
  /\ w.pc = "confirm" => w.id \in Invoices /\ inv[w.id].status # "NONE"
  /\ w.pc = "create" => /\ w.id \in Invoices /\ inv[w.id].status = "NONE" /\ w.op \in {"MANUAL", "unique"}
                        /\ \E a \in Base..(Base + Spread) : w.todo = {a}
  /\ w.pc \in {"reread", "write"} => \/ w.op \in ImportOps \union {"sync"}
                                     \/ w.op = "rotate" /\ w.id \in 1..MaxToken
                                     \/ w.op = "mode" /\ w.id \in Modes

CardTypes ==
  /\ invoice \in [Invoices -> InvoiceRows] /\ importer \in [Importers -> Works] /\ transfer \in [Transfers -> TransferRows]
  /\ settled \in [Transfers -> SUBSET Invoices] /\ slot \in 0..MaxSlot /\ touches \in Nat /\ hook \subseteq 1..MaxToken

\* However requests overlap: no row, cached or carried, calls an unconfirmed payment
\* matched, and no two requests price one invoice.
MatchInv ==
  /\ CardTypes /\ CardRowOK(cardRow, invoice)
  /\ cardCache = <<>> \/ \E r \in CardRows : CardRowOK(r, invoice) /\ cardCache = <<r>>
  /\ \A t \in Importers : WorkOK(importer[t], invoice)
  /\ \A t, u \in Importers : t # u /\ importer[t].pc = "create" /\ importer[u].pc = "create" => importer[t].id # importer[u].id

\* Invoices only move on: CONFIRMED is final, and none is taken back to NONE.
MovesOn(inv, next) ==
  \A i \in Invoices : /\ inv[i].status = "CONFIRMED" => next[i].status = "CONFIRMED"
                      /\ inv[i].status # "NONE" => next[i].status # "NONE"

\* A number set has a least element.
LEMMA FirstIs ==
  ASSUME NEW S, S \subseteq Nat, S # {}
  PROVE  First(S) \in S /\ \A m \in S : First(S) <= m
<1>1. IsWellFoundedOn(OpToRel(<, Nat), Nat)
  BY NatLessThanWellFounded
<1>2. PICK n \in S : \A m \in S : ~(<<m, n>> \in OpToRel(<, Nat))
  BY <1>1, WFMin
<1>3. \A m \in S : ~(m < n)
  BY <1>2 DEF OpToRel
<1>4. \A m \in S : n <= m
  BY <1>3
<1> QED BY <1>4 DEF First

\* A sum in a pair: the first of a singleton is its element.
LEMMA FirstOfOne ==
  ASSUME NEW a \in Nat PROVE First({a}) = a
  BY DEF First

\* The resting request, and the empty row.
LEMMA QuietIs ==
  ASSUME NEW inv
  PROVE  /\ NoCard \in CardRows /\ NoCard.deposits = <<>> /\ NoCard.token = 0 /\ CardRowOK(NoCard, inv)
         /\ Quiet \in Works /\ Quiet.pc = "idle" /\ Quiet.op = "idle" /\ Quiet.next = <<>> /\ Quiet.todo = {} /\ Quiet.cur = NoCard
         /\ WorkOK(Quiet, inv)
<1>1. <<>> \in Seq(Cards) /\ DOMAIN <<>> = {}
  OBVIOUS
<1>2. NoCard \in CardRows /\ NoCard.deposits = <<>> /\ NoCard.token = 0
  BY <1>1, CardAssumption DEF NoCard, CardRows
<1>3. CardRowOK(NoCard, inv)
  BY <1>1, <1>2 DEF CardRowOK, MatchesPaid
<1>4. Quiet \in Works /\ Quiet.pc = "idle" /\ Quiet.op = "idle" /\ Quiet.next = <<>> /\ Quiet.todo = {} /\ Quiet.cur = NoCard
  BY <1>1, <1>2 DEF Quiet, Works, WorkOps, WorkPcs, WorkIds
<1>5. WorkOK(Quiet, inv)
  BY <1>1, <1>3, <1>4 DEF WorkOK, MatchesPaid
<1> QED BY <1>2, <1>3, <1>4, <1>5

\* A request as ImportBecome makes it.
NewWork(w, op, pc, id, ds, todo) ==
  w \in Works /\ w.op = op /\ w.pc = pc /\ w.id = id /\ w.next = ds /\ w.todo = todo /\ w.cur = NoCard

\* ImportBecome starts such a request.
LEMMA BecomeIs ==
  ASSUME NEW t, NEW op \in WorkOps, NEW pc \in WorkPcs, NEW id \in WorkIds, NEW ds \in Seq(Cards), NEW todo \in SUBSET Nat, ImportBecome(t, op, pc, id, ds, todo)
  PROVE  \E w : importer' = [importer EXCEPT ![t] = w] /\ NewWork(w, op, pc, id, ds, todo)
<1> DEFINE w == [Quiet EXCEPT !.op = op, !.pc = pc, !.id = id, !.next = ds, !.todo = todo]
<1>1. importer' = [importer EXCEPT ![t] = w]
  BY DEF ImportBecome
<1>2. w.op = op /\ w.pc = pc /\ w.id = id /\ w.next = ds /\ w.todo = todo /\ w.cur = NoCard
  BY DEF Quiet
<1>3. w \in Works
  BY QuietIs DEF Works
<1> HIDE DEF w
<1>4. NewWork(w, op, pc, id, ds, todo)
  BY <1>2, <1>3 DEF NewWork
<1> QED BY <1>1, <1>4

\* When invoices move on, what was matched stays paid, and a request that prices
\* no invoice that was opened keeps its ground.
LEMMA StillPaid ==
  ASSUME NEW inv, NEW now, MovesOn(inv, now)
  PROVE  /\ \A r : CardRowOK(r, inv) => CardRowOK(r, now)
         /\ \A w : WorkOK(w, inv) /\ (w.pc = "create" => now[w.id].status = "NONE") => WorkOK(w, now)
<1>1. \A ds : MatchesPaid(ds, inv) => MatchesPaid(ds, now)
  BY DEF MatchesPaid, MovesOn
<1>2. \A r : CardRowOK(r, inv) => CardRowOK(r, now)
  BY <1>1 DEF CardRowOK
<1>3. ASSUME NEW w, WorkOK(w, inv), w.pc = "create" => now[w.id].status = "NONE" PROVE WorkOK(w, now)
  BY <1>1, <1>2, <1>3 DEF WorkOK, MovesOn
<1> QED BY <1>2, <1>3

\* A step of request t to w, on invoices that move on.
LEMMA WorkStep ==
  ASSUME MatchInv, NEW t \in Importers, NEW w, importer' = [importer EXCEPT ![t] = w], CardTypes',
         MovesOn(invoice, invoice'), WorkOK(w, invoice'), CardRowOK(cardRow', invoice'),
         cardCache' = <<>> \/ \E r \in CardRows : CardRowOK(r, invoice') /\ cardCache' = <<r>>,
         \A u \in Importers \ {t} : importer[u].pc = "create" => invoice'[importer[u].id].status = "NONE",
         w.pc = "create" => \A u \in Importers : importer[u].id # w.id
  PROVE  MatchInv'
<1>1. \A u \in Importers : importer'[u] = IF u = t THEN w ELSE importer[u]
  BY DEF MatchInv, CardTypes
<1>2. ASSUME NEW u \in Importers PROVE WorkOK(importer'[u], invoice')
  <2>1. CASE u = t
    BY <1>1, <2>1
  <2>2. CASE u # t
    BY <1>1, <2>2, StillPaid DEF MatchInv
  <2> QED BY <2>1, <2>2
<1>3. \A x, u \in Importers : x # u /\ importer'[x].pc = "create" /\ importer'[u].pc = "create" => importer'[x].id # importer'[u].id
  BY <1>1 DEF MatchInv
<1> QED BY <1>2, <1>3 DEF MatchInv

\* A step that leaves the requests alone.
LEMMA DeskStep ==
  ASSUME MatchInv, importer' = importer, CardTypes', MovesOn(invoice, invoice'), CardRowOK(cardRow', invoice'),
         cardCache' = <<>> \/ cardCache' = cardCache,
         \A i \in Invoices : invoice[i].status = "NONE" => invoice'[i].status = "NONE"
  PROVE  MatchInv'
<1>1. \A u \in Importers : WorkOK(importer'[u], invoice')
  BY StillPaid DEF MatchInv, WorkOK
<1>2. cardCache' = <<>> \/ \E r \in CardRows : CardRowOK(r, invoice') /\ cardCache' = <<r>>
  BY StillPaid DEF MatchInv
<1> QED BY <1>1, <1>2 DEF MatchInv

\* What every case below starts from; the row as it is read is a sound one.
LEMMA CardFacts ==
  ASSUME MatchInv
  PROVE  /\ CardRowOK(cardRow, invoice) /\ CardRowOK(cardAutoSettings, invoice) /\ cardAutoSettings \in CardRows
         /\ CardTypes /\ MovesOn(invoice, invoice)
         /\ \A t \in Importers : importer[t] \in Works /\ WorkOK(importer[t], invoice)
<1>1. CardRowOK(cardAutoSettings, invoice)
  <2>1. CASE cardCache = <<>>
    BY <2>1 DEF MatchInv, cardAutoSettings, getSetting
  <2>2. CASE cardCache # <<>>
    <3>1. PICK r \in CardRows : CardRowOK(r, invoice) /\ cardCache = <<r>>
      BY <2>2 DEF MatchInv
    <3>2. cardAutoSettings = r
      BY <3>1, <2>2 DEF cardAutoSettings, getSetting
    <3> QED BY <3>1, <3>2
  <2> QED BY <2>1, <2>2
<1>2. MovesOn(invoice, invoice)
  BY DEF MovesOn
<1> QED BY <1>1, <1>2 DEF MatchInv, CardRowOK, CardTypes

\* The request y is w with the result status for the card at hand.
Resulted(w, y, status) ==
  /\ y \in Works /\ y.op = w.op /\ y.op \in ImportOps /\ y.id = w.id /\ y.cur = w.cur
  /\ y.pc = (IF y.todo = {} THEN "reread" ELSE "match") /\ y.todo = w.todo \ {First(w.todo)}
  /\ First(w.todo) \in w.todo /\ w.todo \subseteq DOMAIN w.next
  /\ Len(y.next) = Len(w.next) /\ DOMAIN y.next = DOMAIN w.next
  /\ \A n \in DOMAIN w.next :
       /\ y.next[n].from = w.next[n].from /\ y.next[n].ref = w.next[n].ref /\ y.next[n].amount = w.next[n].amount
       /\ y.next[n].status = (IF n = First(w.todo) THEN status ELSE w.next[n].status)

\* Cards with a result written into one of them.
LEMMA ResultIs ==
  ASSUME NEW t, NEW w \in Works, importer[t] = w, NEW inv, WorkOK(w, inv), w.pc \in {"match", "confirm"},
         NEW status \in {"MATCHED", "UNMATCHED", "AMBIGUOUS"}, NEW pay \in Invoices \union {None}, Result(t, status, pay),
         NEW now, MovesOn(inv, now), status = "MATCHED" => pay \in Invoices /\ now[pay].status = "CONFIRMED"
  PROVE  \E y : importer' = [importer EXCEPT ![t] = y] /\ WorkOK(y, now) /\ Resulted(w, y, status)
<1> DEFINE k == First(w.todo)
           rest == w.todo \ {k}
           done == [w.next[k] EXCEPT !.status = status, !.pay = pay]
           ds == [w.next EXCEPT ![k] = done]
           x == [w EXCEPT !.next = ds, !.todo = rest, !.pc = IF rest = {} THEN "reread" ELSE "match"]
<1>1. importer' = [importer EXCEPT ![t] = x]
  BY DEF Result
<1>2. w.todo # {} /\ w.todo \subseteq DOMAIN w.next /\ w.op \in ImportOps /\ w.todo \subseteq Nat /\ w.next \in Seq(Cards)
      /\ MatchesPaid(w.next, inv) /\ CardRowOK(w.cur, inv)
  BY DEF WorkOK, Works
<1>3. k \in w.todo /\ k \in DOMAIN w.next
  BY <1>2, FirstIs
<1>4. w.next[k] \in Cards
  BY <1>2, <1>3
<1>5. done \in Cards /\ done.from = w.next[k].from /\ done.ref = w.next[k].ref /\ done.amount = w.next[k].amount
      /\ done.status = status /\ done.pay = pay
  BY <1>4 DEF Cards
<1> HIDE DEF done
<1>6. ds \in Seq(Cards) /\ Len(ds) = Len(w.next) /\ DOMAIN ds = DOMAIN w.next
      /\ \A n \in DOMAIN w.next : ds[n] = IF n = k THEN done ELSE w.next[n]
  BY <1>2, <1>3, <1>5
<1> HIDE DEF ds, k
<1>7. MatchesPaid(ds, now)
  BY <1>2, <1>5, <1>6 DEF MatchesPaid, MovesOn
<1>8. rest \subseteq w.todo /\ rest \subseteq Nat
  BY <1>2
<1> HIDE DEF rest
<1>9. x \in Works /\ x.op = w.op /\ x.id = w.id /\ x.cur = w.cur /\ x.next = ds /\ x.todo = rest
      /\ x.pc = IF rest = {} THEN "reread" ELSE "match"
  BY <1>6, <1>8 DEF Works, WorkPcs
<1> HIDE DEF x
<1>10. CardRowOK(x.cur, now)
  BY <1>2, <1>9, StillPaid
<1>11. WorkOK(x, now)
  BY <1>2, <1>6, <1>7, <1>8, <1>9, <1>10 DEF WorkOK
<1>12. rest = w.todo \ {k}
  BY DEF rest
<1>13. \A n \in DOMAIN w.next :
         /\ x.next[n].from = w.next[n].from /\ x.next[n].ref = w.next[n].ref /\ x.next[n].amount = w.next[n].amount
         /\ x.next[n].status = (IF n = k THEN status ELSE w.next[n].status)
  BY <1>5, <1>6, <1>9
<1> USE DEF k
<1>14. Resulted(w, x, status)
  BY <1>2, <1>3, <1>6, <1>9, <1>12, <1>13 DEF Resulted
<1> QED BY <1>1, <1>11, <1>14

\* The 5 s pass, or a slot does.
LEMMA ExpireStep ==
  ASSUME MatchInv, NEW s, cacheExpires(s) PROVE MatchInv'
<1>1. slot' \in 0..MaxSlot /\ cardCache' = <<>> /\ UNCHANGED <<importer, deskVars>>
      /\ cardRow' = [cardRow EXCEPT !.synced = cardRow.synced /\ s = slot]
  BY CardFacts DEF cacheExpires, CardTypes
<1>2. UNCHANGED <<importer, hook, invoice, transfer, settled, touches>>
  BY <1>1 DEF deskVars
<1>3. CardRowOK(cardRow', invoice')
  <2>1. cardRow' \in CardRows /\ cardRow'.deposits = cardRow.deposits
    BY <1>1, CardFacts DEF CardRowOK, CardRows
  <2> QED BY <2>1, <1>2, CardFacts DEF CardRowOK
<1>4. CardTypes'
  BY <1>1, <1>2, CardFacts DEF CardTypes
<1> QED BY <1>1, <1>2, <1>3, <1>4, CardFacts, DeskStep

\* The last write of a bank poll is ahead.
LEMMA SyncedIs ==
  ASSUME NEW inv
  PROVE  /\ Synced \in Works /\ Synced.op = "sync" /\ Synced.pc = "reread" /\ Synced.next = <<>> /\ Synced.todo = {}
         /\ WorkOK(Synced, inv)
<1>1. Synced \in Works /\ Synced.op = "sync" /\ Synced.pc = "reread" /\ Synced.next = Quiet.next /\ Synced.todo = Quiet.todo /\ Synced.cur = Quiet.cur
  BY QuietIs DEF Synced, Works, WorkOps, WorkPcs
<1>2. WorkOK(Synced, inv)
  BY <1>1, QuietIs DEF WorkOK, MatchesPaid
<1> QED BY <1>1, <1>2, QuietIs

\* The ring with a new deposit in front.
LEMMA RingIs ==
  ASSUME NEW ds \in Seq(Cards), NEW dep \in Cards, dep.status = "UNMATCHED", NEW inv, MatchesPaid(ds, inv)
  PROVE  LET next == Ring(<<dep>> \o ds)
         IN next \in Seq(Cards) /\ next # <<>> /\ 1 \in DOMAIN next /\ MatchesPaid(next, inv) /\ next[1] = dep
<1> DEFINE all == <<dep>> \o ds
           n == IF Len(all) < RING THEN Len(all) ELSE RING
           next == Ring(all)
<1>1. all \in Seq(Cards) /\ Len(all) = Len(ds) + 1 /\ all[1] = dep /\ \A k \in 2..Len(all) : all[k] = ds[k - 1]
  OBVIOUS
<1>2. n \in 1..Len(all)
  BY <1>1, CardAssumption
<1>3. next = SubSeq(all, 1, n)
  BY DEF Ring
<1> HIDE DEF all, n
<1>4. next \in Seq(Cards) /\ Len(next) = n /\ \A k \in 1..n : next[k] = all[k]
  <2>1. SubSeq(all, 1, n) \in Seq(Cards) /\ Len(SubSeq(all, 1, n)) = n - 1 + 1 /\ \A k \in 1..(n - 1 + 1) : SubSeq(all, 1, n)[k] = all[1 + k - 1]
    BY <1>1, <1>2, SubSeqProperties
  <2> QED BY <2>1, <1>2, <1>3
<1> HIDE DEF next
<1>5. MatchesPaid(next, inv)
  <2> SUFFICES ASSUME NEW k \in DOMAIN next, next[k].status = "MATCHED"
               PROVE  next[k].pay \in Invoices /\ inv[next[k].pay].status = "CONFIRMED"
    BY DEF MatchesPaid
  <2>1. k \in 1..n /\ next[k] = all[k]
    BY <1>2, <1>4
  <2>2. k # 1
    BY <2>1, <1>1
  <2>3. k - 1 \in DOMAIN ds /\ next[k] = ds[k - 1]
    BY <2>1, <2>2, <1>1, <1>2
  <2> QED BY <2>3 DEF MatchesPaid
<1> QED BY <1>1, <1>2, <1>4, <1>5 DEF all, next

\* A report comes in, by itself or in a bank statement.
LEMMA IngestStep ==
  ASSUME MatchInv, NEW t \in Importers, NEW d \in Transfers, NEW op \in {"ingest", "bank"}, NEW after \in {Quiet, Synced},
         Ingest(t, d, op, after)
  PROVE  MatchInv'
<1> DEFINE s == cardAutoSettings
           dep == [from |-> d, amount |-> transfer[d].amount, ref |-> transfer[d].ref, at |-> slot, status |-> "UNMATCHED", pay |-> None]
<1>1. CardRowOK(s, invoice) /\ s \in CardRows /\ CardTypes
  BY CardFacts
<1> HIDE DEF s
<1>2. /\ cardCache' = <<s>> /\ transfer' = [transfer EXCEPT ![d].sent = transfer[d].sent + 1]
      /\ UNCHANGED <<cardRow, slot, hook, invoice, settled, touches>>
      /\ \/ importer' = [importer EXCEPT ![t] = after]
         \/ ImportBecome(t, op, "match", None, Ring(<<dep>> \o s.deposits), {1})
  BY DEF Ingest, s
<1>3. dep \in Cards /\ dep.status = "UNMATCHED"
  <2>1. transfer[d] \in TransferRows /\ slot \in 0..MaxSlot
    BY <1>1 DEF CardTypes
  <2> QED BY <2>1 DEF Cards, TransferRows
<1> HIDE DEF dep
<1>4. PICK w : w \in Works /\ WorkOK(w, invoice') /\ importer' = [importer EXCEPT ![t] = w] /\ w.pc # "create"
  <2>1. CASE importer' = [importer EXCEPT ![t] = after]
    BY <2>1, QuietIs, SyncedIs
  <2>2. CASE ImportBecome(t, op, "match", None, Ring(<<dep>> \o s.deposits), {1})
    <3> DEFINE next == Ring(<<dep>> \o s.deposits)
    <3>1. next \in Seq(Cards) /\ 1 \in DOMAIN next /\ MatchesPaid(next, invoice)
      <4>1. s.deposits \in Seq(Cards) /\ MatchesPaid(s.deposits, invoice)
        BY <1>1 DEF CardRowOK, CardRows
      <4> QED BY <4>1, <1>3, RingIs
    <3> HIDE DEF next
    <3>2. PICK w : importer' = [importer EXCEPT ![t] = w] /\ NewWork(w, op, "match", None, next, {1})
      <4>1. op \in WorkOps /\ "match" \in WorkPcs /\ None \in WorkIds /\ {1} \in SUBSET Nat
        BY DEF WorkOps, WorkPcs, WorkIds
      <4>2. ImportBecome(t, op, "match", None, next, {1})
        BY <2>2 DEF next
      <4> QED BY <4>1, <4>2, <3>1, BecomeIs
    <3>3. WorkOK(w, invoice')
      BY <1>2, <3>1, <3>2, QuietIs DEF WorkOK, ImportOps, NewWork
    <3> QED BY <3>2, <3>3 DEF NewWork
  <2> QED BY <1>2, <2>1, <2>2
<1>5. transfer' \in [Transfers -> TransferRows]
  <2>1. [transfer[d] EXCEPT !.sent = transfer[d].sent + 1] \in TransferRows
    BY <1>1 DEF CardTypes, TransferRows
  <2> QED BY <1>1, <1>2, <2>1 DEF CardTypes
<1>6. CardTypes'
  BY <1>1, <1>2, <1>4, <1>5 DEF CardTypes
<1>7. MovesOn(invoice, invoice') /\ CardRowOK(cardRow', invoice') /\ CardRowOK(s, invoice')
  BY <1>1, <1>2, CardFacts
<1>8. \A u \in Importers : importer[u].pc = "create" => invoice'[importer[u].id].status = "NONE"
  BY <1>2, CardFacts DEF WorkOK
<1> QED BY <1>1, <1>2, <1>4, <1>6, <1>7, <1>8, WorkStep

\* A step that only moves request t to w, and perhaps reads the row into the cache.
LEMMA OwnStep ==
  ASSUME MatchInv, NEW t \in Importers, NEW w, w \in Works, importer' = [importer EXCEPT ![t] = w], WorkOK(w, invoice),
         cardCache' = cardCache \/ cardCache' = <<cardAutoSettings>>, hook' \subseteq 1..MaxToken, touches' \in Nat,
         UNCHANGED <<cardRow, slot, invoice, transfer, settled>>,
         w.pc = "create" => \A u \in Importers : importer[u].id # w.id
  PROVE  MatchInv'
<1>1. CardTypes'
  BY CardFacts DEF CardTypes
<1>2. MovesOn(invoice, invoice') /\ WorkOK(w, invoice') /\ CardRowOK(cardRow', invoice')
  BY CardFacts
<1>3. cardCache' = <<>> \/ \E r \in CardRows : CardRowOK(r, invoice') /\ cardCache' = <<r>>
  BY CardFacts DEF MatchInv
<1>4. \A u \in Importers \ {t} : importer[u].pc = "create" => invoice'[importer[u].id].status = "NONE"
  BY CardFacts DEF WorkOK
<1> QED BY <1>1, <1>2, <1>3, <1>4, WorkStep

\* The bank poll fails or shows nothing.
LEMMA SyncStep ==
  ASSUME MatchInv, NEW t \in Importers, syncBankDeposits(t) PROVE MatchInv'
<1>1. CASE importer' = [importer EXCEPT ![t] = Synced] /\ UNCHANGED <<cardRow, cardCache, slot, deskVars>>
  <2>1. UNCHANGED <<cardRow, cardCache, slot, hook, invoice, transfer, settled, touches>>
    BY <1>1 DEF deskVars
  <2>2. hook' \subseteq 1..MaxToken /\ touches' \in Nat
    BY <2>1, CardFacts DEF CardTypes
  <2> QED BY <1>1, <2>1, <2>2, SyncedIs, OwnStep
<1>2. CASE \E d \in Transfers : Ingest(t, d, "bank", Synced)
  BY <1>2, IngestStep
<1> QED BY <1>1, <1>2 DEF syncBankDeposits

\* The open deposits of a row.
LEMMA OpenDepositsAre ==
  ASSUME NEW ds \in Seq(Cards)
  PROVE  OpenDeposits(ds) \subseteq DOMAIN ds /\ OpenDeposits(ds) \subseteq Nat
         /\ \A n \in OpenDeposits(ds) : ds[n].status # "MATCHED"
  BY DEF OpenDeposits

\* What rematchDeposits makes of request t.
LEMMA RematchIs ==
  ASSUME MatchInv, NEW t, Rematch(t)
  PROVE  /\ cardCache' = <<cardAutoSettings>>
         /\ \/ importer' = [importer EXCEPT ![t] = Quiet]
            \/ \E w : /\ importer' = [importer EXCEPT ![t] = w]
                      /\ NewWork(w, "rematch", "match", None, cardAutoSettings.deposits, OpenDeposits(cardAutoSettings.deposits))
                      /\ w.todo # {}
<1> DEFINE s == cardAutoSettings
<1>1. s \in CardRows /\ s.deposits \in Seq(Cards)
  BY CardFacts DEF CardRows
<1>2. OpenDeposits(s.deposits) \in SUBSET Nat
  BY <1>1, OpenDepositsAre
<1>3. cardCache' = <<s>>
  BY DEF Rematch
<1>4. CASE OpenDeposits(s.deposits) = {}
  BY <1>3, <1>4 DEF Rematch
<1>5. CASE OpenDeposits(s.deposits) # {}
  <2>1. ImportBecome(t, "rematch", "match", None, s.deposits, OpenDeposits(s.deposits))
    BY <1>5 DEF Rematch
  <2>2. "rematch" \in WorkOps /\ "match" \in WorkPcs /\ None \in WorkIds
    BY DEF WorkOps, WorkPcs, WorkIds
  <2> HIDE DEF s
  <2>3. PICK w : importer' = [importer EXCEPT ![t] = w] /\ NewWork(w, "rematch", "match", None, s.deposits, OpenDeposits(s.deposits))
    BY <1>1, <1>2, <2>1, <2>2, BecomeIs
  <2>4. w.todo # {}
    BY <2>3, <1>5 DEF NewWork
  <2> QED BY <1>3, <2>3, <2>4 DEF s
<1> QED BY <1>4, <1>5

\* rematchDeposits looks at the open deposits again.
LEMMA RematchStep ==
  ASSUME MatchInv, NEW t \in Importers, rematchDeposits(t) PROVE MatchInv'
<1> DEFINE s == cardAutoSettings
<1>1. UNCHANGED <<cardRow, slot, hook, invoice, transfer, settled, touches>> /\ Rematch(t)
  BY DEF rematchDeposits, deskVars
<1>2. hook' \subseteq 1..MaxToken /\ touches' \in Nat
  BY <1>1, CardFacts DEF CardTypes
<1>3. PICK w : importer' = [importer EXCEPT ![t] = w] /\ w \in Works /\ WorkOK(w, invoice) /\ w.pc # "create"
  <2>1. ASSUME NEW w, NewWork(w, "rematch", "match", None, s.deposits, OpenDeposits(s.deposits)), w.todo # {} PROVE WorkOK(w, invoice)
    <3>1. s.deposits \in Seq(Cards) /\ MatchesPaid(s.deposits, invoice)
      BY CardFacts DEF CardRowOK, CardRows
    <3>2. OpenDeposits(s.deposits) \subseteq DOMAIN s.deposits
      BY <3>1, OpenDepositsAre
    <3> HIDE DEF s
    <3> QED BY <2>1, <3>1, <3>2, QuietIs DEF NewWork, WorkOK, ImportOps
  <2> HIDE DEF s
  <2>2. \/ importer' = [importer EXCEPT ![t] = Quiet]
        \/ \E w : importer' = [importer EXCEPT ![t] = w] /\ NewWork(w, "rematch", "match", None, s.deposits, OpenDeposits(s.deposits)) /\ w.todo # {}
    BY <1>1, RematchIs DEF s
  <2>3. \A w : NewWork(w, "rematch", "match", None, s.deposits, OpenDeposits(s.deposits)) => w \in Works /\ w.pc = "match"
    BY DEF NewWork
  <2> QED BY <2>1, <2>2, <2>3, QuietIs
<1>4. cardCache' = <<cardAutoSettings>>
  BY <1>1, RematchIs
<1> QED BY <1>1, <1>2, <1>3, <1>4, OwnStep

\* A deposit is matched, or not.
LEMMA MatchStep ==
  ASSUME MatchInv, NEW t \in Importers, matchDeposit(t) PROVE MatchInv'
<1> DEFINE c == Candidates(importer[t].next[First(importer[t].todo)])
<1>1. UNCHANGED <<cardRow, cardCache, slot, hook, invoice, transfer, settled, touches>> /\ importer[t].pc = "match"
  BY DEF matchDeposit, deskVars, ImportAt
<1>2. hook' \subseteq 1..MaxToken /\ touches' \in Nat
  BY <1>1, CardFacts DEF CardTypes
<1>3. importer[t] \in Works /\ WorkOK(importer[t], invoice) /\ MovesOn(invoice, invoice)
  BY CardFacts
<1>4. c \subseteq OpenInvoices
  BY DEF Candidates
<1>5. ASSUME NEW status \in {"UNMATCHED", "AMBIGUOUS"}, NEW pay \in Invoices \union {None}, Result(t, status, pay) PROVE MatchInv'
  <2>1. PICK y : importer' = [importer EXCEPT ![t] = y] /\ WorkOK(y, invoice) /\ Resulted(importer[t], y, status)
    BY <1>1, <1>3, <1>5, ResultIs
  <2>2. y \in Works /\ y.pc # "create"
    BY <2>1 DEF Resulted
  <2> QED BY <1>1, <1>2, <2>1, <2>2, OwnStep
<1>6. ASSUME NEW i \in c, importer' = [importer EXCEPT ![t].pc = "confirm", ![t].id = i] PROVE MatchInv'
  <2> DEFINE w == [importer[t] EXCEPT !.pc = "confirm", !.id = i]
  <2>1. i \in Invoices /\ invoice[i].status # "NONE"
    BY <1>4, <1>6 DEF OpenInvoices
  <2>2. importer' = [importer EXCEPT ![t] = w]
    BY <1>6, CardFacts DEF CardTypes
  <2>3. w \in Works /\ w.op = importer[t].op /\ w.pc = "confirm" /\ w.id = i /\ w.next = importer[t].next /\ w.todo = importer[t].todo /\ w.cur = importer[t].cur
    BY <1>3, <2>1 DEF Works, WorkPcs, WorkIds
  <2> HIDE DEF w
  <2>4. WorkOK(w, invoice)
    BY <1>1, <1>3, <2>1, <2>3 DEF WorkOK
  <2> QED BY <1>1, <1>2, <2>2, <2>3, <2>4, OwnStep
<1>7. OpenInvoices \subseteq Invoices
  BY DEF OpenInvoices
<1> QED BY <1>4, <1>5, <1>6, <1>7 DEF matchDeposit

\* The status of one invoice moves.
LEMMA StatusMoves ==
  ASSUME MatchInv, NEW i \in Invoices, NEW row \in InvoiceRows, invoice' = [invoice EXCEPT ![i] = row],
         invoice[i].status = "CONFIRMED" => row.status = "CONFIRMED", row.status # "NONE"
  PROVE  invoice' \in [Invoices -> InvoiceRows] /\ MovesOn(invoice, invoice') /\ invoice'[i] = row
         /\ \A j \in Invoices \ {i} : invoice'[j] = invoice[j]
<1>1. invoice \in [Invoices -> InvoiceRows]
  BY CardFacts DEF CardTypes
<1> QED BY <1>1 DEF MovesOn

\* confirmPayment for the deposit at hand.
LEMMA ConfirmStep ==
  ASSUME MatchInv, NEW t \in Importers, autoConfirm(t) PROVE MatchInv'
<1> DEFINE i == importer[t].id
           d == importer[t].next[First(importer[t].todo)].from
<1>1. UNCHANGED <<cardRow, cardCache, slot, hook, transfer, touches>> /\ importer[t].pc = "confirm"
  BY DEF autoConfirm, ImportAt
<1>2. importer[t] \in Works /\ WorkOK(importer[t], invoice) /\ MovesOn(invoice, invoice) /\ CardTypes
  BY CardFacts
<1>3. i \in Invoices /\ invoice[i].status # "NONE" /\ invoice[i] \in InvoiceRows
  BY <1>1, <1>2 DEF WorkOK, CardTypes
<1>4. d \in Transfers
  <2>1. importer[t].todo # {} /\ importer[t].todo \subseteq DOMAIN importer[t].next /\ importer[t].todo \subseteq Nat /\ importer[t].next \in Seq(Cards)
    BY <1>1, <1>2 DEF WorkOK, Works
  <2>2. First(importer[t].todo) \in DOMAIN importer[t].next
    BY <2>1, FirstIs
  <2>3. importer[t].next[First(importer[t].todo)] \in Cards
    BY <2>1, <2>2
  <2> QED BY <2>3 DEF Cards
<1>5. ASSUME NEW status \in {"MATCHED", "UNMATCHED"}, Result(t, status, i), MovesOn(invoice, invoice'),
             invoice' \in [Invoices -> InvoiceRows], settled' \in [Transfers -> SUBSET Invoices],
             status = "MATCHED" => invoice'[i].status = "CONFIRMED",
             \A j \in Invoices : invoice[j].status = "NONE" => invoice'[j].status = "NONE"
      PROVE  MatchInv'
  <2> HIDE DEF i
  <2>1. PICK y : importer' = [importer EXCEPT ![t] = y] /\ WorkOK(y, invoice') /\ Resulted(importer[t], y, status)
    BY <1>1, <1>2, <1>3, <1>5, ResultIs
  <2>2. y \in Works /\ y.pc # "create"
    BY <2>1 DEF Resulted
  <2>3. CardTypes'
    BY <1>1, <1>2, <1>5, <2>1, <2>2 DEF CardTypes
  <2>4. CardRowOK(cardRow', invoice') /\ (cardCache' = <<>> \/ \E r \in CardRows : CardRowOK(r, invoice') /\ cardCache' = <<r>>)
    BY <1>1, <1>5, StillPaid DEF MatchInv
  <2>5. \A u \in Importers : importer[u].pc = "create" => invoice'[importer[u].id].status = "NONE"
    BY <1>5, CardFacts DEF WorkOK
  <2> QED BY <1>5, <2>1, <2>2, <2>3, <2>4, <2>5, WorkStep
<1>6. CASE UNCHANGED <<invoice, settled>>
  <2>1. invoice' = invoice /\ settled' = settled
    BY <1>6
  <2>2. \/ invoice[i].status = "EXPIRED" /\ Result(t, "UNMATCHED", i)
        \/ invoice[i].status = "CONFIRMED" /\ Result(t, "MATCHED", i)
        \/ invoice[i].status # "CONFIRMED" /\ invoice' = [invoice EXCEPT ![i].status = "CONFIRMED"]
    BY DEF autoConfirm
  <2>3. ~(invoice[i].status # "CONFIRMED" /\ invoice' = [invoice EXCEPT ![i].status = "CONFIRMED"])
    BY <1>2, <1>3, <2>1 DEF CardTypes, InvoiceRows
  <2>4. MovesOn(invoice, invoice') /\ invoice' \in [Invoices -> InvoiceRows] /\ settled' \in [Transfers -> SUBSET Invoices]
        /\ \A j \in Invoices : invoice[j].status = "NONE" => invoice'[j].status = "NONE"
    BY <1>2, <2>1 DEF CardTypes
  <2> HIDE DEF i
  <2> QED BY <1>5, <2>1, <2>2, <2>3, <2>4
<1>7. CASE /\ invoice' = [invoice EXCEPT ![i].status = "CONFIRMED"] /\ settled' = [settled EXCEPT ![d] = settled[d] \union {i}]
           /\ Result(t, "MATCHED", i) \/ Result(t, "UNMATCHED", i)
  <2> DEFINE row == [invoice[i] EXCEPT !.status = "CONFIRMED"]
  <2>1. row \in InvoiceRows /\ row.status = "CONFIRMED" /\ invoice' = [invoice EXCEPT ![i] = row]
    BY <1>3, <1>7 DEF InvoiceRows
  <2> HIDE DEF row, i, d
  <2>2. invoice' \in [Invoices -> InvoiceRows] /\ MovesOn(invoice, invoice') /\ invoice'[i] = row /\ \A j \in Invoices \ {i} : invoice'[j] = invoice[j]
    BY <1>3, <2>1, StatusMoves
  <2>3. settled' \in [Transfers -> SUBSET Invoices]
    BY <1>2, <1>3, <1>4, <1>7 DEF CardTypes
  <2> QED BY <1>3, <1>5, <1>7, <2>1, <2>2, <2>3
<1> QED BY <1>6, <1>7 DEF autoConfirm

\* saveCardAuto reads the row again.
LEMMA ReadStep ==
  ASSUME MatchInv, NEW t \in Importers, saveCardAutoRead(t) PROVE MatchInv'
<1> DEFINE s == cardAutoSettings
           w == [importer[t] EXCEPT !.cur = s, !.pc = "write"]
<1>1. UNCHANGED <<cardRow, slot, hook, invoice, transfer, settled, touches>> /\ importer[t].pc = "reread" /\ cardCache' = <<s>>
  BY DEF saveCardAutoRead, deskVars, ImportAt
<1>2. importer[t] \in Works /\ WorkOK(importer[t], invoice) /\ CardTypes /\ CardRowOK(s, invoice) /\ s \in CardRows
  BY CardFacts
<1>3. importer' = [importer EXCEPT ![t] = w]
  BY <1>2 DEF saveCardAutoRead, CardTypes
<1> HIDE DEF s
<1>4. w \in Works /\ w.op = importer[t].op /\ w.pc = "write" /\ w.id = importer[t].id /\ w.next = importer[t].next /\ w.todo = importer[t].todo /\ w.cur = s
  BY <1>2 DEF Works, WorkPcs
<1> HIDE DEF w
<1>5. WorkOK(w, invoice)
  BY <1>1, <1>2, <1>4 DEF WorkOK
<1>6. hook' \subseteq 1..MaxToken /\ touches' \in Nat
  BY <1>1, <1>2 DEF CardTypes
<1> QED BY <1>1, <1>3, <1>4, <1>5, <1>6, OwnStep DEF s

\* What saveCardAuto writes for the request w, and where it goes on.
SavedRow(w) ==
  CASE w.op \in {"ingest", "rematch", "bank"} -> [w.cur EXCEPT !.deposits = w.next]
    [] w.op = "rotate" -> [w.cur EXCEPT !.token = w.id]
    [] w.op = "sync" -> [w.cur EXCEPT !.synced = TRUE]
    [] OTHER -> [w.cur EXCEPT !.mode = w.id]
EnsureWork == [Quiet EXCEPT !.op = "rotate", !.pc = "ensure"]

\* saveCardAuto writes the row as a whole.
LEMMA SaveIs ==
  ASSUME NEW t, saveCardAuto(t)
  PROVE  /\ importer[t].pc = "write" /\ cardRow' = SavedRow(importer[t]) /\ cardCache' = <<cardRow'>>
         /\ UNCHANGED <<slot, hook, invoice, transfer, settled, touches>>
         /\ \E y \in {Quiet, Synced, EnsureWork} : importer' = [importer EXCEPT ![t] = y]
<1>1. importer[t].pc = "write" /\ UNCHANGED <<slot, hook, invoice, transfer, settled, touches>>
  BY DEF saveCardAuto, deskVars, ImportAt
<1>2. cardRow' = SavedRow(importer[t]) /\ cardCache' = <<cardRow'>>
  BY DEF saveCardAuto, setCard, setSettingCache, SavedRow
<1>3. \E y \in {Quiet, Synced, EnsureWork} : importer' = [importer EXCEPT ![t] = y]
  <2> DEFINE w == importer[t]
             y == CASE w.op = "mode" /\ w.id = "SMS" -> [Quiet EXCEPT !.op = "rotate", !.pc = "ensure"]
                    [] w.op = "bank" -> Synced
                    [] OTHER -> Quiet
  <2>1. importer' = [importer EXCEPT ![t] = y]
    BY DEF saveCardAuto
  <2>2. y \in {Quiet, Synced, EnsureWork}
    BY DEF EnsureWork
  <2> HIDE DEF y
  <2> QED BY <2>1, <2>2
<1> QED BY <1>1, <1>2, <1>3

\* A saved row is the one read with one field changed.
LEMMA SavedIs ==
  ASSUME NEW w, NEW inv, WorkOK(w, inv), w.pc = "write"
  PROVE  /\ SavedRow(w) \in CardRows /\ CardRowOK(SavedRow(w), inv)
         /\ SavedRow(w).deposits = (IF w.op \in ImportOps THEN w.next ELSE w.cur.deposits)
         /\ SavedRow(w).token = (IF w.op = "rotate" THEN w.id ELSE w.cur.token)
<1>1. w \in Works /\ MatchesPaid(w.next, inv) /\ CardRowOK(w.cur, inv) /\ w.cur \in CardRows /\ w.next \in Seq(Cards)
  BY DEF WorkOK, CardRowOK, Works
<1>2. CASE w.op \in ImportOps
  <2>1. SavedRow(w) = [w.cur EXCEPT !.deposits = w.next]
    BY <1>2 DEF SavedRow, ImportOps
  <2>2. SavedRow(w) \in CardRows /\ SavedRow(w).deposits = w.next /\ SavedRow(w).token = w.cur.token
    BY <1>1, <2>1 DEF CardRows
  <2> QED BY <1>1, <1>2, <2>2 DEF CardRowOK, ImportOps
<1>3. CASE w.op = "sync"
  <2>1. SavedRow(w) = [w.cur EXCEPT !.synced = TRUE]
    BY <1>3 DEF SavedRow
  <2>2. SavedRow(w) \in CardRows /\ SavedRow(w).deposits = w.cur.deposits /\ SavedRow(w).token = w.cur.token
    BY <1>1, <2>1 DEF CardRows
  <2> QED BY <1>1, <1>3, <2>2 DEF CardRowOK, ImportOps
<1>4. CASE w.op = "rotate" /\ w.id \in 1..MaxToken
  <2>1. SavedRow(w) = [w.cur EXCEPT !.token = w.id]
    BY <1>4 DEF SavedRow
  <2>2. SavedRow(w) \in CardRows /\ SavedRow(w).deposits = w.cur.deposits /\ SavedRow(w).token = w.id
    BY <1>1, <1>4, <2>1 DEF CardRows
  <2> QED BY <1>1, <1>4, <2>2 DEF CardRowOK, ImportOps
<1>5. CASE w.op = "mode" /\ w.id \in Modes
  <2>1. SavedRow(w) = [w.cur EXCEPT !.mode = w.id]
    BY <1>5 DEF SavedRow
  <2>2. SavedRow(w) \in CardRows /\ SavedRow(w).deposits = w.cur.deposits /\ SavedRow(w).token = w.cur.token
    BY <1>1, <1>5, <2>1 DEF CardRows, Modes
  <2> QED BY <1>1, <1>5, <2>2 DEF CardRowOK, ImportOps
<1> QED BY <1>2, <1>3, <1>4, <1>5 DEF WorkOK

\* ensureSmsToken is ahead.
LEMMA EnsureIs ==
  ASSUME NEW inv
  PROVE  /\ EnsureWork \in Works /\ EnsureWork.op = "rotate" /\ EnsureWork.pc = "ensure" /\ EnsureWork.next = <<>>
         /\ EnsureWork.todo = {} /\ WorkOK(EnsureWork, inv)
<1>1. EnsureWork \in Works /\ EnsureWork.op = "rotate" /\ EnsureWork.pc = "ensure" /\ EnsureWork.next = Quiet.next
      /\ EnsureWork.todo = Quiet.todo /\ EnsureWork.cur = Quiet.cur
  BY QuietIs DEF EnsureWork, Works, WorkOps, WorkPcs
<1>2. WorkOK(EnsureWork, inv)
  BY <1>1, QuietIs DEF WorkOK, MatchesPaid
<1> QED BY <1>1, <1>2, QuietIs

\* saveCardAuto writes.
LEMMA SaveStep ==
  ASSUME MatchInv, NEW t \in Importers, saveCardAuto(t) PROVE MatchInv'
<1>1. /\ importer[t].pc = "write" /\ cardRow' = SavedRow(importer[t]) /\ cardCache' = <<cardRow'>>
      /\ UNCHANGED <<slot, hook, invoice, transfer, settled, touches>>
  BY SaveIs
<1>2. PICK y \in {Quiet, Synced, EnsureWork} : importer' = [importer EXCEPT ![t] = y]
  BY SaveIs
<1>3. y \in Works /\ WorkOK(y, invoice') /\ y.pc # "create"
  BY QuietIs, SyncedIs, EnsureIs
<1>4. cardRow' \in CardRows /\ CardRowOK(cardRow', invoice')
  BY <1>1, CardFacts, SavedIs
<1>5. CardTypes'
  BY <1>1, <1>2, <1>3, CardFacts DEF CardTypes
<1>6. MovesOn(invoice, invoice') /\ \A u \in Importers : importer[u].pc = "create" => invoice'[importer[u].id].status = "NONE"
  BY <1>1, CardFacts DEF WorkOK
<1> QED BY <1>1, <1>2, <1>3, <1>4, <1>5, <1>6, WorkStep

\* PUT /store/extras begins.
LEMMA ModeStep ==
  ASSUME MatchInv, NEW t \in Importers, NEW m \in Modes, putExtras(t, m) PROVE MatchInv'
<1>1. /\ ImportBecome(t, "mode", "reread", m, <<>>, {}) /\ touches' = touches + 1
      /\ UNCHANGED <<cardRow, cardCache, slot, hook, invoice, transfer, settled>>
  BY DEF putExtras, Touch
<1>2. "mode" \in WorkOps /\ "reread" \in WorkPcs /\ m \in WorkIds /\ <<>> \in Seq(Cards) /\ {} \in SUBSET Nat
  BY DEF WorkOps, WorkPcs, WorkIds
<1>3. PICK w : importer' = [importer EXCEPT ![t] = w] /\ NewWork(w, "mode", "reread", m, <<>>, {})
  BY <1>1, <1>2, BecomeIs
<1>4. w \in Works /\ w.pc = "reread" /\ WorkOK(w, invoice)
  BY <1>3, QuietIs DEF NewWork, WorkOK, MatchesPaid
<1>5. hook' \subseteq 1..MaxToken /\ touches' \in Nat
  BY <1>1, CardFacts DEF CardTypes
<1> QED BY <1>1, <1>3, <1>4, <1>5, OwnStep

\* What rotateSmsToken does, with the row read as s.
LEMMA RotateIs ==
  ASSUME NEW t, rotateSmsToken(t)
  PROVE  LET s == cardAutoSettings
         IN /\ cardCache' = <<s>> /\ UNCHANGED <<cardRow, slot, invoice, transfer, settled, touches>>
            /\ \/ /\ ImportAt(t, "ensure") /\ s.token # 0
                  /\ hook' = hook \union {s.token} /\ importer' = [importer EXCEPT ![t] = Quiet]
               \/ \E k \in 1..MaxToken :
                    /\ k \notin hook /\ hook' = (hook \ {s.token}) \union {k}
                    /\ \E w : importer' = [importer EXCEPT ![t] = w] /\ NewWork(w, "rotate", "reread", k, <<>>, {})
<1> DEFINE s == cardAutoSettings
<1>1. cardCache' = <<s>> /\ UNCHANGED <<cardRow, slot, invoice, transfer, settled, touches>>
  BY DEF rotateSmsToken
<1>2. CASE ImportAt(t, "ensure") /\ s.token # 0
  BY <1>1, <1>2 DEF rotateSmsToken
<1>3. CASE ~(ImportAt(t, "ensure") /\ s.token # 0)
  <2>1. PICK k \in 1..MaxToken : k \notin hook /\ hook' = (hook \ {s.token}) \union {k} /\ ImportBecome(t, "rotate", "reread", k, <<>>, {})
    BY <1>3 DEF rotateSmsToken
  <2>2. "rotate" \in WorkOps /\ "reread" \in WorkPcs /\ k \in WorkIds /\ <<>> \in Seq(Cards) /\ {} \in SUBSET Nat
    BY DEF WorkOps, WorkPcs, WorkIds
  <2>3. \E w : importer' = [importer EXCEPT ![t] = w] /\ NewWork(w, "rotate", "reread", k, <<>>, {})
    BY <2>1, <2>2, BecomeIs
  <2> HIDE DEF s
  <2> QED BY <1>1, <2>1, <2>3 DEF s
<1> QED BY <1>2, <1>3

\* The SMS token is rotated, or found in place.
LEMMA RotateStep ==
  ASSUME MatchInv, NEW t \in Importers, rotateSmsToken(t) PROVE MatchInv'
<1> DEFINE s == cardAutoSettings
<1>1. /\ cardCache' = <<s>> /\ UNCHANGED <<cardRow, slot, invoice, transfer, settled, touches>>
      /\ \/ s.token # 0 /\ hook' = hook \union {s.token} /\ importer' = [importer EXCEPT ![t] = Quiet]
         \/ \E k \in 1..MaxToken :
              /\ hook' = (hook \ {s.token}) \union {k}
              /\ \E w : importer' = [importer EXCEPT ![t] = w] /\ NewWork(w, "rotate", "reread", k, <<>>, {})
  BY RotateIs
<1>2. s.token \in 0..MaxToken /\ touches' \in Nat /\ hook \subseteq 1..MaxToken
  BY <1>1, CardFacts DEF CardRows, CardTypes
<1>3. CASE s.token # 0 /\ hook' = hook \union {s.token} /\ importer' = [importer EXCEPT ![t] = Quiet]
  <2>1. s.token \in 1..MaxToken
    BY <1>2, <1>3, CardAssumption
  <2>2. hook' \subseteq 1..MaxToken
    BY <1>2, <1>3, <2>1
  <2> QED BY <1>1, <1>2, <1>3, <2>2, QuietIs, OwnStep
<1>4. ASSUME NEW k \in 1..MaxToken, hook' = (hook \ {s.token}) \union {k},
             NEW w, importer' = [importer EXCEPT ![t] = w], NewWork(w, "rotate", "reread", k, <<>>, {})
      PROVE  MatchInv'
  <2>1. hook' \subseteq 1..MaxToken
    BY <1>2, <1>4
  <2>2. w \in Works /\ w.pc = "reread" /\ WorkOK(w, invoice)
    BY <1>4, QuietIs DEF NewWork, WorkOK, MatchesPaid
  <2> QED BY <1>1, <1>2, <1>4, <2>1, <2>2, OwnStep
<1> QED BY <1>1, <1>3, <1>4

\* The amounts uniqueCardAmount looks through.
AmountAway(c) == \A i \in OpenInvoices : ~Near(invoice[i].amount, c)
FreeOffsets == {n \in 0..Spread : n % (Tol + 1) = 0 /\ AmountAway(Base + n)}

\* uniqueCardAmount: the base, or a free amount.
LEMMA UniqueIs ==
  /\ uniqueCardAmount \in Base..(Base + Spread) /\ uniqueCardAmount \in Nat
  /\ \/ uniqueCardAmount = Base /\ (cardAutoSettings.mode = "MANUAL" \/ FreeOffsets = {})
     \/ \E n \in FreeOffsets : uniqueCardAmount = Base + n
<1>1. Base \in Nat /\ Spread \in Nat
  BY CardAssumption
<1>2. uniqueCardAmount = IF cardAutoSettings.mode = "MANUAL" \/ FreeOffsets = {} THEN Base
                         ELSE Base + First(FreeOffsets)
  BY DEF uniqueCardAmount, FreeOffsets, AmountAway, First
<1>3. FreeOffsets \subseteq 0..Spread /\ FreeOffsets \subseteq Nat
  BY DEF FreeOffsets
<1>4. CASE cardAutoSettings.mode = "MANUAL" \/ FreeOffsets = {}
  BY <1>1, <1>2, <1>4
<1>5. CASE ~(cardAutoSettings.mode = "MANUAL" \/ FreeOffsets = {})
  <2>1. First(FreeOffsets) \in FreeOffsets
    BY <1>3, <1>5, FirstIs
  <2>2. First(FreeOffsets) \in 0..Spread /\ uniqueCardAmount = Base + First(FreeOffsets)
    BY <1>2, <1>3, <1>5, <2>1
  <2> QED BY <1>1, <2>1, <2>2
<1> QED BY <1>4, <1>5

\* What priceInvoice makes of request t.
LEMMA PriceIs ==
  ASSUME NEW t, NEW i \in Invoices, priceInvoice(t, i)
  PROVE  /\ invoice[i].status = "NONE" /\ (\A u \in Importers : importer[u].id # i) /\ cardCache' = <<cardAutoSettings>>
         /\ UNCHANGED <<cardRow, slot, hook, invoice, transfer, settled, touches>>
         /\ \E w : /\ importer' = [importer EXCEPT ![t] = w] /\ w \in Works /\ w.pc = "create" /\ w.id = i
                   /\ w.op = (IF cardAutoSettings.mode = "MANUAL" THEN "MANUAL" ELSE "unique")
                   /\ w.next = <<>> /\ w.todo = {uniqueCardAmount} /\ w.cur = NoCard
<1> DEFINE op == IF cardAutoSettings.mode = "MANUAL" THEN "MANUAL" ELSE "unique"
           w == [Quiet EXCEPT !.op = op, !.pc = "create", !.id = i, !.todo = {uniqueCardAmount}]
<1>1. /\ invoice[i].status = "NONE" /\ (\A u \in Importers : importer[u].id # i) /\ cardCache' = <<cardAutoSettings>>
      /\ UNCHANGED <<cardRow, slot, hook, invoice, transfer, settled, touches>>
      /\ importer' = [importer EXCEPT ![t] = w]
  BY DEF priceInvoice, deskVars
<1>2. op \in {"MANUAL", "unique"}
  OBVIOUS
<1> HIDE DEF op
<1>3. w \in Works
  BY <1>2, QuietIs, UniqueIs DEF Works, WorkOps, WorkPcs, WorkIds
<1>4. w.pc = "create" /\ w.id = i /\ w.op = op /\ w.next = <<>> /\ w.todo = {uniqueCardAmount} /\ w.cur = NoCard
  BY DEF Quiet
<1> HIDE DEF w
<1> QED BY <1>1, <1>3, <1>4 DEF op

\* createOrder prices an invoice.
LEMMA PriceStep ==
  ASSUME MatchInv, NEW t \in Importers, NEW i \in Invoices, priceInvoice(t, i) PROVE MatchInv'
<1>1. /\ invoice[i].status = "NONE" /\ (\A u \in Importers : importer[u].id # i) /\ cardCache' = <<cardAutoSettings>>
      /\ UNCHANGED <<cardRow, slot, hook, invoice, transfer, settled, touches>>
  BY PriceIs
<1>2. PICK w : /\ importer' = [importer EXCEPT ![t] = w] /\ w \in Works /\ w.pc = "create" /\ w.id = i
               /\ w.op = (IF cardAutoSettings.mode = "MANUAL" THEN "MANUAL" ELSE "unique")
               /\ w.next = <<>> /\ w.todo = {uniqueCardAmount} /\ w.cur = NoCard
  BY PriceIs
<1>3. WorkOK(w, invoice)
  BY <1>1, <1>2, UniqueIs, QuietIs DEF WorkOK, MatchesPaid
<1>4. hook' \subseteq 1..MaxToken /\ touches' \in Nat
  BY <1>1, CardFacts DEF CardTypes
<1> QED BY <1>1, <1>2, <1>3, <1>4, OwnStep

\* What openInvoice writes.
LEMMA OpenIs ==
  ASSUME MatchInv, NEW t \in Importers, openInvoice(t)
  PROVE  LET v == importer[t]  i == v.id
         IN /\ v.pc = "create" /\ i \in Invoices /\ invoice[i].status = "NONE" /\ UNCHANGED <<cardRow, cardCache, slot, hook, transfer, settled, touches>>
            /\ \E a \in Base..(Base + Spread), row \in InvoiceRows :
                 /\ v.todo = {a} /\ invoice' = [invoice EXCEPT ![i] = row]
                 /\ row.status = "PENDING" /\ row.amount = a /\ row.born = slot /\ row.priced = v.op /\ v.op \in {"MANUAL", "unique"}
            /\ \E w \in Works : /\ importer' = [importer EXCEPT ![t] = w] /\ w.op = v.op /\ w.pc = "rematch" /\ w.id = i
                                /\ w.next = v.next /\ w.todo = v.todo /\ w.cur = v.cur
<1> DEFINE v == importer[t]
           i == v.id
           row == [status |-> "PENDING", amount |-> First(v.todo), ref |-> None, born |-> slot, priced |-> v.op]
           w == [v EXCEPT !.pc = "rematch"]
<1>1. v.pc = "create" /\ UNCHANGED <<cardRow, cardCache, slot, hook, transfer, settled, touches>> /\ invoice' = [invoice EXCEPT ![i] = row]
  BY DEF openInvoice, ImportAt
<1>2. v \in Works /\ WorkOK(v, invoice) /\ CardTypes
  BY CardFacts
<1>3. importer' = [importer EXCEPT ![t] = w]
  BY <1>2 DEF openInvoice, CardTypes
<1> HIDE DEF v
<1>4. i \in Invoices /\ invoice[i].status = "NONE" /\ v.op \in {"MANUAL", "unique"}
  BY <1>1, <1>2 DEF WorkOK
<1>5. PICK a \in Base..(Base + Spread) : v.todo = {a}
  BY <1>1, <1>2 DEF WorkOK
<1>6. First(v.todo) = a /\ a \in 0..(Base + Spread)
  BY <1>5, FirstOfOne, CardAssumption
<1>7. row \in InvoiceRows /\ row.status = "PENDING" /\ row.amount = a /\ row.born = slot /\ row.priced = v.op
  BY <1>2, <1>4, <1>6 DEF InvoiceRows, CardTypes
<1>8. w \in Works /\ w.op = v.op /\ w.pc = "rematch" /\ w.id = i /\ w.next = v.next /\ w.todo = v.todo /\ w.cur = v.cur
  BY <1>2 DEF Works, WorkPcs
<1> HIDE DEF w, row
<1> QED BY <1>1, <1>3, <1>4, <1>5, <1>7, <1>8 DEF v

\* createOrder opens the invoice it priced.
LEMMA OpenStep ==
  ASSUME MatchInv, NEW t \in Importers, openInvoice(t) PROVE MatchInv'
<1> DEFINE v == importer[t]
           i == v.id
<1>1. v.pc = "create" /\ i \in Invoices /\ invoice[i].status = "NONE" /\ UNCHANGED <<cardRow, cardCache, slot, hook, transfer, settled, touches>>
  BY OpenIs
<1>2. PICK row \in InvoiceRows : invoice' = [invoice EXCEPT ![i] = row] /\ row.status = "PENDING"
  BY OpenIs
<1>3. PICK w \in Works : /\ importer' = [importer EXCEPT ![t] = w] /\ w.op = v.op /\ w.pc = "rematch" /\ w.id = i
                         /\ w.next = v.next /\ w.todo = v.todo /\ w.cur = v.cur
  BY OpenIs
<1>4. v \in Works /\ WorkOK(v, invoice) /\ CardTypes
  BY CardFacts
<1>5. \A u \in Importers \ {t} : importer[u].pc = "create" => importer[u].id # i /\ invoice[importer[u].id].status = "NONE" /\ importer[u].id \in Invoices
  BY <1>1, CardFacts DEF MatchInv, WorkOK
<1> HIDE DEF v, i
<1>6. invoice' \in [Invoices -> InvoiceRows] /\ MovesOn(invoice, invoice') /\ \A j \in Invoices \ {i} : invoice'[j] = invoice[j]
  BY <1>1, <1>2, StatusMoves
<1>7. WorkOK(w, invoice')
  <2>1. MatchesPaid(v.next, invoice) /\ CardRowOK(v.cur, invoice)
    BY <1>4 DEF WorkOK
  <2>2. MatchesPaid(v.next, invoice')
    BY <1>6, <2>1 DEF MatchesPaid, MovesOn
  <2>3. CardRowOK(v.cur, invoice')
    BY <1>6, <2>1, StillPaid
  <2> QED BY <1>3, <2>2, <2>3 DEF WorkOK
<1>8. CardTypes'
  BY <1>1, <1>3, <1>4, <1>6 DEF CardTypes
<1>9. CardRowOK(cardRow', invoice') /\ (cardCache' = <<>> \/ \E r \in CardRows : CardRowOK(r, invoice') /\ cardCache' = <<r>>)
  BY <1>1, <1>6, StillPaid DEF MatchInv
<1>10. \A u \in Importers \ {t} : importer[u].pc = "create" => invoice'[importer[u].id].status = "NONE"
  BY <1>5, <1>6
<1> QED BY <1>3, <1>6, <1>7, <1>8, <1>9, <1>10, WorkStep

\* A buyer pays at the bank.
LEMMA TransferStep ==
  ASSUME MatchInv, NEW d \in Transfers, NEW i \in Invoices, bankTransfer(d, i) PROVE MatchInv'
<1>1. UNCHANGED <<cardRow, cardCache, slot, hook, invoice, importer, settled, touches>>
  BY DEF bankTransfer
<1>2. PICK r \in BOOLEAN : transfer' = [transfer EXCEPT ![d] = [amount |-> invoice[i].amount, ref |-> r, sent |-> 0]]
  BY DEF bankTransfer
<1>3. CardTypes'
  <2>1. invoice[i].amount \in 0..(Base + Spread)
    BY CardFacts DEF CardTypes, InvoiceRows
  <2>2. [amount |-> invoice[i].amount, ref |-> r, sent |-> 0] \in TransferRows
    BY <2>1 DEF TransferRows
  <2> QED BY <1>1, <1>2, <2>2, CardFacts DEF CardTypes
<1> QED BY <1>1, <1>3, CardFacts, DeskStep

\* A step of one invoice by hand: row is what becomes of it.
LEMMA HandStep ==
  ASSUME MatchInv, NEW i \in Invoices, NEW row \in InvoiceRows, invoice' = [invoice EXCEPT ![i] = row],
         invoice[i].status \notin {"NONE", "CONFIRMED"}, row.status # "NONE", touches' = touches + 1,
         UNCHANGED <<cardRow, cardCache, slot, hook, importer, transfer, settled>>
  PROVE  MatchInv'
<1>1. invoice' \in [Invoices -> InvoiceRows] /\ MovesOn(invoice, invoice') /\ \A j \in Invoices \ {i} : invoice'[j] = invoice[j]
  BY StatusMoves
<1>2. CardTypes'
  BY <1>1, CardFacts DEF CardTypes
<1>3. CardRowOK(cardRow', invoice')
  BY <1>1, StillPaid, CardFacts
<1> QED BY <1>1, <1>2, <1>3, DeskStep

\* What submitProof writes.
LEMMA ProofIs ==
  ASSUME MatchInv, NEW i \in Invoices, NEW d \in Transfers, submitProof(i, d)
  PROVE  \E row \in InvoiceRows :
           /\ invoice' = [invoice EXCEPT ![i] = row] /\ row.status = "REVIEW" /\ row.amount = invoice[i].amount /\ row.born = invoice[i].born
           /\ row.priced = (IF invoice[i].status = "REJECTED" THEN "reopened" ELSE invoice[i].priced)
           /\ invoice[i].status \in {"REVIEW", "REJECTED"} \/ (invoice[i].status = "PENDING" /\ i \in OpenInvoices)
           /\ touches' = touches + 1 /\ UNCHANGED <<cardRow, cardCache, slot, hook, importer, transfer, settled>>
<1> DEFINE priced == IF invoice[i].status = "REJECTED" THEN "reopened" ELSE invoice[i].priced
           row == [invoice[i] EXCEPT !.status = "REVIEW", !.ref = d, !.priced = priced]
<1>1. invoice[i] \in InvoiceRows /\ invoice \in [Invoices -> InvoiceRows]
  BY CardFacts DEF CardTypes
<1>2. invoice' = [invoice EXCEPT ![i] = row]
  BY <1>1 DEF submitProof
<1>3. priced \in {None, "MANUAL", "unique", "reopened"}
  BY <1>1 DEF InvoiceRows
<1> HIDE DEF priced
<1>4. row \in InvoiceRows /\ row.status = "REVIEW" /\ row.amount = invoice[i].amount /\ row.born = invoice[i].born /\ row.priced = priced
  BY <1>1, <1>3 DEF InvoiceRows
<1> HIDE DEF row
<1>5. /\ invoice[i].status \in {"REVIEW", "REJECTED"} \/ (invoice[i].status = "PENDING" /\ i \in OpenInvoices)
      /\ touches' = touches + 1 /\ UNCHANGED <<cardRow, cardCache, slot, hook, importer, transfer, settled>>
  BY DEF submitProof, Touch
<1> QED BY <1>2, <1>4, <1>5 DEF priced

\* A buyer sends his receipt.
LEMMA ProofStep ==
  ASSUME MatchInv, NEW i \in Invoices, NEW d \in Transfers, submitProof(i, d) PROVE MatchInv'
  BY ProofIs, HandStep

\* What reviewInvoice writes.
LEMMA ReviewIs ==
  ASSUME MatchInv, NEW i \in Invoices, NEW v, reviewInvoice(i, v)
  PROVE  \E row \in InvoiceRows :
           /\ invoice' = [invoice EXCEPT ![i] = row] /\ row.status \in {"CONFIRMED", "REJECTED", "EXPIRED"}
           /\ row.amount = invoice[i].amount /\ row.priced = invoice[i].priced
           /\ invoice[i].status \in {"PENDING", "REVIEW", "REJECTED", "EXPIRED"}
           /\ touches' = touches + 1 /\ UNCHANGED <<cardRow, cardCache, slot, hook, importer, transfer, settled>>
<1> DEFINE row == [invoice[i] EXCEPT !.status = v]
<1>1. invoice[i] \in InvoiceRows /\ invoice \in [Invoices -> InvoiceRows]
  BY CardFacts DEF CardTypes
<1>2. /\ v \in {"CONFIRMED", "REJECTED", "EXPIRED"} /\ invoice[i].status \in {"PENDING", "REVIEW", "REJECTED", "EXPIRED"}
      /\ touches' = touches + 1 /\ UNCHANGED <<cardRow, cardCache, slot, hook, importer, transfer, settled>>
  BY DEF reviewInvoice, Touch
<1>3. invoice' = [invoice EXCEPT ![i] = row]
  BY <1>1 DEF reviewInvoice
<1>4. row \in InvoiceRows /\ row.status = v /\ row.amount = invoice[i].amount /\ row.priced = invoice[i].priced
  BY <1>1, <1>2 DEF InvoiceRows
<1> HIDE DEF row
<1> QED BY <1>2, <1>3, <1>4

\* The seller reviews an invoice, or the worker expires it.
LEMMA ReviewStep ==
  ASSUME MatchInv, NEW i \in Invoices, NEW v, reviewInvoice(i, v) PROVE MatchInv'
  BY ReviewIs, HandStep

\* At the start nothing has been priced, read or matched.
LEMMA MatchInit ==
  ASSUME CardInit PROVE MatchInv
<1>1. /\ cardRow = NoCard /\ cardCache = <<>> /\ hook = {} /\ importer = [t \in Importers |-> Quiet] /\ slot = 0 /\ touches = 0
      /\ invoice = [i \in Invoices |-> [status |-> "NONE", amount |-> 0, ref |-> None, born |-> 0, priced |-> None]]
      /\ transfer = [d \in Transfers |-> [amount |-> 0, ref |-> FALSE, sent |-> 0]] /\ settled = [d \in Transfers |-> {}]
  BY DEF CardInit
<1>2. 0 \in 0..(Base + Spread) /\ 0 \in 0..MaxSlot
  BY CardAssumption
<1>3. [status |-> "NONE", amount |-> 0, ref |-> None, born |-> 0, priced |-> None] \in InvoiceRows
  BY <1>2 DEF InvoiceRows
<1>4. [amount |-> 0, ref |-> FALSE, sent |-> 0] \in TransferRows
  BY <1>2 DEF TransferRows
<1>5. CardTypes
  BY <1>1, <1>2, <1>3, <1>4, QuietIs DEF CardTypes
<1>6. \A t \in Importers : WorkOK(importer[t], invoice) /\ importer[t].pc = "idle"
  BY <1>1, QuietIs
<1>7. CardRowOK(cardRow, invoice)
  BY <1>1, QuietIs
<1> QED BY <1>1, <1>5, <1>6, <1>7 DEF MatchInv

\* Every step keeps it.
LEMMA MatchNext ==
  ASSUME MatchInv, [CardNext]_cardVars PROVE MatchInv'
<1>1. ASSUME NEW s \in 0..MaxSlot, cacheExpires(s) PROVE MatchInv'
  BY <1>1, ExpireStep
<1>2. ASSUME NEW t \in Importers, NEW d \in Transfers, NEW k \in 0..MaxToken, ingestDeposit(t, d, k) PROVE MatchInv'
  <2>1. Ingest(t, d, "ingest", Quiet)
    BY <1>2 DEF ingestDeposit
  <2> QED BY <2>1, IngestStep
<1>3. ASSUME NEW t \in Importers, syncBankDeposits(t) \/ rematchDeposits(t) \/ matchDeposit(t) \/ autoConfirm(t)
                                  \/ saveCardAutoRead(t) \/ saveCardAuto(t) \/ rotateSmsToken(t) \/ openInvoice(t)
      PROVE MatchInv'
  BY <1>3, SyncStep, RematchStep, MatchStep, ConfirmStep, ReadStep, SaveStep, RotateStep, OpenStep
<1>4. ASSUME NEW t \in Importers, NEW m \in {"MANUAL", "SMS", "BANK"}, putExtras(t, m) PROVE MatchInv'
  BY <1>4, ModeStep DEF Modes
<1>5. ASSUME NEW t \in Importers, NEW i \in Invoices, priceInvoice(t, i) PROVE MatchInv'
  BY <1>5, PriceStep
<1>6. ASSUME NEW d \in Transfers, NEW i \in Invoices, bankTransfer(d, i) \/ submitProof(i, d) PROVE MatchInv'
  BY <1>6, TransferStep, ProofStep
<1>7. ASSUME NEW i \in Invoices, NEW v \in {"CONFIRMED", "REJECTED", "EXPIRED"}, reviewInvoice(i, v) PROVE MatchInv'
  BY <1>7, ReviewStep
<1>8. CASE UNCHANGED cardVars
  <2>1. UNCHANGED <<cardRow, cardCache, hook, invoice, importer, slot, transfer, settled, touches>>
    BY <1>8 DEF cardVars
  <2>2. CardTypes'
    BY <2>1, CardFacts DEF CardTypes
  <2> QED BY <2>1, <2>2 DEF MatchInv
<1> QED BY <1>1, <1>2, <1>3, <1>4, <1>5, <1>6, <1>7, <1>8 DEF CardNext

\* The type invariant of the card deposits, and that a deposit shown as MATCHED
\* names a CONFIRMED payment, however imports, rematches, reviews and token
\* rotations overlap and whatever stale row one of them writes back.
THEOREM MatchesAreConfirmed == CardSpec => [](CardTypeOK /\ MatchedIsConfirmed)
<1>1. MatchInv => CardTypeOK /\ MatchedIsConfirmed
  <2> SUFFICES ASSUME MatchInv PROVE CardTypeOK /\ MatchedIsConfirmed
    OBVIOUS
  <2>1. cardCache \in {<<>>} \union {<<r>> : r \in {getSetting(cardRow, cardCache)} \intersect CardRows}
    <3>1. CASE cardCache = <<>>
      BY <3>1
    <3>2. CASE cardCache # <<>>
      <4>1. PICK r \in CardRows : cardCache = <<r>>
        BY <3>2 DEF MatchInv
      <4>2. getSetting(cardRow, cardCache) = r
        BY <4>1 DEF getSetting
      <4> QED BY <4>1, <4>2
    <3> QED BY <3>1, <3>2
  <2>2. CardTypeOK
    BY <2>1, CardFacts DEF CardTypeOK, CardTypes, CardRowOK, Works
  <2>3. MatchedIsConfirmed
    BY CardFacts DEF CardRowOK, MatchesPaid, MatchedIsConfirmed
  <2> QED BY <2>2, <2>3
<1> QED BY <1>1, MatchInit, MatchNext, PTL DEF CardSpec

(* Requests one after the other: what the ring, the tokens and the amounts  *)
(* promise on top.                                                          *)

\* The ring holds every transfer, and there is an amount for every invoice.
CardRoom ==
  /\ IsFiniteSet(Transfers) /\ Cardinality(Transfers) <= RING
  /\ IsFiniteSet(Invoices) /\ Cardinality(Invoices) <= Spread \div (Tol + 1) + 1

\* The invoices inv that are open at sl; a multiple of tolerance + 1 over the base.
OpenAt(inv, sl) == {i \in Invoices : inv[i].status \in {"PENDING", "REVIEW"} /\ inv[i].born + WindowSlots >= sl}
OnGrid(a) == \E k \in Nat : a = Base + k * (Tol + 1)

\* The ring as the request w, if it imports, or else the row shows it.
Importing(w) == w.op \in ImportOps /\ w.pc \in {"match", "confirm", "reread", "write"}
RingNow(w, row) == IF Importing(w) THEN w.next ELSE row.deposits

\* A ring shows each transfer once and as it is, and the ones that paid as MATCHED.
RingOK(ds, tr, st) ==
  /\ \A m, n \in DOMAIN ds : ds[m].from = ds[n].from => m = n
  /\ \A n \in DOMAIN ds : ds[n].ref = tr[ds[n].from].ref /\ ds[n].amount = tr[ds[n].from].amount /\ tr[ds[n].from].amount > 0
  /\ \A d \in Transfers : st[d] # {} => \E n \in DOMAIN ds : ds[n].from = d /\ ds[n].status = "MATCHED"

\* The hook rows: the token of the row, or the one a rotation is about to write.
HookOK(w, row, hk) ==
  hk = IF w.op = "rotate" /\ w.pc \in {"reread", "write"} THEN {w.id} ELSE IF row.token = 0 THEN {} ELSE {row.token}

\* Amounts are on the grid, and those given out as unique are apart.
PriceOK(w, inv, sl) ==
  /\ \A i \in Invoices : inv[i].status # "NONE" => OnGrid(inv[i].amount)
  /\ w.pc = "create" => \A a \in w.todo : OnGrid(a)
  /\ \A i, j \in OpenAt(inv, sl) : i # j /\ inv[i].priced = "unique" /\ inv[j].priced = "unique" => ~Near(inv[i].amount, inv[j].amount)
  /\ w.pc = "create" /\ w.op = "unique" =>
       \A a \in w.todo : \A i \in OpenAt(inv, sl) : inv[i].priced = "unique" => ~Near(inv[i].amount, a) /\ ~Near(a, inv[i].amount)

\* What the one request under way read is still so, and it has only open deposits left.
FreshOK(w, row) ==
  /\ w.pc = "idle" => w = Quiet
  /\ w.pc = "write" => w.cur.deposits = row.deposits /\ w.cur.token = row.token
  /\ w.pc \in {"match", "confirm"} => \A k \in w.todo : w.next[k].status # "MATCHED"

\* w is the request under way, the others rest.
Alone(w) ==
  \/ w = Quiet /\ \A u \in Importers : importer[u] = Quiet
  \/ \E t \in Importers : importer[t] = w /\ \A u \in Importers \ {t} : importer[u] = Quiet

PaysOnce(st) == \A d \in Transfers : st[d] = {} \/ \E i \in Invoices : st[d] = {i}

OneRequest(w) ==
  FreshOK(w, cardRow) /\ RingOK(RingNow(w, cardRow), transfer, settled) /\ HookOK(w, cardRow, hook) /\ PriceOK(w, invoice, slot)

DepositInv ==
  /\ MatchInv /\ (cardCache = <<>> \/ cardCache = <<cardRow>>) /\ PaysOnce(settled)
  /\ \E w : Alone(w) /\ OneRequest(w)

\* A request that acts is the one under way.
LEMMA Mine ==
  ASSUME DepositInv, ~Overlap, NEW t \in Importers, importer[t].pc # "idle" \/ ImportFree(t)
  PROVE  /\ \A u \in Importers \ {t} : importer[u] = Quiet
         /\ OneRequest(importer[t]) /\ (importer[t].pc = "idle" => importer[t] = Quiet)
         /\ cardAutoSettings = cardRow
<1>1. PICK w : Alone(w) /\ OneRequest(w)
  BY DEF DepositInv
<1>2. w.pc = "idle" => w = Quiet
  BY <1>1 DEF OneRequest, FreshOK
<1>3. (w = Quiet /\ \A u \in Importers : importer[u] = Quiet) => importer[t] = w /\ \A u \in Importers \ {t} : importer[u] = Quiet
  OBVIOUS
<1>4. ASSUME NEW x \in Importers, importer[x] = w, \A u \in Importers \ {x} : importer[u] = Quiet
      PROVE  (\A u \in Importers \ {t} : importer[u] = Quiet) /\ importer[t] = w
  <2>1. CASE x = t
    BY <1>4, <2>1
  <2>2. CASE x # t
    <3>1. importer[t] = Quiet /\ importer[t].pc = "idle"
      BY <1>4, <2>2, QuietIs
    <3>2. importer[x].pc = "idle"
      BY <3>1, <1>4 DEF ImportFree, ImportAt
    <3> QED BY <1>2, <1>4, <3>1, <3>2
  <2> QED BY <2>1, <2>2
<1>5. importer[t] = w /\ \A u \in Importers \ {t} : importer[u] = Quiet
  BY <1>1, <1>3, <1>4 DEF Alone
<1>6. cardAutoSettings = cardRow
  BY DEF DepositInv, cardAutoSettings, getSetting
<1> QED BY <1>1, <1>2, <1>5, <1>6

\* The request under way moves to w.
LEMMA AloneStep ==
  ASSUME DepositInv, MatchInv', NEW t \in Importers, \A u \in Importers \ {t} : importer[u] = Quiet,
         NEW w, importer' = [importer EXCEPT ![t] = w], cardCache' = <<>> \/ cardCache' = <<cardRow'>>, PaysOnce(settled'),
         FreshOK(w, cardRow'), RingOK(RingNow(w, cardRow'), transfer', settled'), HookOK(w, cardRow', hook'), PriceOK(w, invoice', slot')
  PROVE  DepositInv'
<1>1. \A u \in Importers : importer'[u] = IF u = t THEN w ELSE importer[u]
  BY DEF DepositInv, MatchInv, CardTypes
<1>2. importer'[t] = w /\ \A u \in Importers \ {t} : importer'[u] = Quiet
  BY <1>1
<1>3. Alone(w)' /\ OneRequest(w)'
  BY <1>2 DEF Alone, OneRequest
<1> QED BY <1>3 DEF DepositInv

\* A step beside the requests.
LEMMA BesideStep ==
  ASSUME DepositInv, MatchInv', importer' = importer, cardCache' = <<>> \/ (cardCache' = cardCache /\ cardRow' = cardRow), settled' = settled,
         cardRow'.deposits = cardRow.deposits, cardRow'.token = cardRow.token, hook' = hook,
         \A w : RingOK(RingNow(w, cardRow), transfer, settled) => RingOK(RingNow(w, cardRow), transfer', settled),
         \A w : PriceOK(w, invoice, slot) => PriceOK(w, invoice', slot')
  PROVE  DepositInv'
<1>1. PICK w : Alone(w) /\ OneRequest(w)
  BY DEF DepositInv
<1>2. Alone(w)'
  BY <1>1 DEF Alone
<1>3. FreshOK(w, cardRow') /\ HookOK(w, cardRow', hook')
  BY <1>1 DEF OneRequest, FreshOK, HookOK
<1>4. RingNow(w, cardRow') = RingNow(w, cardRow)
  BY DEF RingNow
<1>5. OneRequest(w)'
  BY <1>1, <1>3, <1>4 DEF OneRequest
<1> QED BY <1>2, <1>5 DEF DepositInv

\* Prices stay apart while invoices close.
LEMMA PriceKept ==
  ASSUME NEW v, NEW w, NEW inv, NEW now, NEW sl, NEW later, PriceOK(v, inv, sl),
         w.pc = "create" => w.todo = v.todo /\ w.op = v.op /\ v.pc = "create",
         \A i \in Invoices : now[i].status # "NONE" => inv[i].status # "NONE" /\ now[i].amount = inv[i].amount,
         \A i \in OpenAt(now, later) : now[i].priced = "unique" => i \in OpenAt(inv, sl) /\ inv[i].priced = "unique"
  PROVE  PriceOK(w, now, later)
<1>1. \A i \in OpenAt(now, later) : i \in Invoices /\ now[i].status # "NONE"
  BY DEF OpenAt
<1>2. \A i \in Invoices : now[i].status # "NONE" => OnGrid(now[i].amount)
  BY DEF PriceOK
<1>3. w.pc = "create" => \A a \in w.todo : OnGrid(a)
  BY DEF PriceOK
<1>4. \A i, j \in OpenAt(now, later) : i # j /\ now[i].priced = "unique" /\ now[j].priced = "unique" => ~Near(now[i].amount, now[j].amount)
  BY <1>1 DEF PriceOK
<1>5. w.pc = "create" /\ w.op = "unique" =>
       \A a \in w.todo : \A i \in OpenAt(now, later) : now[i].priced = "unique" => ~Near(now[i].amount, a) /\ ~Near(a, now[i].amount)
  BY <1>1 DEF PriceOK
<1> QED BY <1>2, <1>3, <1>4, <1>5 DEF PriceOK

\* The same when no invoice moves.
LEMMA PriceSame ==
  ASSUME NEW v, NEW w, NEW inv, NEW sl, PriceOK(v, inv, sl), w.pc # "create"
  PROVE  PriceOK(w, inv, sl)
  BY PriceKept

\* A step of the request under way that leaves rows, invoices and transfers alone.
LEMMA QuickStep ==
  ASSUME DepositInv, ~Overlap, MatchInv', NEW t \in Importers, importer[t].pc # "idle" \/ ImportFree(t),
         NEW w, importer' = [importer EXCEPT ![t] = w], cardCache' = cardCache \/ cardCache' = <<cardRow>>,
         UNCHANGED <<cardRow, slot, invoice, transfer, settled>>, w.pc # "create",
         FreshOK(w, cardRow), RingOK(RingNow(w, cardRow), transfer, settled), HookOK(w, cardRow, hook')
  PROVE  DepositInv'
<1>1. (\A u \in Importers \ {t} : importer[u] = Quiet) /\ PriceOK(importer[t], invoice, slot)
  BY Mine DEF OneRequest
<1>2. PriceOK(w, invoice', slot')
  BY <1>1, PriceSame
<1>3. PaysOnce(settled') /\ (cardCache' = <<>> \/ cardCache' = <<cardRow'>>)
  BY DEF DepositInv
<1> QED BY <1>1, <1>2, <1>3, AloneStep

\* The 5 s pass, or a slot does.
LEMMA ExpireAlone ==
  ASSUME DepositInv, NEW s, cacheExpires(s) PROVE DepositInv'
<1>1. MatchInv /\ MatchInv'
  BY ExpireStep DEF DepositInv
<1>2. slot' = s /\ s >= slot /\ s \in Nat /\ cardCache' = <<>> /\ UNCHANGED <<importer, hook, invoice, transfer, settled, touches>>
      /\ cardRow' = [cardRow EXCEPT !.synced = cardRow.synced /\ s = slot]
  BY <1>1, CardFacts DEF cacheExpires, deskVars, CardTypes
<1>3. cardRow'.deposits = cardRow.deposits /\ cardRow'.token = cardRow.token
  BY <1>1, <1>2, CardFacts DEF CardRowOK, CardRows
<1>4. \A i \in OpenAt(invoice', slot') : i \in OpenAt(invoice, slot)
  <2>1. WindowSlots \in Nat /\ slot \in Nat /\ \A i \in Invoices : invoice[i].born \in Nat
    BY <1>1, CardFacts, CardAssumption DEF CardTypes, InvoiceRows
  <2> QED BY <1>2, <2>1 DEF OpenAt
<1>5. \A w : PriceOK(w, invoice, slot) => PriceOK(w, invoice', slot')
  BY <1>2, <1>4, PriceKept
<1>6. \A w : RingOK(RingNow(w, cardRow), transfer, settled) => RingOK(RingNow(w, cardRow), transfer', settled)
  BY <1>2
<1> QED BY <1>1, <1>2, <1>3, <1>5, <1>6, BesideStep

\* A ring of distinct transfers is no longer than their number.
LEMMA RingFits ==
  ASSUME CardRoom, NEW ds \in Seq(Cards), \A m, n \in DOMAIN ds : ds[m].from = ds[n].from => m = n
  PROVE  Len(ds) <= RING
<1> DEFINE f == [n \in 1..Len(ds) |-> ds[n].from]
<1>1. f \in [1..Len(ds) -> Transfers]
  <2>1. \A n \in 1..Len(ds) : ds[n] \in Cards
    OBVIOUS
  <2> QED BY <2>1 DEF Cards
<1>2. \A m, n \in 1..Len(ds) : f[m] = f[n] => m = n
  OBVIOUS
<1> HIDE DEF f
<1>3. f \in Injection(1..Len(ds), Transfers)
  BY <1>1, <1>2 DEF Injection, IsInjective
<1>4. Cardinality(1..Len(ds)) <= Cardinality(Transfers)
  BY <1>3, FS_Injection DEF CardRoom
<1>5. Cardinality(1..Len(ds)) = Len(ds)
  <2>1. Len(ds) \in Nat /\ 1 \in Int /\ Len(ds) \in Int
    OBVIOUS
  <2>2. Cardinality(1..Len(ds)) = IF 1 > Len(ds) THEN 0 ELSE Len(ds) - 1 + 1
    BY ONLY <2>1, FS_Interval
  <2> QED BY <2>1, <2>2
<1>6. Cardinality(Transfers) \in Nat /\ Len(ds) \in Nat /\ RING \in Nat
  BY FS_CardinalityType, CardAssumption DEF CardRoom
<1> QED BY <1>4, <1>5, <1>6 DEF CardRoom

\* A new deposit in front of the ring: nothing falls out at the other end.
LEMMA DepositAdded ==
  ASSUME CardRoom, NEW ds \in Seq(Cards), NEW dep \in Cards, dep.status = "UNMATCHED", NEW tr, NEW st, RingOK(ds, tr, st),
         \A n \in DOMAIN ds : ds[n].from # dep.from,
         dep.ref = tr[dep.from].ref, dep.amount = tr[dep.from].amount, tr[dep.from].amount > 0
  PROVE  RingOK(Ring(<<dep>> \o ds), tr, st)
<1> DEFINE all == <<dep>> \o ds
<1>1. all \in Seq(Cards) /\ Len(all) = Len(ds) + 1 /\ DOMAIN all = 1..Len(all) /\ all[1] = dep
      /\ (\A k \in 2..Len(all) : all[k] = ds[k - 1] /\ k - 1 \in DOMAIN ds) /\ (\A n \in DOMAIN ds : n + 1 \in DOMAIN all /\ all[n + 1] = ds[n])
  OBVIOUS
<1> HIDE DEF all
<1>2. ASSUME NEW m \in DOMAIN all, NEW n \in DOMAIN all, all[m].from = all[n].from PROVE m = n
  <2>1. m = 1 <=> n = 1
    BY <1>1, <1>2
  <2>2. CASE m # 1
    <3>1. m \in 2..Len(all) /\ n \in 2..Len(all)
      BY <1>1, <2>1, <2>2
    <3>2. m - 1 = n - 1
      BY <1>1, <1>2, <3>1 DEF RingOK
    <3> QED BY <3>1, <3>2
  <2> QED BY <2>1, <2>2
<1>3. Len(all) <= RING
  BY <1>1, <1>2, RingFits
<1>4. Ring(all) = all
  <2>1. SubSeq(all, 1, Len(all)) = all
    BY <1>1, SubSeqFull
  <2>2. (IF Len(all) < RING THEN Len(all) ELSE RING) = Len(all)
    BY <1>1, <1>3, CardAssumption
  <2> QED BY <2>1, <2>2 DEF Ring
<1>5. \A n \in DOMAIN all : all[n].ref = tr[all[n].from].ref /\ all[n].amount = tr[all[n].from].amount /\ tr[all[n].from].amount > 0
  <2> SUFFICES ASSUME NEW n \in DOMAIN all PROVE all[n].ref = tr[all[n].from].ref /\ all[n].amount = tr[all[n].from].amount /\ tr[all[n].from].amount > 0
    OBVIOUS
  <2>1. n = 1 \/ n \in 2..Len(all)
    BY <1>1
  <2> QED BY <1>1, <2>1 DEF RingOK
<1>6. \A d \in Transfers : st[d] # {} => \E n \in DOMAIN all : all[n].from = d /\ all[n].status = "MATCHED"
  <2> SUFFICES ASSUME NEW d \in Transfers, st[d] # {} PROVE \E n \in DOMAIN all : all[n].from = d /\ all[n].status = "MATCHED"
    OBVIOUS
  <2>1. PICK n \in DOMAIN ds : ds[n].from = d /\ ds[n].status = "MATCHED"
    BY DEF RingOK
  <2>2. n + 1 \in DOMAIN all /\ all[n + 1] = ds[n]
    BY <1>1
  <2> QED BY <2>1, <2>2
<1>7. RingOK(all, tr, st)
  BY <1>2, <1>5, <1>6 DEF RingOK
<1> QED BY <1>4, <1>7 DEF all

\* The parts of the invariant a resting request leaves.
LEMMA RestOK ==
  ASSUME DepositInv, ~Overlap, NEW t \in Importers, ImportFree(t)
  PROVE  /\ importer[t] = Quiet /\ RingOK(cardRow.deposits, transfer, settled) /\ HookOK(Quiet, cardRow, hook)
         /\ PriceOK(Quiet, invoice, slot) /\ cardAutoSettings = cardRow /\ \A u \in Importers \ {t} : importer[u] = Quiet
<1>1. importer[t].pc = "idle"
  BY DEF ImportFree, ImportAt
<1>2. importer[t] = Quiet /\ OneRequest(Quiet) /\ cardAutoSettings = cardRow /\ \A u \in Importers \ {t} : importer[u] = Quiet
  BY <1>1, Mine
<1>3. RingNow(Quiet, cardRow) = cardRow.deposits
  BY QuietIs DEF RingNow, Importing, ImportOps
<1> QED BY <1>2, <1>3 DEF OneRequest

\* Requests that neither import nor price: the ring is the row's.
LEMMA RowShows ==
  ASSUME NEW w, ~Importing(w), NEW ds, NEW row, row.deposits = ds PROVE RingNow(w, row) = ds
  BY DEF RingNow

\* A report comes in.
LEMMA IngestAlone ==
  ASSUME DepositInv, ~Overlap, CardRoom, NEW t \in Importers, ImportFree(t), NEW d \in Transfers, NEW op \in {"ingest", "bank"},
         NEW after \in {Quiet, Synced}, Ingest(t, d, op, after)
  PROVE  DepositInv'
<1> DEFINE dep == [from |-> d, amount |-> transfer[d].amount, ref |-> transfer[d].ref, at |-> slot, status |-> "UNMATCHED", pay |-> None]
           ds == cardRow.deposits
<1>1. MatchInv /\ MatchInv'
  BY IngestStep DEF DepositInv
<1>2. /\ importer[t] = Quiet /\ RingOK(ds, transfer, settled) /\ HookOK(Quiet, cardRow, hook)
      /\ PriceOK(Quiet, invoice, slot) /\ cardAutoSettings = cardRow /\ \A u \in Importers \ {t} : importer[u] = Quiet
  BY RestOK
<1>3. /\ cardCache' = <<cardRow>> /\ transfer' = [transfer EXCEPT ![d].sent = transfer[d].sent + 1] /\ transfer[d].amount > 0
      /\ UNCHANGED <<cardRow, slot, hook, invoice, settled, touches>>
  BY <1>2 DEF Ingest
<1>4. \/ importer' = [importer EXCEPT ![t] = after]
      \/ /\ ImportBecome(t, op, "match", None, Ring(<<dep>> \o ds), {1})
         /\ \A n \in DOMAIN ds : fingerprint(ds[n]) # fingerprint(dep)
  BY <1>2 DEF Ingest
<1>5. ds \in Seq(Cards) /\ transfer \in [Transfers -> TransferRows] /\ slot \in 0..MaxSlot /\ MatchesPaid(ds, invoice)
  BY <1>1, CardFacts DEF CardRowOK, CardRows, CardTypes
<1>6. \A x \in Transfers : transfer'[x].amount = transfer[x].amount /\ transfer'[x].ref = transfer[x].ref
  BY <1>3, <1>5 DEF TransferRows
<1>7. \A xs \in Seq(Cards) : RingOK(xs, transfer, settled) => RingOK(xs, transfer', settled')
  <2>1. \A xs \in Seq(Cards) : \A n \in DOMAIN xs : xs[n].from \in Transfers
    <3>1. \A xs \in Seq(Cards) : \A n \in DOMAIN xs : xs[n] \in Cards
      OBVIOUS
    <3> QED BY <3>1 DEF Cards
  <2> QED BY <1>3, <1>6, <2>1 DEF RingOK
<1>8. dep \in Cards /\ dep.status = "UNMATCHED" /\ dep.from = d /\ dep.ref = transfer[d].ref /\ dep.amount = transfer[d].amount
  BY <1>5 DEF Cards, TransferRows
<1> HIDE DEF dep
<1>9. PaysOnce(settled') /\ PriceOK(Quiet, invoice', slot')
  BY <1>2, <1>3 DEF DepositInv
<1>10. CASE importer' = [importer EXCEPT ![t] = after]
  <2>1. after.pc \in {"idle", "reread"} /\ (after.pc = "idle" => after = Quiet) /\ ~Importing(after) /\ after.op # "rotate"
    BY QuietIs, SyncedIs DEF Importing, ImportOps
  <2>2. RingNow(after, cardRow') = ds
    BY <1>3, <2>1 DEF RingNow
  <2>3. FreshOK(after, cardRow') /\ HookOK(after, cardRow', hook') /\ PriceOK(after, invoice', slot')
    BY <1>2, <1>3, <1>9, <2>1, PriceSame, QuietIs DEF FreshOK, HookOK
  <2> HIDE DEF ds
  <2>4. RingOK(RingNow(after, cardRow'), transfer', settled')
    BY <1>2, <1>5, <1>7, <2>2
  <2> QED BY <1>1, <1>2, <1>3, <1>9, <1>10, <2>3, <2>4, AloneStep
<1>11. CASE /\ ImportBecome(t, op, "match", None, Ring(<<dep>> \o ds), {1})
            /\ \A n \in DOMAIN ds : fingerprint(ds[n]) # fingerprint(dep)
  <2> DEFINE next == Ring(<<dep>> \o ds)
  <2>1. \A n \in DOMAIN ds : ds[n].from # d
    <3> SUFFICES ASSUME NEW n \in DOMAIN ds, ds[n].from = d PROVE FALSE
      OBVIOUS
    <3>1. ds[n].ref = transfer[d].ref /\ ds[n].amount = transfer[d].amount
      BY <1>2 DEF RingOK
    <3>2. fingerprint(ds[n]) = fingerprint(dep)
      BY <3>1, <1>8 DEF fingerprint
    <3> QED BY <3>2, <1>11
  <2>2. RingOK(next, transfer, settled)
    BY <2>1, <1>2, <1>3, <1>5, <1>8, DepositAdded
  <2>3. next \in Seq(Cards) /\ next[1] = dep
    BY <1>5, <1>8, RingIs
  <2> HIDE DEF next
  <2>4. PICK w : importer' = [importer EXCEPT ![t] = w] /\ NewWork(w, op, "match", None, next, {1})
    <3>1. op \in WorkOps /\ "match" \in WorkPcs /\ None \in WorkIds /\ {1} \in SUBSET Nat
      BY DEF WorkOps, WorkPcs, WorkIds
    <3>2. ImportBecome(t, op, "match", None, next, {1})
      BY <1>11 DEF next
    <3> QED BY <3>1, <3>2, <2>3, BecomeIs
  <2>5. w.op = op /\ w.pc = "match" /\ w.next = next /\ w.todo = {1}
    BY <2>4 DEF NewWork
  <2>6. RingNow(w, cardRow') = next
    BY <2>5 DEF RingNow, Importing, ImportOps
  <2>7. FreshOK(w, cardRow')
    BY <1>8, <2>3, <2>5 DEF FreshOK
  <2>8. HookOK(w, cardRow', hook') /\ PriceOK(w, invoice', slot')
    BY <1>2, <1>3, <1>9, <2>5, PriceSame, QuietIs DEF HookOK
  <2>9. RingOK(RingNow(w, cardRow'), transfer', settled')
    BY <1>7, <2>2, <2>3, <2>6
  <2> QED BY <1>1, <1>2, <1>3, <1>9, <2>4, <2>7, <2>8, <2>9, AloneStep
<1> QED BY <1>4, <1>10, <1>11

\* The bank is polled.
LEMMA SyncAlone ==
  ASSUME DepositInv, ~Overlap, CardRoom, NEW t \in Importers, syncBankDeposits(t) PROVE DepositInv'
<1>1. ImportFree(t) /\ MatchInv /\ MatchInv'
  BY SyncStep DEF syncBankDeposits, DepositInv
<1>2. CASE importer' = [importer EXCEPT ![t] = Synced] /\ UNCHANGED <<cardRow, cardCache, slot, deskVars>>
  <2>1. UNCHANGED <<cardRow, cardCache, slot, hook, invoice, transfer, settled, touches>>
    BY <1>2 DEF deskVars
  <2>2. RingOK(cardRow.deposits, transfer, settled) /\ HookOK(Quiet, cardRow, hook)
    BY <1>1, RestOK
  <2>3. Synced.pc = "reread" /\ Synced.op = "sync" /\ RingNow(Synced, cardRow) = cardRow.deposits
    BY SyncedIs DEF RingNow, Importing, ImportOps
  <2>4. FreshOK(Synced, cardRow) /\ HookOK(Synced, cardRow, hook')
    BY <2>1, <2>2, <2>3, QuietIs DEF FreshOK, HookOK
  <2> QED BY <1>1, <1>2, <2>1, <2>2, <2>3, <2>4, QuickStep
<1>3. CASE \E d \in Transfers : Ingest(t, d, "bank", Synced)
  BY <1>1, <1>3, IngestAlone
<1> QED BY <1>2, <1>3 DEF syncBankDeposits

\* rematchDeposits begins, by itself or at the end of createOrder.
LEMMA RematchAlone ==
  ASSUME DepositInv, ~Overlap, NEW t \in Importers, rematchDeposits(t) PROVE DepositInv'
<1> DEFINE ds == cardRow.deposits
<1>1. MatchInv /\ MatchInv' /\ Rematch(t) /\ (importer[t].pc = "rematch" \/ ImportFree(t))
      /\ UNCHANGED <<cardRow, slot, hook, invoice, transfer, settled, touches>>
  BY RematchStep DEF rematchDeposits, DepositInv, ImportAt, deskVars
<1>2. OneRequest(importer[t]) /\ cardAutoSettings = cardRow /\ (importer[t].pc = "idle" => importer[t] = Quiet)
  BY <1>1, Mine
<1>3. importer[t].pc \in {"rematch", "idle"}
  BY <1>1 DEF ImportFree, ImportAt
<1>4. RingOK(ds, transfer, settled) /\ HookOK(Quiet, cardRow, hook)
  BY <1>2, <1>3, QuietIs DEF OneRequest, RingNow, Importing, HookOK
<1>5. ds \in Seq(Cards)
  BY <1>1, CardFacts DEF CardRowOK, CardRows
<1> HIDE DEF ds
<1>6. /\ cardCache' = <<cardRow>>
      /\ \/ importer' = [importer EXCEPT ![t] = Quiet]
         \/ \E w : importer' = [importer EXCEPT ![t] = w] /\ NewWork(w, "rematch", "match", None, ds, OpenDeposits(ds))
  BY <1>1, <1>2, RematchIs DEF ds
<1>7. CASE importer' = [importer EXCEPT ![t] = Quiet]
  <2>1. RingNow(Quiet, cardRow) = ds /\ FreshOK(Quiet, cardRow) /\ HookOK(Quiet, cardRow, hook')
    BY <1>1, <1>4, QuietIs DEF RingNow, Importing, ImportOps, FreshOK, ds
  <2> QED BY <1>1, <1>3, <1>4, <1>6, <1>7, <2>1, QuietIs, QuickStep
<1>8. ASSUME NEW w, importer' = [importer EXCEPT ![t] = w], NewWork(w, "rematch", "match", None, ds, OpenDeposits(ds)) PROVE DepositInv'
  <2>1. w.op = "rematch" /\ w.pc = "match" /\ w.next = ds /\ w.todo = OpenDeposits(ds)
    BY <1>8 DEF NewWork
  <2>2. RingNow(w, cardRow) = ds
    BY <2>1 DEF RingNow, Importing, ImportOps
  <2>3. FreshOK(w, cardRow)
    BY <1>5, <2>1, OpenDepositsAre DEF FreshOK
  <2>4. HookOK(w, cardRow, hook')
    BY <1>1, <1>4, <2>1, QuietIs DEF HookOK
  <2> QED BY <1>1, <1>3, <1>4, <1>6, <1>8, <2>1, <2>2, <2>3, <2>4, QuickStep
<1> QED BY <1>6, <1>7, <1>8

\* Only open deposits are left to do; only the card at hand, if matched, has paid since.
OpenLeft(v) == \A k \in v.todo : v.next[k].status # "MATCHED"
PaidSince(v, status, st, now) ==
  \A d \in Transfers : now[d] # {} => st[d] # {} \/ (status = "MATCHED" /\ d = v.next[First(v.todo)].from)

\* A result written into the ring keeps it in order.
LEMMA ResultRing ==
  ASSUME NEW v, NEW y, NEW status, Resulted(v, y, status), NEW tr, NEW st, NEW now, RingOK(v.next, tr, st),
         OpenLeft(v), PaidSince(v, status, st, now)
  PROVE  /\ RingOK(y.next, tr, now) /\ Importing(y)
         /\ \A row : FreshOK(y, row)
<1> DEFINE k == First(v.todo)
<1>1. /\ k \in v.todo /\ v.todo \subseteq DOMAIN v.next /\ DOMAIN y.next = DOMAIN v.next /\ y.todo = v.todo \ {k}
      /\ y.pc = (IF y.todo = {} THEN "reread" ELSE "match") /\ y.op \in ImportOps
      /\ \A n \in DOMAIN v.next :
           /\ y.next[n].from = v.next[n].from /\ y.next[n].ref = v.next[n].ref /\ y.next[n].amount = v.next[n].amount
           /\ y.next[n].status = (IF n = k THEN status ELSE v.next[n].status)
  BY DEF Resulted
<1>2. v.next[k].status # "MATCHED" /\ \A d \in Transfers : now[d] # {} => st[d] # {} \/ (status = "MATCHED" /\ d = v.next[k].from)
  BY <1>1 DEF OpenLeft, PaidSince
<1>a. \A n \in v.todo : v.next[n].status # "MATCHED"
  BY DEF OpenLeft
<1> HIDE DEF k
<1>3. \A m, n \in DOMAIN y.next : y.next[m].from = y.next[n].from => m = n
  BY <1>1 DEF RingOK
<1>4. \A n \in DOMAIN y.next : y.next[n].ref = tr[y.next[n].from].ref /\ y.next[n].amount = tr[y.next[n].from].amount /\ tr[y.next[n].from].amount > 0
  BY <1>1 DEF RingOK
<1>5. ASSUME NEW d \in Transfers, now[d] # {} PROVE \E n \in DOMAIN y.next : y.next[n].from = d /\ y.next[n].status = "MATCHED"
  <2>1. CASE status = "MATCHED" /\ d = v.next[k].from
    BY <1>1, <2>1
  <2>2. CASE st[d] # {}
    <3>1. PICK n \in DOMAIN v.next : v.next[n].from = d /\ v.next[n].status = "MATCHED"
      BY <2>2 DEF RingOK
    <3>2. n # k
      BY <1>2, <3>1
    <3> QED BY <1>1, <3>1, <3>2
  <2> QED BY <1>2, <1>5, <2>1, <2>2
<1>6. RingOK(y.next, tr, now)
  BY <1>3, <1>4, <1>5 DEF RingOK
<1>7. Importing(y)
  BY <1>1 DEF Importing
<1>8. y.pc \in {"reread", "match"} /\ \A n \in y.todo : n \in DOMAIN v.next /\ n # k /\ y.next[n].status # "MATCHED"
  BY <1>1, <1>a
<1>9. \A row : FreshOK(y, row)
  BY <1>8 DEF FreshOK
<1> QED BY <1>6, <1>7, <1>9

\* A deposit is matched, or not.
LEMMA MatchAlone ==
  ASSUME DepositInv, ~Overlap, NEW t \in Importers, matchDeposit(t) PROVE DepositInv'
<1> DEFINE v == importer[t]
           c == Candidates(v.next[First(v.todo)])
<1>1. MatchInv /\ MatchInv' /\ v.pc = "match" /\ UNCHANGED <<cardRow, cardCache, slot, hook, invoice, transfer, settled, touches>>
  BY MatchStep DEF matchDeposit, DepositInv, ImportAt, deskVars
<1>2. OneRequest(v) /\ v \in Works /\ WorkOK(v, invoice) /\ MovesOn(invoice, invoice) /\ CardTypes
  BY <1>1, Mine, CardFacts
<1>3. v.op \in ImportOps /\ Importing(v) /\ RingOK(v.next, transfer, settled) /\ HookOK(Quiet, cardRow, hook)
      /\ \A k \in v.todo : v.next[k].status # "MATCHED"
  BY <1>1, <1>2, QuietIs DEF OneRequest, WorkOK, Importing, RingNow, HookOK, ImportOps, FreshOK
<1>4. c \subseteq Invoices
  BY DEF Candidates, OpenInvoices
<1>5. ASSUME NEW status \in {"UNMATCHED", "AMBIGUOUS"}, NEW pay \in Invoices \union {None}, Result(t, status, pay) PROVE DepositInv'
  <2>1. PICK y : importer' = [importer EXCEPT ![t] = y] /\ WorkOK(y, invoice) /\ Resulted(v, y, status)
    BY <1>1, <1>2, <1>5, ResultIs
  <2>2. First(v.todo) \in v.todo /\ y.op \in ImportOps /\ y.pc \in {"match", "reread"}
    BY <2>1 DEF Resulted
  <2>3. RingOK(y.next, transfer, settled) /\ Importing(y) /\ FreshOK(y, cardRow)
    <3>1. OpenLeft(v) /\ PaidSince(v, status, settled, settled)
      BY <1>3 DEF OpenLeft, PaidSince
    <3> HIDE DEF v
    <3> QED BY <1>3, <2>1, <3>1, ResultRing
  <2>4. RingNow(y, cardRow) = y.next /\ HookOK(y, cardRow, hook')
    BY <1>1, <1>3, <2>2, <2>3, QuietIs DEF RingNow, HookOK, ImportOps
  <2> QED BY <1>1, <2>1, <2>2, <2>3, <2>4, QuickStep
<1>6. ASSUME NEW i \in c, importer' = [importer EXCEPT ![t].pc = "confirm", ![t].id = i] PROVE DepositInv'
  <2> DEFINE w == [v EXCEPT !.pc = "confirm", !.id = i]
  <2>1. importer' = [importer EXCEPT ![t] = w]
    BY <1>2, <1>6 DEF CardTypes
  <2>2. w.op = v.op /\ w.pc = "confirm" /\ w.next = v.next /\ w.todo = v.todo
    BY <1>2 DEF Works
  <2> HIDE DEF w
  <2>3. FreshOK(w, cardRow) /\ RingNow(w, cardRow) = v.next /\ HookOK(w, cardRow, hook')
    BY <1>1, <1>3, <2>2, QuietIs DEF FreshOK, RingNow, Importing, HookOK, ImportOps
  <2> QED BY <1>1, <1>3, <2>1, <2>2, <2>3, QuickStep
<1> QED BY <1>4, <1>5, <1>6 DEF matchDeposit

\* The one deposit at hand confirms its invoice.
LEMMA ConfirmAlone ==
  ASSUME DepositInv, ~Overlap, NEW t \in Importers, autoConfirm(t) PROVE DepositInv'
<1> DEFINE v == importer[t]
           i == v.id
           d == v.next[First(v.todo)].from
<1>1. MatchInv /\ MatchInv' /\ v.pc = "confirm" /\ UNCHANGED <<cardRow, cardCache, slot, hook, transfer, touches>>
  BY ConfirmStep DEF autoConfirm, DepositInv, ImportAt
<1>2. OneRequest(v) /\ v \in Works /\ WorkOK(v, invoice) /\ MovesOn(invoice, invoice) /\ CardTypes /\ \A u \in Importers \ {t} : importer[u] = Quiet
  BY <1>1, Mine, CardFacts
<1>3. v.op \in ImportOps /\ Importing(v) /\ RingOK(v.next, transfer, settled) /\ HookOK(Quiet, cardRow, hook)
      /\ \A k \in v.todo : v.next[k].status # "MATCHED"
  BY <1>1, <1>2, QuietIs DEF OneRequest, WorkOK, Importing, RingNow, HookOK, ImportOps, FreshOK
<1>4. i \in Invoices /\ invoice[i].status # "NONE" /\ invoice[i] \in InvoiceRows
  BY <1>1, <1>2 DEF WorkOK, CardTypes
<1>5. First(v.todo) \in v.todo /\ First(v.todo) \in DOMAIN v.next /\ d \in Transfers
  <2>1. v.todo # {} /\ v.todo \subseteq DOMAIN v.next /\ v.todo \subseteq Nat /\ v.next \in Seq(Cards)
    BY <1>1, <1>2 DEF WorkOK, Works
  <2>2. First(v.todo) \in v.todo /\ First(v.todo) \in DOMAIN v.next
    BY <2>1, FirstIs
  <2>3. v.next[First(v.todo)] \in Cards
    BY <2>1, <2>2
  <2> QED BY <2>2, <2>3 DEF Cards
<1>6. ASSUME NEW status \in {"MATCHED", "UNMATCHED"}, Result(t, status, i), PaysOnce(settled'),
             status = "MATCHED" => invoice'[i].status = "CONFIRMED", MovesOn(invoice, invoice'),
             \A x \in Transfers : settled'[x] # {} => settled[x] # {} \/ (status = "MATCHED" /\ x = d),
             \A j \in Invoices : invoice'[j].status # "NONE" => invoice[j].status # "NONE" /\ invoice'[j].amount = invoice[j].amount,
             \A j \in OpenAt(invoice', slot') : j \in OpenAt(invoice, slot) /\ invoice'[j].priced = invoice[j].priced
      PROVE  DepositInv'
  <2> HIDE DEF i
  <2>1. PICK y : importer' = [importer EXCEPT ![t] = y] /\ WorkOK(y, invoice') /\ Resulted(v, y, status)
    BY <1>1, <1>2, <1>4, <1>6, ResultIs
  <2>2. y.op \in ImportOps /\ y.pc \in {"match", "reread"}
    BY <2>1 DEF Resulted
  <2>3. RingOK(y.next, transfer, settled') /\ Importing(y) /\ FreshOK(y, cardRow)
    <3>1. OpenLeft(v) /\ PaidSince(v, status, settled, settled')
      BY <1>3, <1>6 DEF OpenLeft, PaidSince
    <3> HIDE DEF v
    <3> QED BY <1>3, <2>1, <3>1, ResultRing
  <2>4. RingNow(y, cardRow) = y.next /\ HookOK(y, cardRow', hook')
    BY <1>1, <1>3, <2>2, <2>3, QuietIs DEF RingNow, HookOK, ImportOps
  <2>5. PriceOK(y, invoice', slot')
    BY <1>2, <1>6, <2>2, PriceKept DEF OneRequest
  <2>6. cardCache' = <<>> \/ cardCache' = <<cardRow'>>
    BY <1>1 DEF DepositInv
  <2> QED BY <1>1, <1>2, <1>6, <2>1, <2>3, <2>4, <2>5, <2>6, AloneStep
<1>7. CASE UNCHANGED <<invoice, settled>> /\ ((invoice[i].status = "EXPIRED" /\ Result(t, "UNMATCHED", i)) \/ (invoice[i].status = "CONFIRMED" /\ Result(t, "MATCHED", i)))
  <2>1. invoice' = invoice /\ settled' = settled /\ PaysOnce(settled') /\ OpenAt(invoice', slot') = OpenAt(invoice, slot)
    BY <1>1, <1>7 DEF DepositInv, OpenAt
  <2> HIDE DEF i, d
  <2> QED BY <1>2, <1>6, <1>7, <2>1
<1>8. CASE /\ invoice[i].status \in {"PENDING", "REVIEW", "REJECTED"}
           /\ invoice' = [invoice EXCEPT ![i].status = "CONFIRMED"] /\ settled' = [settled EXCEPT ![d] = settled[d] \union {i}]
           /\ Result(t, "MATCHED", i)
  <2> DEFINE row == [invoice[i] EXCEPT !.status = "CONFIRMED"]
  <2>1. row \in InvoiceRows /\ row.status = "CONFIRMED" /\ row.amount = invoice[i].amount /\ invoice' = [invoice EXCEPT ![i] = row]
    BY <1>4, <1>8 DEF InvoiceRows
  <2>2. settled[d] = {}
    <3> SUFFICES ASSUME settled[d] # {} PROVE FALSE
      OBVIOUS
    <3>1. PICK n \in DOMAIN v.next : v.next[n].from = d /\ v.next[n].status = "MATCHED"
      BY <1>3, <1>5 DEF RingOK
    <3>2. n = First(v.todo)
      BY <1>3, <1>5, <3>1 DEF RingOK
    <3> QED BY <1>3, <1>5, <3>1, <3>2
  <2> HIDE DEF row, i, d
  <2>3. MovesOn(invoice, invoice') /\ invoice'[i] = row /\ \A j \in Invoices \ {i} : invoice'[j] = invoice[j]
    BY <1>1, <1>4, <2>1, StatusMoves
  <2>4. settled \in [Transfers -> SUBSET Invoices] /\ settled'[d] = {i} /\ \A x \in Transfers \ {d} : settled'[x] = settled[x]
    BY <1>2, <1>5, <1>8, <2>2 DEF CardTypes
  <2>5. PaysOnce(settled')
    BY <1>4, <1>5, <2>4 DEF PaysOnce, DepositInv
  <2>6. \A j \in OpenAt(invoice', slot') : j # i /\ j \in OpenAt(invoice, slot) /\ invoice'[j].priced = invoice[j].priced
    BY <1>1, <2>1, <2>3 DEF OpenAt
  <2>7. \A j \in Invoices : invoice'[j].status # "NONE" => invoice[j].status # "NONE" /\ invoice'[j].amount = invoice[j].amount
    BY <1>4, <2>1, <2>3
  <2>8. \A x \in Transfers : settled'[x] # {} => settled[x] # {} \/ x = d
    BY <2>4
  <2> QED BY <1>6, <1>8, <2>1, <2>3, <2>5, <2>6, <2>7, <2>8
<1> QED BY <1>7, <1>8 DEF autoConfirm

\* saveCardAuto reads the row again: it is the one the request began with.
LEMMA ReadAlone ==
  ASSUME DepositInv, ~Overlap, NEW t \in Importers, saveCardAutoRead(t) PROVE DepositInv'
<1> DEFINE v == importer[t]
           w == [v EXCEPT !.cur = cardRow, !.pc = "write"]
<1>1. MatchInv /\ MatchInv' /\ v.pc = "reread" /\ UNCHANGED <<cardRow, slot, hook, invoice, transfer, settled, touches>>
  BY ReadStep DEF saveCardAutoRead, DepositInv, ImportAt, deskVars
<1>2. OneRequest(v) /\ v \in Works /\ CardTypes /\ cardAutoSettings = cardRow
  BY <1>1, Mine, CardFacts
<1>3. importer' = [importer EXCEPT ![t] = w] /\ cardCache' = <<cardRow>>
  BY <1>2 DEF saveCardAutoRead, CardTypes
<1>4. w.op = v.op /\ w.pc = "write" /\ w.id = v.id /\ w.next = v.next /\ w.cur = cardRow
  BY <1>2 DEF Works
<1> HIDE DEF w, v
<1>5. FreshOK(w, cardRow)
  BY <1>4 DEF FreshOK
<1>6. RingNow(w, cardRow) = RingNow(v, cardRow)
  BY <1>1, <1>4 DEF RingNow, Importing
<1>7. HookOK(w, cardRow, hook')
  BY <1>1, <1>2, <1>4 DEF OneRequest, HookOK
<1>8. RingOK(RingNow(w, cardRow), transfer, settled)
  BY <1>2, <1>6 DEF OneRequest
<1> QED BY <1>1, <1>3, <1>4, <1>5, <1>7, <1>8, QuickStep DEF v

\* saveCardAuto writes: the ring and the token become the row's.
LEMMA SaveAlone ==
  ASSUME DepositInv, ~Overlap, NEW t \in Importers, saveCardAuto(t) PROVE DepositInv'
<1> DEFINE v == importer[t]
<1>1. /\ MatchInv /\ MatchInv' /\ v.pc = "write" /\ cardRow' = SavedRow(v) /\ cardCache' = <<cardRow'>>
      /\ UNCHANGED <<slot, hook, invoice, transfer, settled, touches>>
  BY SaveStep, SaveIs DEF DepositInv
<1>2. PICK y \in {Quiet, Synced, EnsureWork} : importer' = [importer EXCEPT ![t] = y]
  BY SaveIs
<1>3. OneRequest(v) /\ v \in Works /\ WorkOK(v, invoice) /\ \A u \in Importers \ {t} : importer[u] = Quiet
  BY <1>1, Mine, CardFacts
<1>4. v.cur.deposits = cardRow.deposits /\ v.cur.token = cardRow.token
  BY <1>1, <1>3 DEF OneRequest, FreshOK
<1> HIDE DEF v
<1>5. /\ cardRow'.deposits = (IF v.op \in ImportOps THEN v.next ELSE cardRow.deposits)
      /\ cardRow'.token = (IF v.op = "rotate" THEN v.id ELSE cardRow.token)
  BY <1>1, <1>3, <1>4, SavedIs
<1>6. cardRow'.deposits = RingNow(v, cardRow)
  BY <1>1, <1>5 DEF RingNow, Importing
<1>7. y.pc \in {"idle", "reread", "ensure"} /\ y.op \notin ImportOps /\ (y.pc = "idle" => y = Quiet) /\ (y.op = "rotate" => y.pc = "ensure")
  BY QuietIs, SyncedIs, EnsureIs DEF ImportOps
<1>8. RingOK(RingNow(y, cardRow'), transfer', settled')
  BY <1>1, <1>3, <1>6, <1>7 DEF OneRequest, RingNow, Importing
<1>9. FreshOK(y, cardRow')
  BY <1>7 DEF FreshOK
<1>10. HookOK(y, cardRow', hook')
  <2>1. hook' = IF v.op = "rotate" THEN {v.id} ELSE IF cardRow.token = 0 THEN {} ELSE {cardRow.token}
    BY <1>1, <1>3 DEF OneRequest, HookOK
  <2>2. v.op = "rotate" => v.id \in 1..MaxToken
    BY <1>1, <1>3 DEF WorkOK, ImportOps
  <2>3. v.op = "rotate" => v.id # 0
    BY <2>2
  <2>4. hook' = IF cardRow'.token = 0 THEN {} ELSE {cardRow'.token}
    BY <1>5, <2>1, <2>3
  <2> QED BY <1>7, <2>4 DEF HookOK
<1>11. PriceOK(y, invoice', slot')
  BY <1>1, <1>3, <1>7, PriceSame DEF OneRequest
<1>12. PaysOnce(settled')
  BY <1>1 DEF DepositInv
<1> QED BY <1>1, <1>2, <1>3, <1>8, <1>9, <1>10, <1>11, <1>12, AloneStep

\* PUT /store/extras begins.
LEMMA ModeAlone ==
  ASSUME DepositInv, ~Overlap, NEW t \in Importers, NEW m \in Modes, putExtras(t, m) PROVE DepositInv'
<1>1. /\ MatchInv /\ MatchInv' /\ ImportFree(t) /\ ImportBecome(t, "mode", "reread", m, <<>>, {})
      /\ UNCHANGED <<cardRow, cardCache, slot, hook, invoice, transfer, settled>>
  BY ModeStep DEF putExtras, DepositInv
<1>2. "mode" \in WorkOps /\ "reread" \in WorkPcs /\ m \in WorkIds /\ <<>> \in Seq(Cards) /\ {} \in SUBSET Nat
  BY DEF WorkOps, WorkPcs, WorkIds
<1>3. PICK w : importer' = [importer EXCEPT ![t] = w] /\ NewWork(w, "mode", "reread", m, <<>>, {})
  BY <1>1, <1>2, BecomeIs
<1>4. w.op = "mode" /\ w.pc = "reread"
  BY <1>3 DEF NewWork
<1>5. RingOK(cardRow.deposits, transfer, settled) /\ HookOK(Quiet, cardRow, hook)
  BY <1>1, RestOK
<1>6. FreshOK(w, cardRow) /\ RingNow(w, cardRow) = cardRow.deposits /\ HookOK(w, cardRow, hook')
  BY <1>1, <1>4, <1>5, QuietIs DEF FreshOK, RingNow, Importing, ImportOps, HookOK
<1> QED BY <1>1, <1>3, <1>4, <1>5, <1>6, QuickStep

\* The SMS token is rotated, or found in place.
LEMMA RotateAlone ==
  ASSUME DepositInv, ~Overlap, NEW t \in Importers, rotateSmsToken(t) PROVE DepositInv'
<1> DEFINE v == importer[t]
<1>1. MatchInv /\ MatchInv' /\ (v.pc = "ensure" \/ ImportFree(t))
  BY RotateStep DEF rotateSmsToken, DepositInv, ImportAt
<1>2. v.pc \in {"ensure", "idle"} /\ OneRequest(v) /\ cardAutoSettings = cardRow /\ (v.pc = "idle" => v = Quiet)
  BY <1>1, Mine DEF ImportFree, ImportAt
<1>3. RingOK(cardRow.deposits, transfer, settled) /\ hook = (IF cardRow.token = 0 THEN {} ELSE {cardRow.token})
  BY <1>2 DEF OneRequest, RingNow, Importing, HookOK
<1>4. /\ cardCache' = <<cardRow>> /\ UNCHANGED <<cardRow, slot, invoice, transfer, settled, touches>>
      /\ \/ cardRow.token # 0 /\ hook' = hook \union {cardRow.token} /\ importer' = [importer EXCEPT ![t] = Quiet]
         \/ \E k \in 1..MaxToken :
              /\ hook' = (hook \ {cardRow.token}) \union {k}
              /\ \E w : importer' = [importer EXCEPT ![t] = w] /\ NewWork(w, "rotate", "reread", k, <<>>, {})
  BY <1>2, RotateIs
<1>5. CASE cardRow.token # 0 /\ hook' = hook \union {cardRow.token} /\ importer' = [importer EXCEPT ![t] = Quiet]
  <2>1. hook' = {cardRow.token}
    BY <1>3, <1>5
  <2>2. FreshOK(Quiet, cardRow) /\ RingNow(Quiet, cardRow) = cardRow.deposits /\ HookOK(Quiet, cardRow, hook')
    BY <1>5, <2>1, QuietIs DEF FreshOK, RingNow, Importing, ImportOps, HookOK
  <2> QED BY <1>1, <1>2, <1>3, <1>4, <1>5, <2>2, QuietIs, QuickStep
<1>6. ASSUME NEW k \in 1..MaxToken, hook' = (hook \ {cardRow.token}) \union {k},
             NEW w, importer' = [importer EXCEPT ![t] = w], NewWork(w, "rotate", "reread", k, <<>>, {})
      PROVE  DepositInv'
  <2>1. hook' = {k} /\ w.op = "rotate" /\ w.pc = "reread" /\ w.id = k
    BY <1>3, <1>6 DEF NewWork
  <2>2. FreshOK(w, cardRow) /\ RingNow(w, cardRow) = cardRow.deposits /\ HookOK(w, cardRow, hook')
    BY <2>1 DEF FreshOK, RingNow, Importing, ImportOps, HookOK
  <2> QED BY <1>1, <1>2, <1>3, <1>4, <1>6, <2>1, <2>2, QuickStep
<1> QED BY <1>4, <1>5, <1>6

\* A number that tolerance + 1 divides is a multiple of it.
LEMMA GridPoints ==
  ASSUME NEW n \in Nat, NEW s \in Nat \ {0}, n % s = 0
  PROVE  \E k \in Nat : n = k * s
  OBVIOUS

\* The next multiple is a whole step away.
LEMMA GridSteps ==
  ASSUME NEW a \in Nat, NEW b \in Nat, NEW s \in Nat, a < b
  PROVE  a * s + s <= b * s
<1>1. b - (a + 1) \in Nat
  OBVIOUS
<1>2. PICK d \in Nat : b = a + 1 + d
  BY <1>1
<1>3. b * s = a * s + s + d * s /\ d * s \in Nat
  BY <1>2
<1> QED BY <1>3

\* The multiples uniqueCardAmount looks through.
LEMMA GridWithin ==
  ASSUME NEW n \in Nat, NEW s \in Nat \ {0}, NEW k \in 0..(n \div s)
  PROVE  k * s \in 0..n /\ (k * s) % s = 0
<1>1. (n \div s) * s <= n
  OBVIOUS
<1> QED OBVIOUS

\* Two points of the grid that are near are one.
LEMMA GridApart ==
  ASSUME NEW k \in Nat, NEW m \in Nat, Near(Base + k * (Tol + 1), Base + m * (Tol + 1))
  PROVE  k = m
<1> DEFINE s == Tol + 1
<1>1. s \in Nat /\ Tol \in Nat /\ Tol < s /\ Base \in Nat
  BY CardAssumption
<1>2. k * s \in Nat /\ m * s \in Nat
  BY <1>1
<1>3. k < m => k * s + s <= m * s
  BY <1>1, GridSteps
<1>4. m < k => m * s + s <= k * s
  BY <1>1, GridSteps
<1>5. Near(Base + k * s, Base + m * s)
  OBVIOUS
<1> HIDE DEF s
<1>6. PICK x \in Nat : x = k * s
  BY <1>2
<1>7. PICK z \in Nat : z = m * s
  BY <1>2
<1>8. ~(x + s <= z) /\ ~(z + s <= x)
  BY <1>1, <1>5, <1>6, <1>7 DEF Near
<1> QED BY <1>3, <1>4, <1>6, <1>7, <1>8

\* While an invoice is still unpriced, there is a free amount left.
LEMMA FreeAmount ==
  ASSUME CardRoom, CardTypes, NEW i \in Invoices, invoice[i].status = "NONE",
         \A j \in Invoices : invoice[j].status # "NONE" => OnGrid(invoice[j].amount)
  PROVE  FreeOffsets # {}
<1> SUFFICES ASSUME FreeOffsets = {} PROVE FALSE
  OBVIOUS
<1> DEFINE s == Tol + 1
           q == Spread \div s
           Takes(j, k) == j \in OpenInvoices /\ Near(invoice[j].amount, Base + k * s)
           f == [k \in 0..q |-> CHOOSE j \in Invoices : Takes(j, k)]
<1>1. s \in Nat \ {0} /\ Spread \in Nat /\ q \in Nat
  BY CardAssumption
<1>2. ASSUME NEW k \in 0..q PROVE \E j \in Invoices \ {i} : Takes(j, k)
  <2>1. k * s \in 0..Spread /\ (k * s) % s = 0
    BY <1>1, GridWithin
  <2>2. ~AmountAway(Base + k * s)
    BY <2>1 DEF FreeOffsets
  <2>3. PICK j \in OpenInvoices : Near(invoice[j].amount, Base + k * s)
    BY <2>2 DEF AmountAway
  <2>4. j \in Invoices \ {i}
    BY DEF OpenInvoices
  <2> QED BY <2>3, <2>4
<1>3. ASSUME NEW k \in 0..q PROVE f[k] \in Invoices \ {i} /\ Takes(f[k], k)
  <2>1. f[k] \in Invoices /\ Takes(f[k], k)
    BY <1>2
  <2>2. f[k] # i
    BY <2>1 DEF OpenInvoices
  <2> QED BY <2>1, <2>2
<1>4. ASSUME NEW k \in 0..q, NEW m \in 0..q, f[k] = f[m] PROVE k = m
  <2> DEFINE j == f[k]
  <2>1. j \in Invoices /\ Near(invoice[j].amount, Base + k * s) /\ Near(invoice[j].amount, Base + m * s) /\ invoice[j].status # "NONE"
    BY <1>3, <1>4 DEF OpenInvoices
  <2>2. PICK x \in Nat : invoice[j].amount = Base + x * s
    BY <2>1 DEF OnGrid
  <2>3. x = k /\ x = m
    BY <2>1, <2>2, GridApart
  <2> QED BY <2>3
<1>5. f \in [0..q -> Invoices \ {i}]
  BY <1>3
<1> HIDE DEF f, q
<1>6. f \in Injection(0..q, Invoices \ {i})
  BY <1>4, <1>5 DEF Injection, IsInjective
<1>7. IsFiniteSet(Invoices \ {i}) /\ Cardinality(Invoices \ {i}) = Cardinality(Invoices) - 1 /\ Cardinality(Invoices) \in Nat
  BY FS_RemoveElement, FS_CardinalityType DEF CardRoom
<1>8. Cardinality(0..q) <= Cardinality(Invoices \ {i})
  BY <1>6, <1>7, FS_Injection
<1>9. Cardinality(0..q) = q + 1
  <2>1. Cardinality(0..q) = IF 0 > q THEN 0 ELSE q - 0 + 1
    BY <1>1, FS_Interval
  <2> QED BY <1>1, <2>1
<1>10. Cardinality(Invoices) <= q + 1
  BY DEF CardRoom, q
<1> QED BY <1>1, <1>7, <1>8, <1>9, <1>10

\* createOrder prices an invoice: on the grid, and away from the open ones.
LEMMA PriceAlone ==
  ASSUME DepositInv, ~Overlap, CardRoom, NEW t \in Importers, NEW i \in Invoices, priceInvoice(t, i) PROVE DepositInv'
<1> DEFINE a == uniqueCardAmount
<1>1. MatchInv /\ MatchInv' /\ ImportFree(t) /\ CardTypes /\ PaysOnce(settled)
  BY PriceStep, CardFacts DEF priceInvoice, DepositInv
<1>2. /\ RingOK(cardRow.deposits, transfer, settled) /\ HookOK(Quiet, cardRow, hook)
      /\ PriceOK(Quiet, invoice, slot) /\ cardAutoSettings = cardRow /\ \A u \in Importers \ {t} : importer[u] = Quiet
  BY <1>1, RestOK
<1>3. invoice[i].status = "NONE" /\ cardCache' = <<cardRow>> /\ UNCHANGED <<cardRow, slot, hook, invoice, transfer, settled, touches>>
  BY <1>2, PriceIs
<1>4. PICK w : /\ importer' = [importer EXCEPT ![t] = w] /\ w.pc = "create"
               /\ w.op = (IF cardRow.mode = "MANUAL" THEN "MANUAL" ELSE "unique") /\ w.todo = {a}
  BY <1>2, PriceIs
<1>5. \/ a = Base /\ (cardRow.mode = "MANUAL" \/ FreeOffsets = {})
      \/ \E n \in FreeOffsets : a = Base + n
  BY <1>2, UniqueIs
<1> HIDE DEF a
<1>6. OnGrid(a)
  <2>1. CASE a = Base
    <3>1. Base = Base + 0 * (Tol + 1)
      BY CardAssumption
    <3> QED BY <2>1, <3>1 DEF OnGrid
  <2>2. ASSUME NEW n \in FreeOffsets, a = Base + n PROVE OnGrid(a)
    <3>1. n \in Nat /\ n % (Tol + 1) = 0 /\ Tol + 1 \in Nat \ {0}
      BY CardAssumption DEF FreeOffsets
    <3>2. PICK k \in Nat : n = k * (Tol + 1)
      BY <3>1, GridPoints
    <3> QED BY <2>2, <3>2 DEF OnGrid
  <2> QED BY <1>5, <2>1, <2>2
<1>7. ASSUME w.op = "unique", NEW j \in OpenAt(invoice, slot) PROVE ~Near(invoice[j].amount, a) /\ ~Near(a, invoice[j].amount)
  <2>1. FreeOffsets # {}
    BY <1>1, <1>2, <1>3, FreeAmount DEF PriceOK
  <2>2. cardRow.mode # "MANUAL"
    BY <1>4, <1>7
  <2>3. PICK n \in FreeOffsets : a = Base + n
    BY <1>5, <2>1, <2>2
  <2>4. j \in OpenInvoices
    BY DEF OpenInvoices, OpenAt
  <2>5. ~Near(invoice[j].amount, a)
    BY <2>3, <2>4 DEF FreeOffsets, AmountAway
  <2>6. a \in Nat /\ invoice[j].amount \in Nat /\ Tol \in Nat
    <3>1. n \in Nat /\ Base \in Nat /\ Tol \in Nat
      BY CardAssumption DEF FreeOffsets
    <3>2. j \in Invoices
      BY DEF OpenAt
    <3> QED BY <1>1, <2>3, <3>1, <3>2 DEF CardTypes, InvoiceRows
  <2> QED BY <2>5, <2>6 DEF Near
<1>8. PriceOK(w, invoice', slot')
  BY <1>2, <1>3, <1>4, <1>6, <1>7 DEF PriceOK
<1>9. FreshOK(w, cardRow') /\ RingNow(w, cardRow') = cardRow.deposits /\ HookOK(w, cardRow', hook')
  BY <1>2, <1>3, <1>4, QuietIs DEF FreshOK, RingNow, Importing, HookOK
<1>10. RingOK(RingNow(w, cardRow'), transfer', settled') /\ PaysOnce(settled') /\ cardCache' = <<cardRow'>>
  BY <1>1, <1>2, <1>3, <1>9
<1> QED BY <1>1, <1>2, <1>4, <1>8, <1>9, <1>10, AloneStep

\* createOrder opens the invoice it priced.
LEMMA OpenAlone ==
  ASSUME DepositInv, ~Overlap, NEW t \in Importers, openInvoice(t) PROVE DepositInv'
<1> DEFINE v == importer[t]
           i == v.id
<1>1. MatchInv /\ MatchInv' /\ PaysOnce(settled)
  BY OpenStep DEF DepositInv
<1>2. v.pc = "create" /\ i \in Invoices /\ invoice[i].status = "NONE" /\ UNCHANGED <<cardRow, cardCache, slot, hook, transfer, settled, touches>>
  BY <1>1, OpenIs
<1>3. PICK a \in Base..(Base + Spread), row \in InvoiceRows :
        /\ v.todo = {a} /\ invoice' = [invoice EXCEPT ![i] = row]
        /\ row.status = "PENDING" /\ row.amount = a /\ row.priced = v.op
  BY <1>1, OpenIs
<1>4. PICK w \in Works : importer' = [importer EXCEPT ![t] = w] /\ w.pc = "rematch"
  BY <1>1, OpenIs
<1>5. OneRequest(v) /\ \A u \in Importers \ {t} : importer[u] = Quiet
  BY <1>2, Mine
<1> HIDE DEF v, i
<1>6. invoice'[i] = row /\ \A j \in Invoices \ {i} : invoice'[j] = invoice[j]
  BY <1>1, <1>2, <1>3, StatusMoves
<1>7. PriceOK(v, invoice, slot) /\ FreshOK(v, cardRow) /\ RingOK(cardRow.deposits, transfer, settled) /\ HookOK(Quiet, cardRow, hook)
  BY <1>2, <1>5, QuietIs DEF OneRequest, RingNow, Importing, HookOK
<1>8. \A j \in OpenAt(invoice', slot') : j \in Invoices /\ (j = i \/ (j \in OpenAt(invoice, slot) /\ invoice'[j] = invoice[j]))
  BY <1>2, <1>6 DEF OpenAt
<1>9. \A j \in Invoices : invoice'[j].status # "NONE" => OnGrid(invoice'[j].amount)
  BY <1>2, <1>3, <1>6, <1>7 DEF PriceOK
<1>10. ASSUME NEW j \in OpenAt(invoice', slot'), NEW k \in OpenAt(invoice', slot'), j # k, invoice'[j].priced = "unique", invoice'[k].priced = "unique"
       PROVE  ~Near(invoice'[j].amount, invoice'[k].amount)
  <2>1. CASE j # i /\ k # i
    BY <1>7, <1>8, <1>10, <2>1 DEF PriceOK
  <2>2. CASE j = i
    <3>1. v.op = "unique" /\ k \in OpenAt(invoice, slot) /\ invoice'[k] = invoice[k] /\ invoice'[j].amount = a /\ a \in v.todo
      BY <1>3, <1>6, <1>8, <1>10, <2>2
    <3> QED BY <1>2, <1>7, <1>10, <3>1 DEF PriceOK
  <2>3. CASE k = i
    <3>1. v.op = "unique" /\ j \in OpenAt(invoice, slot) /\ invoice'[j] = invoice[j] /\ invoice'[k].amount = a /\ a \in v.todo
      BY <1>3, <1>6, <1>8, <1>10, <2>3
    <3> QED BY <1>2, <1>7, <1>10, <3>1 DEF PriceOK
  <2> QED BY <2>1, <2>2, <2>3
<1>11. PriceOK(w, invoice', slot')
  BY <1>4, <1>9, <1>10 DEF PriceOK
<1>12. FreshOK(w, cardRow') /\ RingNow(w, cardRow') = cardRow.deposits /\ HookOK(w, cardRow', hook')
  BY <1>2, <1>4, <1>7, QuietIs DEF FreshOK, RingNow, Importing, HookOK
<1>13. RingOK(RingNow(w, cardRow'), transfer', settled') /\ PaysOnce(settled') /\ (cardCache' = <<>> \/ cardCache' = <<cardRow'>>)
  BY <1>1, <1>2, <1>7, <1>12 DEF DepositInv
<1> QED BY <1>1, <1>4, <1>5, <1>11, <1>12, <1>13, AloneStep

\* The transfer of a buyer is no one the ring shows yet.
LEMMA TransferAlone ==
  ASSUME DepositInv, NEW d \in Transfers, NEW i \in Invoices, bankTransfer(d, i) PROVE DepositInv'
<1>1. MatchInv /\ MatchInv' /\ CardTypes
  BY TransferStep, CardFacts DEF DepositInv
<1>2. UNCHANGED <<cardRow, cardCache, slot, hook, invoice, importer, settled, touches>> /\ transfer[d].amount = 0
  BY DEF bankTransfer
<1>3. \A x \in Transfers \ {d} : transfer'[x] = transfer[x]
  BY <1>1 DEF bankTransfer, CardTypes
<1>4. PICK w : Alone(w) /\ OneRequest(w)
  BY DEF DepositInv
<1>5. RingNow(w, cardRow) \in Seq(Cards)
  <2>1. cardRow.deposits \in Seq(Cards) /\ (\A u \in Importers : importer[u].next \in Seq(Cards)) /\ Quiet.next \in Seq(Cards)
    BY <1>1, CardFacts, QuietIs DEF CardRowOK, CardRows, Works
  <2>2. w.next \in Seq(Cards)
    BY <1>4, <2>1 DEF Alone
  <2> QED BY <2>1, <2>2 DEF RingNow
<1> DEFINE ds == RingNow(w, cardRow)
<1>6. \A n \in DOMAIN ds : ds[n].from \in Transfers
  <2>1. \A n \in DOMAIN ds : ds[n] \in Cards
    BY <1>5
  <2> QED BY <2>1 DEF Cards
<1>7. RingOK(ds, transfer, settled)
  BY <1>4 DEF OneRequest
<1> HIDE DEF ds
<1>8. \A n \in DOMAIN ds : ds[n].from # d
  BY <1>2, <1>7 DEF RingOK
<1>9. RingOK(ds, transfer', settled')
  BY <1>2, <1>3, <1>6, <1>7, <1>8 DEF RingOK
<1>10. Alone(w)'
  BY <1>2, <1>4 DEF Alone
<1>11. OneRequest(w)'
  BY <1>2, <1>4, <1>9 DEF OneRequest, ds
<1>12. (cardCache' = <<>> \/ cardCache' = <<cardRow'>>) /\ PaysOnce(settled')
  BY <1>2 DEF DepositInv
<1> QED BY <1>1, <1>10, <1>11, <1>12 DEF DepositInv

\* One invoice moves by hand: if it comes back, it is no longer priced as unique.
LEMMA HandAlone ==
  ASSUME DepositInv, MatchInv', NEW i \in Invoices, NEW row \in InvoiceRows, invoice' = [invoice EXCEPT ![i] = row],
         invoice[i].status \notin {"NONE", "CONFIRMED"}, row.status # "NONE", row.amount = invoice[i].amount,
         row.status \in {"PENDING", "REVIEW"} /\ row.priced = "unique" =>
           invoice[i].status \in {"PENDING", "REVIEW"} /\ row.born = invoice[i].born /\ invoice[i].priced = "unique",
         UNCHANGED <<cardRow, cardCache, slot, hook, importer, transfer, settled>>
  PROVE  DepositInv'
<1>1. MatchInv
  BY DEF DepositInv
<1>2. invoice'[i] = row /\ \A j \in Invoices \ {i} : invoice'[j] = invoice[j]
  BY <1>1, StatusMoves
<1>3. \A j \in Invoices : invoice'[j].status # "NONE" => invoice[j].status # "NONE" /\ invoice'[j].amount = invoice[j].amount
  BY <1>2
<1>4. \A j \in OpenAt(invoice', slot') : invoice'[j].priced = "unique" => j \in OpenAt(invoice, slot) /\ invoice[j].priced = "unique"
  BY <1>2 DEF OpenAt
<1>5. ASSUME NEW w, PriceOK(w, invoice, slot) PROVE PriceOK(w, invoice', slot')
  BY ONLY <1>3, <1>4, <1>5, PriceKept
<1> QED BY <1>5, BesideStep

\* A buyer sends his receipt.
LEMMA ProofAlone ==
  ASSUME DepositInv, NEW i \in Invoices, NEW d \in Transfers, submitProof(i, d) PROVE DepositInv'
<1>1. MatchInv /\ MatchInv'
  BY ProofStep DEF DepositInv
<1>2. PICK row \in InvoiceRows :
        /\ invoice' = [invoice EXCEPT ![i] = row] /\ row.status = "REVIEW" /\ row.amount = invoice[i].amount /\ row.born = invoice[i].born
        /\ row.priced = (IF invoice[i].status = "REJECTED" THEN "reopened" ELSE invoice[i].priced)
        /\ invoice[i].status \in {"REVIEW", "REJECTED"} \/ (invoice[i].status = "PENDING" /\ i \in OpenInvoices)
        /\ UNCHANGED <<cardRow, cardCache, slot, hook, importer, transfer, settled>>
  BY <1>1, ProofIs
<1> QED BY <1>1, <1>2, HandAlone

\* The seller reviews an invoice, or the worker expires it.
LEMMA ReviewAlone ==
  ASSUME DepositInv, NEW i \in Invoices, NEW v, reviewInvoice(i, v) PROVE DepositInv'
<1>1. MatchInv /\ MatchInv'
  BY ReviewStep DEF DepositInv
<1>2. PICK row \in InvoiceRows :
           /\ invoice' = [invoice EXCEPT ![i] = row] /\ row.status \in {"CONFIRMED", "REJECTED", "EXPIRED"}
           /\ row.amount = invoice[i].amount
           /\ invoice[i].status \in {"PENDING", "REVIEW", "REJECTED", "EXPIRED"}
           /\ UNCHANGED <<cardRow, cardCache, slot, hook, importer, transfer, settled>>
  BY <1>1, ReviewIs
<1> QED BY <1>1, <1>2, HandAlone

\* At the start all requests rest and the ring is empty.
LEMMA DepositInit ==
  ASSUME CardInit PROVE DepositInv
<1>1. /\ cardRow = NoCard /\ cardCache = <<>> /\ hook = {} /\ importer = [t \in Importers |-> Quiet]
      /\ (\A i \in Invoices : invoice[i].status = "NONE") /\ \A d \in Transfers : settled[d] = {}
  BY DEF CardInit
<1>2. Alone(Quiet)
  BY <1>1 DEF Alone
<1>3. FreshOK(Quiet, cardRow) /\ HookOK(Quiet, cardRow, hook) /\ RingNow(Quiet, cardRow) = <<>>
  BY <1>1, QuietIs DEF FreshOK, HookOK, RingNow, Importing, ImportOps
<1>4. RingOK(<<>>, transfer, settled)
  BY <1>1 DEF RingOK
<1>5. OpenAt(invoice, slot) = {}
  BY <1>1 DEF OpenAt
<1>6. PriceOK(Quiet, invoice, slot)
  BY <1>1, <1>5, QuietIs DEF PriceOK
<1>7. PaysOnce(settled)
  BY <1>1 DEF PaysOnce
<1> QED BY <1>1, <1>2, <1>3, <1>4, <1>6, <1>7, MatchInit DEF DepositInv, OneRequest

\* Every step keeps it.
LEMMA DepositNext ==
  ASSUME DepositInv, ~Overlap, CardRoom, [CardNext]_cardVars PROVE DepositInv'
<1>1. ASSUME NEW s \in 0..MaxSlot, cacheExpires(s) PROVE DepositInv'
  BY <1>1, ExpireAlone
<1>2. ASSUME NEW t \in Importers, NEW d \in Transfers, NEW k \in 0..MaxToken, ingestDeposit(t, d, k) PROVE DepositInv'
  <2>1. ImportFree(t) /\ Ingest(t, d, "ingest", Quiet)
    BY <1>2 DEF ingestDeposit
  <2> QED BY <2>1, IngestAlone
<1>3. ASSUME NEW t \in Importers, syncBankDeposits(t) \/ rematchDeposits(t) \/ matchDeposit(t) \/ autoConfirm(t)
                                  \/ saveCardAutoRead(t) \/ saveCardAuto(t) \/ rotateSmsToken(t) \/ openInvoice(t)
      PROVE DepositInv'
  BY <1>3, SyncAlone, RematchAlone, MatchAlone, ConfirmAlone, ReadAlone, SaveAlone, RotateAlone, OpenAlone
<1>4. ASSUME NEW t \in Importers, NEW m \in {"MANUAL", "SMS", "BANK"}, putExtras(t, m) PROVE DepositInv'
  BY <1>4, ModeAlone DEF Modes
<1>5. ASSUME NEW t \in Importers, NEW i \in Invoices, priceInvoice(t, i) PROVE DepositInv'
  BY <1>5, PriceAlone
<1>6. ASSUME NEW d \in Transfers, NEW i \in Invoices, bankTransfer(d, i) \/ submitProof(i, d) PROVE DepositInv'
  BY <1>6, TransferAlone, ProofAlone
<1>7. ASSUME NEW i \in Invoices, NEW v \in {"CONFIRMED", "REJECTED", "EXPIRED"}, reviewInvoice(i, v) PROVE DepositInv'
  BY <1>7, ReviewAlone
<1>8. CASE UNCHANGED cardVars
  <2>1. UNCHANGED <<cardRow, cardCache, hook, invoice, importer, slot, transfer, settled, touches>>
    BY <1>8 DEF cardVars
  <2>2. MatchInv'
    BY MatchNext DEF DepositInv
  <2>3. \A w : (Alone(w) => Alone(w)') /\ (OneRequest(w) => OneRequest(w)')
    BY <2>1 DEF Alone, OneRequest
  <2> QED BY <2>1, <2>2, <2>3 DEF DepositInv
<1> QED BY <1>1, <1>2, <1>3, <1>4, <1>5, <1>6, <1>7, <1>8 DEF CardNext

\* All that cardAuto.ts promises, when requests come one after the other, no
\* confirmation fails half way, and the ring and the amounts suffice: a transfer
\* pays at most one invoice however often it is reported, the token shown is the
\* only one that resolves, open invoices priced as unique are apart, and a MATCHED
\* deposit names a CONFIRMED payment.
THEOREM DepositsAreSound == ~Overlap /\ CardRoom => (CardSpec => []DepositsSound)
<1> SUFFICES ASSUME ~Overlap, CardRoom PROVE CardSpec => []DepositsSound
  OBVIOUS
<1>1. DepositInv => DepositPaysOnce /\ TokenResolves /\ AmountsDistinct
  <2> SUFFICES ASSUME DepositInv PROVE DepositPaysOnce /\ TokenResolves /\ AmountsDistinct
    OBVIOUS
  <2>1. PICK w : Alone(w) /\ OneRequest(w)
    BY DEF DepositInv
  <2>2. DepositPaysOnce
    <3>1. \A d \in Transfers : Cardinality(settled[d]) \in {0, 1}
      BY FS_EmptySet, FS_Singleton DEF DepositInv, PaysOnce
    <3> QED BY <3>1 DEF DepositPaysOnce
  <2>3. TokenResolves
    <3> SUFFICES ASSUME \A t \in Importers : ImportAt(t, "idle"), cardRow.token # 0 PROVE hook = {cardRow.token}
      BY DEF TokenResolves
    <3>1. w.pc = "idle"
      BY <2>1, QuietIs DEF Alone, ImportAt
    <3> QED BY <2>1, <3>1 DEF OneRequest, HookOK
  <2>4. AmountsDistinct
    <3>1. OpenInvoices = OpenAt(invoice, slot)
      BY DEF OpenInvoices, OpenAt
    <3> QED BY <2>1, <3>1 DEF OneRequest, PriceOK, AmountsDistinct
  <2> QED BY <2>2, <2>3, <2>4
<1>2. CardSpec => []DepositInv
  <2>1. CardInit => DepositInv
    BY DepositInit
  <2>2. DepositInv /\ [CardNext]_cardVars => DepositInv'
    BY DepositNext
  <2> QED BY <2>1, <2>2, PTL DEF CardSpec
<1>3. CardTypeOK /\ MatchedIsConfirmed /\ DepositPaysOnce /\ TokenResolves /\ AmountsDistinct => DepositsSound
  BY DEF DepositsSound
<1> QED BY <1>1, <1>2, <1>3, MatchesAreConfirmed, PTL
=============================================================================
