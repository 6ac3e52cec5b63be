---------------------------- MODULE CardDeposits ----------------------------
(***************************************************************************)
(* services/cardAuto.ts over services/settings.ts: card-to-card deposits   *)
(* reach the panel through an SMS webhook, a polled bank statement or the   *)
(* seller's own hand, are deduplicated against a ring of recent deposits    *)
(* and confirm the one open invoice they match.  The ring, the mode and the *)
(* webhook token live in ONE settings row, read through a cache and written *)
(* back whole, so every import is a read-modify-write.                      *)
(*                                                                          *)
(* Time is a slot counter: two moments are in one slot or at least 120 s    *)
(* apart.  confirmPayment is one step here; Payments.tla opens it up.       *)
(***************************************************************************)
EXTENDS Settings, Integers, Sequences, FiniteSets

CONSTANTS Invoices,    \* card payments of one seller
          Transfers,   \* money that really arrived on the seller's card
          Importers,   \* requests and jobs running cardAuto.ts
          Base,        \* the price both buyers pay, in toman
          Tol,         \* toleranceIrt
          Spread,      \* the 999 of uniqueCardAmount's search
          RING,        \* deposits kept in the row
          Rematched,   \* the 15 of rematchDeposits
          WindowSlots, \* windowMin in slots
          MaxSlot,     \* bound on the clock
          MaxReports,  \* bound on the reports of one transfer
          MaxToken,    \* bound on the tokens minted
          MaxTouches,  \* bound on what sellers and buyers do by hand
          Overlap      \* requests overlap, and a confirmation may fail half way

ASSUME CardAssumption ==
  /\ {Base, RING, Rematched} \subseteq Nat \ {0}
  /\ {Tol, Spread, WindowSlots, MaxSlot, MaxReports, MaxToken, MaxTouches} \subseteq Nat /\ Overlap \in BOOLEAN

VARIABLES cardRow,    \* the Setting row store:card:<seller>
          cardCache,  \* the same row as the web process last saw it, or <<>>
          hook,       \* tokens whose store:smsHook row names the seller
          invoice,    \* payment rows: status, amount, receiptRef, slot, pricing
          importer,   \* local state of each request
          slot,       \* the clock
          transfer,   \* what the bank saw: amount, reference shown, reports sent
          settled,    \* ghost: invoices each transfer has confirmed
          touches     \* edits, proofs and reviews so far

cardVars == <<cardRow, cardCache, hook, invoice, importer, slot, transfer, settled, touches>>
deskVars == <<hook, invoice, transfer, settled, touches>>

None == "none"
NoCard == [deposits |-> <<>>, token |-> 0, mode |-> "MANUAL", synced |-> FALSE]
Quiet == [op |-> "idle", pc |-> "idle", id |-> None, next |-> <<>>, todo |-> {}, cur |-> NoCard]
Cards == [from : Transfers, amount : 0..(Base + Spread), ref : BOOLEAN, at : 0..MaxSlot,
          status : {"MATCHED", "UNMATCHED", "AMBIGUOUS"}, pay : Invoices \union {None}]
CardRows == [deposits : Seq(Cards), token : 0..MaxToken, mode : {"MANUAL", "SMS", "BANK"}, synced : BOOLEAN]

CardInit ==
  /\ cardRow = NoCard /\ cardCache = <<>> /\ hook = {}
  /\ invoice = [i \in Invoices |-> [status |-> "NONE", amount |-> 0, ref |-> None, born |-> 0, priced |-> None]]
  /\ importer = [t \in Importers |-> Quiet] /\ slot = 0
  /\ transfer = [d \in Transfers |-> [amount |-> 0, ref |-> FALSE, sent |-> 0]]
  /\ settled = [d \in Transfers |-> {}] /\ touches = 0

(* ------------------------- settings and the clock ----------------------- *)

\* cardAutoSettings reads through the cache; a save writes the whole value.
cardAutoSettings == getSetting(cardRow, cardCache)
setCard(value) == cardRow' = value /\ cardCache' = setSettingCache(value)

\* The 5 s TTL runs out, or so much time passes that the slot changes too.  (In one
\* process whose requests do not overlap a live entry equals the row.)
cacheExpires(s) ==
  /\ s \in {slot, slot + 1} /\ s <= MaxSlot /\ (s = slot => Overlap /\ cardCache # <<>>)
  /\ slot' = s /\ cardCache' = <<>>
  /\ cardRow' = [cardRow EXCEPT !.synced = @ /\ s = slot]  \* bankLastSyncAt + bankPollMin
  /\ UNCHANGED <<importer, deskVars>>

(* ------------------------- the steps of an import ----------------------- *)

ImportAt(t, pc) == importer[t].pc = pc
ImportFree(t) == ImportAt(t, "idle") /\ (Overlap \/ \A u \in Importers : ImportAt(u, "idle"))
ImportBecome(t, op, pc, id, next, todo) ==
  importer' = [importer EXCEPT ![t] = [Quiet EXCEPT !.op = op, !.pc = pc, !.id = id, !.next = next, !.todo = todo]]
Near(a, b) == IF a > b THEN a - b <= Tol ELSE b - a <= Tol
OpenInvoices == {i \in Invoices : /\ invoice[i].status \in {"PENDING", "REVIEW"}
                                  /\ invoice[i].born + WindowSlots >= slot}

\* Mutant of fingerprint: the minute is part of the fingerprint.
fingerprintDated(d) == <<d.from, d.at>>
\* With a reference the reference is the fingerprint, without it amount and text.
fingerprint(d) == <<d.from, d.ref, IF d.ref THEN 0 ELSE d.amount>>

Ring(ds) == SubSeq(ds, 1, IF Len(ds) < RING THEN Len(ds) ELSE RING)

\* adminByDepositToken: the hook row names the seller and the token is current.
adminByDepositToken(k) == k \in hook /\ cardAutoSettings.token = k

\* ingestDeposit up to its duplicate check: a known deposit is dropped and the
\* request goes on as after, any other is matched.
Ingest(t, d, op, after) ==
  LET s == cardAutoSettings
      dep == [from |-> d, amount |-> transfer[d].amount, ref |-> transfer[d].ref, at |-> slot,
              status |-> "UNMATCHED", pay |-> None]
      dup == \E n \in DOMAIN s.deposits :
               \/ fingerprint(s.deposits[n]) = fingerprint(dep)
               \/ s.deposits[n].amount = dep.amount /\ s.deposits[n].at = dep.at
  IN /\ transfer[d].amount > 0 /\ transfer[d].sent < MaxReports
     /\ cardCache' = <<s>> /\ transfer' = [transfer EXCEPT ![d].sent = @ + 1]
     /\ IF dup THEN importer' = [importer EXCEPT ![t] = after]
               ELSE ImportBecome(t, op, "match", None, Ring(<<dep>> \o s.deposits), {1})
     /\ UNCHANGED <<cardRow, slot, hook, invoice, settled, touches>>

\* A report of transfer d, as an SMS with token k or by the seller's hand (k = 0).
ingestDeposit(t, d, k) ==
  /\ ImportFree(t) /\ (k # 0 => adminByDepositToken(k))
  /\ Ingest(t, d, "ingest", Quiet)

\* The last write of syncBankDeposits: bankLastSyncAt and lastError.
Synced == [Quiet EXCEPT !.op = "sync", !.pc = "reread"]

\* syncBankDeposits, from the worker when it is due or from the seller's button:
\* the endpoint fails or shows nothing, or shows a transfer.
syncBankDeposits(t) ==
  /\ ImportFree(t) /\ cardRow.mode = "BANK" /\ ~cardRow.synced
  /\ \/ importer' = [importer EXCEPT ![t] = Synced] /\ UNCHANGED <<cardRow, cardCache, slot, deskVars>>
     \/ \E d \in Transfers : Ingest(t, d, "bank", Synced)

\* rematchDeposits: the first open deposits of the row, in its order.
OpenDeposits(ds) ==
  LET open == {n \in DOMAIN ds : ds[n].status \in {"UNMATCHED", "AMBIGUOUS"}}
  IN {n \in open : Cardinality({m \in open : m <= n}) <= Rematched}
Rematch(t) ==
  LET s == cardAutoSettings IN
  /\ cardCache' = <<s>>
  /\ IF OpenDeposits(s.deposits) = {} THEN importer' = [importer EXCEPT ![t] = Quiet]
     ELSE ImportBecome(t, "rematch", "match", None, s.deposits, OpenDeposits(s.deposits))
rematchDeposits(t) ==
  /\ ImportFree(t) \/ ImportAt(t, "rematch")
  /\ Rematch(t) /\ UNCHANGED <<cardRow, slot, deskVars>>

First(todo) == CHOOSE n \in todo : \A m \in todo : n <= m

\* The result of matching the deposit at hand, and on to the next one.
Result(t, status, pay) ==
  LET w == importer[t]
      k == First(w.todo)
      rest == w.todo \ {k}
      done == [w.next[k] EXCEPT !.status = status, !.pay = pay] IN
  importer' = [importer EXCEPT ![t] = [w EXCEPT !.next = [w.next EXCEPT ![k] = done], !.todo = rest,
                                                !.pc = IF rest = {} THEN "reread" ELSE "match"]]

\* matchDeposit's candidates: by amount, or by the reference if that names one.
Candidates(d) ==
  LET byRef == {i \in OpenInvoices : d.ref /\ invoice[i].ref = d.from}
  IN IF Cardinality(byRef) = 1 THEN byRef
     ELSE {i \in OpenInvoices : Near(invoice[i].amount, d.amount)}

\* A lone candidate is confirmed, unless autoConfirm is off (requireLast4 is).
matchDeposit(t) ==
  LET c == Candidates(importer[t].next[First(importer[t].todo)]) IN
  /\ ImportAt(t, "match")
  /\ \/ c = {} /\ Result(t, "UNMATCHED", None)
     \/ Cardinality(c) > 1 /\ Result(t, "AMBIGUOUS", None)
     \/ \E i \in c : c = {i} /\ (importer' = [importer EXCEPT ![t].pc = "confirm", ![t].id = i] \/ Result(t, "UNMATCHED", i))
  /\ UNCHANGED <<cardRow, cardCache, slot, deskVars>>

\* confirmPayment(auto): an expired invoice throws, a confirmed one returns at
\* once, any other is confirmed; what follows the status write may still throw.
autoConfirm(t) ==
  LET i == importer[t].id  d == importer[t].next[First(importer[t].todo)].from IN
  /\ ImportAt(t, "confirm")
  /\ \/ invoice[i].status = "EXPIRED" /\ Result(t, "UNMATCHED", i) /\ UNCHANGED <<invoice, settled>>
     \/ invoice[i].status = "CONFIRMED" /\ Result(t, "MATCHED", i) /\ UNCHANGED <<invoice, settled>>
     \/ /\ invoice[i].status \in {"PENDING", "REVIEW", "REJECTED"}
        /\ invoice' = [invoice EXCEPT ![i].status = "CONFIRMED"]
        /\ settled' = [settled EXCEPT ![d] = @ \union {i}]
        /\ \/ Result(t, "MATCHED", i)
           \/ Overlap /\ Result(t, "UNMATCHED", i)
  /\ UNCHANGED <<cardRow, cardCache, slot, hook, transfer, touches>>

\* saveCardAuto, first half: the current value is read (again) ...
saveCardAutoRead(t) ==
  /\ ImportAt(t, "reread") /\ cardCache' = <<cardAutoSettings>>
  /\ importer' = [importer EXCEPT ![t].cur = cardAutoSettings, ![t].pc = "write"]
  /\ UNCHANGED <<cardRow, slot, deskVars>>

\* ... and written back with the patch over it: the deposits as computed from
\* the first read, the new token or the new mode.
saveCardAuto(t) ==
  LET w == importer[t] IN
  /\ ImportAt(t, "write")
  /\ CASE w.op \in {"ingest", "rematch", "bank"} -> setCard([w.cur EXCEPT !.deposits = w.next])
       [] w.op = "rotate" -> setCard([w.cur EXCEPT !.token = w.id])
       [] w.op = "sync" -> setCard([w.cur EXCEPT !.synced = TRUE])
       [] OTHER -> setCard([w.cur EXCEPT !.mode = w.id])
  /\ importer' = [importer EXCEPT ![t] = CASE w.op = "mode" /\ w.id = "SMS" -> [Quiet EXCEPT !.op = "rotate", !.pc = "ensure"]
                                           [] w.op = "bank" -> Synced
                                           [] OTHER -> Quiet]
  /\ UNCHANGED <<slot, deskVars>>

(* ---------------------- the seller's own operations --------------------- *)

Touch == touches < MaxTouches /\ touches' = touches + 1

\* PUT /store/extras starts with saveCardAuto of the form.
putExtras(t, mode) ==
  /\ ImportFree(t) /\ mode # cardRow.mode /\ ImportBecome(t, "mode", "reread", mode, <<>>, {})
  /\ Touch /\ UNCHANGED <<cardRow, cardCache, slot, hook, invoice, transfer, settled>>

\* rotateSmsToken: the old hook row is emptied, the new one written, then the
\* token saved; ensureSmsToken rotates only when there is none yet.
rotateSmsToken(t) ==
  LET s == cardAutoSettings IN
  /\ ImportAt(t, "ensure") \/ ImportFree(t)
  /\ cardCache' = <<s>>
  /\ IF ImportAt(t, "ensure") /\ s.token # 0
     THEN hook' = hook \union {s.token} /\ importer' = [importer EXCEPT ![t] = Quiet]
     ELSE \E k \in 1..MaxToken :
            /\ \A j \in 1..MaxToken : j < k => j \in hook \/ j <= s.token
            /\ k \notin hook /\ k > s.token
            /\ hook' = (hook \ {s.token}) \union {k}
            /\ ImportBecome(t, "rotate", "reread", k, <<>>, {})
  /\ UNCHANGED <<cardRow, slot, invoice, transfer, settled, touches>>

(* ------------------------------- invoices ------------------------------- *)

\* uniqueCardAmount: the first of base, base + step, ... that is away from every
\* open invoice, and the base itself when there is none or in manual mode.
uniqueCardAmount ==
  LET away(c) == \A i \in OpenInvoices : ~Near(invoice[i].amount, c)
      free == {n \in 0..Spread : n % (Tol + 1) = 0 /\ away(Base + n)}
  IN IF cardAutoSettings.mode = "MANUAL" \/ free = {} THEN Base
     ELSE Base + CHOOSE n \in free : \A m \in free : n <= m

\* createOrder prices the card invoice ...
priceInvoice(t, i) ==
  /\ ImportFree(t) /\ invoice[i].status = "NONE" /\ \A u \in Importers : importer[u].id # i
  /\ cardCache' = <<cardAutoSettings>>
  /\ importer' = [importer EXCEPT ![t] = [Quiet EXCEPT !.op = IF cardAutoSettings.mode = "MANUAL" THEN "MANUAL" ELSE "unique",
                                                       !.pc = "create", !.id = i, !.todo = {uniqueCardAmount}]]
  /\ UNCHANGED <<cardRow, slot, deskVars>>

\* ... opens the payment and looks at the deposits that are already there.
openInvoice(t) ==
  /\ ImportAt(t, "create")
  /\ invoice' = [invoice EXCEPT ![importer[t].id] =
       [status |-> "PENDING", amount |-> First(importer[t].todo), ref |-> None, born |-> slot, priced |-> importer[t].op]]
  /\ importer' = [importer EXCEPT ![t].pc = "rematch"]
  /\ UNCHANGED <<cardRow, cardCache, slot, hook, transfer, settled, touches>>

\* A buyer pays an invoice at the bank; the statement may or may not show the
\* reference.  External: the bank.
bankTransfer(d, i) ==
  /\ transfer[d].amount = 0 /\ invoice[i].status # "NONE"
  /\ \E r \in BOOLEAN : transfer' = [transfer EXCEPT ![d] = [amount |-> invoice[i].amount, ref |-> r, sent |-> 0]]
  /\ UNCHANGED <<cardRow, cardCache, slot, hook, invoice, importer, settled, touches>>

\* submitProof for a card: any status but CONFIRMED and EXPIRED goes to REVIEW,
\* a rejected invoice too; a PENDING one only before it is due.
submitProof(i, d) ==
  /\ \/ invoice[i].status \in {"REVIEW", "REJECTED"}
     \/ invoice[i].status = "PENDING" /\ i \in OpenInvoices
  /\ invoice' = [invoice EXCEPT ![i].status = "REVIEW", ![i].ref = d,
                                ![i].priced = IF invoice[i].status = "REJECTED" THEN "reopened" ELSE @]
  /\ Touch /\ UNCHANGED <<cardRow, cardCache, slot, hook, importer, transfer, settled>>

\* The seller confirms or rejects by hand, the worker expires.
reviewInvoice(i, verdict) ==
  /\ \/ verdict = "CONFIRMED" /\ invoice[i].status \in {"PENDING", "REVIEW", "REJECTED", "EXPIRED"}
     \/ verdict = "REJECTED" /\ invoice[i].status \in {"PENDING", "REVIEW", "EXPIRED"}
     \/ verdict = "EXPIRED" /\ invoice[i].status = "PENDING" /\ i \notin OpenInvoices
  /\ invoice' = [invoice EXCEPT ![i].status = verdict]
  /\ Touch /\ UNCHANGED <<cardRow, cardCache, slot, hook, importer, transfer, settled>>

CardNext ==
  \/ \E s \in 0..MaxSlot : cacheExpires(s)
  \/ \E t \in Importers :
       \/ \E d \in Transfers, k \in 0..MaxToken : ingestDeposit(t, d, k)
       \/ syncBankDeposits(t) \/ rematchDeposits(t) \/ matchDeposit(t) \/ autoConfirm(t)
       \/ saveCardAutoRead(t) \/ saveCardAuto(t) \/ rotateSmsToken(t) \/ openInvoice(t)
       \/ \E m \in {"MANUAL", "SMS", "BANK"} : putExtras(t, m)
       \/ \E i \in Invoices : priceInvoice(t, i)
  \/ \E d \in Transfers, i \in Invoices : bankTransfer(d, i) \/ submitProof(i, d)
  \/ \E i \in Invoices, v \in {"CONFIRMED", "REJECTED", "EXPIRED"} : reviewInvoice(i, v)

CardSpec == CardInit /\ [][CardNext]_cardVars

(* ------------------------------ properties ------------------------------ *)

\* The card settings, their cache and the imports stay within their types.
CardTypeOK ==
  /\ cardRow \in CardRows /\ cardCache \in {<<>>} \union {<<r>> : r \in {getSetting(cardRow, cardCache)} \intersect CardRows} /\ hook \subseteq 1..MaxToken
  /\ \A t \in Importers : importer[t].cur \in CardRows
  /\ slot \in 0..MaxSlot

\* A deposit the ring shows as MATCHED names a payment that is CONFIRMED, through
\* imports, rematches, manual reviews and expiries in any order.
MatchedIsConfirmed ==
  \A n \in DOMAIN cardRow.deposits :
    cardRow.deposits[n].status = "MATCHED" => invoice[cardRow.deposits[n].pay].status = "CONFIRMED"

\* "Imports one deposit, dedupes it" (cardAuto.ts:302): however often a transfer
\* is reported, and however late its order arrives, the money confirms at most
\* one invoice.
DepositPaysOnce == \A d \in Transfers : Cardinality(settled[d]) <= 1

\* The token the seller is shown resolves to him once no rotation is under way,
\* and no earlier token does.
TokenResolves ==
  (\A t \in Importers : ImportAt(t, "idle")) /\ cardRow.token # 0 => hook = {cardRow.token}

\* "so two buyers never share one amount" (cardAuto.ts:66): open invoices priced
\* by uniqueCardAmount are further apart than the tolerance, unless one of them
\* had been rejected and came back.
AmountsDistinct ==
  \A i, j \in OpenInvoices :
    i # j /\ invoice[i].priced = "unique" /\ invoice[j].priced = "unique"
      => ~Near(invoice[i].amount, invoice[j].amount)

\* What the card deposits promise, through imports, rematches, manual reviews,
\* expiries, token rotations and reports that come late or twice.
DepositsSound == CardTypeOK /\ MatchedIsConfirmed /\ DepositPaysOnce /\ TokenResolves /\ AmountsDistinct
=============================================================================
