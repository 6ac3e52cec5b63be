---------------------------- MODULE DeskProofs -----------------------------
(***************************************************************************)
(* The components of the desk run, each for any size: books that live in   *)
(* one Setting each and are read and written back as a whole (shop domains, *)
(* sales bots, payment plugins), operator and reseller accounts, reminders, *)
(* the import of a panel's clients, the catalogue, sub-panels, bulk actions *)
(* and the inbounds of a client.                                            *)
(***************************************************************************)
EXTENDS Catalog, ShopDomains, SalesBots, PluginBook, Sessions, LoginGuard, AdminDesk,
        PanelImport, Notifications, ResellerPanels, ClientBulk, ClientTargets, SequenceTheorems,
        FiniteSetTheorems, TLAPS

(* ------------------------------ shop domains ---------------------------- *)

AnyHost == ShopHosts \union {NoHost}
DomainRecords == [host : AnyHost, token : (Sellers \union {NoHost}) \X AnyHost, verified : BOOLEAN]
DomainBooks == [Sellers -> DomainRecords]
DomainRequests ==
  [at : {"idle", "set", "clear", "remove", "probe", "save", "live"}, host : AnyHost,
   items : {<<>>} \union {<<b>> : b \in DomainBooks}, rec : DomainRecords, ok : BOOLEAN]

\* A record, and a book, whose verified hosts answered with their seller's token.
Vouched(r, hosts) == r.verified => r.host \in hosts
BookVouched(b, proven) == \A a \in Sellers : Vouched(b[a], proven[a])

(***************************************************************************)
(* What a seller's request may rely on between two awaits: the book it is  *)
(* going to write back and the record it probes call nothing verified that *)
(* was not, and it goes live only with a host that answered.  All of it is *)
(* stable, because the set of hosts that answered only grows.              *)
(***************************************************************************)
DomainRequestOK(q, a, proven) ==
  /\ q.at \in {"set", "remove"} => \E b \in DomainBooks : q.items = <<b>> /\ BookVouched(b, proven)
  /\ Vouched(q.rec, proven[a])
  /\ q.ok => q.rec.host \in proven[a]
  /\ q.at = "live" => q.ok

LiveAlone ==
  \A a \in Sellers : live[a] # NoHost => live[a] \in proved[a] /\ \A b \in Sellers \ {a} : live[b] # live[a]

DomainInv ==
  /\ domainBook \in DomainBooks /\ live \in [Sellers -> AnyHost]
  /\ domainReq \in [Sellers -> DomainRequests] /\ proved \in [Sellers -> SUBSET ShopHosts]
  /\ pointing \subseteq ShopHosts
  /\ BookVouched(domainBook, proved)
  /\ \A a \in Sellers : DomainRequestOK(domainReq[a], a, proved)
  /\ LiveAlone

(***************************************************************************)
(* A step of one seller's request keeps the invariant when it writes a     *)
(* vouched book, leaves its own request in order, and takes no host out of *)
(* those that answered.  The other requests follow.                        *)
(***************************************************************************)
LEMMA DomainStep ==
  ASSUME DomainInv, NEW a \in Sellers, NEW q \in DomainRequests,
         domainReq' = [domainReq EXCEPT ![a] = q], DomainRequestOK(q, a, proved'),
         domainBook' \in DomainBooks, BookVouched(domainBook', proved'),
         proved' \in [Sellers -> SUBSET ShopHosts], \A b \in Sellers : proved[b] \subseteq proved'[b],
         live' \in [Sellers -> AnyHost], LiveAlone', UNCHANGED pointing
  PROVE  DomainInv'
<1>1. domainReq' \in [Sellers -> DomainRequests]
  BY DEF DomainInv
<1>2. ASSUME NEW b \in Sellers, b # a PROVE DomainRequestOK(domainReq'[b], b, proved')
  <2>1. domainReq'[b] = domainReq[b] /\ DomainRequestOK(domainReq[b], b, proved)
    BY <1>2 DEF DomainInv
  <2>2. ASSUME NEW c \in DomainBooks, BookVouched(c, proved) PROVE BookVouched(c, proved')
    BY <2>2 DEF BookVouched, Vouched
  <2> QED BY <2>1, <2>2 DEF DomainRequestOK, Vouched
<1>3. DomainRequestOK(domainReq'[a], a, proved')
  BY DEF DomainInv
<1> QED BY <1>1, <1>2, <1>3 DEF DomainInv

(***************************************************************************)
(* A shop is live only under a host that answered with its own token, and  *)
(* alone there, however the requests of the sellers overlap and overwrite  *)
(* the common book.                                                        *)
(***************************************************************************)
THEOREM ShopsLiveOnProvedHosts == ShopDomainsSpec => []DomainsSound
<1>a. NoRecord \in DomainRecords /\ NoReq \in DomainRequests /\ ~NoRecord.verified /\ ~NoReq.ok /\ NoReq.at = "idle" /\ NoReq.rec = NoRecord
  BY DEF NoRecord, NoReq, DomainRecords, DomainRequests, AnyHost
<1>b. \A a \in Sellers : DomainRequestOK(NoReq, a, proved)
  BY <1>a DEF DomainRequestOK, Vouched
<1>1. ShopDomainsInit => DomainInv
  BY <1>a, <1>b DEF ShopDomainsInit, DomainInv, BookVouched, DomainBooks, Vouched, LiveAlone, AnyHost
<1>2. DomainInv /\ [ShopDomainsNext]_domainVars => DomainInv'
  <2> SUFFICES ASSUME DomainInv, [ShopDomainsNext]_domainVars PROVE DomainInv'
    OBVIOUS
  <2>a. \A a \in Sellers : /\ domainReq[a] \in DomainRequests /\ domainReq[a].rec \in DomainRecords
                           /\ DomainRequestOK(domainReq[a], a, proved) /\ domainBook[a] \in DomainRecords
                           /\ domainReq[a].host \in AnyHost
    BY DEF DomainInv, DomainBooks, DomainRequests
  <2>b. UNCHANGED proved => /\ proved' \in [Sellers -> SUBSET ShopHosts] /\ \A b \in Sellers : proved[b] \subseteq proved'[b]
    BY DEF DomainInv
  <2>c. UNCHANGED <<live, proved>> => live' \in [Sellers -> AnyHost] /\ LiveAlone'
    BY DEF DomainInv, LiveAlone
  <2>d. UNCHANGED <<domainBook, proved>> => domainBook' \in DomainBooks /\ BookVouched(domainBook', proved')
    BY DEF DomainInv
  <2>1. ASSUME NEW a \in Sellers, NEW h \in ShopHosts, setStoreDomain(a, h) PROVE DomainInv'
    <3> DEFINE q == [NoReq EXCEPT !.at = "set", !.host = h, !.items = <<domainBook>>]
    <3>1. q \in DomainRequests
      BY <1>a DEF DomainRequests, AnyHost, DomainInv
    <3>2. DomainRequestOK(q, a, proved)
      BY <1>a DEF DomainRequestOK, DomainRequests, DomainInv, Vouched
    <3> QED BY <2>1, <2>b, <2>c, <2>d, <3>1, <3>2, DomainStep DEF setStoreDomain
  <2>2. ASSUME NEW a \in Sellers, saveDomain(a) PROVE DomainInv'
    <3> DEFINE q == domainReq[a]
    <3>1. PICK b \in DomainBooks : q.items = <<b>> /\ BookVouched(b, proved)
      BY <2>2, <2>a DEF saveDomain, DomainRequestOK
    <3> DEFINE fresh == [host |-> q.host, token |-> <<a, q.host>>, verified |-> FALSE]
    <3>2. Head(q.items) = b
      BY <3>1
    <3>3. fresh \in DomainRecords /\ ~fresh.verified
      BY <2>a DEF DomainRecords, AnyHost
    <3>4. PICK r \in DomainRecords : r \in {fresh, b[a]} /\ domainBook' = [b EXCEPT ![a] = r]
      BY <2>2, <3>2, <3>3 DEF saveDomain, DomainBooks
    <3>5. domainBook' \in DomainBooks /\ BookVouched(domainBook', proved)
      BY <3>1, <3>3, <3>4 DEF BookVouched, DomainBooks, Vouched
    <3>6. PICK w \in {"idle", "clear"} : domainReq' = [domainReq EXCEPT ![a] = [q EXCEPT !.at = w]]
      BY <2>2 DEF saveDomain
    <3>7. [q EXCEPT !.at = w] \in DomainRequests /\ DomainRequestOK([q EXCEPT !.at = w], a, proved)
      BY <2>a, <3>6 DEF DomainRequests, DomainRequestOK
    <3> QED BY <2>2, <2>b, <2>c, <3>5, <3>6, <3>7, DomainStep DEF saveDomain
  <2>3. ASSUME NEW a \in Sellers, clearLive(a) PROVE DomainInv'
    <3>1. live' \in [Sellers -> AnyHost] /\ LiveAlone'
      BY <2>3 DEF clearLive, DomainInv, LiveAlone, AnyHost
    <3> QED BY <2>3, <1>a, <1>b, <2>b, <2>d, <3>1, DomainStep DEF clearLive
  <2>4. ASSUME NEW a \in Sellers, removeStoreDomain(a) PROVE DomainInv'
    <3> DEFINE q == [NoReq EXCEPT !.at = "remove", !.items = <<domainBook>>]
    <3>1. q \in DomainRequests
      BY <1>a DEF DomainRequests, AnyHost, DomainInv
    <3>2. DomainRequestOK(q, a, proved)
      BY <1>a DEF DomainRequestOK, DomainRequests, DomainInv, Vouched
    <3> QED BY <2>4, <2>b, <2>c, <2>d, <3>1, <3>2, DomainStep DEF removeStoreDomain
  <2>5. ASSUME NEW a \in Sellers, removeRecord(a) PROVE DomainInv'
    <3> DEFINE q == domainReq[a]
    <3>1. PICK b \in DomainBooks : q.items = <<b>> /\ BookVouched(b, proved)
      BY <2>5, <2>a DEF removeRecord, DomainRequestOK
    <3>2. domainBook' = [b EXCEPT ![a] = NoRecord]
      BY <2>5, <3>1 DEF removeRecord
    <3>3. domainBook' \in DomainBooks /\ BookVouched(domainBook', proved)
      BY <1>a, <3>1, <3>2 DEF BookVouched, DomainBooks, Vouched
    <3>4. [q EXCEPT !.at = "clear"] \in DomainRequests /\ DomainRequestOK([q EXCEPT !.at = "clear"], a, proved)
      BY <2>a DEF DomainRequests, DomainRequestOK
    <3> QED BY <2>5, <2>b, <2>c, <3>3, <3>4, DomainStep DEF removeRecord
  <2>6. ASSUME NEW a \in Sellers, verifyStoreDomain(a) PROVE DomainInv'
    <3> DEFINE q == [NoReq EXCEPT !.at = "probe", !.rec = domainBook[a]]
    <3>1. q \in DomainRequests
      BY <1>a, <2>a DEF DomainRequests
    <3>2. DomainRequestOK(q, a, proved)
      BY <1>a DEF DomainRequestOK, DomainRequests, DomainInv, BookVouched
    <3> QED BY <2>6, <2>b, <2>c, <2>d, <3>1, <3>2, DomainStep DEF verifyStoreDomain
  <2>7. ASSUME NEW a \in Sellers, probe(a) PROVE DomainInv'
    <3> DEFINE q == domainReq[a]
    <3>1. CASE UNCHANGED proved /\ domainReq' = [domainReq EXCEPT ![a] = [q EXCEPT !.at = "save"]]
      <4>1. [q EXCEPT !.at = "save"] \in DomainRequests /\ DomainRequestOK([q EXCEPT !.at = "save"], a, proved)
        BY <2>a DEF DomainRequests, DomainRequestOK
      <4> QED BY <2>7, <2>b, <2>c, <2>d, <3>1, <4>1, DomainStep DEF probe
    <3>2. CASE /\ proved' = [proved EXCEPT ![a] = @ \union {q.rec.host}] /\ q.rec.host \in pointing
               /\ domainReq' = [domainReq EXCEPT ![a] = [q EXCEPT !.at = "save", !.ok = TRUE]]
      <4>1. q.rec.host \in ShopHosts
        BY <3>2 DEF DomainInv
      <4>2. proved' \in [Sellers -> SUBSET ShopHosts] /\ (\A b \in Sellers : proved[b] \subseteq proved'[b]) /\ q.rec.host \in proved'[a]
        BY <3>2, <4>1 DEF DomainInv
      <4>3. [q EXCEPT !.at = "save", !.ok = TRUE] \in DomainRequests /\ DomainRequestOK([q EXCEPT !.at = "save", !.ok = TRUE], a, proved')
        BY <2>a, <4>2 DEF DomainRequests, DomainRequestOK, Vouched
      <4>4. live' \in [Sellers -> AnyHost] /\ LiveAlone' /\ domainBook' \in DomainBooks /\ BookVouched(domainBook', proved')
        BY <2>7, <4>2 DEF probe, DomainInv, LiveAlone, BookVouched, Vouched
      <4> QED BY <2>7, <3>2, <4>2, <4>3, <4>4, DomainStep DEF probe
    <3> QED BY <2>7, <3>1, <3>2 DEF probe
  <2>8. ASSUME NEW a \in Sellers, saveVerified(a) PROVE DomainInv'
    <3> DEFINE q == domainReq[a]
               r == [q.rec EXCEPT !.verified = @ \/ q.ok]
    <3>1. r \in DomainRecords /\ Vouched(r, proved[a])
      BY <2>a DEF DomainRecords, DomainRequestOK, Vouched, DomainRequests
    <3>2. domainBook' \in DomainBooks /\ BookVouched(domainBook', proved)
      BY <2>8, <3>1 DEF saveVerified, DomainInv, BookVouched, DomainBooks
    <3>3. [q EXCEPT !.at = "live"] \in DomainRequests /\ (q.ok => DomainRequestOK([q EXCEPT !.at = "live"], a, proved))
      BY <2>a DEF DomainRequests, DomainRequestOK
    <3> QED BY <2>8, <1>a, <1>b, <2>b, <2>c, <3>2, <3>3, DomainStep DEF saveVerified
  <2>9. ASSUME NEW a \in Sellers, goLive(a) PROVE DomainInv'
    <3> DEFINE h == domainReq[a].rec.host
    <3>1. h \in AnyHost /\ h \in proved[a]
      BY <2>9, <2>a DEF goLive, DomainRequestOK, DomainRecords
    <3>2. live' \in [Sellers -> AnyHost] /\ LiveAlone'
      BY <2>9, <3>1 DEF goLive, DomainInv, LiveAlone
    <3> QED BY <2>9, <1>a, <1>b, <2>b, <2>d, <3>2, DomainStep DEF goLive
  <2>10. ASSUME NEW h \in ShopHosts, dnsChanges(h) PROVE DomainInv'
    BY <2>10 DEF dnsChanges, DomainInv, LiveAlone
  <2>11. CASE UNCHANGED domainVars
    BY <2>11 DEF domainVars, DomainInv, LiveAlone
  <2> QED BY <2>1, <2>2, <2>3, <2>4, <2>5, <2>6, <2>7, <2>8, <2>9, <2>10, <2>11 DEF ShopDomainsNext
<1>3. DomainInv => DomainsSound
  BY DEF DomainInv, DomainsSound, ShopDomainsTypeOK, LiveHostWasProved, BookVouched, Vouched, LiveAlone,
         DomainBooks, DomainRecords, DomainRequests, AnyHost
<1> QED BY <1>1, <1>2, <1>3, PTL DEF ShopDomainsSpec

(* ------------------------------- sales bots ----------------------------- *)

BotEntries == [token : BotTokens \union {""}, enabled : BOOLEAN, blocked : BOOLEAN, paid : Nat]
BotBooks == [enabled : BOOLEAN, bots : [BotAdmins -> BotEntries]]
EditKinds == {"config", "set", "enabled", "delete", "lock", "unlock"}
BotEditing == [at : {"ask", "write"}, kind : EditKinds, admin : BotAdmins, book : BotBooks]

\* A book that accounts for the fees, keeps the owner's locks and gives no token twice.
FeesKept(bk, due) == \A a \in BotAdmins : due[a] = bk.bots[a].paid
LocksKept(bk, lock) == \A a \in BotAdmins : lock[a] => bk.bots[a].blocked /\ ~bk.bots[a].enabled
TokensApart(bk) ==
  \A a, b \in BotAdmins : a # b /\ bk.bots[a].token # "" => bk.bots[a].token # bk.bots[b].token
BookInOrder(bk, due, lock) == FeesKept(bk, due) /\ LocksKept(bk, lock) /\ TokensApart(bk)

\* What the fees due and the locks will be once a request has written its book.
DueAfter(edit, due) == IF edit.kind = "delete" THEN [due EXCEPT ![edit.admin] = 0] ELSE due
LockAfter(edit, lock) ==
  [lock EXCEPT ![edit.admin] = CASE edit.kind = "lock" -> TRUE [] edit.kind \in {"unlock", "delete"} -> FALSE [] OTHER -> @]

\* An edit under way claims no fee that was not charged.
Covered(bk, fees) == \A a \in BotAdmins : bk.bots[a].paid <= fees[a]

(***************************************************************************)
(* While no two requests overlapped and no write failed: at most one       *)
(* request is under way, the book it is about to write is in order for the *)
(* fees and locks of that moment, and until a fee is taken so is the       *)
(* stored one.  The paid entries are covered in any case.                  *)
(***************************************************************************)
OneAtATime ==
  /\ \A e, x \in BotEditors : botEdits[e] # NoEdit /\ botEdits[x] # NoEdit => e = x
  /\ \A a \in BotAdmins : feesDue[a] <= 1
  /\ (\A e \in BotEditors : botEdits[e].at # "write") => BookInOrder(botBook, feesDue, locked)
  /\ \A e \in BotEditors : botEdits[e] # NoEdit =>
        BookInOrder(botEdits[e].book, DueAfter(botEdits[e], feesDue), LockAfter(botEdits[e], locked))

SalesBotTypes ==
  /\ botBook \in BotBooks /\ botEdits \in [BotEditors -> {NoEdit} \union BotEditing]
  /\ charged \in [BotAdmins -> Nat] /\ feesDue \in [BotAdmins -> Nat] /\ locked \in [BotAdmins -> BOOLEAN]
  /\ crossed \in BOOLEAN

SalesBotInv ==
  /\ SalesBotTypes
  /\ \A e \in BotEditors : botEdits[e].at = "ask" => botEdits[e].kind = "set"
  /\ Covered(botBook, charged)
  /\ \A e \in BotEditors : botEdits[e] # NoEdit => Covered(botEdits[e].book, charged)
  /\ ~crossed => LockHolds /\ OneBotPerToken /\ OneAtATime

\* A request that starts with a book in order for what it read keeps the invariant.
LEMMA BotEditBegins ==
  ASSUME SalesBotInv, NEW e \in BotEditors, NEW edit \in BotEditing, beginBotEdit(e, edit),
         edit.at = "ask" => edit.kind = "set", Covered(edit.book, charged),
         BookInOrder(botBook, feesDue, locked) => BookInOrder(edit.book, DueAfter(edit, feesDue), LockAfter(edit, locked))
  PROVE  SalesBotInv'
<1>0. edit # NoEdit /\ edit.at # "idle" /\ NoEdit.at = "idle"
  BY DEF BotEditing, NoEdit
<1>1. SalesBotTypes'
  BY DEF SalesBotInv, SalesBotTypes, beginBotEdit
<1>2. \A x \in BotEditors : botEdits'[x] = IF x = e THEN edit ELSE botEdits[x]
  BY DEF SalesBotInv, SalesBotTypes, beginBotEdit
<1>3. UNCHANGED <<botBook, charged, locked, feesDue>>
  BY DEF beginBotEdit
<1>4. \A x \in BotEditors : /\ botEdits'[x].at = "ask" => botEdits'[x].kind = "set"
                            /\ botEdits'[x] # NoEdit => Covered(botEdits'[x].book, charged')
  BY <1>2, <1>3 DEF SalesBotInv
<1>5. ASSUME ~crossed' PROVE (LockHolds /\ OneBotPerToken /\ OneAtATime)'
  <2>1. ~crossed /\ LockHolds /\ OneBotPerToken /\ OneAtATime /\ \A x \in BotEditors \ {e} : botEdits[x].at = "idle"
    BY <1>5 DEF beginBotEdit, SalesBotInv, SalesBotTypes
  <2>2. \A x \in BotEditors \ {e} : botEdits[x] = NoEdit
    BY <2>1 DEF SalesBotInv, SalesBotTypes, BotEditing
  <2>3. \A x \in BotEditors : botEdits[x].at # "write"
    BY <2>1 DEF beginBotEdit
  <2>4. BookInOrder(botBook, feesDue, locked)
    BY <2>1, <2>3 DEF OneAtATime
  <2>5. OneAtATime'
    BY <2>1, <2>2, <2>4, <1>0, <1>2, <1>3 DEF OneAtATime
  <2> QED BY <2>1, <2>5, <1>3, <1>5 DEF LockHolds, OneBotPerToken
<1> QED BY <1>1, <1>3, <1>4, <1>5 DEF SalesBotInv

\* A request that ends without writing keeps it, when it had taken no fee or a write failed.
LEMMA BotEditDropped ==
  ASSUME SalesBotInv, NEW e \in BotEditors, botEdits' = [botEdits EXCEPT ![e] = NoEdit],
         UNCHANGED <<botBook, charged, locked, feesDue>>, 
         crossed' \in BOOLEAN, crossed' \/ (crossed' = crossed /\ botEdits[e].at = "ask")
  PROVE  SalesBotInv'
<1>1. SalesBotTypes'
  BY DEF SalesBotInv, SalesBotTypes
<1>2. \A x \in BotEditors : botEdits'[x] = IF x = e THEN NoEdit ELSE botEdits[x]
  BY DEF SalesBotInv, SalesBotTypes
<1>3. NoEdit.at = "idle"
  BY DEF NoEdit
<1>4. ASSUME ~crossed' PROVE (LockHolds /\ OneBotPerToken /\ OneAtATime)'
  <2>1. ~crossed /\ botEdits[e].at = "ask" /\ LockHolds /\ OneBotPerToken /\ OneAtATime
    BY <1>4 DEF SalesBotInv, SalesBotTypes
  <2>2. \A x \in BotEditors \ {e} : botEdits[x] = NoEdit
    BY <2>1, <1>3 DEF OneAtATime
  <2>3. BookInOrder(botBook, feesDue, locked)
    BY <2>1, <2>2, <1>3 DEF OneAtATime
  <2>4. OneAtATime'
    BY <2>1, <2>2, <2>3, <1>2 DEF OneAtATime
  <2> QED BY <2>1, <2>4, <1>4 DEF LockHolds, OneBotPerToken
<1> QED BY <1>1, <1>2, <1>3, <1>4 DEF SalesBotInv

\* The fee is taken when the read entry shows none, and the book to write says so.
LEMMA BotFeeTaken ==
  ASSUME SalesBotInv, NEW e \in BotEditors, askedTelegram(e, "ok")
  PROVE  SalesBotInv'
<1> DEFINE edit == botEdits[e]
           a == edit.admin
           fee == IF edit.book.bots[a].paid > 0 THEN 0 ELSE 1
           row == [edit.book.bots[a] EXCEPT !.paid = @ + fee]
           next == [edit EXCEPT !.at = "write", !.book.bots[a].paid = @ + fee]
<1>1. edit \in BotEditing /\ edit # NoEdit /\ edit.kind = "set" /\ edit.at = "ask"
  BY DEF askedTelegram, SalesBotInv, SalesBotTypes, NoEdit, BotEditing
<1>2. a \in BotAdmins /\ edit.book \in BotBooks /\ edit.book.bots \in [BotAdmins -> BotEntries]
      /\ (\A x \in BotAdmins : edit.book.bots[x] \in BotEntries /\ edit.book.bots[x].paid \in Nat) /\ fee \in {0, 1}
  BY <1>1 DEF BotEditing, BotBooks, BotEntries
<1> HIDE DEF fee
<1>3. /\ next \in BotEditing /\ next # NoEdit /\ next.kind = "set" /\ next.at = "write" /\ next.admin = a
      /\ \A x \in BotAdmins : next.book.bots[x] = IF x = a THEN row ELSE edit.book.bots[x]
  <2> DEFINE bots == [edit.book.bots EXCEPT ![a] = row]
             bk == [edit.book EXCEPT !.bots = bots]
  <2>1. row \in BotEntries
    <3>1. edit.book.bots[a] \in BotEntries /\ edit.book.bots[a].paid + fee \in Nat
      BY <1>2
    <3> QED BY <3>1 DEF BotEntries
  <2>2. bots \in [BotAdmins -> BotEntries]
    BY <1>2, <2>1
  <2>3. bk \in BotBooks /\ bk.bots = bots
    BY <1>2, <2>2 DEF BotBooks
  <2>4. next = [edit EXCEPT !.at = "write", !.book = bk]
    OBVIOUS
  <2> HIDE DEF next, bk, bots
  <2>5. next \in BotEditing /\ next.kind = "set" /\ next.at = "write" /\ next.admin = a /\ next.book = bk
    BY <1>1, <2>3, <2>4 DEF BotEditing
  <2>6. \A x \in BotAdmins : bots[x] = IF x = a THEN row ELSE edit.book.bots[x]
    BY <1>2 DEF bots
  <2> QED BY <2>3, <2>5, <2>6 DEF BotEditing, NoEdit
<1> HIDE DEF next, fee
<1>4. \A x \in BotAdmins : /\ next.book.bots[x].paid = edit.book.bots[x].paid + (IF x = a THEN fee ELSE 0)
                           /\ next.book.bots[x].token = edit.book.bots[x].token
                           /\ next.book.bots[x].blocked = edit.book.bots[x].blocked
                           /\ next.book.bots[x].enabled = edit.book.bots[x].enabled
  <2>1. /\ row.paid = edit.book.bots[a].paid + fee /\ row.token = edit.book.bots[a].token
        /\ row.blocked = edit.book.bots[a].blocked /\ row.enabled = edit.book.bots[a].enabled
    BY <1>2 DEF BotEntries
  <2>2. \A x \in BotAdmins : edit.book.bots[x].paid + 0 = edit.book.bots[x].paid
    BY <1>2
  <2> HIDE DEF row
  <2> QED BY <1>3, <2>1, <2>2
<1>5. /\ botEdits' = [botEdits EXCEPT ![e] = next] /\ charged' = [charged EXCEPT ![a] = @ + fee]
      /\ feesDue' = [feesDue EXCEPT ![a] = @ + fee] /\ UNCHANGED <<botBook, crossed, locked>>
  BY DEF askedTelegram, next, fee
<1>6. Covered(edit.book, charged) /\ (~crossed => OneAtATime)
  BY <1>1 DEF SalesBotInv
<1>7. SalesBotTypes'
  BY <1>2, <1>3, <1>5 DEF SalesBotInv, SalesBotTypes
<1>8. \A x \in BotAdmins : /\ charged[x] \in Nat /\ feesDue[x] \in Nat
                           /\ charged'[x] = charged[x] + (IF x = a THEN fee ELSE 0)
                           /\ feesDue'[x] = feesDue[x] + (IF x = a THEN fee ELSE 0)
  BY <1>2, <1>5 DEF SalesBotInv, SalesBotTypes
<1>9. \A x \in BotEditors : botEdits'[x] = IF x = e THEN next ELSE botEdits[x]
  BY <1>5 DEF SalesBotInv, SalesBotTypes
<1>10. \A b \in BotBooks : Covered(b, charged) => Covered(b, charged')
  <2> SUFFICES ASSUME NEW b \in BotBooks, Covered(b, charged), NEW x \in BotAdmins PROVE b.bots[x].paid <= charged'[x]
    BY DEF Covered
  <2>1. b.bots[x].paid \in Nat /\ b.bots[x].paid <= charged[x]
    BY DEF Covered, BotBooks, BotEntries
  <2> QED BY <2>1, <1>2, <1>8
<1>11. Covered(next.book, charged')
  BY <1>2, <1>4, <1>6, <1>8 DEF Covered
<1>12. ASSUME NEW x \in BotEditors, botEdits'[x] # NoEdit PROVE Covered(botEdits'[x].book, charged')
  <2>1. x # e => botEdits[x] \in BotEditing /\ Covered(botEdits[x].book, charged) /\ botEdits[x].book \in BotBooks
    BY <1>9, <1>12 DEF SalesBotInv, SalesBotTypes, BotEditing
  <2> QED BY <2>1, <1>9, <1>10, <1>11
<1>13. ASSUME ~crossed' PROVE (LockHolds /\ OneBotPerToken /\ OneAtATime)'
  <2>1. ~crossed /\ OneAtATime /\ LockHolds /\ OneBotPerToken
    BY <1>5, <1>13 DEF SalesBotInv
  <2>2. \A x \in BotEditors \ {e} : botEdits[x] = NoEdit
    BY <2>1, <1>1 DEF OneAtATime
  <2>3. BookInOrder(edit.book, feesDue, locked)
    <3>1. DueAfter(edit, feesDue) = feesDue /\ LockAfter(edit, locked) = locked
      BY <1>1, <1>2 DEF DueAfter, LockAfter, SalesBotInv, SalesBotTypes
    <3> QED BY <2>1, <3>1, <1>1 DEF OneAtATime
  <2>4. BookInOrder(next.book, feesDue', locked')
    <3> DEFINE due == feesDue'
    <3>1. \A x \in BotAdmins : due[x] = feesDue[x] + (IF x = a THEN fee ELSE 0)
      BY <1>8
    <3>2. UNCHANGED locked
      BY <1>5
    <3> HIDE DEF due
    <3>3. BookInOrder(next.book, due, locked)
      <4>1. FeesKept(next.book, due)
        BY <2>3, <1>4, <3>1 DEF BookInOrder, FeesKept
      <4>2. LocksKept(next.book, locked)
        BY <2>3, <1>4 DEF BookInOrder, LocksKept
      <4>3. TokensApart(next.book)
        <5>1. \A x \in BotAdmins : next.book.bots[x].token = edit.book.bots[x].token
          BY <1>4
        <5>2. TokensApart(edit.book)
          BY <2>3 DEF BookInOrder
        <5> QED BY <5>1, <5>2 DEF TokensApart
      <4> QED BY <4>1, <4>2, <4>3 DEF BookInOrder
    <3> QED BY <3>2, <3>3 DEF due
  <2>5. DueAfter(next, feesDue') = feesDue' /\ LockAfter(next, locked') = locked'
    BY <1>2, <1>3, <1>5 DEF DueAfter, LockAfter, SalesBotInv, SalesBotTypes
  <2>6. feesDue'[a] <= 1
    <3>1. feesDue[a] = edit.book.bots[a].paid /\ feesDue[a] <= 1 /\ feesDue[a] \in Nat /\ feesDue'[a] = feesDue[a] + fee
      BY <2>1, <2>3, <1>2, <1>8 DEF BookInOrder, FeesKept, OneAtATime
    <3> QED BY <3>1 DEF fee
  <2>7. \A x \in BotAdmins : feesDue'[x] <= 1
    BY <2>1, <2>6, <1>8 DEF OneAtATime
  <2>8. OneAtATime'
    BY <2>2, <2>4, <2>5, <2>7, <1>3, <1>9 DEF OneAtATime
  <2> QED BY <2>1, <2>8, <1>5 DEF LockHolds, OneBotPerToken
<1>14. \A x \in BotEditors : botEdits'[x].at = "ask" => botEdits'[x].kind = "set"
  BY <1>3, <1>9 DEF SalesBotInv
<1>15. Covered(botBook', charged')
  BY <1>5, <1>10 DEF SalesBotInv, SalesBotTypes
<1> QED BY <1>7, <1>12, <1>13, <1>14, <1>15 DEF SalesBotInv

\* What a request leaves of fees and locks, reseller by reseller.
LEMMA AfterByAdmin ==
  ASSUME SalesBotInv, NEW edit \in BotEditing, NEW x \in BotAdmins
  PROVE  /\ DueAfter(edit, feesDue)[x] = IF edit.kind = "delete" /\ x = edit.admin THEN 0 ELSE feesDue[x]
         /\ LockAfter(edit, locked)[x] => (edit.kind = "lock" /\ x = edit.admin) \/ locked[x]
         /\ edit.kind \in {"unlock", "delete"} /\ x = edit.admin => ~LockAfter(edit, locked)[x]
<1>1. feesDue \in [BotAdmins -> Nat] /\ locked \in [BotAdmins -> BOOLEAN] /\ edit.admin \in BotAdmins
  BY DEF SalesBotInv, SalesBotTypes, BotEditing
<1>2. DueAfter(edit, feesDue)[x] = IF edit.kind = "delete" /\ x = edit.admin THEN 0 ELSE feesDue[x]
  BY <1>1 DEF DueAfter
<1>3. x # edit.admin => LockAfter(edit, locked)[x] = locked[x]
  BY <1>1 DEF LockAfter
<1>4. x = edit.admin =>
        LockAfter(edit, locked)[x] = CASE edit.kind = "lock" -> TRUE [] edit.kind \in {"unlock", "delete"} -> FALSE [] OTHER -> locked[x]
  BY <1>1 DEF LockAfter
<1> QED BY <1>2, <1>3, <1>4

\* A book that differs in one entry is in order when that entry is.
LEMMA EntryInOrder ==
  ASSUME SalesBotInv, NEW edit \in BotEditing, NEW a \in BotAdmins, NEW bot \in BotEntries, edit.admin = a,
         \A x \in BotAdmins : edit.book.bots[x] = IF x = a THEN bot ELSE botBook.bots[x],
         BookInOrder(botBook, feesDue, locked),
         bot.paid = IF edit.kind = "delete" THEN 0 ELSE botBook.bots[a].paid,
         (edit.kind = "lock" \/ locked[a]) /\ edit.kind \notin {"unlock", "delete"} => bot.blocked /\ ~bot.enabled,
         bot.token # "" => \A x \in BotAdmins \ {a} : botBook.bots[x].token # bot.token
  PROVE  BookInOrder(edit.book, DueAfter(edit, feesDue), LockAfter(edit, locked))
<1> DEFINE due == DueAfter(edit, feesDue)
           lock == LockAfter(edit, locked)
<1>1. \A x \in BotAdmins : /\ due[x] = IF edit.kind = "delete" /\ x = edit.admin THEN 0 ELSE feesDue[x]
                           /\ lock[x] => (edit.kind = "lock" /\ x = edit.admin) \/ locked[x]
                           /\ edit.kind \in {"unlock", "delete"} /\ x = edit.admin => ~lock[x]
  BY AfterByAdmin
<1> HIDE DEF due, lock
<1>2. FeesKept(edit.book, due)
  <2>1. \A x \in BotAdmins : feesDue[x] = botBook.bots[x].paid
    BY DEF BookInOrder, FeesKept
  <2> SUFFICES ASSUME NEW x \in BotAdmins PROVE due[x] = edit.book.bots[x].paid
    BY DEF FeesKept
  <2>2. CASE x = a
    <3>1. edit.book.bots[x] = bot /\ due[x] = IF edit.kind = "delete" THEN 0 ELSE feesDue[x]
      BY <2>2, <1>1
    <3>2. CASE edit.kind = "delete"
      BY <3>1, <3>2, <2>2
    <3>3. CASE edit.kind # "delete"
      BY <3>1, <3>3, <2>1, <2>2
    <3> QED BY <3>2, <3>3
  <2>3. CASE x # a
    BY <2>1, <2>3, <1>1
  <2> QED BY <2>2, <2>3
<1>3. LocksKept(edit.book, lock)
  <2> SUFFICES ASSUME NEW x \in BotAdmins, lock[x] PROVE edit.book.bots[x].blocked /\ ~edit.book.bots[x].enabled
    BY DEF LocksKept
  <2>1. CASE x = a
    BY <2>1, <1>1
  <2>2. CASE x # a
    BY <2>2, <1>1 DEF BookInOrder, LocksKept
  <2> QED BY <2>1, <2>2
<1>4. TokensApart(edit.book)
  <2>1. \A x, y \in BotAdmins : x # y /\ botBook.bots[x].token # "" => botBook.bots[x].token # botBook.bots[y].token
    BY DEF BookInOrder, TokensApart
  <2> SUFFICES ASSUME NEW x \in BotAdmins, NEW y \in BotAdmins, x # y, edit.book.bots[x].token # ""
               PROVE edit.book.bots[x].token # edit.book.bots[y].token
    BY DEF TokensApart
  <2>2. CASE x = a
    BY <2>2
  <2>3. CASE y = a
    BY <2>3, <2>1
  <2>4. CASE x # a /\ y # a
    <3>1. edit.book.bots[x] = botBook.bots[x] /\ edit.book.bots[y] = botBook.bots[y]
      BY <2>4
    <3>2. botBook.bots[x].token # ""
      BY <3>1
    <3>3. botBook.bots[x].token # botBook.bots[y].token
      BY <3>2, <2>1
    <3> QED BY <3>1, <3>3
  <2> QED BY <2>2, <2>3, <2>4
<1> QED BY <1>2, <1>3, <1>4 DEF BookInOrder, due, lock

\* The book read, changed in one entry: it is a book, and the other entries are as they were.
LEMMA WithBotIsABook ==
  ASSUME SalesBotInv, NEW a \in BotAdmins, NEW bot \in BotEntries
  PROVE  /\ WithBot(a, bot) \in BotBooks
         /\ \A x \in BotAdmins : WithBot(a, bot).bots[x] = IF x = a THEN bot ELSE botBook.bots[x]
BY DEF SalesBotInv, SalesBotTypes, WithBot, BotBooks

(***************************************************************************)
(* The activation fee is taken once, every fee a book entry claims was     *)
(* charged, an owner's lock holds and no two sellers run one token, for    *)
(* any number of resellers and requests (the last three while requests     *)
(* take turns and no write fails).                                         *)
(***************************************************************************)
THEOREM SalesBotBookIsSound == SalesBotsSpec => []SalesBotsSound
<1> DEFINE Inv == BotAdmins # {} => SalesBotInv
<1>a. NoBot \in BotEntries /\ NoBot.token = "" /\ NoBot.paid = 0 /\ NoEdit.at = "idle" /\ NoEdit \notin BotEditing
  BY DEF NoBot, BotEntries, NoEdit, BotEditing
<1>1. SalesBotsInit => Inv
  <2> SUFFICES ASSUME SalesBotsInit PROVE SalesBotInv
    OBVIOUS
  <2>1. SalesBotTypes
    BY <1>a DEF SalesBotsInit, SalesBotTypes, BotBooks
  <2>2. BookInOrder(botBook, feesDue, locked) /\ Covered(botBook, charged)
    <3>1. \A a \in BotAdmins : /\ botBook.bots[a] = NoBot /\ feesDue[a] = 0 /\ charged[a] = 0 /\ ~locked[a]
      BY DEF SalesBotsInit
    <3>2. \A a \in BotAdmins : botBook.bots[a].paid = 0
      BY <1>a, <3>1
    <3>4. FeesKept(botBook, feesDue)
      BY <3>1, <3>2 DEF FeesKept
    <3>5. Covered(botBook, charged)
      BY <3>1, <3>2 DEF Covered
    <3>3. LocksKept(botBook, locked) /\ TokensApart(botBook)
      BY <1>a, <3>1 DEF LocksKept, TokensApart
    <3> QED BY <3>3, <3>4, <3>5 DEF BookInOrder
  <2>3. \A e \in BotEditors : botEdits[e] = NoEdit
    BY DEF SalesBotsInit
  <2>4. OneAtATime
    BY <2>2, <2>3 DEF SalesBotsInit, OneAtATime
  <2> QED BY <1>a, <2>1, <2>2, <2>3, <2>4 DEF SalesBotInv, LockHolds, OneBotPerToken, BookInOrder, LocksKept, TokensApart
<1>2. Inv /\ [SalesBotsNext]_salesBotVars => Inv'
  <2> SUFFICES ASSUME BotAdmins # {}, SalesBotInv, [SalesBotsNext]_salesBotVars PROVE SalesBotInv'
    OBVIOUS
  <2>a. \A a \in BotAdmins : /\ botBook.bots[a] \in BotEntries /\ botBook.bots[a].paid \in Nat
                             /\ charged[a] \in Nat /\ feesDue[a] \in Nat /\ botBook.bots[a].paid <= charged[a]
    BY DEF SalesBotInv, SalesBotTypes, BotBooks, BotEntries, Covered
  <2>b. ASSUME NEW kind \in EditKinds, NEW a \in BotAdmins, NEW bk \in BotBooks
        PROVE  /\ Write(kind, a, bk) \in BotEditing /\ Write(kind, a, bk).at = "write" /\ Write(kind, a, bk).kind = kind
               /\ Write(kind, a, bk).admin = a /\ Write(kind, a, bk).book = bk
    BY DEF Write, BotEditing
  <2>c. locked \in [BotAdmins -> BOOLEAN] /\ feesDue \in [BotAdmins -> Nat]
    BY DEF SalesBotInv, SalesBotTypes
  <2>1. ASSUME NEW e \in BotEditors, saveResellerBotsConfig(e) PROVE SalesBotInv'
    <3> DEFINE a == CHOOSE a \in BotAdmins : TRUE
               bk == [botBook EXCEPT !.enabled = ~@]
               edit == Write("config", a, bk)
    <3>1. a \in BotAdmins /\ bk \in BotBooks /\ bk.bots = botBook.bots
      BY DEF SalesBotInv, SalesBotTypes, BotBooks
    <3> HIDE DEF a, bk
    <3>2. edit \in BotEditing /\ edit.at = "write" /\ edit.kind = "config" /\ edit.admin = a /\ edit.book = bk
      BY <3>1, <2>b DEF EditKinds
    <3> HIDE DEF edit
    <3>3. Covered(edit.book, charged)
      BY <3>1, <3>2, <2>a DEF Covered
    <3>4. BookInOrder(botBook, feesDue, locked) => BookInOrder(edit.book, DueAfter(edit, feesDue), LockAfter(edit, locked))
      BY <3>1, <3>2, <2>c DEF BookInOrder, FeesKept, LocksKept, TokensApart, DueAfter, LockAfter
    <3>5. beginBotEdit(e, edit)
      BY <2>1 DEF saveResellerBotsConfig, a, bk, edit
    <3> QED BY <3>2, <3>3, <3>4, <3>5, BotEditBegins
  <2>2. ASSUME NEW e \in BotEditors, NEW a \in BotAdmins, NEW token \in BotTokens, setResellerBot(e, a, token) PROVE SalesBotInv'
    <3> DEFINE bot == [NoBot EXCEPT !.token = token, !.enabled = TRUE, !.paid = botBook.bots[a].paid]
               edit == [Write("set", a, WithBot(a, bot)) EXCEPT !.at = "ask"]
    <3>1. bot \in BotEntries /\ bot.paid = botBook.bots[a].paid /\ bot.token = token
      BY <2>a DEF NoBot, BotEntries
    <3> HIDE DEF bot
    <3>2. /\ edit \in BotEditing /\ edit.at = "ask" /\ edit.kind = "set" /\ edit.admin = a
          /\ \A x \in BotAdmins : edit.book.bots[x] = IF x = a THEN bot ELSE botBook.bots[x]
      BY <3>1, WithBotIsABook DEF Write, BotEditing, EditKinds
    <3>3. beginBotEdit(e, edit) /\ ~botBook.bots[a].blocked /\ \A x \in BotAdmins \ {a} : botBook.bots[x].token # token
      BY <2>2 DEF setResellerBot, bot
    <3> HIDE DEF edit
    <3>4. Covered(edit.book, charged)
      BY <3>1, <3>2, <2>a DEF Covered
    <3>5. BookInOrder(botBook, feesDue, locked) => BookInOrder(edit.book, DueAfter(edit, feesDue), LockAfter(edit, locked))
      <4> SUFFICES ASSUME BookInOrder(botBook, feesDue, locked) PROVE BookInOrder(edit.book, DueAfter(edit, feesDue), LockAfter(edit, locked))
        OBVIOUS
      <4>1. bot.paid = IF edit.kind = "delete" THEN 0 ELSE botBook.bots[a].paid
        BY <3>1, <3>2, <3>3
      <4>2. (edit.kind = "lock" \/ locked[a]) /\ edit.kind \notin {"unlock", "delete"} => bot.blocked /\ ~bot.enabled
        BY <3>1, <3>2, <3>3 DEF BookInOrder, LocksKept
      <4>3. bot.token # "" => \A x \in BotAdmins \ {a} : botBook.bots[x].token # bot.token
        BY <3>1, <3>2, <3>3 DEF BookInOrder, TokensApart
      <4> QED BY <3>1, <3>2, <3>3, <4>1, <4>2, <4>3, EntryInOrder
    <3> QED BY <3>2, <3>3, <3>4, <3>5, BotEditBegins
  <2>3. ASSUME NEW e \in BotEditors, NEW a \in BotAdmins, NEW on \in BOOLEAN, setResellerBotEnabled(e, a, on) PROVE SalesBotInv'
    <3> DEFINE bot == [botBook.bots[a] EXCEPT !.enabled = on]
               edit == Write("enabled", a, WithBot(a, bot))
    <3>1. /\ bot \in BotEntries /\ bot.paid = botBook.bots[a].paid /\ bot.token = botBook.bots[a].token
          /\ bot.blocked = botBook.bots[a].blocked /\ bot.enabled = on
      BY <2>a DEF BotEntries
    <3> HIDE DEF bot
    <3>2. /\ edit \in BotEditing /\ edit.at = "write" /\ edit.kind = "enabled" /\ edit.admin = a
          /\ \A x \in BotAdmins : edit.book.bots[x] = IF x = a THEN bot ELSE botBook.bots[x]
      BY <3>1, <2>b, WithBotIsABook DEF EditKinds
    <3>3. beginBotEdit(e, edit) /\ (on => ~botBook.bots[a].blocked)
      BY <2>3 DEF setResellerBotEnabled, bot
    <3> HIDE DEF edit
    <3>4. Covered(edit.book, charged)
      BY <3>1, <3>2, <2>a DEF Covered
    <3>5. BookInOrder(botBook, feesDue, locked) => BookInOrder(edit.book, DueAfter(edit, feesDue), LockAfter(edit, locked))
      <4> SUFFICES ASSUME BookInOrder(botBook, feesDue, locked) PROVE BookInOrder(edit.book, DueAfter(edit, feesDue), LockAfter(edit, locked))
        OBVIOUS
      <4>1. bot.paid = IF edit.kind = "delete" THEN 0 ELSE botBook.bots[a].paid
        BY <3>1, <3>2, <3>3
      <4>2. (edit.kind = "lock" \/ locked[a]) /\ edit.kind \notin {"unlock", "delete"} => bot.blocked /\ ~bot.enabled
        BY <3>1, <3>2, <3>3 DEF BookInOrder, LocksKept
      <4>3. bot.token # "" => \A x \in BotAdmins \ {a} : botBook.bots[x].token # bot.token
        <5>1. \A x \in BotAdmins \ {a} : botBook.bots[a].token # "" => botBook.bots[x].token # botBook.bots[a].token
          BY DEF BookInOrder, TokensApart
        <5> QED BY <3>1, <5>1
      <4> QED BY <3>1, <3>2, <3>3, <4>1, <4>2, <4>3, EntryInOrder
    <3> QED BY <3>2, <3>3, <3>4, <3>5, BotEditBegins
  <2>4. ASSUME NEW e \in BotEditors, NEW a \in BotAdmins, deleteResellerBot(e, a) PROVE SalesBotInv'
    <3> DEFINE edit == Write("delete", a, WithBot(a, NoBot))
    <3>1. /\ edit \in BotEditing /\ edit.at = "write" /\ edit.kind = "delete" /\ edit.admin = a
          /\ \A x \in BotAdmins : edit.book.bots[x] = IF x = a THEN NoBot ELSE botBook.bots[x]
      <4>1. WithBot(a, NoBot) \in BotBooks /\ "delete" \in EditKinds
        BY <1>a, WithBotIsABook DEF EditKinds
      <4>2. \A x \in BotAdmins : WithBot(a, NoBot).bots[x] = IF x = a THEN NoBot ELSE botBook.bots[x]
        BY <1>a, WithBotIsABook
      <4>3. /\ edit \in BotEditing /\ edit.at = "write" /\ edit.kind = "delete" /\ edit.admin = a /\ edit.book = WithBot(a, NoBot)
        BY <4>1, <2>b
      <4> HIDE DEF edit
      <4> QED BY <4>2, <4>3
    <3>2. beginBotEdit(e, edit)
      BY <2>4 DEF deleteResellerBot
    <3> HIDE DEF edit
    <3>3. Covered(edit.book, charged)
      <4>1. \A x \in BotAdmins : edit.book.bots[x].paid = 0 \/ edit.book.bots[x].paid = botBook.bots[x].paid
        BY <1>a, <3>1
      <4> QED BY <4>1, <2>a DEF Covered
    <3>4. BookInOrder(botBook, feesDue, locked) => BookInOrder(edit.book, DueAfter(edit, feesDue), LockAfter(edit, locked))
      <4> SUFFICES ASSUME BookInOrder(botBook, feesDue, locked) PROVE BookInOrder(edit.book, DueAfter(edit, feesDue), LockAfter(edit, locked))
        OBVIOUS
      <4>1. NoBot.paid = IF edit.kind = "delete" THEN 0 ELSE botBook.bots[a].paid
        BY <1>a, <3>1
      <4>2. (edit.kind = "lock" \/ locked[a]) /\ edit.kind \notin {"unlock", "delete"} => NoBot.blocked /\ ~NoBot.enabled
        BY <1>a, <3>1 DEF BookInOrder, LocksKept
      <4>3. NoBot.token # "" => \A x \in BotAdmins \ {a} : botBook.bots[x].token # NoBot.token
        BY <1>a, <3>1 DEF BookInOrder, TokensApart
      <4> QED BY <1>a, <3>1, <4>1, <4>2, <4>3, EntryInOrder
    <3> QED BY <3>1, <3>2, <3>3, <3>4, BotEditBegins
  <2>5. ASSUME NEW e \in BotEditors, NEW a \in BotAdmins, NEW on \in BOOLEAN, setResellerBotBlocked(e, a, on) PROVE SalesBotInv'
    <3> DEFINE bot == [botBook.bots[a] EXCEPT !.blocked = on, !.enabled = IF on THEN FALSE ELSE @]
               kind == IF on THEN "lock" ELSE "unlock"
               edit == Write(kind, a, WithBot(a, bot))
    <3>1. /\ bot \in BotEntries /\ bot.paid = botBook.bots[a].paid /\ bot.token = botBook.bots[a].token
          /\ (on => bot.blocked /\ ~bot.enabled)
      BY <2>a DEF BotEntries
    <3> HIDE DEF bot
    <3>2. /\ edit \in BotEditing /\ edit.at = "write" /\ edit.kind = kind /\ edit.admin = a
          /\ \A x \in BotAdmins : edit.book.bots[x] = IF x = a THEN bot ELSE botBook.bots[x]
      BY <3>1, <2>b, WithBotIsABook DEF EditKinds
    <3>3. beginBotEdit(e, edit)
      BY <2>5 DEF setResellerBotBlocked, bot
    <3> HIDE DEF edit
    <3>4. Covered(edit.book, charged)
      BY <3>1, <3>2, <2>a DEF Covered
    <3>5. BookInOrder(botBook, feesDue, locked) => BookInOrder(edit.book, DueAfter(edit, feesDue), LockAfter(edit, locked))
      <4> SUFFICES ASSUME BookInOrder(botBook, feesDue, locked) PROVE BookInOrder(edit.book, DueAfter(edit, feesDue), LockAfter(edit, locked))
        OBVIOUS
      <4>1. bot.paid = IF edit.kind = "delete" THEN 0 ELSE botBook.bots[a].paid
        BY <3>1, <3>2
      <4>2. (edit.kind = "lock" \/ locked[a]) /\ edit.kind \notin {"unlock", "delete"} => bot.blocked /\ ~bot.enabled
        BY <3>1, <3>2 DEF BookInOrder, LocksKept
      <4>3. bot.token # "" => \A x \in BotAdmins \ {a} : botBook.bots[x].token # bot.token
        <5>1. \A x \in BotAdmins \ {a} : botBook.bots[a].token # "" => botBook.bots[x].token # botBook.bots[a].token
          BY DEF BookInOrder, TokensApart
        <5> QED BY <3>1, <5>1
      <4> QED BY <3>1, <3>2, <4>1, <4>2, <4>3, EntryInOrder
    <3> QED BY <3>2, <3>3, <3>4, <3>5, BotEditBegins
  <2>6. ASSUME NEW e \in BotEditors, NEW outcome, askedTelegram(e, outcome) PROVE SalesBotInv'
    <3>1. CASE outcome # "ok"
      BY <2>6, <3>1, BotEditDropped DEF askedTelegram, SalesBotInv, SalesBotTypes
    <3>2. CASE outcome = "ok"
      BY <2>6, <3>2, BotFeeTaken
    <3> QED BY <3>1, <3>2
  <2>7. ASSUME NEW e \in BotEditors, persist(e) PROVE SalesBotInv'
    <3> DEFINE edit == botEdits[e]
    <3>1. edit \in BotEditing /\ edit # NoEdit
      BY <2>7, <1>a DEF persist, SalesBotInv, SalesBotTypes
    <3>2. /\ botBook' = edit.book /\ feesDue' = DueAfter(edit, feesDue) /\ locked' = LockAfter(edit, locked)
          /\ UNCHANGED <<charged, crossed>>
      BY <2>7 DEF persist, DueAfter, LockAfter
    <3>3. \A x \in BotEditors : botEdits'[x] = IF x = e THEN NoEdit ELSE botEdits[x]
      BY <2>7 DEF persist, SalesBotInv, SalesBotTypes
    <3>4. feesDue' \in [BotAdmins -> Nat] /\ locked' \in [BotAdmins -> BOOLEAN] /\ \A a \in BotAdmins : feesDue'[a] \in {feesDue[a], 0}
      BY <3>1, <3>2, <2>c DEF DueAfter, LockAfter
    <3>5. SalesBotTypes'
      BY <2>7, <3>1, <3>2, <3>4 DEF persist, SalesBotInv, SalesBotTypes, BotEditing
    <3>6. ASSUME ~crossed' PROVE (LockHolds /\ OneBotPerToken /\ OneAtATime)'
      <4>1. OneAtATime /\ BookInOrder(botBook', feesDue', locked')
        BY <3>1, <3>2, <3>6 DEF SalesBotInv, OneAtATime
      <4>2. \A x \in BotEditors : botEdits'[x] = NoEdit
        BY <4>1, <3>1, <3>3 DEF OneAtATime
      <4>3. OneAtATime'
        BY <4>1, <4>2, <3>4, <2>a DEF OneAtATime
      <4> QED BY <4>1, <4>3 DEF LockHolds, OneBotPerToken, BookInOrder, LocksKept, TokensApart
    <3> QED BY <3>1, <3>2, <3>3, <3>5, <3>6, <1>a DEF SalesBotInv
  <2>8. ASSUME NEW e \in BotEditors, persistFails(e) PROVE SalesBotInv'
    BY <2>8, BotEditDropped DEF persistFails
  <2>9. CASE UNCHANGED salesBotVars
    BY <2>9 DEF salesBotVars, SalesBotInv, SalesBotTypes, OneAtATime, LockHolds, OneBotPerToken
  <2> QED BY <2>1, <2>2, <2>3, <2>4, <2>5, <2>6, <2>7, <2>8, <2>9 DEF SalesBotsNext
<1>3. Inv => SalesBotsSound
  <2>1. CASE BotAdmins = {}
    BY <2>1 DEF SalesBotsSound, PaidWasCharged, FeeOnce, LockHolds, OneBotPerToken
  <2>2. ASSUME SalesBotInv PROVE FeeOnce
    BY <2>2, <1>a DEF SalesBotInv, FeeOnce, OneAtATime, BookInOrder, FeesKept
  <2>3. ASSUME SalesBotInv PROVE PaidWasCharged
    BY <2>3 DEF SalesBotInv, PaidWasCharged, Covered
  <2>4. ASSUME SalesBotInv PROVE LockHolds /\ OneBotPerToken
    BY <2>4 DEF SalesBotInv, LockHolds, OneBotPerToken
  <2> QED BY <2>1, <2>2, <2>3, <2>4 DEF SalesBotsSound
<1> QED BY <1>1, <1>2, <1>3, PTL DEF SalesBotsSpec

(* ---------------------------- payment plugins --------------------------- *)

PluginRows == [exists : BOOLEAN, enabled : BOOLEAN, secret : Nat, auto : BOOLEAN, capped : BOOLEAN]
PluginBooks == [Plugins -> PluginRows]
PluginStates == {"PENDING", "REVIEW", "CONFIRMED", "REJECTED"}
PluginCalls ==
  [at : {"idle", "act", "stamp", "write"}, book : {<<>>} \union {<<b>> : b \in PluginBooks},
   plugin : {<<>>} \union (Plugins \X PluginRows), pay : {<<>>} \union {<<p>> : p \in PluginPays}, signed : Nat, newest : Nat]

PluginTypes ==
  /\ plugins \in PluginBooks /\ pluginEdit \in {<<>>} \union {<<b>> : b \in PluginBooks}
  /\ callback \in PluginCalls /\ paid \in [PluginPays -> PluginStates]
  /\ pluginOps \in 0..MaxPluginOps /\ secretNow \in [Plugins -> Nat]
  /\ confirmedBy \in [PluginPays -> Nat \X Nat]

\* Every row that exists holds the newest secret; the book about to be written holds it or a newer one.
SecretsCurrent ==
  /\ \A g \in Plugins : plugins[g].secret <= pluginOps /\ secretNow[g] <= pluginOps
  /\ \A g \in Plugins : plugins[g].exists => plugins[g].secret = secretNow[g]
  /\ \A b \in PluginBooks : pluginEdit = <<b>> =>
       \A g \in Plugins : b[g].secret <= pluginOps /\ (b[g].exists => b[g].secret >= secretNow[g])

(***************************************************************************)
(* Edits and callbacks take turns, so the book a callback stamps is the    *)
(* stored one, and a callback that passed the signature check was signed   *)
(* with the newest secret of its arrival.                                  *)
(***************************************************************************)
TakingTurns ==
  /\ pluginEdit # <<>> => callback.at = "idle"
  /\ callback.at = "write" => callback.book = <<plugins>>
  /\ callback.at = "act" => callback.signed = callback.newest

PluginInv == PluginTypes /\ SecretsCurrent /\ TakingTurns /\ OldSecretStopsWorking

\* An edit that stores no secret older than the newest keeps the invariant.
LEMMA PluginEditBegins ==
  ASSUME ~PluginOverlap, PluginInv, NEW g \in Plugins, NEW row \in PluginRows, beginPluginEdit(g, row),
         row.secret <= pluginOps + 1, row.exists => row.secret >= secretNow[g]
  PROVE  PluginInv'
<1> DEFINE c == [plugins EXCEPT ![g] = row]
<1>0. MaxPluginOps \in Nat /\ pluginOps \in Nat /\ pluginOps' = pluginOps + 1 /\ pluginOps < MaxPluginOps
  BY PluginBookAssumption DEF PluginInv, PluginTypes, beginPluginEdit, PluginOp
<1>1. c \in PluginBooks /\ (\A x \in Plugins : c[x] = IF x = g THEN row ELSE plugins[x]) /\ pluginEdit' = <<c>>
  BY DEF PluginInv, PluginTypes, PluginBooks, beginPluginEdit
<1>2. UNCHANGED <<plugins, callback, paid, secretNow, confirmedBy>> /\ callback.at = "idle"
  BY DEF beginPluginEdit, PluginOp
<1> HIDE DEF c
<1>3. PluginTypes'
  BY <1>0, <1>1, <1>2 DEF PluginInv, PluginTypes
<1>4. \A x \in Plugins : /\ plugins[x].secret \in Nat /\ secretNow[x] \in Nat /\ row.secret \in Nat
                         /\ plugins[x].secret <= pluginOps /\ secretNow[x] <= pluginOps
                         /\ (plugins[x].exists => plugins[x].secret = secretNow[x])
  BY DEF PluginInv, PluginTypes, SecretsCurrent, PluginBooks, PluginRows
<1>5. \A x \in Plugins : c[x].secret <= pluginOps' /\ (c[x].exists => c[x].secret >= secretNow'[x])
  <2> SUFFICES ASSUME NEW x \in Plugins PROVE c[x].secret <= pluginOps' /\ (c[x].exists => c[x].secret >= secretNow'[x])
    OBVIOUS
  <2>1. CASE x = g
    BY <2>1, <1>0, <1>1, <1>2
  <2>2. CASE x # g
    BY <2>2, <1>0, <1>1, <1>2, <1>4
  <2> QED BY <2>1, <2>2
<1>6. \A b \in PluginBooks : pluginEdit' = <<b>> => b = c
  BY <1>1
<1>7. SecretsCurrent'
  BY <1>0, <1>2, <1>4, <1>5, <1>6 DEF SecretsCurrent
<1>8. TakingTurns' /\ OldSecretStopsWorking'
  BY <1>2 DEF TakingTurns, OldSecretStopsWorking, PluginInv
<1> QED BY <1>3, <1>7, <1>8 DEF PluginInv

(***************************************************************************)
(* While edits and callbacks take turns, no callback that arrives after a  *)
(* rotation confirms a payment with an older secret, and a payment that    *)
(* was confirmed or rejected is not moved by a later one: for any number   *)
(* of plugins, payments and requests.                                      *)
(***************************************************************************)
THEOREM PluginCallbacksAreSound == ~PluginOverlap => (PluginBookSpec => PluginsSound)
<1> SUFFICES ASSUME ~PluginOverlap PROVE PluginBookSpec => PluginsSound
  OBVIOUS
<1>a. NoPlugin \in PluginRows /\ NoPlugin.secret = 0 /\ ~NoPlugin.exists /\ NoCall \in PluginCalls /\ NoCall.at = "idle"
  BY DEF NoPlugin, PluginRows, NoCall, PluginCalls
<1>1. PluginBookInit => PluginInv
  <2> SUFFICES ASSUME PluginBookInit PROVE PluginInv
    OBVIOUS
  <2>1. PluginTypes
    BY <1>a, PluginBookAssumption DEF PluginBookInit, PluginTypes, PluginBooks, PluginStates
  <2>2. SecretsCurrent
    <3>1. \A g \in Plugins : plugins[g] = NoPlugin /\ secretNow[g] = 0
      BY DEF PluginBookInit
    <3>2. pluginOps = 0 /\ pluginEdit = <<>>
      BY DEF PluginBookInit
    <3> QED BY <1>a, <3>1, <3>2 DEF SecretsCurrent
  <2>3. TakingTurns /\ OldSecretStopsWorking
    BY <1>a DEF PluginBookInit, TakingTurns, OldSecretStopsWorking
  <2> QED BY <2>1, <2>2, <2>3 DEF PluginInv
<1>2. PluginInv /\ [PluginBookNext]_pluginVars => PluginInv'
  <2> SUFFICES ASSUME PluginInv, [PluginBookNext]_pluginVars PROVE PluginInv'
    OBVIOUS
  <2>a. \A g \in Plugins : /\ plugins[g] \in PluginRows /\ plugins[g].secret \in Nat /\ secretNow[g] \in Nat /\ pluginOps \in Nat
                           /\ plugins[g].secret <= pluginOps /\ secretNow[g] <= pluginOps
                           /\ (plugins[g].exists => plugins[g].secret = secretNow[g])
    BY DEF PluginInv, PluginTypes, SecretsCurrent, PluginBooks, PluginRows
  <2>1. ASSUME NEW g \in Plugins, NEW b \in BOOLEAN, NEW c \in BOOLEAN, createPaymentPlugin(g, b, c) PROVE PluginInv'
    <3> DEFINE row == [exists |-> TRUE, enabled |-> TRUE, secret |-> 1, auto |-> b, capped |-> c]
    <3>1. row \in PluginRows /\ row.secret = 1
      BY DEF PluginRows
    <3>2. beginPluginEdit(g, row) /\ secretNow[g] = 0
      BY <2>1 DEF createPaymentPlugin
    <3> HIDE DEF row
    <3>3. row.secret <= pluginOps + 1 /\ row.secret >= secretNow[g]
      BY <2>a, <3>1, <3>2
    <3> QED BY <3>1, <3>2, <3>3, PluginEditBegins
  <2>2. ASSUME NEW g \in Plugins, updatePaymentPlugin(g) PROVE PluginInv'
    <3> DEFINE row == [plugins[g] EXCEPT !.enabled = ~@]
    <3>1. row \in PluginRows /\ row.secret = plugins[g].secret
      BY <2>a DEF PluginRows
    <3>2. beginPluginEdit(g, row) /\ plugins[g].exists
      BY <2>2 DEF updatePaymentPlugin
    <3> HIDE DEF row
    <3>3. row.secret <= pluginOps + 1 /\ row.secret >= secretNow[g]
      BY <2>a, <3>1, <3>2
    <3> QED BY <3>1, <3>2, <3>3, PluginEditBegins
  <2>3. ASSUME NEW g \in Plugins, rotatePaymentPluginSecret(g) PROVE PluginInv'
    <3> DEFINE row == [plugins[g] EXCEPT !.secret = secretNow[g] + 1]
    <3>1. row \in PluginRows /\ row.secret = secretNow[g] + 1
      BY <2>a DEF PluginRows
    <3>2. beginPluginEdit(g, row)
      BY <2>3 DEF rotatePaymentPluginSecret
    <3> HIDE DEF row
    <3>3. row.secret <= pluginOps + 1 /\ row.secret >= secretNow[g]
      BY <2>a, <3>1
    <3> QED BY <3>1, <3>2, <3>3, PluginEditBegins
  <2>4. ASSUME NEW g \in Plugins, deletePaymentPlugin(g) PROVE PluginInv'
    <3>1. NoPlugin.secret <= pluginOps + 1
      BY <1>a, <2>a
    <3> QED BY <1>a, <2>4, <3>1, PluginEditBegins DEF deletePaymentPlugin
  <2>5. ASSUME NEW g \in Plugins, NEW p \in PluginPays, NEW k \in 1..(MaxPluginOps + 1), receiveCallback(g, p, k) PROVE PluginInv'
    <3>1. /\ callback' = [at |-> IF k = plugins[g].secret THEN "act" ELSE "stamp", book |-> <<>>, plugin |-> <<g, plugins[g]>>,
                          pay |-> <<p>>, signed |-> k, newest |-> secretNow[g]]
          /\ plugins[g].exists /\ pluginOps' = pluginOps + 1 /\ pluginOps < MaxPluginOps /\ pluginEdit = <<>>
          /\ UNCHANGED <<plugins, pluginEdit, paid, secretNow, confirmedBy>>
      BY <2>5 DEF receiveCallback, PluginOp
    <3>2. k \in Nat /\ MaxPluginOps \in Nat
      BY PluginBookAssumption
    <3>3. callback' \in PluginCalls
      BY <2>a, <3>1, <3>2 DEF PluginCalls
    <3>4. PluginTypes'
      BY <2>a, <3>1, <3>2, <3>3 DEF PluginInv, PluginTypes
    <3>5. \A x \in Plugins : plugins[x].secret <= pluginOps' /\ secretNow[x] <= pluginOps'
      BY <2>a, <3>1
    <3>6. SecretsCurrent'
      BY <2>a, <3>1, <3>5 DEF SecretsCurrent
    <3>7. TakingTurns' /\ OldSecretStopsWorking'
      BY <2>a, <3>1 DEF TakingTurns, OldSecretStopsWorking, PluginInv
    <3> QED BY <3>4, <3>6, <3>7 DEF PluginInv
  <2>6. ASSUME NEW word, applyCallback(word) PROVE PluginInv'
    <3>1. /\ callback.at = "act" /\ callback' = [callback EXCEPT !.at = "stamp"]
          /\ UNCHANGED <<plugins, pluginEdit, pluginOps, secretNow>>
      BY <2>6 DEF applyCallback
    <3>2. callback' \in PluginCalls /\ callback'.at = "stamp" /\ callback.signed = callback.newest /\ callback.signed \in Nat
      BY <3>1 DEF PluginInv, PluginTypes, PluginCalls, TakingTurns
    <3>3. \/ UNCHANGED <<paid, confirmedBy>>
          \/ /\ \E s \in PluginStates : paid' = [paid EXCEPT ![Head(callback.pay)] = s]
             /\ \/ UNCHANGED confirmedBy
                \/ confirmedBy' = [confirmedBy EXCEPT ![Head(callback.pay)] = <<callback.signed, callback.newest>>]
      BY <2>6 DEF applyCallback, PluginStates
    <3> DEFINE t == <<callback.signed, callback.newest>>
    <3>a. t \in Nat \X Nat /\ t[1] = t[2]
      BY <3>2
    <3>b. confirmedBy' = confirmedBy \/ confirmedBy' = [confirmedBy EXCEPT ![Head(callback.pay)] = t]
      BY <3>3
    <3> HIDE DEF t
    <3>4. PluginTypes'
      <4>1. paid' \in [PluginPays -> PluginStates]
        BY <3>3 DEF PluginInv, PluginTypes
      <4>2. confirmedBy' \in [PluginPays -> Nat \X Nat]
        BY <3>a, <3>b DEF PluginInv, PluginTypes
      <4> QED BY <3>1, <3>2, <4>1, <4>2 DEF PluginInv, PluginTypes
    <3>5. OldSecretStopsWorking'
      BY <3>a, <3>b DEF PluginInv, PluginTypes, OldSecretStopsWorking
    <3>6. SecretsCurrent' /\ TakingTurns'
      BY <3>1, <3>2 DEF PluginInv, SecretsCurrent, TakingTurns
    <3> QED BY <3>4, <3>5, <3>6 DEF PluginInv
  <2>7. ASSUME savePluginBook PROVE PluginInv'
    <3>1. PICK b \in PluginBooks : pluginEdit = <<b>>
      BY <2>7 DEF savePluginBook, PluginInv, PluginTypes
    <3>2. /\ plugins' = b /\ pluginEdit' = <<>> /\ UNCHANGED <<callback, paid, pluginOps, confirmedBy>>
          /\ secretNow' = [g \in Plugins |-> IF b[g].secret > secretNow[g] THEN b[g].secret ELSE secretNow[g]]
          /\ callback.at = "idle"
      BY <2>7, <3>1 DEF savePluginBook, PluginInv, TakingTurns
    <3>3. \A g \in Plugins : /\ b[g].secret \in Nat /\ b[g].secret <= pluginOps
                             /\ (b[g].exists => b[g].secret >= secretNow[g])
      BY <3>1 DEF PluginInv, SecretsCurrent, PluginBooks, PluginRows
    <3>4. PluginTypes'
      BY <2>a, <3>2, <3>3 DEF PluginInv, PluginTypes
    <3>5. \A g \in Plugins : b[g].exists => b[g].secret = secretNow'[g]
      BY <2>a, <3>2, <3>3
    <3>6. \A g \in Plugins : secretNow'[g] <= pluginOps
      BY <2>a, <3>2, <3>3
    <3>7. SecretsCurrent'
      BY <3>2, <3>3, <3>5, <3>6 DEF SecretsCurrent
    <3>8. TakingTurns' /\ OldSecretStopsWorking'
      BY <3>2 DEF TakingTurns, OldSecretStopsWorking, PluginInv
    <3> QED BY <3>4, <3>7, <3>8 DEF PluginInv
  <2>8. ASSUME stampRead PROVE PluginInv'
    <3>1. callback' \in PluginCalls /\ callback'.at = "write" /\ callback'.book = <<plugins>>
      BY <2>8 DEF stampRead, PluginInv, PluginTypes, PluginCalls
    <3>2. callback.at = "stamp" /\ UNCHANGED <<plugins, pluginEdit, paid, pluginOps, secretNow, confirmedBy>>
      BY <2>8 DEF stampRead
    <3> QED BY <3>1, <3>2 DEF PluginInv, PluginTypes, SecretsCurrent, TakingTurns, OldSecretStopsWorking
  <2>9. ASSUME stampWrite PROVE PluginInv'
    <3>1. Head(callback.book) = plugins
      BY <2>9 DEF stampWrite, PluginInv, TakingTurns
    <3>2. UNCHANGED <<plugins, pluginEdit, paid, pluginOps, secretNow, confirmedBy>> /\ callback' = NoCall
      BY <2>9, <3>1 DEF stampWrite
    <3> QED BY <1>a, <3>2 DEF PluginInv, PluginTypes, SecretsCurrent, TakingTurns, OldSecretStopsWorking
  <2>10. CASE UNCHANGED pluginVars
    BY <2>10 DEF pluginVars, PluginInv, PluginTypes, SecretsCurrent, TakingTurns, OldSecretStopsWorking
  <2> QED BY <2>1, <2>2, <2>3, <2>4, <2>5, <2>6, <2>7, <2>8, <2>9, <2>10 DEF PluginBookNext
<1>3. PluginInv => PluginBookTypeOK /\ OldSecretStopsWorking
  <2> SUFFICES ASSUME PluginInv PROVE PluginBookTypeOK
    BY DEF PluginInv
  <2>1. \A g \in Plugins : plugins[g].secret \in 0..(MaxPluginOps + 1)
    <3>1. \A g \in Plugins : plugins[g].secret \in Nat /\ plugins[g].secret <= pluginOps
      BY DEF PluginInv, PluginTypes, SecretsCurrent, PluginBooks, PluginRows
    <3> QED BY <3>1, PluginBookAssumption DEF PluginInv, PluginTypes
  <2>2. callback.at \in {"idle", "act", "stamp", "write"} /\ Len(pluginEdit) <= 1
    <3>1. pluginEdit = <<>> \/ \E b \in PluginBooks : pluginEdit = <<b>>
      BY DEF PluginInv, PluginTypes
    <3>2. Len(pluginEdit) <= 1
      <4>1. CASE pluginEdit = <<>>
        BY <4>1
      <4>2. ASSUME NEW b \in PluginBooks, pluginEdit = <<b>> PROVE Len(pluginEdit) <= 1
        BY <4>2
      <4> QED BY <3>1, <4>1, <4>2
    <3> QED BY <3>2 DEF PluginInv, PluginTypes, PluginCalls
  <2> QED BY <2>1, <2>2 DEF PluginBookTypeOK, PluginInv, PluginTypes, PluginStates
<1>4. PluginInv /\ [PluginBookNext]_pluginVars
        => [\A p \in PluginPays : paid[p] \in {"CONFIRMED", "REJECTED"} => paid'[p] = paid[p]]_pluginVars
  <2> SUFFICES ASSUME PluginInv, PluginBookNext, NEW p \in PluginPays, paid[p] \in {"CONFIRMED", "REJECTED"} PROVE paid'[p] = paid[p]
    BY DEF pluginVars
  <2>1. ASSUME NEW word, applyCallback(word) PROVE paid'[p] = paid[p]
    BY <2>1 DEF applyCallback, PluginInv, PluginTypes
  <2>2. CASE UNCHANGED paid
    BY <2>2
  <2> QED BY <2>1, <2>2 DEF PluginBookNext, createPaymentPlugin, updatePaymentPlugin, rotatePaymentPluginSecret, deletePaymentPlugin,
              beginPluginEdit, receiveCallback, savePluginBook, stampRead, stampWrite
<1> QED BY <1>1, <1>2, <1>3, <1>4, PTL DEF PluginBookSpec, PluginsSound, ClosedPaymentStays

(* -------------------------------- sessions ------------------------------ *)

OperatorAccounts == [pw : 1..(MaxPasswords + 1), active : BOOLEAN, totp : {"off", "pending", "on"}, codes : 0..MaxCodes]
SessionRows == [on : BOOLEAN, pw : Nat]
Cookies == [session : BOOLEAN, idle : BOOLEAN]
CodeRows == [no : 0..MaxCodes, live : BOOLEAN, tries : 0..CodeTries]

SessionTypes ==
  /\ account \in OperatorAccounts /\ session \in [Browsers -> SessionRows] /\ cookie \in [Browsers -> Cookies]
  /\ codeRow \in CodeRows /\ signing \in [Browsers -> -1..MaxCodes] /\ opened \in [1..MaxCodes -> Nat]

\* A session row that is on was opened, or renewed, under the current password.
RowsCurrent == \A b \in Browsers : session[b].on => session[b].pw = account.pw

\* A code that was not mailed yet has opened nothing.
UnmailedUnused == \A c \in 1..MaxCodes : c > account.codes => opened[c] = 0

SessionInv == SessionTypes /\ RowsCurrent /\ CodeOpensOnce /\ UnmailedUnused

(***************************************************************************)
(* After a password change only sign-ins under the new one pass            *)
(* requireAdmin, and a mailed code opens at most one sign-in, however      *)
(* browsers, codes and the owner's edits interleave.                       *)
(***************************************************************************)
THEOREM SignInsAreSound == SessionsSpec => []SessionsSound
<1>a. MaxCodes \in Nat /\ MaxPasswords \in Nat /\ CodeTries \in Nat /\ CodeTries > 0
  BY SessionsAssumption
<1>b. NoCode \in CodeRows /\ NoCode.no = 0 /\ SignedOut \in SessionRows /\ ~SignedOut.on /\ NoCookie \in Cookies
  BY <1>a DEF NoCode, CodeRows, SignedOut, SessionRows, NoCookie, Cookies
<1>1. SessionsInit => SessionInv
  <2> SUFFICES ASSUME SessionsInit PROVE SessionInv
    OBVIOUS
  <2>1. SessionTypes
    BY <1>a, <1>b DEF SessionsInit, SessionTypes, OperatorAccounts
  <2>2. RowsCurrent /\ CodeOpensOnce /\ UnmailedUnused
    BY <1>b DEF SessionsInit, RowsCurrent, CodeOpensOnce, UnmailedUnused
  <2> QED BY <2>1, <2>2 DEF SessionInv
<1>2. SessionInv /\ [SessionsNext]_sessionVars => SessionInv'
  <2> SUFFICES ASSUME SessionInv, [SessionsNext]_sessionVars PROVE SessionInv'
    OBVIOUS
  <2>a. /\ account \in OperatorAccounts /\ account.pw \in 1..(MaxPasswords + 1) /\ account.pw \in Nat /\ account.codes \in 0..MaxCodes
        /\ codeRow \in CodeRows /\ codeRow.no \in 0..MaxCodes /\ codeRow.tries \in 0..CodeTries
        /\ \A b \in Browsers : session[b] \in SessionRows /\ cookie[b] \in Cookies
    BY <1>a DEF SessionInv, SessionTypes, OperatorAccounts, CodeRows
  <2>b. UNCHANGED <<codeRow, opened>> /\ account'.codes = account.codes => (CodeOpensOnce /\ UnmailedUnused)'
    BY DEF SessionInv, CodeOpensOnce, UnmailedUnused
  <2>c. UNCHANGED session /\ account'.pw = account.pw => RowsCurrent'
    BY DEF SessionInv, RowsCurrent
  <2>1. ASSUME NEW b \in Browsers, NEW c \in 0..MaxCodes, NEW otp \in BOOLEAN, openSession(b, c, otp) PROVE SessionInv'
    <3>1. UNCHANGED <<account, cookie, codeRow, opened>>
      BY <2>1 DEF openSession
    <3>2. session' \in [Browsers -> SessionRows] /\ RowsCurrent'
      BY <2>1, <2>a, <3>1 DEF openSession, SessionInv, SessionTypes, SessionRows, RowsCurrent
    <3>3. signing' \in [Browsers -> -1..MaxCodes]
      BY <2>1, <1>a DEF openSession, SessionInv, SessionTypes
    <3> QED BY <2>b, <3>1, <3>2, <3>3 DEF SessionInv, SessionTypes
  <2>2. ASSUME NEW b \in Browsers, consumeLoginCode(b) PROVE SessionInv'
    <3>1. UNCHANGED account /\ signing' = [signing EXCEPT ![b] = -1]
      BY <2>2 DEF consumeLoginCode
    <3>2. signing' \in [Browsers -> -1..MaxCodes]
      BY <3>1, <1>a DEF SessionInv, SessionTypes
    <3>3. CASE session' = [session EXCEPT ![b] = SignedOut] /\ UNCHANGED <<cookie, opened>> /\ codeRow' \in {codeRow, NoCode}
      <4>1. session' \in [Browsers -> SessionRows] /\ RowsCurrent'
        BY <3>1, <3>3, <1>b DEF SessionInv, SessionTypes, RowsCurrent
      <4>2. codeRow' \in CodeRows /\ (CodeOpensOnce /\ UnmailedUnused)'
        BY <3>1, <3>3, <1>b, <2>a DEF SessionInv, CodeOpensOnce, UnmailedUnused
      <4> QED BY <3>1, <3>2, <3>3, <4>1, <4>2 DEF SessionInv, SessionTypes
    <3>4. CASE /\ session' = [session EXCEPT ![b] = SignedOut] /\ UNCHANGED <<cookie, opened>>
               /\ codeRow' = [codeRow EXCEPT !.tries = @ + 1] /\ ~(codeRow.tries >= CodeTries)
      <4>1. session' \in [Browsers -> SessionRows] /\ RowsCurrent'
        BY <3>1, <3>4, <1>b DEF SessionInv, SessionTypes, RowsCurrent
      <4>2. codeRow' \in CodeRows /\ codeRow'.no = codeRow.no
        BY <3>4, <1>a, <2>a DEF CodeRows
      <4>3. (CodeOpensOnce /\ UnmailedUnused)'
        BY <3>1, <3>4, <4>2 DEF SessionInv, CodeOpensOnce, UnmailedUnused
      <4> QED BY <3>1, <3>2, <3>4, <4>1, <4>2, <4>3 DEF SessionInv, SessionTypes
    <3>5. CASE /\ codeRow.no # 0 /\ codeRow' = NoCode /\ opened' = [opened EXCEPT ![codeRow.no] = @ + 1]
               /\ cookie' = [cookie EXCEPT ![b] = [session |-> TRUE, idle |-> TRUE]] /\ UNCHANGED session
      <4>1. codeRow.no \in 1..MaxCodes /\ codeRow.no = account.codes /\ opened[codeRow.no] = 0
        BY <3>5, <1>a, <2>a DEF SessionInv, CodeOpensOnce
      <4>2. opened' \in [1..MaxCodes -> Nat] /\ cookie' \in [Browsers -> Cookies]
        BY <3>5, <4>1 DEF SessionInv, SessionTypes, Cookies
      <4>3. \A c \in 1..MaxCodes : opened'[c] = IF c = codeRow.no THEN 1 ELSE opened[c]
        BY <3>5, <4>1 DEF SessionInv, SessionTypes
      <4>4. (CodeOpensOnce /\ UnmailedUnused)'
        BY <3>1, <3>5, <4>1, <4>3, <1>a, <1>b, <2>a DEF SessionInv, CodeOpensOnce, UnmailedUnused
      <4> QED BY <3>1, <3>2, <3>5, <4>2, <4>4, <1>b, <2>c DEF SessionInv, SessionTypes
    <3> QED BY <2>2, <3>3, <3>4, <3>5 DEF consumeLoginCode
  <2>3. ASSUME NEW b \in Browsers, changeOwnPassword(b) PROVE SessionInv'
    <3>1. account' \in OperatorAccounts /\ account'.pw = account.pw + 1 /\ account'.codes = account.codes
      BY <2>3, <1>a, <2>a DEF changeOwnPassword, OperatorAccounts
    <3>2. session' \in [Browsers -> SessionRows] /\ RowsCurrent'
      BY <2>3, <1>b, <2>a, <3>1 DEF changeOwnPassword, SessionRows, RowsCurrent
    <3> QED BY <2>3, <2>b, <3>1, <3>2 DEF changeOwnPassword, SessionInv, SessionTypes
  <2>4. ASSUME NEW b \in Browsers, browserCloses(b) \/ idleRunsOut(b) \/ heartbeat(b) PROVE SessionInv'
    <3>1. cookie' \in [Browsers -> Cookies] /\ UNCHANGED <<account, session, codeRow, signing, opened>>
      BY <2>4, <2>a DEF browserCloses, idleRunsOut, heartbeat, SessionInv, SessionTypes, Cookies
    <3> QED BY <2>b, <2>c, <3>1 DEF SessionInv, SessionTypes
  <2>5. ASSUME NEW b \in Browsers, logout(b) \/ middleware(b) PROVE SessionInv'
    <3>1. /\ cookie' = [cookie EXCEPT ![b] = NoCookie] /\ session' = [session EXCEPT ![b] = SignedOut]
          /\ UNCHANGED <<account, codeRow, signing, opened>>
      BY <2>5 DEF logout, middleware, Drop
    <3>2. cookie' \in [Browsers -> Cookies] /\ session' \in [Browsers -> SessionRows] /\ RowsCurrent'
      BY <3>1, <1>b DEF SessionInv, SessionTypes, RowsCurrent
    <3> QED BY <2>b, <3>1, <3>2 DEF SessionInv, SessionTypes
  <2>6. ASSUME NEW b \in Browsers, NEW to \in {"pending", "on", "off"}, totp(b, to) PROVE SessionInv'
    <3>1. account' \in OperatorAccounts /\ account'.pw = account.pw /\ account'.codes = account.codes
      BY <2>6, <2>a DEF totp, OperatorAccounts
    <3> QED BY <2>6, <2>b, <2>c, <3>1 DEF totp, SessionInv, SessionTypes
  <2>7. ASSUME requestLoginCode PROVE SessionInv'
    <3>1. account' \in OperatorAccounts /\ account'.pw = account.pw /\ account'.codes = account.codes + 1 /\ account.codes < MaxCodes
      BY <2>7, <1>a, <2>a DEF requestLoginCode, OperatorAccounts
    <3>2. codeRow' \in CodeRows /\ codeRow'.no = account.codes + 1 /\ UNCHANGED opened
      BY <2>7, <1>a, <2>a DEF requestLoginCode, CodeRows
    <3>3. account.codes + 1 \in 1..MaxCodes
      BY <1>a, <2>a, <3>1
    <3>4. (CodeOpensOnce /\ UnmailedUnused)'
      BY <1>a, <2>a, <3>1, <3>2, <3>3 DEF SessionInv, CodeOpensOnce, UnmailedUnused
    <3> QED BY <2>7, <2>c, <3>1, <3>2, <3>4 DEF requestLoginCode, SessionInv, SessionTypes
  <2>8. ASSUME codeExpires PROVE SessionInv'
    <3>1. codeRow' \in CodeRows /\ codeRow'.no = codeRow.no /\ UNCHANGED <<account, session, cookie, signing, opened>>
      BY <2>8, <2>a DEF codeExpires, CodeRows
    <3>2. (CodeOpensOnce /\ UnmailedUnused)'
      BY <3>1 DEF SessionInv, CodeOpensOnce, UnmailedUnused
    <3> QED BY <2>c, <3>1, <3>2 DEF SessionInv, SessionTypes
  <2>9. ASSUME NEW active \in BOOLEAN, NEW newPw \in BOOLEAN, updateAdmin(active, newPw) PROVE SessionInv'
    <3>1. account' \in OperatorAccounts /\ account'.codes = account.codes /\ (~newPw => account'.pw = account.pw)
      <4> DEFINE pw == IF newPw THEN account.pw + 1 ELSE account.pw
      <4>1. pw \in 1..(MaxPasswords + 1) /\ account' = [account EXCEPT !.active = active, !.pw = pw]
        BY <2>9, <1>a, <2>a DEF updateAdmin
      <4>2. ~newPw => pw = account.pw
        OBVIOUS
      <4> HIDE DEF pw
      <4> QED BY <4>1, <4>2, <2>a DEF OperatorAccounts
    <3>2. session' \in [Browsers -> SessionRows] /\ RowsCurrent'
      BY <2>9, <1>b, <3>1 DEF updateAdmin, SessionInv, SessionTypes, RowsCurrent
    <3> QED BY <2>9, <2>b, <3>1, <3>2 DEF updateAdmin, SessionInv, SessionTypes
  <2>10. CASE UNCHANGED sessionVars
    BY <2>10 DEF sessionVars, SessionInv, SessionTypes, RowsCurrent, CodeOpensOnce, UnmailedUnused
  <2> QED BY <2>1, <2>2, <2>3, <2>4, <2>5, <2>6, <2>7, <2>8, <2>9, <2>10 DEF SessionsNext
<1>3. SessionInv => SessionsSound
  BY DEF SessionInv, SessionTypes, OperatorAccounts, CodeRows, SessionsSound, SessionsTypeOK, RowsCurrent, OldPasswordSignedOut, getSessionAdmin
<1> QED BY <1>1, <1>2, <1>3, PTL DEF SessionsSpec

(* ------------------------------ login guard ----------------------------- *)

AuditRows == [who : {"me", "other"}, what : {"failed", "login"}, at : Nat]
AlertInv == minute \in Nat /\ lockNoted \in Seq(Nat) /\ AlertsSpaced

GuardTypes ==
  /\ minute \in 0..LastMinute /\ trying \subseteq Callers
  /\ auditRows \in Seq(AuditRows) /\ Len(auditRows) <= MaxAttempts

\* Later rows are not older, and none is from the future.
RowsInOrder ==
  /\ \A k \in DOMAIN auditRows : auditRows[k].at <= minute
  /\ \A j, k \in DOMAIN auditRows : j <= k => auditRows[j].at <= auditRows[k].at

\* The owner's failures that the query sees.
Failed == Streak(OfUser(Queried))

(***************************************************************************)
(* The failures the guard sees, and those that the requests past the guard *)
(* may still add, stay within the limit and one more for each but one of   *)
(* the callers.                                                            *)
(***************************************************************************)
StreakBounded == LockMin > WindowMin => Cardinality(Failed) + Cardinality(trying) <= MaxFailures - 1 + Cardinality(Callers)

GuardInv == GuardTypes /\ RowsInOrder /\ AlertInv /\ StreakBounded

\* The limits of the policy are natural numbers.
LEMMA GuardNumbers ==
  /\ MaxFailures \in Nat \ {0} /\ WindowMin \in Nat \ {0} /\ LockMin \in Nat \ {0} /\ TakeRows \in Nat \ {0}
  /\ LastMinute \in Nat /\ MaxAttempts \in Nat
  BY LoginGuardAssumption

\* The rows of the log.
LEMMA LogRows ==
  ASSUME GuardTypes
  PROVE /\ Len(auditRows) \in Nat /\ DOMAIN auditRows = 1..Len(auditRows) /\ minute \in Nat
        /\ \A k \in 1..Len(auditRows) : auditRows[k] \in AuditRows /\ auditRows[k].at \in Nat
  <1>1. /\ Len(auditRows) \in Nat /\ DOMAIN auditRows = 1..Len(auditRows) /\ minute \in Nat
        /\ \A k \in 1..Len(auditRows) : auditRows[k] \in AuditRows
    <2> HIDE DEF AuditRows
    <2> QED BY GuardNumbers DEF GuardTypes
  <1>2. \A r \in AuditRows : r.at \in Nat
    BY DEF AuditRows
  <1> QED BY <1>1, <1>2

\* What the query sees is a finite set of places in the log.
LEMMA FailedFinite ==
  ASSUME GuardTypes
  PROVE /\ IsFiniteSet(InWindow) /\ IsFiniteSet(Queried) /\ IsFiniteSet(OfUser(Queried)) /\ IsFiniteSet(Failed)
        /\ Cardinality(Failed) \in Nat /\ Failed \subseteq OfUser(Queried) /\ OfUser(Queried) \subseteq Queried
        /\ Queried \subseteq InWindow /\ InWindow \subseteq 1..Len(auditRows) /\ Len(auditRows) \in Nat
        /\ Cardinality(Streak(Queried)) \in Nat
  <1>1. Len(auditRows) \in Nat /\ DOMAIN auditRows = 1..Len(auditRows)
    BY DEF GuardTypes
  <1>2. IsFiniteSet(1..Len(auditRows))
    BY <1>1, FS_Interval
  <1>3. /\ InWindow \subseteq 1..Len(auditRows) /\ Queried \subseteq InWindow /\ OfUser(Queried) \subseteq Queried
        /\ Failed \subseteq OfUser(Queried) /\ Streak(Queried) \subseteq Queried
    BY <1>1 DEF InWindow, Queried, OfUser, Failed, Streak
  <1> QED BY <1>1, <1>2, <1>3, FS_Subset, FS_CardinalityType

\* A set of places in a log has a last one.
LEMMA NewestRow ==
  ASSUME NEW n \in Nat, NEW R \in SUBSET (1..n), R # {}
  PROVE  \E m \in R : \A j \in R : j <= m
  <1> DEFINE D == {d \in Nat : n - d \in R}
  <1>1. D # {} /\ D \subseteq Nat
    <2>1. PICK r \in R : TRUE
      OBVIOUS
    <2>2. n - r \in Nat /\ n - (n - r) = r
      OBVIOUS
    <2>3. n - r \in D
      BY <2>2
    <2> QED BY <2>3
  <1>2. IsWellFoundedOn(OpToRel(<, Nat), Nat)
    BY NatLessThanWellFounded
  <1> HIDE DEF D
  <1>3. PICK d \in D : \A e \in D : ~(<<e, d>> \in OpToRel(<, Nat))
    BY <1>1, <1>2, WFMin
  <1>4. \A e \in D : ~(e < d)
    BY <1>1, <1>3 DEF OpToRel
  <1>5. n - d \in R
    BY <1>3 DEF D
  <1>6. ASSUME NEW j \in R PROVE j <= n - d
    <2>1. n - j \in Nat /\ n - (n - j) = j /\ d \in Nat
      BY <1>1
    <2>2. n - j \in D
      BY <2>1 DEF D
    <2> QED BY <1>4, <2>1, <2>2
  <1> QED BY <1>5, <1>6

(***************************************************************************)
(* The guard lets nobody pass once the failures it sees reach the limit:   *)
(* the newest of them is in the window, so its lock has not ended.         *)
(***************************************************************************)
LEMMA GuardLocks ==
  ASSUME GuardTypes, LockMin > WindowMin, ~loginGuardState.locked
  PROVE Cardinality(Failed) <= MaxFailures - 1
  <1> DEFINE byUser == streak(OfUser(Queried))
             byIp == streak(Queried)
             hit == IF byIp.failures > byUser.failures THEN byIp ELSE byUser
  <1>1. /\ Cardinality(Failed) \in Nat /\ byUser.failures = Cardinality(Failed)
        /\ byIp.failures = Cardinality(Streak(Queried)) /\ byIp.failures \in Nat
    BY FailedFinite DEF streak, Failed
  <1>2. SUFFICES ASSUME Cardinality(Failed) >= MaxFailures PROVE FALSE
    BY <1>1, GuardNumbers
  <1>3. hit.failures >= MaxFailures /\ hit.failures # 0
    BY <1>1, <1>2, GuardNumbers
  <1>4. \E t \in hit.last : t + LockMin > minute
    <2>1. ASSUME NEW R \in SUBSET Queried, Cardinality(Streak(R)) >= MaxFailures, Streak(R) \subseteq R
          PROVE  \E t \in streak(R).last : t + LockMin > minute
      <3>1. IsFiniteSet(R) /\ R \subseteq 1..Len(auditRows) /\ Len(auditRows) \in Nat
        BY <2>1, FailedFinite, FS_Subset
      <3>2. Streak(R) # {}
        BY <2>1, GuardNumbers, FS_EmptySet
      <3>3. PICK s \in R : \A j \in R : j <= s
        <4>1. R # {} /\ R \in SUBSET Int
          BY <2>1, <3>1, <3>2
        <4>2. PICK m \in R : \A j \in R : m >= j
          <5>1. \E m \in R : \A j \in R : m >= j
            BY <3>1, <4>1, NewestRow
          <5> QED BY <5>1
        <4> QED BY <3>1, <4>2
      <3>4. PICK k \in Streak(R) : TRUE
        BY <3>2
      <3>5. s \in Streak(R)
        BY <3>1, <3>3, <3>4 DEF Streak
      <3>6. auditRows[s].at \in streak(R).last
        BY <3>3, <3>5 DEF streak
      <3>7. auditRows[s].at >= minute - WindowMin /\ auditRows[s].at \in Nat /\ minute \in Nat
        <4>1. s \in InWindow /\ s \in 1..Len(auditRows)
          BY <3>1, <3>3, FailedFinite
        <4> QED BY <4>1, LogRows DEF InWindow
      <3> QED BY <3>6, <3>7, GuardNumbers
    <2>2. Streak(Queried) \subseteq Queried /\ Streak(OfUser(Queried)) \subseteq OfUser(Queried) /\ OfUser(Queried) \subseteq Queried
      BY DEF Streak, OfUser
    <2>3. CASE byIp.failures > byUser.failures
      BY <2>1, <2>2, <2>3, <1>1, <1>3
    <2>4. CASE ~(byIp.failures > byUser.failures)
      BY <2>1, <2>2, <2>4, <1>1, <1>3 DEF Failed
    <2> QED BY <2>3, <2>4
  <1> QED BY <1>3, <1>4 DEF loginGuardState

(***************************************************************************)
(* A step after which the guard sees no failure that it did not see before *)
(* keeps the bound, unless it lets a request pass.                         *)
(***************************************************************************)
LEMMA StreakShrinks ==
  ASSUME GuardInv, IsFiniteSet(Callers), GuardTypes', Failed' \subseteq Failed, trying' \subseteq trying
  PROVE  StreakBounded'
  <1>1. IsFiniteSet(Failed) /\ IsFiniteSet(trying) /\ IsFiniteSet(trying') /\ IsFiniteSet(Failed')
    BY FailedFinite, FS_Subset DEF GuardInv, GuardTypes
  <1>2. /\ Cardinality(Failed') <= Cardinality(Failed) /\ Cardinality(trying') <= Cardinality(trying)
        /\ Cardinality(Failed') \in Nat /\ Cardinality(Failed) \in Nat /\ Cardinality(trying') \in Nat /\ Cardinality(trying) \in Nat
        /\ Cardinality(Callers) \in Nat
    BY <1>1, FS_Subset, FS_CardinalityType
  <1> QED BY <1>2, GuardNumbers DEF GuardInv, StreakBounded

(***************************************************************************)
(* A row is added.  What the query sees of the owner afterwards it saw     *)
(* before, but for the new row; and a failure it still sees was in the     *)
(* streak before, since nothing newer than it has left the query.          *)
(***************************************************************************)
LEMMA RowAdded ==
  ASSUME GuardInv, NEW w \in {"me", "other"}, NEW v \in {"failed", "login"}, AddRow(w, v), UNCHANGED minute, Len(auditRows) < MaxAttempts
  PROVE  /\ auditRows' \in Seq(AuditRows) /\ Len(auditRows') <= MaxAttempts /\ RowsInOrder'
         /\ w = "other" => Failed' \subseteq Failed
         /\ w = "me" /\ v = "login" => Failed' = {}
         /\ w = "me" /\ v = "failed" => Failed' \subseteq Failed \union {Len(auditRows) + 1}
  <1> DEFINE n == Len(auditRows)
             new == [who |-> w, what |-> v, at |-> minute]
  <1>1. /\ n \in Nat /\ minute \in Nat /\ DOMAIN auditRows = 1..n /\ new \in AuditRows
        /\ \A k \in 1..n : auditRows[k] \in AuditRows /\ auditRows[k].at \in Nat
    <2>1. GuardTypes
      BY DEF GuardInv
    <2>2. new \in AuditRows
      BY <2>1, LogRows DEF AuditRows
    <2> QED BY <2>1, <2>2, LogRows
  <1>2. /\ auditRows' \in Seq(AuditRows) /\ Len(auditRows') = n + 1 /\ DOMAIN auditRows' = 1..(n + 1)
        /\ auditRows'[n + 1] = new /\ \A k \in 1..n : auditRows'[k] = auditRows[k]
    BY <1>1 DEF AddRow, GuardInv, GuardTypes
  <1>3. Len(auditRows') <= MaxAttempts
    BY <1>1, <1>2, GuardNumbers
  <1>4. new.who = w /\ new.what = v /\ new.at = minute /\ minute' = minute
    OBVIOUS
  <1> HIDE DEF new
  <1>5. RowsInOrder'
    <2>1. ASSUME NEW k \in 1..(n + 1) PROVE auditRows'[k].at <= minute /\ auditRows'[k].at \in Nat
      <3>1. CASE k = n + 1
        BY <3>1, <1>1, <1>2, <1>4
      <3>2. CASE k \in 1..n
        <4>1. auditRows[k].at <= minute
          BY <3>2, <1>1 DEF GuardInv, RowsInOrder
        <4> QED BY <3>2, <4>1, <1>1, <1>2
      <3> QED BY <3>1, <3>2, <1>1
    <2>2. ASSUME NEW j \in 1..(n + 1), NEW k \in 1..(n + 1), j <= k PROVE auditRows'[j].at <= auditRows'[k].at
      <3>1. CASE k = n + 1
        BY <2>1, <3>1, <1>2, <1>4
      <3>2. CASE k # n + 1
        <4>1. j \in 1..n /\ k \in 1..n
          BY <3>2, <2>2, <1>1
        <4> QED BY <4>1, <2>2, <1>1, <1>2 DEF GuardInv, RowsInOrder
      <3> QED BY <3>1, <3>2
    <2> QED BY <1>2, <1>4, <2>1, <2>2 DEF RowsInOrder
  <1> DEFINE U == OfUser(Queried)
             V == OfUser(Queried)'
  <1>6. \A k \in V : k \in U \/ (k = n + 1 /\ w = "me")
    BY <1>1, <1>2, <1>4, GuardNumbers DEF OfUser, Queried, InWindow
  <1>7. \A k \in V : \A j \in U : j >= k => j \in V
    BY <1>1, <1>2, <1>4, GuardNumbers DEF OfUser, Queried, InWindow, GuardInv, RowsInOrder, AuditRows
  <1>8. w = "me" => n + 1 \in V
    BY <1>1, <1>2, <1>4, GuardNumbers DEF OfUser, Queried, InWindow
  <1>9. U \subseteq 1..n /\ V \subseteq 1..(n + 1)
    BY <1>1, <1>2 DEF OfUser, Queried, InWindow
  <1>10. Failed = {k \in U : \A j \in U : j >= k => auditRows[j].what = "failed"}
    BY DEF Failed, Streak
  <1>11. Failed' = {k \in V : \A j \in V : j >= k => auditRows'[j].what = "failed"}
    BY DEF Failed, Streak
  <1> HIDE DEF U, V
  <1>12. \A k \in Failed' : k \in U => k \in Failed
    BY <1>2, <1>7, <1>9, <1>10, <1>11
  <1>13. w = "other" => Failed' \subseteq Failed
    BY <1>6, <1>11, <1>12
  <1>14. w = "me" /\ v = "failed" => Failed' \subseteq Failed \union {n + 1}
    BY <1>6, <1>11, <1>12
  <1>15. w = "me" /\ v = "login" => Failed' = {}
    <2> SUFFICES ASSUME w = "me", v = "login", NEW k \in Failed' PROVE FALSE
      OBVIOUS
    <2>1. k \in V /\ k <= n + 1
      BY <1>1, <1>9, <1>11
    <2>2. n + 1 >= k
      BY <2>1, <1>1, <1>9
    <2> QED BY <2>1, <2>2, <1>2, <1>4, <1>8, <1>11
  <1> QED BY <1>2, <1>3, <1>5, <1>13, <1>14, <1>15

\* One more element makes a set larger by at most one.
LEMMA OneMore ==
  ASSUME NEW S, IsFiniteSet(S), NEW x
  PROVE  IsFiniteSet(S \union {x}) /\ Cardinality(S \union {x}) <= Cardinality(S) + 1
  <1>1. Cardinality(S) \in Nat
    BY FS_CardinalityType
  <1>2. IsFiniteSet(S \union {x}) /\ Cardinality(S \union {x}) = IF x \in S THEN Cardinality(S) ELSE Cardinality(S) + 1
    BY FS_AddElement
  <1> QED BY <1>1, <1>2

\* The alerts of loginGuard are spaced, and no other action writes one.
LEMMA AlertsStep == AlertInv /\ [LoginGuardNext]_loginGuardVars => AlertInv'
  <2> SUFFICES ASSUME AlertInv, [LoginGuardNext]_loginGuardVars PROVE AlertInv'
    OBVIOUS
  <2>a. LockMin \in Nat
    BY LoginGuardAssumption
  <2>1. CASE (minute' = minute + 1 \/ minute' = minute) /\ UNCHANGED lockNoted
    BY <2>1 DEF AlertInv, AlertsSpaced
  <2>2. CASE /\ \A k \in DOMAIN lockNoted : lockNoted[k] < minute - LockMin
             /\ lockNoted' = <<minute>> \o lockNoted /\ UNCHANGED minute
    <3> DEFINE n == Len(lockNoted)
    <3>1. n \in Nat /\ lockNoted' \in Seq(Nat) /\ Len(lockNoted') = n + 1 /\ lockNoted'[1] = minute
      BY <2>2 DEF AlertInv
    <3>2. \A k \in 1..n : lockNoted'[k + 1] = lockNoted[k] /\ lockNoted[k] \in Nat /\ lockNoted[k] < minute - LockMin
      BY <2>2 DEF AlertInv
    <3>3. ASSUME NEW k \in 1..n PROVE lockNoted'[k] - lockNoted'[k + 1] > LockMin
      <4>1. CASE k = 1
        <5>1. 1 \in 1..n /\ lockNoted'[2] = lockNoted[1]
          BY <4>1, <3>1, <3>2
        <5> QED BY <4>1, <5>1, <3>1, <3>2, <2>a DEF AlertInv
      <4>2. CASE k # 1
        <5>1. k - 1 \in 1..(n - 1) /\ k - 1 \in 1..n /\ (k - 1) + 1 = k
          BY <4>2, <3>1
        <5>2. lockNoted[k - 1] - lockNoted[k] > LockMin
          BY <5>1 DEF AlertInv, AlertsSpaced
        <5>3. lockNoted'[k] = lockNoted[k - 1] /\ lockNoted'[k + 1] = lockNoted[k]
          BY <5>1, <3>2
        <5> QED BY <5>2, <5>3
      <4> QED BY <4>1, <4>2
    <3>4. AlertsSpaced'
      <4>1. Len(lockNoted') - 1 = n
        BY <3>1
      <4> QED BY <3>3, <4>1 DEF AlertsSpaced
    <3> QED BY <2>2, <3>1, <3>4 DEF AlertInv
  <2>3. CASE UNCHANGED loginGuardVars
    BY <2>1, <2>3 DEF loginGuardVars
  <2> QED BY <2>1, <2>2, <2>3 DEF LoginGuardNext, loginGuard, loginWithPassword, otherUser, minutePasses

\* One step of the guard, a password check, another user or the clock.
LEMMA GuardStep ==
  ASSUME IsFiniteSet(Callers), GuardInv, [LoginGuardNext]_loginGuardVars PROVE GuardInv'
  <1>a. AlertInv'
    BY AlertsStep DEF GuardInv
  <1>b. /\ minute \in Nat /\ Cardinality(Callers) \in Nat /\ IsFiniteSet(trying) /\ Cardinality(trying) \in Nat
        /\ Cardinality(Failed) \in Nat /\ IsFiniteSet(Failed)
    BY FailedFinite, FS_Subset, FS_CardinalityType DEF GuardInv, GuardTypes
  <1>1. ASSUME NEW c \in Callers, loginGuard(c) PROVE GuardInv'
    <2>1. UNCHANGED <<minute, auditRows>> /\ trying' \subseteq Callers
      BY <1>1 DEF loginGuard, GuardInv, GuardTypes
    <2>2. GuardTypes' /\ RowsInOrder' /\ Failed' = Failed
      BY <2>1 DEF GuardInv, GuardTypes, RowsInOrder, Failed, Streak, OfUser, Queried, InWindow
    <2>3. CASE trying' \subseteq trying
      BY <2>2, <2>3, <1>a, StreakShrinks DEF GuardInv
    <2>4. CASE ~loginGuardState.locked
      <3>1. IsFiniteSet(trying') /\ Cardinality(trying') \in Nat /\ Cardinality(trying') <= Cardinality(Callers)
        BY <2>1, FS_Subset, FS_CardinalityType
      <3>2. LockMin > WindowMin => Cardinality(Failed) <= MaxFailures - 1
        BY <2>4, GuardLocks DEF GuardInv
      <3>3. StreakBounded'
        BY <3>1, <3>2, <2>2, <1>b, GuardNumbers DEF StreakBounded
      <3> QED BY <3>3, <2>2, <1>a DEF GuardInv
    <2> QED BY <2>3, <2>4, <1>1 DEF loginGuard
  <1>2. ASSUME NEW c \in Callers, NEW v \in {"failed", "login", "refused"}, loginWithPassword(c, v) PROVE GuardInv'
    <2>1. /\ trying' = trying \ {c} /\ c \in trying /\ UNCHANGED minute /\ Len(auditRows) < MaxAttempts
          /\ IF v = "refused" THEN UNCHANGED auditRows ELSE AddRow("me", v)
      BY <1>2 DEF loginWithPassword
    <2>2. trying' \subseteq trying /\ trying' \subseteq Callers
      BY <2>1 DEF GuardInv, GuardTypes
    <2>3. CASE v = "refused"
      <3>1. GuardTypes' /\ RowsInOrder' /\ Failed' = Failed
        BY <2>1, <2>2, <2>3 DEF GuardInv, GuardTypes, RowsInOrder, Failed, Streak, OfUser, Queried, InWindow
      <3> QED BY <3>1, <2>2, <1>a, StreakShrinks DEF GuardInv
    <2>4. CASE v = "login"
      <3>1. auditRows' \in Seq(AuditRows) /\ Len(auditRows') <= MaxAttempts /\ RowsInOrder' /\ Failed' = {}
        BY <2>1, <2>4, RowAdded
      <3>2. GuardTypes' /\ Failed' \subseteq Failed
        BY <3>1, <2>1, <2>2 DEF GuardInv, GuardTypes
      <3> QED BY <3>1, <3>2, <2>2, <1>a, StreakShrinks DEF GuardInv
    <2>5. CASE v = "failed"
      <3>1. /\ auditRows' \in Seq(AuditRows) /\ Len(auditRows') <= MaxAttempts /\ RowsInOrder'
            /\ Failed' \subseteq Failed \union {Len(auditRows) + 1}
        BY <2>1, <2>5, RowAdded
      <3>2. GuardTypes'
        BY <3>1, <2>1, <2>2 DEF GuardInv, GuardTypes
      <3>3. IsFiniteSet(Failed \union {Len(auditRows) + 1}) /\ Cardinality(Failed \union {Len(auditRows) + 1}) <= Cardinality(Failed) + 1
        BY <1>b, OneMore
      <3>4. Cardinality(Failed') <= Cardinality(Failed) + 1 /\ Cardinality(Failed') \in Nat
        BY <3>1, <3>3, <1>b, FS_Subset, FS_CardinalityType
      <3>5. Cardinality(trying') = Cardinality(trying) - 1
        BY <2>1, <1>b, FS_RemoveElement
      <3>6. StreakBounded'
        BY <3>4, <3>5, <1>b, GuardNumbers DEF GuardInv, StreakBounded
      <3> QED BY <3>1, <3>2, <3>6, <1>a DEF GuardInv
    <2> QED BY <2>3, <2>4, <2>5
  <1>3. ASSUME NEW v \in {"failed", "login"}, otherUser(v) PROVE GuardInv'
    <2>1. UNCHANGED <<minute, trying>> /\ AddRow("other", v) /\ Len(auditRows) < MaxAttempts
      BY <1>3 DEF otherUser
    <2>2. auditRows' \in Seq(AuditRows) /\ Len(auditRows') <= MaxAttempts /\ RowsInOrder' /\ Failed' \subseteq Failed
      BY <2>1, RowAdded
    <2>3. GuardTypes' /\ trying' \subseteq trying
      BY <2>1, <2>2 DEF GuardInv, GuardTypes
    <2> QED BY <2>2, <2>3, <1>a, StreakShrinks DEF GuardInv
  <1>4. ASSUME minutePasses PROVE GuardInv'
    <2>1. minute' = minute + 1 /\ minute < LastMinute /\ UNCHANGED <<auditRows, trying>>
      BY <1>4 DEF minutePasses
    <2>2. GuardTypes'
      BY <2>1, <1>b, GuardNumbers DEF GuardInv, GuardTypes
    <2>3. \A k \in DOMAIN auditRows : auditRows[k].at \in Nat /\ auditRows[k].at <= minute
      BY LogRows DEF GuardInv, RowsInOrder
    <2>4. RowsInOrder'
      BY <2>1, <2>3, <1>b DEF GuardInv, RowsInOrder
    <2>5. DOMAIN auditRows = 1..Len(auditRows) /\ Len(auditRows) \in Nat
      BY DEF GuardInv, GuardTypes
    <2> DEFINE U == OfUser(Queried)
               V == OfUser(Queried)'
    <2>6. V \subseteq U /\ \A k \in V : \A j \in U : j >= k => j \in V
      <3>1. V \subseteq U
        BY <2>1, <2>3, <2>5, <1>b, GuardNumbers DEF OfUser, Queried, InWindow
      <3>2. ASSUME NEW k \in V, NEW j \in U, j >= k PROVE j \in V
        <4>1. k \in 1..Len(auditRows) /\ j \in 1..Len(auditRows) /\ auditRows[k].at >= minute + 1 - WindowMin /\ auditRows[j].who = "me"
          BY <2>1, <2>5, <1>b, GuardNumbers DEF OfUser, Queried, InWindow
        <4>2. k > Len(auditRows) - TakeRows
          BY <2>1 DEF OfUser, Queried
        <4>3. auditRows[j].at >= auditRows[k].at /\ auditRows[k].at \in Nat /\ auditRows[j].at \in Nat
          BY <3>2, <4>1, <2>3, <2>5 DEF GuardInv, RowsInOrder
        <4>4. j > Len(auditRows) - TakeRows /\ auditRows[j].at >= minute + 1 - WindowMin
          BY <3>2, <4>1, <4>2, <4>3, <2>5, <1>b, GuardNumbers
        <4> QED BY <4>1, <4>4, <2>1, <2>5, <1>b, GuardNumbers DEF OfUser, Queried, InWindow
      <3> QED BY <3>1, <3>2
    <2>7. Failed = {k \in U : \A j \in U : j >= k => auditRows[j].what = "failed"}
      BY DEF Failed, Streak
    <2>8. Failed' = {k \in V : \A j \in V : j >= k => auditRows[j].what = "failed"}
      BY <2>1 DEF Failed, Streak
    <2> HIDE DEF U, V
    <2>9. Failed' \subseteq Failed
      BY <2>6, <2>7, <2>8
    <2> QED BY <2>1, <2>2, <2>4, <2>9, <1>a, StreakShrinks DEF GuardInv
  <1>5. CASE UNCHANGED loginGuardVars
    <2>1. GuardTypes' /\ RowsInOrder' /\ Failed' = Failed /\ trying' = trying
      BY <1>5 DEF loginGuardVars, GuardInv, GuardTypes, RowsInOrder, Failed, Streak, OfUser, Queried, InWindow
    <2> QED BY <2>1, <1>a, StreakShrinks DEF GuardInv
  <1> QED BY <1>1, <1>2, <1>3, <1>4, <1>5 DEF LoginGuardNext

\* A window that holds no more rows than the query takes is what the query sees.
LEMMA WindowQueried ==
  ASSUME GuardInv, Cardinality(InWindow) <= TakeRows PROVE InWindow = Queried
  <1> DEFINE n == Len(auditRows)
  <1>1. n \in Nat /\ IsFiniteSet(InWindow) /\ InWindow \subseteq 1..n /\ DOMAIN auditRows = 1..n /\ minute \in Nat
    BY FailedFinite DEF GuardInv, GuardTypes
  <1>2. SUFFICES ASSUME NEW k \in InWindow, ~(k > n - TakeRows) PROVE FALSE
    BY DEF Queried
  <1>3. k \in 1..n /\ k..n \subseteq InWindow
    <2>1. ASSUME NEW j \in k..n PROVE j \in InWindow
      <3>1. j \in 1..n /\ k \in 1..n /\ k <= j
        BY <1>1
      <3>2. auditRows[k].at <= auditRows[j].at /\ auditRows[k].at \in Nat /\ auditRows[j].at \in Nat
        BY <3>1, <1>1, LogRows DEF GuardInv, RowsInOrder
      <3>3. auditRows[k].at >= minute - WindowMin
        BY DEF InWindow
      <3> QED BY <3>1, <3>2, <3>3, <1>1, GuardNumbers DEF InWindow
    <2> QED BY <1>1, <2>1
  <1>4. Cardinality(k..n) = n - k + 1 /\ Cardinality(k..n) <= Cardinality(InWindow) /\ Cardinality(InWindow) \in Nat
    <2>1. Cardinality(k..n) = n - k + 1
      BY <1>1, <1>3, FS_Interval
    <2> QED BY <2>1, <1>1, <1>3, FS_Subset, FS_CardinalityType
  <1> QED BY <1>1, <1>2, <1>3, <1>4, GuardNumbers

(***************************************************************************)
(* For every security policy whose lock outlasts its window and any        *)
(* number of requests in flight: no more wrong passwords of one account    *)
(* are looked at within the window than the limit and the requests already *)
(* past the guard allow, and two lock alerts are more than lockMin apart.  *)
(***************************************************************************)
THEOREM GuardIsSound == IsFiniteSet(Callers) => (LoginGuardSpec => []GuardSound)
<1> SUFFICES ASSUME IsFiniteSet(Callers) PROVE LoginGuardSpec => []GuardSound
  OBVIOUS
<1>1. LoginGuardInit => GuardInv
  <2> SUFFICES ASSUME LoginGuardInit PROVE GuardInv
    OBVIOUS
  <2>1. GuardTypes /\ RowsInOrder /\ AlertInv
    BY GuardNumbers DEF LoginGuardInit, GuardTypes, RowsInOrder, AlertInv, AlertsSpaced
  <2>2. Failed = {} /\ trying = {}
    BY DEF LoginGuardInit, Failed, Streak, OfUser, Queried, InWindow
  <2>3. Cardinality({}) = 0 /\ Cardinality(Callers) \in Nat
    BY FS_EmptySet, FS_CardinalityType
  <2>4. StreakBounded
    BY <2>2, <2>3, GuardNumbers DEF StreakBounded
  <2> QED BY <2>1, <2>4 DEF GuardInv
<1>2. GuardInv /\ [LoginGuardNext]_loginGuardVars => GuardInv'
  BY GuardStep
<1>3. GuardInv => GuardSound
  <2> SUFFICES ASSUME GuardInv PROVE GuardSound
    OBVIOUS
  <2>1. LoginGuardTypeOK
    <3>1. \A k \in DOMAIN auditRows : auditRows[k].at \in Nat /\ auditRows[k].at <= minute /\ minute \in Nat
      BY LogRows DEF GuardInv, RowsInOrder
    <3> QED BY <3>1 DEF LoginGuardTypeOK, GuardInv, GuardTypes
  <2>2. FailuresBounded
    <3> SUFFICES ASSUME LockMin > WindowMin, Cardinality(InWindow) <= TakeRows
                 PROVE  streak(OfUser(InWindow)).failures <= MaxFailures + Cardinality(Callers) - 1
      BY DEF FailuresBounded
    <3>1. streak(OfUser(InWindow)).failures = Cardinality(Failed)
      BY WindowQueried DEF streak, Failed
    <3>2. Cardinality(trying) \in Nat /\ Cardinality(Failed) \in Nat /\ Cardinality(Callers) \in Nat
      BY FailedFinite, FS_Subset, FS_CardinalityType DEF GuardInv, GuardTypes
    <3> QED BY <3>1, <3>2, GuardNumbers DEF GuardInv, StreakBounded
  <2> QED BY <2>1, <2>2 DEF GuardSound, GuardInv, AlertInv
<1> QED BY <1>1, <1>2, <1>3, PTL DEF LoginGuardSpec

(* --------------------------- reseller accounts -------------------------- *)

ResellerRows == [exists : BOOLEAN, active : BOOLEAN, expires : Int, clients : {0, 1}, keys : Nat]
DeskRequests ==
  [at : {"idle", "delete", "bulk", "key"}, who : Resellers \union {CHOOSE a \in Resellers : TRUE}, todo : SUBSET Resellers,
   action : {"none", "activate", "deactivate", "extend"}, days : {-1, 0, 2}, read : [Resellers -> ResellerRows]]

(***************************************************************************)
(* A row r with c clients on the panels, promised p: an end date keeps the *)
(* promise and stays below Never, and an account without one was promised  *)
(* nothing; a row that is gone has no client.                              *)
(***************************************************************************)
RowOK(r, c, p, ops) ==
  /\ r.keys <= MaxKeys /\ c = r.clients /\ (~r.exists => r.clients = 0)
  /\ r.exists /\ r.expires # Never => r.expires >= p /\ r.expires <= LastDay + 2 + 2 * ops
  /\ r.exists /\ r.expires = Never => p = 0

\* What a request that works on rows it read relies on: nothing changed them since.
DeskOK(d, table, ops) ==
  /\ d.at \in {"delete", "key"} => d.who \in Resellers
  /\ d.at = "delete" => table[d.who].clients = 0
  /\ d.at = "key" => table[d.who].keys < MaxKeys
  /\ d.at = "bulk" => ops >= 1 /\ d.action # "none" /\ (d.action = "extend" <=> d.days # 0)
  /\ d.at = "bulk" => \A a \in d.todo :
       d.read[a] = table[a] /\ (table[a].exists /\ table[a].expires # Never => table[a].expires <= LastDay + 2 * ops)

DeskTypes ==
  /\ reseller \in [Resellers -> ResellerRows] /\ panelClients \in [Resellers -> {0, 1}] /\ promised \in [Resellers -> Int]
  /\ desk \in [Desks -> DeskRequests] /\ deskDay \in 1..(LastDay + 1) /\ deskOps \in 0..MaxDeskOps

DeskInv ==
  /\ DeskTypes
  /\ \A a \in Resellers : RowOK(reseller[a], panelClients[a], promised[a], deskOps)
  /\ \A k \in Desks : DeskOK(desk[k], reseller, deskOps)

\* More requests only loosen what a row has to keep.
LEMMA RowOKLater ==
  ASSUME NEW r \in ResellerRows, NEW c, NEW p \in Int, NEW m \in Nat, NEW n \in Nat, m <= n, RowOK(r, c, p, m), LastDay \in Nat
  PROVE  RowOK(r, c, p, n)
BY DEF RowOK, ResellerRows

\* A request of the only handler keeps the invariant when it leaves its own
\* request, and the one row it writes, in order.
LEMMA DeskWrites ==
  ASSUME DeskInv, \A k, l \in Desks : k = l, NEW k \in Desks, NEW d \in DeskRequests, NEW a \in Resellers,
         NEW r \in ResellerRows, NEW c \in {0, 1}, NEW p \in Int,
         desk' = [desk EXCEPT ![k] = d], reseller' = [reseller EXCEPT ![a] = r],
         panelClients' = [panelClients EXCEPT ![a] = c], promised' = [promised EXCEPT ![a] = p],
         UNCHANGED deskDay, deskOps' \in 0..MaxDeskOps, deskOps <= deskOps',
         RowOK(r, c, p, deskOps'), DeskOK(d, reseller', deskOps')
  PROVE  DeskInv'
<1>0. LastDay \in Nat /\ MaxDeskOps \in Nat /\ deskOps \in Nat /\ deskOps' \in Nat
  BY AdminDeskAssumption DEF DeskInv, DeskTypes
<1>1. DeskTypes'
  BY DEF DeskInv, DeskTypes
<1>2. ASSUME NEW x \in Resellers PROVE RowOK(reseller'[x], panelClients'[x], promised'[x], deskOps')
  <2>1. CASE x = a
    BY <2>1 DEF DeskInv, DeskTypes
  <2>2. CASE x # a
    <3>1. reseller'[x] = reseller[x] /\ panelClients'[x] = panelClients[x] /\ promised'[x] = promised[x]
      BY <2>2 DEF DeskInv, DeskTypes
    <3>2. RowOK(reseller[x], panelClients[x], promised[x], deskOps) /\ reseller[x] \in ResellerRows /\ promised[x] \in Int
      BY DEF DeskInv, DeskTypes
    <3>3. RowOK(reseller[x], panelClients[x], promised[x], deskOps')
      BY <3>2, <1>0, RowOKLater
    <3> QED BY <3>1, <3>3
  <2> QED BY <2>1, <2>2
<1>3. \A l \in Desks : DeskOK(desk'[l], reseller', deskOps')
  BY DEF DeskInv, DeskTypes
<1> QED BY <1>1, <1>2, <1>3 DEF DeskInv

\* A request that writes no row keeps it when it leaves its own request in order.
LEMMA DeskReads ==
  ASSUME DeskInv, \A k, l \in Desks : k = l, NEW k \in Desks, NEW d \in DeskRequests,
         desk' = [desk EXCEPT ![k] = d], UNCHANGED <<reseller, panelClients, promised, deskDay>>,
         deskOps' \in 0..MaxDeskOps, deskOps <= deskOps', DeskOK(d, reseller, deskOps')
  PROVE  DeskInv'
<1>0. LastDay \in Nat /\ MaxDeskOps \in Nat /\ deskOps \in Nat /\ deskOps' \in Nat
  BY AdminDeskAssumption DEF DeskInv, DeskTypes
<1>1. DeskTypes'
  BY DEF DeskInv, DeskTypes
<1>2. ASSUME NEW x \in Resellers PROVE RowOK(reseller[x], panelClients[x], promised[x], deskOps')
  <2>1. RowOK(reseller[x], panelClients[x], promised[x], deskOps) /\ reseller[x] \in ResellerRows /\ promised[x] \in Int
    BY DEF DeskInv, DeskTypes
  <2> QED BY <2>1, <1>0, RowOKLater
<1>3. \A l \in Desks : DeskOK(desk'[l], reseller, deskOps')
  BY DEF DeskInv, DeskTypes
<1> QED BY <1>1, <1>2, <1>3 DEF DeskInv

(***************************************************************************)
(* With one request handled at a time, no reseller gets more API keys than *)
(* allowed, loses days that were granted, or is deleted with a client left *)
(* on the panels, for any number of resellers, days and requests.          *)
(***************************************************************************)
THEOREM ResellerAccountsAreSound == (\A k, l \in Desks : k = l) => (AdminDeskSpec => []AdminsSound)
<1> SUFFICES ASSUME \A k, l \in Desks : k = l PROVE AdminDeskSpec => []AdminsSound
  OBVIOUS
<1>a. LastDay \in Nat /\ MaxDeskOps \in Nat /\ MaxKeys \in Nat /\ MaxKeys > 0 /\ Never \in Nat /\ Never = LastDay + 2 * MaxDeskOps + 3
  BY AdminDeskAssumption DEF Never
<1>b. /\ NoReseller \in ResellerRows /\ ~NoReseller.exists /\ NoReseller.keys = 0 /\ NoReseller.clients = 0
      /\ RowOK(NoReseller, 0, 0, 0) /\ IdleDesk \in DeskRequests /\ IdleDesk.at = "idle"
  <2>1. NoReseller \in ResellerRows /\ ~NoReseller.exists /\ NoReseller.keys = 0 /\ NoReseller.clients = 0
    BY <1>a DEF NoReseller, ResellerRows
  <2>2. IdleDesk \in DeskRequests /\ IdleDesk.at = "idle"
    BY <2>1 DEF IdleDesk, DeskRequests
  <2>3. RowOK(NoReseller, 0, 0, 0)
    BY <1>a, <2>1 DEF RowOK
  <2> QED BY <2>1, <2>2, <2>3
<1>c. ASSUME NEW table, NEW ops PROVE DeskOK(IdleDesk, table, ops)
  BY <1>b DEF DeskOK
<1>1. AdminDeskInit => DeskInv
  <2> SUFFICES ASSUME AdminDeskInit PROVE DeskInv
    OBVIOUS
  <2>1. DeskTypes
    BY <1>a, <1>b DEF AdminDeskInit, DeskTypes
  <2>2. \A a \in Resellers : RowOK(reseller[a], panelClients[a], promised[a], deskOps)
    <3>1. deskOps = 0 /\ \A a \in Resellers : reseller[a] = NoReseller /\ panelClients[a] = 0 /\ promised[a] = 0
      BY DEF AdminDeskInit
    <3> QED BY <1>b, <3>1
  <2>3. \A k \in Desks : DeskOK(desk[k], reseller, deskOps)
    BY <1>c DEF AdminDeskInit
  <2> QED BY <2>1, <2>2, <2>3 DEF DeskInv
<1>2. DeskInv /\ [AdminDeskNext]_adminDeskVars => DeskInv'
  <2> SUFFICES ASSUME DeskInv, [AdminDeskNext]_adminDeskVars PROVE DeskInv'
    OBVIOUS
  <2>a. deskOps \in Nat /\ deskOps <= MaxDeskOps /\ deskDay \in Nat /\ deskDay >= 1 /\ deskDay <= LastDay + 1
    BY <1>a DEF DeskInv, DeskTypes
  <2>b. /\ reseller \in [Resellers -> ResellerRows] /\ panelClients \in [Resellers -> {0, 1}] /\ promised \in [Resellers -> Int]
        /\ \A a \in Resellers : /\ reseller[a] \in ResellerRows /\ reseller[a].expires \in Int /\ reseller[a].keys \in Nat
                                /\ reseller[a].clients \in {0, 1} /\ panelClients[a] \in {0, 1} /\ promised[a] \in Int
                                /\ RowOK(reseller[a], panelClients[a], promised[a], deskOps)
    BY DEF DeskInv, DeskTypes, ResellerRows
  <2>c. \A k \in Desks : desk[k] \in DeskRequests /\ DeskOK(desk[k], reseller, deskOps)
    BY DEF DeskInv, DeskTypes
  <2>d. ASSUME NEW k, NEW d, Begin(k, d)
        PROVE  /\ desk' = [desk EXCEPT ![k] = d] /\ deskOps' = deskOps + 1 /\ deskOps' \in 0..MaxDeskOps
               /\ deskOps <= deskOps' /\ deskOps' \in Nat /\ deskOps' >= 1
    BY <2>d, <2>a, <1>a DEF Begin
  <2>e. ASSUME NEW k, Done(k) PROVE desk' = [desk EXCEPT ![k] = IdleDesk] /\ deskOps' = deskOps /\ deskOps' \in 0..MaxDeskOps /\ deskOps <= deskOps'
    BY <2>e, <2>a, <1>a DEF Done
  <2>f. ASSUME NEW a \in Resellers, NEW m \in Nat, deskOps <= m PROVE RowOK(reseller[a], panelClients[a], promised[a], m)
    BY <2>a, <2>b, <2>f, <1>a, RowOKLater
  <2>g. \A a \in Resellers : panelClients = [panelClients EXCEPT ![a] = panelClients[a]] /\ promised = [promised EXCEPT ![a] = promised[a]]
    BY <2>b
  <2>1. ASSUME NEW k \in Desks, NEW a \in Resellers, NEW e \in {2, Never}, createAdmin(k, a, e) PROVE DeskInv'
    <3> DEFINE r == [NoReseller EXCEPT !.exists = TRUE, !.active = TRUE, !.expires = e]
               p == IF e = Never THEN 0 ELSE e
    <3>1. r \in ResellerRows /\ r.keys = 0 /\ r.clients = 0 /\ r.exists /\ r.expires = e
      <4>1. e \in Int
        BY <1>a
      <4> QED BY <4>1, <1>b DEF ResellerRows
    <3>2. p \in Int /\ (e = Never => p = 0) /\ (e # Never => p = 2 /\ e = 2) /\ e \in Nat
      BY <1>a
    <3>3. /\ reseller' = [reseller EXCEPT ![a] = r] /\ promised' = [promised EXCEPT ![a] = p] /\ UNCHANGED <<panelClients, deskDay>>
          /\ Begin(k, IdleDesk) /\ ~reseller[a].exists
      BY <2>1 DEF createAdmin
    <3>4. panelClients[a] = 0
      BY <3>3, <2>b DEF RowOK
    <3> HIDE DEF r, p
    <3>5. RowOK(r, 0, p, deskOps')
      BY <1>a, <3>1, <3>2, <3>3, <2>d DEF RowOK
    <3>6. panelClients' = [panelClients EXCEPT ![a] = 0]
      BY <3>3, <3>4, <2>g
    <3>7. IdleDesk \in DeskRequests /\ DeskOK(IdleDesk, reseller', deskOps')
      BY <1>b, <1>c
    <3>8. desk' = [desk EXCEPT ![k] = IdleDesk] /\ deskOps' \in 0..MaxDeskOps /\ deskOps <= deskOps'
      BY <3>3, <2>d
    <3> QED BY <3>1, <3>2, <3>3, <3>5, <3>6, <3>7, <3>8, DeskWrites
  <2>2. ASSUME NEW k \in Desks, NEW a \in Resellers, beginDeleteAdmin(k, a) PROVE DeskInv'
    <3> DEFINE d == [IdleDesk EXCEPT !.at = "delete", !.who = a]
    <3>1. d \in DeskRequests /\ d.at = "delete" /\ d.who = a
      BY <1>b DEF DeskRequests
    <3>2. Begin(k, d) /\ reseller[a].clients = 0 /\ UNCHANGED <<reseller, panelClients, deskDay, promised>>
      BY <2>2 DEF beginDeleteAdmin
    <3> HIDE DEF d
    <3>3. DeskOK(d, reseller, deskOps')
      BY <3>1, <3>2 DEF DeskOK
    <3> QED BY <3>1, <3>2, <3>3, <2>d, DeskReads
  <2>3. ASSUME NEW k \in Desks, deleteAdminRow(k) PROVE DeskInv'
    <3> DEFINE a == desk[k].who
    <3>1. a \in Resellers /\ reseller[a].clients = 0
      BY <2>3, <2>c DEF deleteAdminRow, DeskOK
    <3>2. Done(k) /\ reseller' = [reseller EXCEPT ![a] = NoReseller] /\ UNCHANGED <<panelClients, deskDay, promised>>
      BY <2>3 DEF deleteAdminRow
    <3>3. panelClients[a] = 0
      BY <3>1, <2>b DEF RowOK
    <3>4. promised[a] \in Int /\ promised' = [promised EXCEPT ![a] = promised[a]] /\ panelClients' = [panelClients EXCEPT ![a] = 0]
      BY <3>1, <3>2, <3>3, <2>b, <2>g
    <3>5. RowOK(NoReseller, 0, promised[a], deskOps')
      BY <1>a, <1>b DEF RowOK
    <3> HIDE DEF a
    <3> QED BY <3>1, <3>2, <3>4, <3>5, <2>e, <1>b, <1>c, DeskWrites
  <2>4. ASSUME NEW k \in Desks, NEW a \in Resellers, clientCreated(k, a) \/ clientDeleted(k, a) PROVE DeskInv'
    <3>1. PICK n \in {0, 1} : /\ reseller' = [reseller EXCEPT ![a].clients = n] /\ panelClients' = [panelClients EXCEPT ![a] = n]
                              /\ (n = 1 => reseller[a].exists)
                              /\ UNCHANGED <<desk, deskDay, deskOps, promised>> /\ desk[k].at = "idle"
      BY <2>4 DEF clientCreated, clientDeleted
    <3> DEFINE r == [reseller[a] EXCEPT !.clients = n]
    <3>2. /\ r \in ResellerRows /\ r.clients = n /\ r.exists = reseller[a].exists /\ r.expires = reseller[a].expires /\ r.keys = reseller[a].keys
          /\ reseller' = [reseller EXCEPT ![a] = r]
      BY <3>1, <2>b DEF ResellerRows
    <3> HIDE DEF r
    <3>3. RowOK(r, n, promised[a], deskOps)
      BY <3>1, <3>2, <2>b DEF RowOK
    <3>4. DeskOK(desk[k], reseller', deskOps')
      BY <3>1 DEF DeskOK
    <3>5. /\ desk' = [desk EXCEPT ![k] = desk[k]] /\ promised' = [promised EXCEPT ![a] = promised[a]]
          /\ deskOps' \in 0..MaxDeskOps /\ deskOps <= deskOps' /\ deskOps' = deskOps
      BY <3>1, <2>a, <2>b, <1>a DEF DeskInv, DeskTypes
    <3>6. desk[k] \in DeskRequests /\ promised[a] \in Int /\ RowOK(r, n, promised[a], deskOps') /\ panelClients' = [panelClients EXCEPT ![a] = n]
      BY <2>b, <2>c, <3>1, <3>3
    <3>7. UNCHANGED deskDay /\ r \in ResellerRows /\ reseller' = [reseller EXCEPT ![a] = r]
      BY <3>1, <3>2
    <3> QED BY <3>4, <3>5, <3>6, <3>7, DeskWrites
  <2>5. ASSUME NEW k \in Desks, NEW ids \in SUBSET Resellers, NEW action \in {"activate", "deactivate", "extend"}, NEW days \in {-1, 0, 2},
               beginBulk(k, ids, action, days) PROVE DeskInv'
    <3> DEFINE d == [IdleDesk EXCEPT !.at = "bulk", !.todo = ids, !.action = action, !.days = days, !.read = reseller]
    <3>1. /\ d \in DeskRequests /\ d.at = "bulk" /\ d.todo = ids /\ d.action = action /\ d.days = days /\ d.read = reseller
      BY <1>b, <2>b DEF DeskRequests
    <3>2. Begin(k, d) /\ (action = "extend" <=> days # 0) /\ UNCHANGED <<reseller, panelClients, deskDay, promised>>
      BY <2>5 DEF beginBulk
    <3> HIDE DEF d
    <3>3. ASSUME NEW a \in ids, reseller[a].exists, reseller[a].expires # Never PROVE reseller[a].expires <= LastDay + 2 * deskOps'
      <4>1. reseller[a].expires \in Int /\ reseller[a].expires <= LastDay + 2 + 2 * deskOps
        BY <3>3, <2>b DEF RowOK
      <4>2. deskOps' = deskOps + 1
        BY <3>2, <2>d
      <4> QED BY <4>1, <4>2, <1>a, <2>a
    <3>4. DeskOK(d, reseller, deskOps')
      <4>1. d.at = "bulk" => deskOps' >= 1 /\ d.action # "none" /\ (d.action = "extend" <=> d.days # 0)
        BY <3>1, <3>2, <2>d
      <4> QED BY <3>1, <3>3, <4>1 DEF DeskOK
    <3> QED BY <3>1, <3>2, <3>4, <2>d, DeskReads
  <2>6. ASSUME NEW k \in Desks, NEW a \in Resellers, bulkOne(k, a) PROVE DeskInv'
    <3> DEFINE d == desk[k]
               next == [d EXCEPT !.todo = @ \ {a}]
    <3>1. /\ d.at = "bulk" /\ a \in d.todo /\ d \in DeskRequests /\ DeskOK(d, reseller, deskOps)
          /\ desk' = [desk EXCEPT ![k] = next] /\ UNCHANGED <<panelClients, deskDay, deskOps>>
      BY <2>6, <2>c DEF bulkOne
    <3>2. /\ next \in DeskRequests /\ next.at = "bulk" /\ next.todo = d.todo \ {a} /\ next.action = d.action /\ next.days = d.days
          /\ next.read = d.read
      BY <3>1 DEF DeskRequests
    <3>o. deskOps' \in 0..MaxDeskOps /\ deskOps <= deskOps' /\ deskOps' = deskOps
      BY <3>1, <2>a, <1>a
    <3> HIDE DEF next
    <3>3. CASE UNCHANGED <<reseller, promised>>
      <4>1. DeskOK(next, reseller, deskOps')
        BY <3>1, <3>2 DEF DeskOK
      <4> QED BY <3>1, <3>2, <3>3, <3>o, <4>1, DeskReads
    <3>4. CASE /\ d.read[a].exists /\ reseller[a].exists /\ reseller' = [reseller EXCEPT ![a] = Patched(reseller[a], d, a)]
               /\ promised' = [promised EXCEPT ![a] = IF d.action # "extend" \/ reseller[a].expires = Never THEN promised[a] ELSE promised[a] + d.days]
      <4> DEFINE r == Patched(reseller[a], d, a)
                 e == IF d.action = "extend" THEN Later(d.read[a].expires) + d.days ELSE reseller[a].expires
                 p == IF d.action # "extend" \/ reseller[a].expires = Never THEN promised[a] ELSE promised[a] + d.days
      <4>1. /\ d.read[a] = reseller[a] /\ deskOps >= 1 /\ d.days \in {-1, 0, 2}
            /\ (reseller[a].expires # Never => reseller[a].expires <= LastDay + 2 * deskOps)
        BY <3>1, <3>4 DEF DeskOK, DeskRequests
      <4>2. e \in Int /\ p \in Int
        BY <4>1, <2>a, <2>b DEF Later
      <4>3. /\ r \in ResellerRows /\ r.exists = reseller[a].exists /\ r.clients = reseller[a].clients /\ r.keys = reseller[a].keys /\ r.expires = e
        <5>1. r = [reseller[a] EXCEPT !.active = IF d.action = "extend" THEN @ ELSE d.action = "activate", !.expires = e]
          BY DEF Patched
        <5> HIDE DEF r, e
        <5>2. (IF d.action = "extend" THEN reseller[a].active ELSE d.action = "activate") \in BOOLEAN
          BY <2>b DEF ResellerRows
        <5> QED BY <5>1, <5>2, <4>2, <2>b DEF ResellerRows
      <4>4. (e # Never => e >= p /\ e <= LastDay + 2 + 2 * deskOps) /\ (e = Never => p = 0)
        <5>1. /\ reseller[a].expires \in Int /\ promised[a] \in Int
              /\ (reseller[a].expires # Never => reseller[a].expires >= promised[a])
              /\ (reseller[a].expires = Never => promised[a] = 0)
          BY <2>b, <3>4 DEF RowOK
        <5> DEFINE x == reseller[a].expires
                   y == promised[a]
                   o == deskOps
        <5>2. CASE d.action # "extend"
          BY <5>1, <5>2, <4>1, <2>a, <1>a
        <5>3. CASE d.action = "extend" /\ x = Never
          <6>1. e = deskDay + d.days /\ p = 0
            BY <5>1, <5>3, <4>1 DEF Later
          <6> HIDE DEF e, p
          <6> QED BY <6>1, <4>1, <2>a, <1>a
        <5>4. CASE d.action = "extend" /\ x # Never
          <6>1. e = (IF x > deskDay THEN x ELSE deskDay) + d.days /\ p = y + d.days
            BY <5>4, <4>1 DEF Later
          <6> HIDE DEF e, p
          <6> QED BY <6>1, <5>1, <5>4, <4>1, <2>a, <1>a
        <5> QED BY <5>2, <5>3, <5>4
      <4> HIDE DEF r, e, p
      <4>5. RowOK(r, panelClients[a], p, deskOps')
        BY <4>3, <4>4, <2>b, <3>1 DEF RowOK
      <4>6. reseller' = [reseller EXCEPT ![a] = r] /\ promised' = [promised EXCEPT ![a] = p] /\ panelClients' = [panelClients EXCEPT ![a] = panelClients[a]]
        BY <3>1, <3>4, <2>g DEF r, p
      <4>7. DeskOK(next, reseller', deskOps')
        <5>1. \A x \in Resellers \ {a} : reseller'[x] = reseller[x]
          BY <4>6, <2>b
        <5>2. \A x \in next.todo : x \in Resellers \ {a} /\ x \in d.todo
          BY <3>1, <3>2 DEF DeskRequests
        <5> QED BY <5>1, <5>2, <3>1, <3>2 DEF DeskOK
      <4> QED BY <3>1, <3>2, <3>o, <4>2, <4>3, <4>5, <4>6, <4>7, <2>b, DeskWrites
    <3> QED BY <2>6, <3>3, <3>4 DEF bulkOne
  <2>7. ASSUME NEW k \in Desks, endBulk(k) PROVE DeskInv'
    BY <2>7, <2>e, <1>b, <1>c, DeskReads DEF endBulk
  <2>8. ASSUME NEW k \in Desks, NEW a \in Resellers, beginCreateKey(k, a) PROVE DeskInv'
    <3> DEFINE d == [IdleDesk EXCEPT !.at = "key", !.who = a]
    <3>1. d \in DeskRequests /\ d.at = "key" /\ d.who = a
      BY <1>b DEF DeskRequests
    <3>2. Begin(k, d) /\ reseller[a].keys < MaxKeys /\ UNCHANGED <<reseller, panelClients, deskDay, promised>>
      BY <2>8 DEF beginCreateKey
    <3> HIDE DEF d
    <3>3. DeskOK(d, reseller, deskOps')
      BY <3>1, <3>2 DEF DeskOK
    <3> QED BY <3>1, <3>2, <3>3, <2>d, DeskReads
  <2>9. ASSUME NEW k \in Desks, createApiKey(k) PROVE DeskInv'
    <3> DEFINE a == desk[k].who
               n == IF reseller[a].exists THEN reseller[a].keys + 1 ELSE reseller[a].keys
               r == [reseller[a] EXCEPT !.keys = n]
    <3>1. a \in Resellers /\ reseller[a].keys < MaxKeys
      BY <2>9, <2>c DEF createApiKey, DeskOK
    <3>2. Done(k) /\ reseller' = [reseller EXCEPT ![a] = r] /\ UNCHANGED <<panelClients, deskDay, promised>>
      BY <2>9, <3>1, <2>b DEF createApiKey
    <3>3. n \in Nat /\ n <= MaxKeys
      BY <3>1, <2>b, <1>a
    <3> HIDE DEF a, n
    <3>4. /\ r \in ResellerRows /\ r.keys = n /\ r.exists = reseller[a].exists /\ r.expires = reseller[a].expires /\ r.clients = reseller[a].clients
      BY <3>1, <3>3, <2>b DEF ResellerRows
    <3> HIDE DEF r
    <3>5. RowOK(r, panelClients[a], promised[a], deskOps)
      BY <3>1, <3>3, <3>4, <2>b DEF RowOK
    <3>6. IdleDesk \in DeskRequests /\ DeskOK(IdleDesk, reseller', deskOps')
      BY <1>b, <1>c
    <3>7. /\ desk' = [desk EXCEPT ![k] = IdleDesk] /\ deskOps' \in 0..MaxDeskOps /\ deskOps <= deskOps'
          /\ RowOK(r, panelClients[a], promised[a], deskOps')
      BY <3>2, <3>5, <2>e
    <3>8. /\ panelClients[a] \in {0, 1} /\ promised[a] \in Int /\ panelClients' = [panelClients EXCEPT ![a] = panelClients[a]]
          /\ promised' = [promised EXCEPT ![a] = promised[a]]
      BY <3>1, <3>2, <2>b, <2>g
    <3> DEFINE c == panelClients[a]
               p == promised[a]
    <3>9. r \in ResellerRows /\ a \in Resellers /\ reseller' = [reseller EXCEPT ![a] = r] /\ UNCHANGED deskDay /\ RowOK(r, c, p, deskOps')
      BY <3>1, <3>2, <3>4, <3>7
    <3>10. c \in {0, 1} /\ p \in Int /\ panelClients' = [panelClients EXCEPT ![a] = c] /\ promised' = [promised EXCEPT ![a] = p]
      BY <3>8
    <3> HIDE DEF c, p
    <3> QED BY <3>6, <3>7, <3>9, <3>10, DeskWrites
  <2>10. ASSUME NEW k \in Desks, NEW a \in Resellers, revokeApiKey(k, a) PROVE DeskInv'
    <3> DEFINE r == [reseller[a] EXCEPT !.keys = @ - 1]
    <3>1. /\ r \in ResellerRows /\ r.keys = reseller[a].keys - 1 /\ r.exists = reseller[a].exists /\ r.expires = reseller[a].expires
          /\ r.clients = reseller[a].clients /\ r.keys \in Nat
      BY <2>10, <2>b DEF revokeApiKey, ResellerRows
    <3>2. Begin(k, IdleDesk) /\ reseller' = [reseller EXCEPT ![a] = r] /\ UNCHANGED <<panelClients, deskDay, promised>>
      BY <2>10, <2>b DEF revokeApiKey
    <3> HIDE DEF r
    <3>3. RowOK(r, panelClients[a], promised[a], deskOps')
      <4>1. RowOK(reseller[a], panelClients[a], promised[a], deskOps')
        BY <3>2, <2>d, <2>f
      <4> QED BY <4>1, <3>1, <2>b, <1>a DEF RowOK
    <3>6. IdleDesk \in DeskRequests /\ DeskOK(IdleDesk, reseller', deskOps')
      BY <1>b, <1>c
    <3>7. desk' = [desk EXCEPT ![k] = IdleDesk] /\ deskOps' \in 0..MaxDeskOps /\ deskOps <= deskOps'
      BY <3>2, <2>d
    <3>8. /\ panelClients[a] \in {0, 1} /\ promised[a] \in Int /\ panelClients' = [panelClients EXCEPT ![a] = panelClients[a]]
          /\ promised' = [promised EXCEPT ![a] = promised[a]]
      BY <3>2, <2>b, <2>g
    <3> DEFINE c == panelClients[a]
               p == promised[a]
    <3>9. r \in ResellerRows /\ a \in Resellers /\ reseller' = [reseller EXCEPT ![a] = r] /\ UNCHANGED deskDay /\ RowOK(r, c, p, deskOps')
      BY <3>1, <3>2, <3>1, <3>3
    <3>10. c \in {0, 1} /\ p \in Int /\ panelClients' = [panelClients EXCEPT ![a] = c] /\ promised' = [promised EXCEPT ![a] = p]
      BY <3>8
    <3> HIDE DEF c, p
    <3> QED BY <3>6, <3>7, <3>9, <3>10, DeskWrites
  <2>11. ASSUME deskDayPasses PROVE DeskInv'
    BY <2>11, <2>a, <1>a DEF deskDayPasses, DeskInv, DeskTypes
  <2>12. CASE UNCHANGED adminDeskVars
    BY <2>12 DEF adminDeskVars, DeskInv, DeskTypes
  <2> QED BY <2>1, <2>2, <2>3, <2>4, <2>5, <2>6, <2>7, <2>8, <2>9, <2>10, <2>11, <2>12 DEF AdminDeskNext, authenticateApiKey
<1>3. DeskInv => AdminsSound
  <2> SUFFICES ASSUME DeskInv PROVE AdminsSound
    OBVIOUS
  <2>1. \A a \in Resellers : /\ reseller[a].clients \in {0, 1} /\ reseller[a].keys \in Nat /\ reseller[a].expires \in Int
                             /\ RowOK(reseller[a], panelClients[a], promised[a], deskOps)
    BY DEF DeskInv, DeskTypes, ResellerRows
  <2>2. \A k \in Desks : desk[k].at \in {"idle", "delete", "bulk", "key"} /\ desk[k].todo \subseteq Resellers
    BY DEF DeskInv, DeskTypes, DeskRequests
  <2> QED BY <2>1, <2>2 DEF AdminsSound, AdminDeskTypeOK, KeysBounded, ExtensionsAdd, NoClientLeftBehind, RowOK
<1> QED BY <1>1, <1>2, <1>3, PTL DEF AdminDeskSpec

(* --------------------------- importing clients -------------------------- *)

KeyOf(r) == <<r.email, r.uuid>>
PanelKeys == {KeyOf(r) : r \in ImportRows}
Adopters ==
  [at : {"idle", "next", "start", "links"}, left : SUBSET ImportRows, row : {{}} \union {{r} : r \in ImportRows}]

\* A request works on one row, whose client exists, between creating and linking it;
\* once it is about to write the links, the row's pending start is on record.
AdopterOK(q, clients, started) ==
  /\ q.at \in {"idle", "next"} => q.row = {}
  /\ \A r \in q.row : KeyOf(r) \in clients
  /\ q.at = "links" => \A r \in q.row : r.pending => r.uuid \in started

\* Clients whose links a request has still to write.
UnderWork == {c \in imported : \E o \in Owners : \E r \in adopter[o].row : c = KeyOf(r)}

\* The clients without links are under work, or were left behind by one failed statement each.
LeftBehind(F) ==
  /\ F \subseteq imported /\ IsFiniteSet(F) /\ Cardinality(F) <= importFaults
  /\ imported \ linkRow \subseteq F \union UnderWork

ImportInv ==
  /\ imported \subseteq PanelKeys /\ linkRow \subseteq imported
  /\ adopter \in [Owners -> Adopters] /\ importFaults \in Nat
  /\ \A o \in Owners : AdopterOK(adopter[o], imported, pendingRow)
  /\ \A c, d \in imported : c[2] = d[2] => c = d
  /\ PendingBeforeLinks
  /\ \E F : LeftBehind(F)

\* A step of one request that only adds clients and pending starts keeps the other requests in order.
LEMMA OtherAdopters ==
  ASSUME ImportInv, NEW o \in Owners, NEW q \in Adopters, adopter' = [adopter EXCEPT ![o] = q],
         imported \subseteq imported', pendingRow \subseteq pendingRow', AdopterOK(q, imported', pendingRow')
  PROVE  /\ adopter' \in [Owners -> Adopters] /\ adopter'[o] = q /\ \A x \in Owners \ {o} : adopter'[x] = adopter[x]
         /\ \A x \in Owners : AdopterOK(adopter'[x], imported', pendingRow')
<1>1. adopter' \in [Owners -> Adopters] /\ adopter'[o] = q /\ \A x \in Owners \ {o} : adopter'[x] = adopter[x]
  BY DEF ImportInv
<1>2. ASSUME NEW x \in Owners \ {o} PROVE AdopterOK(adopter'[x], imported', pendingRow')
  <2>1. adopter'[x] = adopter[x] /\ AdopterOK(adopter[x], imported, pendingRow)
    BY <1>1 DEF ImportInv
  <2> QED BY <2>1 DEF AdopterOK
<1> QED BY <1>1, <1>2

(***************************************************************************)
(* A step of one request keeps the invariant when it writes no link and    *)
(* fails nothing: every client that was under work still is.               *)
(***************************************************************************)
LEMMA AdopterStep ==
  ASSUME ImportInv, NEW o \in Owners, NEW q \in Adopters, adopter' = [adopter EXCEPT ![o] = q],
         imported \subseteq imported', imported' \subseteq PanelKeys, pendingRow \subseteq pendingRow',
         AdopterOK(q, imported', pendingRow'), UNCHANGED <<linkRow, importFaults>>,
         \A c, d \in imported' : c[2] = d[2] => c = d,
         adopter[o].row \subseteq q.row, imported' \ imported \subseteq {KeyOf(r) : r \in q.row}
  PROVE  ImportInv'
<1>1. /\ adopter' \in [Owners -> Adopters] /\ adopter'[o] = q /\ \A x \in Owners \ {o} : adopter'[x] = adopter[x]
      /\ \A x \in Owners : AdopterOK(adopter'[x], imported', pendingRow')
  BY OtherAdopters
<1>2. PICK F : LeftBehind(F)
  BY DEF ImportInv
<1>3. UnderWork \subseteq UnderWork' /\ imported' \ imported \subseteq UnderWork'
  BY <1>1 DEF UnderWork
<1>4. LeftBehind(F)'
  BY <1>2, <1>3 DEF LeftBehind
<1>5. PendingBeforeLinks'
  BY DEF PendingBeforeLinks, ImportInv
<1>6. linkRow' \subseteq imported' /\ importFaults' \in Nat
  BY DEF ImportInv
<1> QED BY <1>1, <1>4, <1>5, <1>6 DEF ImportInv

(***************************************************************************)
(* Whatever imports overlap or fail, a uuid and an email are each adopted  *)
(* once, a pending client is linked only with its pending start on record, *)
(* and at most one client per failed statement is left without its links.  *)
(***************************************************************************)
THEOREM ImportsAreSound == PanelImportSpec => []ImportsSound
<1>a. NoImport \in Adopters /\ NoImport.row = {} /\ NoImport.at = "idle"
  BY DEF NoImport, Adopters
<1>b. \A clients, started : AdopterOK(NoImport, clients, started)
  BY <1>a DEF AdopterOK
<1>1. PanelImportInit => ImportInv
  <2> SUFFICES ASSUME PanelImportInit PROVE ImportInv
    OBVIOUS
  <2>1. LeftBehind({})
    BY FS_EmptySet DEF PanelImportInit, LeftBehind
  <2>2. \A o \in Owners : AdopterOK(adopter[o], imported, pendingRow)
    BY <1>b DEF PanelImportInit
  <2> QED BY <1>a, <2>1, <2>2 DEF PanelImportInit, ImportInv, PendingBeforeLinks
<1>2. ImportInv /\ [PanelImportNext]_importVars => ImportInv'
  <2> SUFFICES ASSUME ImportInv, [PanelImportNext]_importVars PROVE ImportInv'
    OBVIOUS
  <2>a. \A o \in Owners : adopter[o] \in Adopters /\ AdopterOK(adopter[o], imported, pendingRow)
    BY DEF ImportInv
  <2>1. ASSUME NEW o \in Owners, NEW p \in SUBSET ImportRows, importPanelClients(o, p) PROVE ImportInv'
    <3> DEFINE q == [NoImport EXCEPT !.at = "next", !.left = {r \in p : Importable(r)}]
    <3>1. q \in Adopters /\ q.row = {} /\ q.at = "next"
      BY <1>a DEF Adopters
    <3>2. adopter[o].row = {} /\ adopter' = [adopter EXCEPT ![o] = q] /\ UNCHANGED <<imported, pendingRow, linkRow, importFaults>>
      BY <2>1, <2>a DEF importPanelClients, AdopterOK
    <3> HIDE DEF q
    <3>3. AdopterOK(q, imported', pendingRow')
      BY <3>1 DEF AdopterOK
    <3> QED BY <3>1, <3>2, <3>3, AdopterStep DEF ImportInv
  <2>2. ASSUME NEW o \in Owners, NEW r \in ImportRows, createImported(o, r) PROVE ImportInv'
    <3>1. adopter[o].row = {} /\ UNCHANGED <<pendingRow, linkRow, importFaults>>
      BY <2>2, <2>a DEF createImported, AdopterOK
    <3>2. CASE Taken(r.uuid)
      <4> DEFINE q == [adopter[o] EXCEPT !.left = @ \ {r}]
      <4>1. q \in Adopters /\ q.row = {} /\ q.at = "next" /\ adopter' = [adopter EXCEPT ![o] = q] /\ UNCHANGED imported
        BY <2>2, <2>a, <3>1, <3>2 DEF createImported, Adopters
      <4> HIDE DEF q
      <4>2. AdopterOK(q, imported', pendingRow')
        BY <4>1 DEF AdopterOK
      <4> QED BY <3>1, <4>1, <4>2, AdopterStep DEF ImportInv
    <3>3. CASE ~Taken(r.uuid)
      <4> DEFINE q == [at |-> "start", left |-> adopter[o].left \ {r}, row |-> {r}]
      <4>1. q \in Adopters /\ q.row = {r} /\ q.at = "start"
        BY <2>a DEF Adopters
      <4>2. adopter' = [adopter EXCEPT ![o] = q] /\ imported' = imported \union {KeyOf(r)}
        BY <2>2, <3>3 DEF createImported, KeyOf
      <4> HIDE DEF q
      <4>3. AdopterOK(q, imported', pendingRow')
        BY <4>1, <4>2 DEF AdopterOK
      <4>4. KeyOf(r)[2] = r.uuid /\ KeyOf(r) \in PanelKeys
        BY DEF KeyOf, PanelKeys
      <4>5. \A c, d \in imported' : c[2] = d[2] => c = d
        BY <3>3, <4>2, <4>4 DEF ImportInv, Taken
      <4> QED BY <3>1, <4>1, <4>2, <4>3, <4>4, <4>5, AdopterStep DEF ImportInv
    <3> QED BY <3>2, <3>3
  <2>3. ASSUME NEW o \in Owners, importPending(o) PROVE ImportInv'
    <3> DEFINE q == [adopter[o] EXCEPT !.at = "links"]
    <3>1. q \in Adopters /\ q.row = adopter[o].row /\ q.at = "links"
      BY <2>a DEF Adopters
    <3>2. /\ adopter' = [adopter EXCEPT ![o] = q] /\ UNCHANGED <<imported, linkRow, importFaults>>
          /\ pendingRow' = pendingRow \union {r.uuid : r \in {x \in adopter[o].row : x.pending}}
      BY <2>3 DEF importPending
    <3> HIDE DEF q
    <3>3. AdopterOK(q, imported', pendingRow')
      BY <2>a, <3>1, <3>2 DEF AdopterOK
    <3> QED BY <3>1, <3>2, <3>3, AdopterStep DEF ImportInv
  <2>4. ASSUME NEW o \in Owners, importLinks(o) \/ importFails(o) PROVE ImportInv'
    <3> DEFINE q == [adopter[o] EXCEPT !.at = "next", !.row = {}]
               mine == {KeyOf(r) : r \in adopter[o].row}
    <3>1. q \in Adopters /\ q.row = {} /\ q.at = "next"
      BY <2>a DEF Adopters
    <3>2. adopter' = [adopter EXCEPT ![o] = q] /\ UNCHANGED <<imported, pendingRow>>
      BY <2>4, <2>a DEF importLinks, importFails, ImportInv
    <3> HIDE DEF q
    <3>3. AdopterOK(q, imported', pendingRow')
      BY <3>1 DEF AdopterOK
    <3>4. /\ adopter' \in [Owners -> Adopters] /\ adopter'[o] = q /\ \A x \in Owners \ {o} : adopter'[x] = adopter[x]
          /\ \A x \in Owners : AdopterOK(adopter'[x], imported', pendingRow')
      BY <3>1, <3>2, <3>3, OtherAdopters
    <3>5. UnderWork \subseteq UnderWork' \union mine /\ mine \subseteq imported
      BY <3>2, <3>4, <2>a DEF UnderWork, AdopterOK
    <3>6. PICK F : LeftBehind(F)
      BY DEF ImportInv
    <3>7. CASE importLinks(o)
      <4>1. linkRow' = linkRow \union mine /\ UNCHANGED importFaults /\ adopter[o].at = "links"
        BY <3>7 DEF importLinks, KeyOf
      <4>2. LeftBehind(F)'
        BY <3>2, <3>5, <3>6, <4>1 DEF LeftBehind
      <4>3. PendingBeforeLinks'
        <5> SUFFICES ASSUME NEW l \in linkRow', NEW s \in ImportRows, s.email = l[1], s.pending PROVE s.uuid \in pendingRow
          BY <3>2 DEF PendingBeforeLinks
        <5>1. CASE l \in linkRow
          BY <5>1 DEF ImportInv, PendingBeforeLinks
        <5>2. ASSUME NEW r \in adopter[o].row, l = KeyOf(r) PROVE s.uuid \in pendingRow
          <6>1. r \in ImportRows /\ l[1] = r.email
            BY <2>a, <5>2 DEF Adopters, KeyOf
          <6>2. r = s
            BY <6>1, PanelImportAssumption
          <6> QED BY <2>a, <4>1, <6>2, <5>2 DEF AdopterOK
        <5> QED BY <4>1, <5>1, <5>2
      <4> QED BY <3>2, <3>4, <3>5, <4>1, <4>2, <4>3 DEF ImportInv
    <3>8. CASE importFails(o)
      <4>1. importFaults' = importFaults + 1 /\ UNCHANGED linkRow
        BY <3>8 DEF importFails
      <4>2. \E G : /\ G \subseteq imported /\ IsFiniteSet(G) /\ Cardinality(G) <= importFaults + 1 /\ F \union mine \subseteq G
        <5>0. IsFiniteSet(F) /\ Cardinality(F) \in Nat /\ Cardinality(F) <= importFaults /\ F \subseteq imported /\ importFaults \in Nat
          BY <3>6, FS_CardinalityType DEF LeftBehind, ImportInv
        <5>1. CASE adopter[o].row = {}
          <6>1. mine = {}
            BY <5>1
          <6>2. Cardinality(F) <= importFaults + 1
            BY <5>0
          <6> QED BY <6>1, <6>2, <5>0
        <5>2. ASSUME NEW r \in ImportRows, adopter[o].row = {r} PROVE \E G : /\ G \subseteq imported /\ IsFiniteSet(G)
                 /\ Cardinality(G) <= importFaults + 1 /\ F \union mine \subseteq G
          <6>1. mine = {KeyOf(r)}
            BY <5>2
          <6>2. IsFiniteSet(F \union {KeyOf(r)}) /\ Cardinality(F \union {KeyOf(r)}) \in {Cardinality(F), Cardinality(F) + 1}
            BY <5>0, FS_AddElement
          <6>3. Cardinality(F \union {KeyOf(r)}) <= importFaults + 1
            BY <6>2, <5>0
          <6> WITNESS F \union {KeyOf(r)}
          <6> QED BY <6>1, <6>2, <6>3, <5>0, <3>5
        <5> QED BY <5>1, <5>2, <2>a DEF Adopters
      <4>3. PICK G : /\ G \subseteq imported /\ IsFiniteSet(G) /\ Cardinality(G) <= importFaults + 1 /\ F \union mine \subseteq G
        BY <4>2
      <4>4. LeftBehind(G)'
        BY <3>2, <3>5, <3>6, <4>1, <4>3 DEF LeftBehind
      <4> QED BY <3>2, <3>4, <4>1, <4>4 DEF ImportInv, PendingBeforeLinks
    <3> QED BY <2>4, <3>7, <3>8
  <2>5. ASSUME NEW o \in Owners, importDone(o) PROVE ImportInv'
    BY <1>a, <1>b, <2>5, <2>a, AdopterStep DEF importDone, ImportInv, AdopterOK
  <2>6. CASE UNCHANGED importVars
    BY <2>6 DEF importVars, ImportInv, LeftBehind, UnderWork, PendingBeforeLinks
  <2> QED BY <2>1, <2>2, <2>3, <2>4, <2>5, <2>6 DEF PanelImportNext
<1>3. ImportInv => ImportsSound
  <2> SUFFICES ASSUME ImportInv PROVE ImportsSound
    OBVIOUS
  <2>1. PanelImportTypeOK
    BY DEF PanelImportTypeOK, ImportInv, PanelKeys, KeyOf, Adopters
  <2>2. AdoptedOnce
    <3>1. ASSUME NEW c \in imported, NEW d \in imported, c[1] = d[1] PROVE c = d
      <4>1. PICK r \in ImportRows : c = KeyOf(r)
        BY DEF ImportInv, PanelKeys
      <4>2. PICK s \in ImportRows : d = KeyOf(s)
        BY DEF ImportInv, PanelKeys
      <4>3. r.email = s.email
        BY <3>1, <4>1, <4>2 DEF KeyOf
      <4> QED BY <4>1, <4>2, <4>3, PanelImportAssumption
    <3> QED BY <3>1 DEF AdoptedOnce, ImportInv
  <2>3. AdoptedIsLinked
    <3> SUFFICES ASSUME \A o \in Owners : adopter[o].at = "idle" PROVE Cardinality(imported \ linkRow) <= importFaults
      BY DEF AdoptedIsLinked
    <3>1. PICK F : LeftBehind(F)
      BY DEF ImportInv
    <3>2. UnderWork = {}
      BY DEF UnderWork, ImportInv, AdopterOK
    <3>3. imported \ linkRow \subseteq F
      BY <3>1, <3>2 DEF LeftBehind
    <3>4. Cardinality(imported \ linkRow) \in Nat /\ Cardinality(imported \ linkRow) <= Cardinality(F) /\ Cardinality(F) \in Nat
      BY <3>1, <3>3, FS_Subset, FS_CardinalityType DEF LeftBehind
    <3> QED BY <3>1, <3>4 DEF LeftBehind, ImportInv
  <2> QED BY <2>1, <2>2, <2>3 DEF ImportsSound, ImportInv
<1> QED BY <1>1, <1>2, <1>3, PTL DEF PanelImportSpec

(* ------------------------------- reminders ------------------------------ *)

Notes == [pc : {"idle", "lookup", "send", "log"}, key : Keys, ok : BOOLEAN]

NoteTypes ==
  /\ today \in Nat /\ periods \in 0..MaxPeriods /\ expiresOn = (periods + 1) * MaxDays
  /\ tgReady \in BOOLEAN /\ noteLog \subseteq Keys /\ noteSends \in [Keys -> Nat]
  /\ seenToday \subseteq Nat /\ noteCrashes \in Nat
  /\ notifier \in [Notifiers -> Notes]

\* A reminder under way on the day a threshold x is reached is the one of x.
OfToday(l) ==
  l.pc # "idle" /\ l.key[1] # 0 /\ periods = 0 => \A x \in ReminderDays : MaxDays - x = today => l.key = <<x, MaxDays>>

\* While the client was not renewed, the thresholds of the days that are over, or
\* that the job has seen, are in the log.
ThresholdsLogged ==
  tgReady /\ periods = 0 =>
    /\ \A t \in seenToday : t <= today
    /\ \A x \in ReminderDays : MaxDays - x < today \/ MaxDays - x \in seenToday => <<x, MaxDays>> \in noteLog

\* A key was sent at most once per crash, and once more when it is logged or about to be.
Unlogged(k) == k \notin noteLog /\ \A n \in Notifiers : ~(notifier[n].pc = "log" /\ notifier[n].key = k)
SendsCounted ==
  /\ \A k \in Keys : noteSends[k] <= 1 + noteCrashes /\ (Unlogged(k) => noteSends[k] <= noteCrashes)
  /\ \A n \in Notifiers : notifier[n].pc = "send" => notifier[n].key \notin noteLog

NoteInv == NoteTypes /\ (\A n \in Notifiers : OfToday(notifier[n])) /\ ThresholdsLogged /\ SendsCounted

\* A set of numbers that is not empty has a smallest member.
LEMMA SmallestThreshold ==
  ASSUME NEW S \in SUBSET Nat, S # {}
  PROVE  \E x \in S : \A y \in S : x <= y
<1>1. IsWellFoundedOn(OpToRel(<, Nat), Nat)
  BY NatLessThanWellFounded
<1>2. PICK x \in S : \A y \in S : ~(<<y, x>> \in OpToRel(<, Nat))
  BY <1>1, WFMin
<1>3. x \in Nat /\ \A y \in S : y \in Nat /\ ~(y < x)
  BY <1>2 DEF OpToRel
<1>4. \A y \in S : x <= y
  BY <1>3
<1> QED BY <1>2, <1>4

\* The expiry stays within the calendar.
LEMMA ExpiryBounded ==
  ASSUME NoteTypes
  PROVE  expiresOn \in Nat /\ expiresOn \in 0..((MaxPeriods + 2) * MaxDays) /\ (periods = 0 => expiresOn = MaxDays)
<1>1. MaxDays \in Nat /\ MaxPeriods \in Nat /\ periods \in Nat /\ periods <= MaxPeriods
  BY NotificationsAssumption DEF NoteTypes
<1>2. PICK e \in Nat : periods + 1 + e = MaxPeriods + 2
  <2>1. (MaxPeriods + 2) - (periods + 1) \in Nat
    BY <1>1
  <2> QED BY <1>1, <2>1
<1>3. (periods + 1) * MaxDays \in Nat /\ e * MaxDays \in Nat
  BY <1>1
<1>4. (MaxPeriods + 2) * MaxDays = (periods + 1) * MaxDays + e * MaxDays
  <2>1. (periods + 1 + e) * MaxDays = (periods + 1) * MaxDays + e * MaxDays
    BY <1>1
  <2> QED BY <1>2, <2>1
<1>5. periods = 0 => (periods + 1) * MaxDays = MaxDays
  BY <1>1
<1> QED BY <1>3, <1>4, <1>5 DEF NoteTypes

\* The key of a reminder: a threshold, and that of today if today is one.
LEMMA ReminderKeyIs ==
  ASSUME NoteTypes, ReminderDue
  PROVE  /\ ReminderKey \in Keys /\ ReminderKey[1] # 0
         /\ periods = 0 => \A x \in ReminderDays : MaxDays - x = today => ReminderKey = <<x, MaxDays>>
<1> DEFINE due == {x \in ReminderDays : expiresOn - today <= x}
           y == CHOOSE x \in due : \A z \in due : x <= z
<1>0. ReminderDays \subseteq Nat \ {0} /\ MaxDays \in Nat /\ today \in Nat
  BY NotificationsAssumption DEF NoteTypes
<1>1. due \in SUBSET Nat /\ due # {}
  BY <1>0 DEF ReminderDue
<1>2. y \in due /\ \A z \in due : y <= z
  <2> HIDE DEF due
  <2>1. \E x \in due : \A z \in due : x <= z
    BY <1>1, SmallestThreshold
  <2> QED BY <2>1
<1>3. ReminderKey = <<y, expiresOn>>
  BY DEF ReminderKey
<1> HIDE DEF y
<1>4. y \in ReminderDays /\ y \in Nat \ {0} /\ expiresOn - today <= y
  BY <1>0, <1>2
<1>5. ReminderKey \in Keys /\ ReminderKey[1] # 0
  BY <1>3, <1>4, ExpiryBounded DEF Keys
<1>6. ASSUME periods = 0, NEW x \in ReminderDays, MaxDays - x = today PROVE ReminderKey = <<x, MaxDays>>
  <2>1. expiresOn = MaxDays /\ x \in Nat
    BY <1>0, <1>6, ExpiryBounded
  <2>2. expiresOn - today = x
    BY <1>0, <1>6, <2>1
  <2>3. x \in due
    BY <1>6, <2>1, <2>2
  <2>4. y = x
    BY <1>2, <1>4, <2>1, <2>2, <2>3
  <2> QED BY <1>3, <2>1, <2>4
<1> QED BY <1>5, <1>6

\* A call of notify moves on: its note is of today, and what it sent is accounted for.
LEMMA NoteMoves ==
  ASSUME NoteInv, \A m, n \in Notifiers : m = n, NEW n \in Notifiers, NEW q \in Notes,
         notifier' = [notifier EXCEPT ![n] = q], OfToday(q), UNCHANGED <<today, expiresOn, periods, tgReady>>,
         noteLog' \subseteq Keys, noteSends' \in [Keys -> Nat], noteCrashes' \in Nat, noteLog \subseteq noteLog',
         seenToday' = seenToday \/ seenToday' = seenToday \union {today},
         tgReady /\ periods = 0 /\ seenToday' # seenToday => \A x \in ReminderDays : MaxDays - x = today => <<x, MaxDays>> \in noteLog',
         \A k \in Keys : noteSends'[k] <= 1 + noteCrashes' /\
           (k \notin noteLog' /\ ~(q.pc = "log" /\ q.key = k) => noteSends'[k] <= noteCrashes'),
         q.pc = "send" => q.key \notin noteLog'
  PROVE  NoteInv'
<1>1. notifier' \in [Notifiers -> Notes] /\ \A m \in Notifiers : notifier'[m] = q
  BY DEF NoteInv, NoteTypes
<1>2. NoteTypes'
  BY <1>1 DEF NoteInv, NoteTypes, Notes, Keys
<1>3. \A m \in Notifiers : OfToday(notifier[m])'
  BY <1>1 DEF OfToday
<1>4. ThresholdsLogged'
  <2>1. today \in Nat
    BY DEF NoteInv, NoteTypes
  <2> QED BY <2>1 DEF NoteInv, ThresholdsLogged
<1>5. SendsCounted'
  <2>1. \A k \in Keys : Unlogged(k)' => k \notin noteLog' /\ ~(q.pc = "log" /\ q.key = k)
    BY <1>1 DEF Unlogged
  <2> QED BY <1>1, <2>1 DEF SendsCounted, Keys
<1> QED BY <1>2, <1>3, <1>4, <1>5 DEF NoteInv

(***************************************************************************)
(* With one caller of notify at a time: a key is sent once, and once more  *)
(* for each crash between the message and its row; and a client that       *)
(* reaches its date was handled at every threshold.  For every calendar,   *)
(* set of thresholds and number of crashes.                                *)
(***************************************************************************)
THEOREM RemindersAreSound == (\A m, n \in Notifiers : m = n) => (NotificationsSpec => []RemindersSound)
<1> SUFFICES ASSUME \A m, n \in Notifiers : m = n PROVE NotificationsSpec => []RemindersSound
  OBVIOUS
<1>a. MaxDays \in Nat /\ MaxDays # 0 /\ MaxPeriods \in Nat /\ ReminderDays \subseteq Nat \ {0}
  BY NotificationsAssumption
<1>b. NoNote \in Notes /\ NoNote.pc = "idle"
  <2>1. (MaxPeriods + 2) * MaxDays \in Nat
    BY <1>a
  <2> QED BY <2>1 DEF NoNote, Notes, Keys
<1>c. OfToday(NoNote)
  BY <1>b DEF OfToday
<1>1. NotificationsInit => NoteInv
  <2> SUFFICES ASSUME NotificationsInit PROVE NoteInv
    OBVIOUS
  <2>1. NoteTypes
    <3>1. expiresOn = (periods + 1) * MaxDays /\ periods \in 0..MaxPeriods
      BY <1>a DEF NotificationsInit
    <3> QED BY <1>b, <3>1 DEF NotificationsInit, NoteTypes
  <2>2. \A n \in Notifiers : notifier[n] = NoNote
    BY DEF NotificationsInit
  <2>3. ThresholdsLogged
    <3>1. \A x \in ReminderDays : x \in 1..MaxDays
      BY NotificationsAssumption
    <3> QED BY <1>a, <3>1 DEF NotificationsInit, ThresholdsLogged
  <2>4. SendsCounted
    BY <1>b, <2>2 DEF NotificationsInit, SendsCounted
  <2> QED BY <1>c, <2>1, <2>2, <2>3, <2>4 DEF NoteInv
<1>2. NoteInv /\ [NotificationsNext]_noteVars => NoteInv'
  <2> SUFFICES ASSUME NoteInv, [NotificationsNext]_noteVars PROVE NoteInv'
    OBVIOUS
  <2>a. NoteTypes /\ noteLog \subseteq Keys /\ noteSends \in [Keys -> Nat] /\ noteCrashes \in Nat /\ notifier \in [Notifiers -> Notes]
    BY DEF NoteInv, NoteTypes
  <2>b. ASSUME NEW n \in Notifiers PROVE notifier[n] \in Notes /\ OfToday(notifier[n]) /\ \A m \in Notifiers : m = n
    BY DEF NoteInv, NoteTypes
  <2>c. ASSUME NEW n \in Notifiers, NEW k \in Keys
        PROVE  /\ noteSends[k] <= 1 + noteCrashes
               /\ k \notin noteLog /\ ~(notifier[n].pc = "log" /\ notifier[n].key = k) => noteSends[k] <= noteCrashes
    BY <2>b, <2>c DEF NoteInv, SendsCounted, Unlogged
  <2>1. ASSUME NEW n \in Notifiers, NEW key \in Keys, notifier[n].pc = "idle",
               notifier' = [notifier EXCEPT ![n] = [NoNote EXCEPT !.pc = "lookup", !.key = key]],
               key[1] # 0 /\ periods = 0 => \A x \in ReminderDays : MaxDays - x = today => key = <<x, MaxDays>>,
               UNCHANGED <<today, expiresOn, periods, tgReady, noteLog, noteSends, noteCrashes, seenToday>>
        PROVE  NoteInv'
    <3>1. PICK q : q = [NoNote EXCEPT !.pc = "lookup", !.key = key]
      OBVIOUS
    <3>2. q \in Notes /\ q.pc = "lookup" /\ q.key = key
      BY <1>b, <2>1, <3>1 DEF Notes
    <3>3. OfToday(q)
      BY <2>1, <3>2 DEF OfToday
    <3> QED BY <2>1, <2>a, <2>c, <3>1, <3>2, <3>3, NoteMoves
  <2>2. ASSUME NEW n \in Notifiers, runReminders(n) PROVE NoteInv'
    <3>1. CASE ReminderDue
      BY <2>1, <2>2, <2>a, <3>1, ReminderKeyIs DEF runReminders
    <3>2. CASE ~ReminderDue
      <4>1. seenToday' = seenToday \union {today} /\ UNCHANGED <<today, expiresOn, periods, tgReady, noteLog, noteSends, noteCrashes, notifier>>
        BY <2>2, <3>2 DEF runReminders
      <4>2. periods = 0 => \A x \in ReminderDays : MaxDays - x # today
        <5> SUFFICES ASSUME periods = 0, NEW x \in ReminderDays, MaxDays - x = today PROVE FALSE
          OBVIOUS
        <5>1. expiresOn = MaxDays /\ today \in Nat /\ x \in Nat /\ x # 0
          BY <1>a, <2>a, ExpiryBounded DEF NoteTypes
        <5>2. expiresOn > today /\ expiresOn - today <= x
          BY <1>a, <5>1
        <5> QED BY <3>2, <5>2 DEF ReminderDue
      <4>3. notifier' = [notifier EXCEPT ![n] = notifier[n]]
        BY <2>a, <4>1
      <4>4. notifier[n].pc = "send" => notifier[n].key \notin noteLog
        BY DEF NoteInv, SendsCounted
      <4> QED BY <2>2, <2>a, <2>b, <2>c, <4>1, <4>2, <4>3, <4>4, NoteMoves
    <3> QED BY <3>1, <3>2
  <2>3. ASSUME NEW n \in Notifiers, onClientStatusChanged(n) PROVE NoteInv'
    <3>1. <<0, expiresOn>> \in Keys
      BY <2>a, ExpiryBounded DEF Keys
    <3> QED BY <2>1, <2>3, <3>1 DEF onClientStatusChanged
  <2>d. ASSUME NEW n \in Notifiers, NoteDone(n), notifier[n].pc # "idle",
               ~tgReady \/ notifier[n].key \in noteLog',
               noteLog \subseteq noteLog', noteLog' \subseteq Keys,
               \A k \in Keys : k \notin noteLog' /\ notifier[n].pc = "log" => notifier[n].key # k,
               UNCHANGED <<today, expiresOn, periods, tgReady, noteSends, noteCrashes>>
        PROVE  NoteInv'
    <3>1. seenToday' = seenToday \/ (seenToday' = seenToday \union {today} /\ notifier[n].key[1] # 0)
      BY <2>d DEF NoteDone
    <3>2. tgReady /\ periods = 0 /\ seenToday' # seenToday => \A x \in ReminderDays : MaxDays - x = today => <<x, MaxDays>> \in noteLog'
      BY <2>b, <2>d, <3>1 DEF OfToday
    <3>3. \A k \in Keys : noteSends[k] <= 1 + noteCrashes /\ (k \notin noteLog' => noteSends[k] <= noteCrashes)
      BY <2>c, <2>d
    <3>4. notifier' = [notifier EXCEPT ![n] = NoNote]
      BY <2>d DEF NoteDone
    <3> QED BY <1>b, <1>c, <2>a, <2>d, <3>1, <3>2, <3>3, <3>4, NoteMoves
  <2>4. ASSUME NEW n \in Notifiers, notifyLookup(n) PROVE NoteInv'
    <3>1. CASE ~tgReady \/ notifier[n].key \in noteLog
      BY <2>4, <2>a, <2>d, <3>1 DEF notifyLookup
    <3>2. CASE ~(~tgReady \/ notifier[n].key \in noteLog)
      <4>1. PICK q : q = [notifier[n] EXCEPT !.pc = "send"]
        OBVIOUS
      <4>2. q \in Notes /\ q.pc = "send" /\ q.key = notifier[n].key
        BY <2>b, <4>1 DEF Notes
      <4>3. notifier' = [notifier EXCEPT ![n] = q] /\ UNCHANGED <<today, expiresOn, periods, tgReady, noteLog, noteSends, noteCrashes, seenToday>>
            /\ notifier[n].pc = "lookup"
        BY <2>4, <3>2, <4>1 DEF notifyLookup
      <4>4. OfToday(q)
        BY <2>b, <4>2, <4>3 DEF OfToday
      <4> QED BY <2>a, <2>c, <3>2, <4>2, <4>3, <4>4, NoteMoves
    <3> QED BY <3>1, <3>2
  <2>5. ASSUME NEW n \in Notifiers, notifySend(n) PROVE NoteInv'
    <3>1. PICK ok \in BOOLEAN : /\ notifier' = [notifier EXCEPT ![n].pc = "log", ![n].ok = ok]
                                /\ noteSends' = [noteSends EXCEPT ![notifier[n].key] = @ + (IF ok THEN 1 ELSE 0)]
      BY <2>5 DEF notifySend
    <3>2. PICK q : q = [notifier[n] EXCEPT !.pc = "log", !.ok = ok]
      OBVIOUS
    <3>3. q \in Notes /\ q.pc = "log" /\ q.key = notifier[n].key /\ q.key \in Keys
      BY <2>b, <3>2 DEF Notes
    <3>4. notifier' = [notifier EXCEPT ![n] = q] /\ notifier[n].pc = "send"
          /\ UNCHANGED <<today, expiresOn, periods, tgReady, noteLog, noteCrashes, seenToday>>
      BY <2>5, <2>b, <3>1, <3>2 DEF notifySend, Notes
    <3>5. q.key \notin noteLog /\ noteSends[q.key] <= noteCrashes
      BY <2>c, <3>3, <3>4 DEF NoteInv, SendsCounted
    <3>6. noteSends' \in [Keys -> Nat]
      BY <2>a, <3>1, <3>3
    <3>7. \A k \in Keys : /\ k # q.key => noteSends'[k] = noteSends[k]
                          /\ noteSends'[q.key] <= 1 + noteCrashes
      BY <2>a, <3>1, <3>3, <3>5
    <3>8. OfToday(q)
      BY <2>b, <3>3, <3>4 DEF OfToday
    <3>9. \A k \in Keys : noteSends'[k] <= 1 + noteCrashes' /\
           (k \notin noteLog' /\ ~(q.pc = "log" /\ q.key = k) => noteSends'[k] <= noteCrashes')
      BY <2>c, <3>3, <3>4, <3>7
    <3> QED BY <2>a, <3>3, <3>4, <3>6, <3>8, <3>9, NoteMoves
  <2>6. ASSUME NEW n \in Notifiers, notifyLog(n) PROVE NoteInv'
    <3>1. notifier[n].key \in Keys
      BY <2>b DEF Notes
    <3> QED BY <2>6, <2>a, <2>d, <3>1 DEF notifyLog
  <2>7. ASSUME NEW n \in Notifiers, notifierCrashes(n) PROVE NoteInv'
    <3>1. noteCrashes' = noteCrashes + 1 /\ notifier' = [notifier EXCEPT ![n] = NoNote]
          /\ UNCHANGED <<today, expiresOn, periods, tgReady, noteLog, noteSends, seenToday>>
      BY <2>7 DEF notifierCrashes
    <3>2. \A k \in Keys : noteSends[k] <= noteCrashes' /\ noteSends[k] <= 1 + noteCrashes' /\ noteCrashes' \in Nat
      BY <2>a, <2>c, <3>1
    <3>3. noteCrashes' \in Nat
      BY <2>a, <3>1
    <3> QED BY <1>b, <1>c, <2>a, <3>1, <3>2, <3>3, NoteMoves
  <2>8. CASE dayPasses
    <3>1. today' = today + 1 /\ (tgReady => today \in seenToday) /\ (\A n \in Notifiers : notifier[n].pc = "idle")
          /\ UNCHANGED <<expiresOn, periods, tgReady, noteLog, notifier, noteSends, seenToday, noteCrashes>>
      BY <2>8 DEF dayPasses
    <3>2. NoteTypes'
      BY <2>a, <3>1 DEF NoteTypes, Notes, Keys
    <3>3. ThresholdsLogged'
      <4>1. today \in Nat /\ \A x \in ReminderDays : MaxDays - x \in Int
        BY <1>a, <2>a DEF NoteTypes
      <4>2. ASSUME tgReady, periods = 0 PROVE (\A t \in seenToday : t <= today)
               /\ \A x \in ReminderDays : MaxDays - x < today \/ MaxDays - x \in seenToday => <<x, MaxDays>> \in noteLog
        BY <4>2 DEF NoteInv, ThresholdsLogged
      <4>3. ASSUME tgReady, periods = 0, NEW x \in ReminderDays, MaxDays - x < today + 1 \/ MaxDays - x \in seenToday
            PROVE  <<x, MaxDays>> \in noteLog
        <5>1. MaxDays - x < today \/ MaxDays - x = today \/ MaxDays - x \in seenToday
          BY <4>1, <4>3
        <5> QED BY <3>1, <4>2, <4>3, <5>1
      <4>4. ASSUME tgReady, periods = 0, NEW t \in seenToday PROVE t <= today + 1
        <5>1. t <= today /\ t \in Nat
          BY <2>a, <4>2, <4>4 DEF NoteTypes
        <5> QED BY <4>1, <5>1
      <4> QED BY <3>1, <4>3, <4>4 DEF ThresholdsLogged
    <3>4. SendsCounted'
      BY <3>1 DEF NoteInv, SendsCounted, Unlogged, Keys
    <3> QED BY <3>1, <3>2, <3>3, <3>4 DEF NoteInv, OfToday
  <2>9. CASE renewClient
    <3>1. periods' = periods + 1 /\ expiresOn' = expiresOn + MaxDays /\ periods < MaxPeriods
          /\ UNCHANGED <<today, tgReady, noteLog, notifier, noteSends, seenToday, noteCrashes>>
      BY <2>9 DEF renewClient
    <3>2. periods \in Nat /\ periods' \in 0..MaxPeriods /\ periods' # 0
      BY <1>a, <2>a, <3>1 DEF NoteTypes
    <3>3. expiresOn' = (periods' + 1) * MaxDays
      <4>1. (periods + 2) * MaxDays = (periods + 1) * MaxDays + MaxDays /\ periods' + 1 = periods + 2
        BY <1>a, <3>1, <3>2
      <4> QED BY <2>a, <3>1, <4>1 DEF NoteTypes
    <3>4. NoteTypes'
      BY <2>a, <3>1, <3>2, <3>3 DEF NoteTypes, Notes, Keys
    <3>5. SendsCounted'
      BY <3>1 DEF NoteInv, SendsCounted, Unlogged, Keys
    <3> QED BY <3>2, <3>4, <3>5 DEF NoteInv, OfToday, ThresholdsLogged
  <2>10. CASE UNCHANGED noteVars
    BY <2>10 DEF noteVars, NoteInv, NoteTypes, OfToday, ThresholdsLogged, SendsCounted, Unlogged, Notes, Keys
  <2> QED BY <2>2, <2>3, <2>4, <2>5, <2>6, <2>7, <2>8, <2>9, <2>10 DEF NotificationsNext
<1>3. NoteInv => RemindersSound
  <2> SUFFICES ASSUME NoteInv PROVE RemindersSound
    OBVIOUS
  <2>0. NoteTypes
    BY DEF NoteInv
  <2>1. NotificationsTypeOK
    BY <2>0, ExpiryBounded DEF NoteTypes, NotificationsTypeOK, Notes
  <2>2. OneMessagePerKey
    BY DEF NoteInv, SendsCounted, OneMessagePerKey
  <2>3. EveryThresholdHandled
    <3> SUFFICES ASSUME tgReady, periods = 0, today = expiresOn, NEW x \in ReminderDays PROVE <<x, expiresOn>> \in noteLog
      BY DEF EveryThresholdHandled
    <3>1. expiresOn = MaxDays /\ MaxDays - x < today
      BY <1>a, <2>0, ExpiryBounded
    <3> QED BY <3>1 DEF NoteInv, ThresholdsLogged
  <2> QED BY <2>1, <2>2, <2>3 DEF RemindersSound
<1> QED BY <1>1, <1>2, <1>3, PTL DEF NotificationsSpec

(* ------------------------------ the catalogue --------------------------- *)

ServerRows == [exists : BOOLEAN, active : BOOLEAN, online : BOOLEAN, has : SUBSET CatInbounds, off : SUBSET CatInbounds]
ServiceRows == [exists : BOOLEAN, active : BOOLEAN, who : {"all", "other"}, targets : SUBSET Pairs, order : Nat]
Sales == [at : {"none", "ordered", "delivered"}, snap : SUBSET Pairs, targets : SUBSET Pairs]
Plans == [exists : BOOLEAN, service : {NoService} \union Services, targets : SUBSET Pairs]

CatalogInv ==
  /\ srv \in [CatServers -> ServerRows] /\ \A s \in CatServers : srv[s].off \subseteq srv[s].has
  /\ service \in [Services -> ServiceRows] /\ plan \in Plans
  /\ sale \in Sales

\* What a service resolves to is a set of its pairs.
LEMMA ResolvedPairs ==
  ASSUME CatalogInv, NEW v \in Services PROVE resolveServiceTargets(v) \subseteq Pairs
  BY DEF CatalogInv, ServiceRows, resolveServiceTargets

\* A step that writes service rows only.
LEMMA ServiceStep ==
  ASSUME CatalogInv, service' \in [Services -> ServiceRows], UNCHANGED <<srv, plan, sale>>
  PROVE CatalogInv'
  BY DEF CatalogInv

\* A step that gives server s the row r.
LEMMA ServerStep ==
  ASSUME CatalogInv, NEW s \in CatServers, NEW r \in ServerRows, srv' = [srv EXCEPT ![s] = r], r.off \subseteq r.has,
         UNCHANGED <<service, plan, sale>>
  PROVE CatalogInv'
  <1>1. srv' \in [CatServers -> ServerRows] /\ \A x \in CatServers : srv'[x] = IF x = s THEN r ELSE srv[x]
    BY DEF CatalogInv
  <1> QED BY <1>1 DEF CatalogInv

\* CatalogInv is inductive.
LEMMA CatalogStep == CatalogInv /\ [CatalogNext]_catVars => CatalogInv'
<1> SUFFICES ASSUME CatalogInv, [CatalogNext]_catVars PROVE CatalogInv'
  OBVIOUS
<1>a. srv \in [CatServers -> ServerRows] /\ service \in [Services -> ServiceRows] /\ plan \in Plans
  BY DEF CatalogInv
<1>1. ASSUME NEW v \in Services, NEW T \in SUBSET Pairs, NEW who \in {"all", "other"}, createService(v, T, who) PROVE CatalogInv'
  <2>1. [exists |-> TRUE, active |-> TRUE, who |-> who, targets |-> T, order |-> 0] \in ServiceRows
    BY DEF ServiceRows
  <2>2. service' \in [Services -> ServiceRows]
    BY <1>1, <1>a, <2>1 DEF createService
  <2> QED BY <1>1, <2>2, ServiceStep DEF createService
<1>2. ASSUME NEW v \in Services, NEW T \in SUBSET Pairs, NEW who \in {"all", "other"}, NEW b \in BOOLEAN, updateService(v, T, who, b)
      PROVE CatalogInv'
  <2>1. service' = [service EXCEPT ![v].targets = T, ![v].who = who, ![v].active = b]
    BY <1>2 DEF updateService
  <2> DEFINE r == [service[v] EXCEPT !.targets = T, !.who = who, !.active = b]
  <2>2. r \in ServiceRows
    BY <1>a DEF ServiceRows
  <2>3. service' = [service EXCEPT ![v] = r]
    BY <1>a, <2>1
  <2> HIDE DEF r
  <2>4. service' \in [Services -> ServiceRows]
    BY <1>a, <2>2, <2>3
  <2> QED BY <1>2, <2>4, ServiceStep DEF updateService
<1>3. ASSUME NEW v \in Services, deleteService(v) PROVE CatalogInv'
  <2>1. NoServiceRow \in ServiceRows
    BY DEF NoServiceRow, ServiceRows
  <2>2. service' \in [Services -> ServiceRows]
    BY <1>3, <1>a, <2>1 DEF deleteService
  <2> QED BY <1>3, <2>2, ServiceStep DEF deleteService
<1>4. ASSUME NEW v \in Services, NEW w \in Services, duplicateService(v, w) PROVE CatalogInv'
  <2> DEFINE r == [service[v] EXCEPT !.active = FALSE, !.order = service[v].order + 1]
  <2>1. r \in ServiceRows
    <3>1. PICK n \in Nat : n = service[v].order + 1
      BY <1>a DEF ServiceRows
    <3>2. service[v] \in ServiceRows /\ r = [service[v] EXCEPT !.active = FALSE, !.order = n]
      BY <1>a, <3>1
    <3> HIDE DEF r
    <3> QED BY <3>2 DEF ServiceRows
  <2>2. service' = [service EXCEPT ![w] = r]
    BY <1>4 DEF duplicateService
  <2> HIDE DEF r
  <2>3. service' \in [Services -> ServiceRows]
    BY <1>a, <2>1, <2>2
  <2> QED BY <1>4, <2>3, ServiceStep DEF duplicateService
<1>5. ASSUME NEW order \in [Services -> 0..(MaxServices - 1)], reorderServices(order) PROVE CatalogInv'
  <2>1. \A v \in Services : order[v] \in Nat
    BY CatalogAssumption
  <2>2. service' = [v \in Services |-> [service[v] EXCEPT !.order = order[v]]]
    BY <1>5 DEF reorderServices
  <2>3. \A v \in Services : [service[v] EXCEPT !.order = order[v]] \in ServiceRows
    BY <1>a, <2>1 DEF ServiceRows
  <2>4. service' \in [Services -> ServiceRows]
    BY <2>2, <2>3
  <2> QED BY <1>5, <2>4, ServiceStep DEF reorderServices
<1>6. ASSUME NEW s \in CatServers, updateServer(s) \/ syncFails(s) PROVE CatalogInv'
  <2>1. PICK r \in ServerRows : srv' = [srv EXCEPT ![s] = r] /\ r.off = srv[s].off /\ r.has = srv[s].has
    <3>1. CASE updateServer(s)
      <4> DEFINE r == [srv[s] EXCEPT !.active = ~srv[s].active]
      <4>1. srv' = [srv EXCEPT ![s] = r]
        BY <3>1, <1>a DEF updateServer
      <4>2. r \in ServerRows /\ r.off = srv[s].off /\ r.has = srv[s].has
        BY <1>a DEF ServerRows
      <4> QED BY <4>1, <4>2
    <3>2. CASE syncFails(s)
      <4> DEFINE r == [srv[s] EXCEPT !.online = FALSE]
      <4>1. srv' = [srv EXCEPT ![s] = r]
        BY <3>2, <1>a DEF syncFails
      <4>2. r \in ServerRows /\ r.off = srv[s].off /\ r.has = srv[s].has
        BY <1>a DEF ServerRows
      <4> QED BY <4>1, <4>2
    <3> QED BY <1>6, <3>1, <3>2
  <2>2. UNCHANGED <<service, plan, sale>> /\ r.off \subseteq r.has
    BY <1>6, <2>1 DEF updateServer, syncFails, CatalogInv
  <2> QED BY <2>1, <2>2, ServerStep
<1>7. ASSUME NEW s \in CatServers, deleteServer(s) PROVE CatalogInv'
  <2> DEFINE r == [srv[s] EXCEPT !.exists = FALSE, !.has = {}, !.off = {}]
  <2>1. srv' = [srv EXCEPT ![s] = r] /\ UNCHANGED <<service, plan, sale>>
    BY <1>7, <1>a DEF deleteServer
  <2>2. r \in ServerRows /\ r.off \subseteq r.has
    BY <1>a DEF ServerRows
  <2> HIDE DEF r
  <2> QED BY <2>1, <2>2, ServerStep
<1>8. ASSUME NEW s \in CatServers, NEW has \in SUBSET CatInbounds, NEW off \in SUBSET CatInbounds, syncInbounds(s, has, off)
      PROVE CatalogInv'
  <2> DEFINE r == [srv[s] EXCEPT !.has = has, !.off = off, !.online = TRUE]
  <2>1. srv' = [srv EXCEPT ![s] = r] /\ UNCHANGED <<service, plan, sale>> /\ off \subseteq has
    BY <1>8, <1>a DEF syncInbounds
  <2>2. r \in ServerRows /\ r.off \subseteq r.has
    BY <1>a, <2>1 DEF ServerRows
  <2> HIDE DEF r
  <2> QED BY <2>1, <2>2, ServerStep
<1>9. ASSUME NEW s \in CatServers, NEW row, setAccess(s, row) PROVE CatalogInv'
  BY <1>9 DEF setAccess, CatalogInv
<1>10. ASSUME NEW v \in {NoService} \union Services, NEW T \in SUBSET Pairs, savePlan(v, T) PROVE CatalogInv'
  <2>1. CASE v # NoService /\ plan' = [exists |-> TRUE, service |-> v, targets |-> resolveServiceTargets(v)]
    <3>1. resolveServiceTargets(v) \subseteq Pairs
      BY <2>1, ResolvedPairs
    <3>2. plan' \in Plans
      BY <2>1, <3>1 DEF Plans
    <3> QED BY <1>10, <3>2 DEF savePlan, CatalogInv
  <2>2. CASE plan' = [exists |-> TRUE, service |-> NoService, targets |-> T]
    <3>1. plan' \in Plans
      BY <2>2 DEF Plans
    <3> QED BY <1>10, <3>1 DEF savePlan, CatalogInv
  <2> QED BY <1>10, <2>1, <2>2 DEF savePlan
<1>11. CASE deletePlan
  <2>1. plan' \in Plans
    BY <1>11 DEF deletePlan, Plans
  <2> QED BY <1>11, <2>1 DEF deletePlan, CatalogInv
<1>12. CASE orderPlan
  <2>1. plan.targets \subseteq Pairs /\ plan.service \in {NoService} \union Services
    BY <1>a DEF Plans
  <2>2. planTargetsFresh \subseteq Pairs
    BY <2>1, ResolvedPairs DEF planTargetsFresh
  <2>3. sale' \in Sales /\ UNCHANGED <<srv, service, plan>>
    BY <1>12, <2>2 DEF orderPlan, Sales
  <2> QED BY <2>3 DEF CatalogInv
<1>13. ASSUME NEW T \in SUBSET Pairs, deliverOrder(T) PROVE CatalogInv'
  <2>1. sale' = [sale EXCEPT !.at = "delivered", !.targets = T] /\ UNCHANGED <<srv, service, plan>>
    BY <1>13 DEF deliverOrder
  <2>2. sale' \in Sales
    BY <2>1 DEF CatalogInv, Sales
  <2> QED BY <2>1, <2>2 DEF CatalogInv
<1>14. CASE UNCHANGED catVars
  BY <1>14 DEF catVars, CatalogInv
<1> QED BY <1>1, <1>2, <1>3, <1>4, <1>5, <1>6, <1>7, <1>8, <1>9, <1>10, <1>11, <1>12, <1>13, <1>14 DEF CatalogNext

\* Whichever fall-back an order ends at, it is provisioned on something.
LEMMA OrdersHaveTargets ==
  ASSUME NEW T \in resolveOrderTargets PROVE T # {}
  BY DEF resolveOrderTargets

\* The reseller's list, the resolution of a service and the owner's overview agree.
LEMMA ScreensAgree == CatalogInv => ListingAgrees
<1> SUFFICES ASSUME CatalogInv PROVE ListingAgrees
  OBVIOUS
<1>1. \A v \in Services : v \in listServices <=> resolveServiceTargets(v) # {}
  BY DEF listServices, resolveServiceTargets
<1>2. listServices = {v \in Services : resolveServiceTargets(v) # {}}
  BY <1>1 DEF listServices
<1>3. ASSUME NEW t \in Pairs PROVE listedEnabled(t) <=> issueOf(t) \in {"NONE", "SERVER_OFFLINE"}
  <2>1. srv[t[1]].exists \in BOOLEAN /\ srv[t[1]].active \in BOOLEAN /\ srv[t[1]].online \in BOOLEAN
    BY DEF CatalogInv, ServerRows, Pairs
  <2> QED BY <2>1 DEF listedEnabled, HasInbound, issueOf
<1> QED BY <1>2, <1>3 DEF ListingAgrees

(***************************************************************************)
(* However services, access rights, servers and plans change between the   *)
(* order and its delivery, what a reseller sold is provisioned on at least *)
(* one inbound and only where he has access at that moment; his list and   *)
(* the owner's overview agree with what a sale would find.                 *)
(***************************************************************************)
THEOREM CatalogIsSound == CatalogSpec => CatalogSound
<1>1. CatalogInit => CatalogInv
  <2> SUFFICES ASSUME CatalogInit PROVE CatalogInv
    OBVIOUS
  <2>1. NoServiceRow \in ServiceRows /\ [NoServiceRow EXCEPT !.exists = TRUE, !.active = TRUE, !.targets = Pairs] \in ServiceRows
    BY DEF NoServiceRow, ServiceRows
  <2>2. service \in [Services -> ServiceRows]
    BY <2>1 DEF CatalogInit
  <2>3. 1 \in Services
    BY CatalogAssumption DEF Services
  <2>4. plan \in Plans
    <3>1. plan = [exists |-> TRUE, service |-> 1, targets |-> Pairs] \/ plan = [exists |-> TRUE, service |-> NoService, targets |-> {}]
      BY DEF CatalogInit
    <3>2. Pairs \in SUBSET Pairs /\ {} \in SUBSET Pairs /\ NoService \in {NoService} \union Services /\ 1 \in {NoService} \union Services
      BY <2>3
    <3>3. ASSUME NEW k \in {NoService} \union Services, NEW T \in SUBSET Pairs PROVE [exists |-> TRUE, service |-> k, targets |-> T] \in Plans
      BY DEF Plans
    <3> QED BY <3>1, <3>2, <3>3
  <2>5. srv \in [CatServers -> ServerRows] /\ \A s \in CatServers : srv[s].off = {}
    BY DEF CatalogInit, ServerRows
  <2>6. sale \in Sales
    BY DEF CatalogInit, NoSale, Sales
  <2> QED BY <2>2, <2>4, <2>5, <2>6 DEF CatalogInv
<1>2. CatalogInv => CatalogTypeOK
  BY DEF CatalogInv, CatalogTypeOK, ServiceRows, Plans, Sales
<1>3. CatalogInv /\ [CatalogNext]_catVars
      => [sale.at = "ordered" /\ sale'.at = "delivered" => sale'.targets # {} /\ \A t \in sale'.targets : canUse(t)]_catVars
  <2> SUFFICES ASSUME CatalogInv, CatalogNext, sale.at = "ordered", sale'.at = "delivered"
               PROVE sale'.targets # {} /\ \A t \in sale'.targets : canUse(t)
    OBVIOUS
  <2>1. ASSUME NEW T \in SUBSET Pairs, deliverOrder(T) PROVE sale'.targets # {} /\ \A t \in sale'.targets : canUse(t)
    <3>1. T \in resolveOrderTargets /\ assertTargets(T) /\ sale' = [sale EXCEPT !.at = "delivered", !.targets = T]
      BY <2>1 DEF deliverOrder
    <3>2. sale'.targets = T
      BY <3>1 DEF CatalogInv, Sales
    <3> QED BY <3>1, <3>2, OrdersHaveTargets DEF assertTargets
  <2>2. sale' # sale
    OBVIOUS
  <2> QED BY <2>1, <2>2
       DEF CatalogNext, createService, updateService, deleteService, duplicateService, reorderServices, updateServer, deleteServer,
           syncFails, setAccess, syncInbounds, savePlan, deletePlan, orderPlan
<1> QED BY <1>1, <1>2, <1>3, CatalogStep, ScreensAgree, PTL DEF CatalogSpec, CatalogSound, SoldWithinAccess

(* ------------------------------ sub-panels ------------------------------ *)

Quotas == {n \in Int : n >= Unlimited}
SubRows == [exists : BOOLEAN, quota : Quotas, password : Nat, known : Nat]
Handoffs == [sub : 0..MaxSubs, password : Nat]
PanelBooks == [link : Links, accounts : [Buyers -> 0..MaxSubs]]
Provisionings ==
  [at : {"idle", "account", "book", "deliver", "park", "finish", "reveal"}, order : PanelOrders \union {IdleRequest.order},
   sub : 0..MaxSubs, renewal : BOOLEAN, quota : Quotas, gb : {0, 1}, password : Nat, seen : [PanelOrders -> Handoffs]]

\* A quota of q pays for what is owed, w.
Pays(q, w) == q = Unlimited \/ (w # Unlimited /\ q >= w)

\* A sub-panel row x with w owed and n reveals.
SubOK(x, w, n) ==
  /\ x.known <= x.password /\ Pays(x.quota, w) /\ n <= 1
  /\ x.password = 0 => ~x.exists /\ w = 0 /\ n = 0

\* The parked record of order o belongs to a created sub-panel; one with a password
\* is the only one of its sub-panel, and was not revealed.
HandoffOK(h, sb, rv) ==
  \A o \in PanelOrders :
    /\ h[o].sub = 0 => h[o].password = 0
    /\ h[o].sub # 0 => sb[h[o].sub].password # 0 /\ h[o].password <= sb[h[o].sub].password
    /\ h[o].password # 0 => rv[h[o].sub] = 0 /\ \A x \in PanelOrders : h[x].password # 0 /\ h[x].sub = h[o].sub => x = o

\* Where the request r stands: what it is about to write is still right.
ProvisionOK(r, sb, h, w, rv, po) ==
  /\ r.at # "idle" => r.order \in PanelOrders
  /\ r.at \in {"account", "book", "deliver", "park", "finish"} => po[r.order] = "PAID"
  /\ r.at = "account" =>
       IF r.renewal THEN r.sub \in Subs /\ sb[r.sub].password # 0 /\ r.quota = AddQuota(sb[r.sub].quota, r.gb) /\ r.password = 0
       ELSE r.quota = AddQuota(0, r.gb)
  /\ r.at \in {"book", "deliver", "park", "finish"} =>
       r.sub \in Subs /\ sb[r.sub].password # 0 /\ Pays(sb[r.sub].quota, AddQuota(w[r.sub], r.gb))
  /\ r.at \in {"book", "deliver", "park"} /\ r.password # 0 =>
       r.password = sb[r.sub].password /\ rv[r.sub] = 0 /\ w[r.sub] = 0 /\ \A o \in PanelOrders : h[o].password # 0 => h[o].sub # r.sub
  /\ r.at \in {"park", "reveal"} => r.seen = h
  /\ r.at = "reveal" => r.sub \in Subs /\ r.password # 0 /\ h[r.order] = [sub |-> r.sub, password |-> r.password]

\* Somebody knows the password of s, or it is parked; or r still carries it.
Reachable(r, s, sb, h) ==
  \/ sb[s].known = sb[s].password
  \/ \E o \in PanelOrders : h[o] = [sub |-> s, password |-> sb[s].password]
  \/ r.at \in {"book", "deliver", "park"} /\ r.sub = s /\ r.password = sb[s].password

\* While nothing has failed: every password can be had, and an order parks once.
NothingLost(r, sb, h, po) ==
  /\ \A s \in Subs : sb[s].password # 0 => Reachable(r, s, sb, h)
  /\ \A o \in PanelOrders : h[o].sub # 0 => po[o] = "FULFILLED" \/ (r.at = "finish" /\ r.order = o)

PanelTypes ==
  /\ book \in PanelBooks /\ bookCache \in [PanelProcs -> Seq(PanelBooks)]
  /\ sub \in [Subs -> SubRows] /\ panelOrder \in [PanelOrders -> {"PAID", "FULFILLED"}]
  /\ request \in [PanelProcs -> Provisionings] /\ handoff \in [PanelOrders -> Handoffs]
  /\ owed \in [Subs -> Quotas] /\ reveals \in [Subs -> Nat] /\ panelFaults \in Nat

\* The cache of the one process w agrees with the row; accounts were created.
BookOK(w) ==
  /\ bookCache[w] = <<>> \/ bookCache[w] = <<book>>
  /\ \A b \in Buyers : book.accounts[b] # 0 => sub[book.accounts[b]].password # 0

PanelsInv(w) ==
  /\ PanelTypes /\ BookOK(w)
  /\ \A s \in Subs : SubOK(sub[s], owed[s], reveals[s])
  /\ HandoffOK(handoff, sub, reveals)
  /\ ProvisionOK(request[w], sub, handoff, owed, reveals, panelOrder)
  /\ panelFaults = 0 => NothingLost(request[w], sub, handoff, panelOrder)

\* Adding the same traffic to a quota and to what is owed.
LEMMA AddQuotaPays ==
  ASSUME NEW q \in Quotas, NEW w \in Quotas, NEW g \in {0, 1}
  PROVE /\ AddQuota(q, g) \in Quotas /\ AddQuota(q, g) # 0
        /\ Pays(q, w) => Pays(AddQuota(q, g), AddQuota(w, g)) /\ Pays(AddQuota(q, g), w)
  BY DEF AddQuota, Quotas, Unlimited, Pays

\* The one process reads the book as it is.
LEMMA BookRead ==
  ASSUME NEW w, PanelTypes, BookOK(w) PROVE panelPlanBook(w) = book
  BY DEF BookOK, panelPlanBook, getSetting

\* The resting request.
LEMMA IdleIs ==
  /\ IdleRequest \in Provisionings /\ IdleRequest.at = "idle" /\ IdleRequest.sub = 0 /\ IdleRequest.password = 0
  /\ IdleRequest.renewal = FALSE
  <1>1. NoHandoff \in Handoffs
    BY ResellerPanelsAssumption DEF NoHandoff, Handoffs
  <1>2. 0 \in 0..MaxSubs /\ 0 \in Quotas
    BY ResellerPanelsAssumption DEF Quotas, Unlimited
  <1>3. IdleRequest.order = CHOOSE o \in PanelOrders : TRUE
    BY DEF IdleRequest
  <1> QED BY <1>1, <1>2, <1>3 DEF IdleRequest, Provisionings

\* A step that only moves the request: to r, which is as good as the one before.
LEMMA RequestStep ==
  ASSUME NEW w, PanelProcs = {w}, PanelsInv(w), NEW r \in Provisionings, request' = [request EXCEPT ![w] = r],
         panelFaults' \in Nat, bookCache' \in [PanelProcs -> Seq(PanelBooks)], bookCache'[w] = <<>> \/ bookCache'[w] = <<book>>,
         UNCHANGED <<book, sub, panelOrder, handoff, owed, reveals>>,
         ProvisionOK(r, sub, handoff, owed, reveals, panelOrder),
         panelFaults' = 0 => NothingLost(r, sub, handoff, panelOrder)
  PROVE PanelsInv(w)'
  <1>1. request' \in [PanelProcs -> Provisionings] /\ request'[w] = r
    BY DEF PanelsInv, PanelTypes
  <1>2. PanelTypes' /\ BookOK(w)'
    BY <1>1 DEF PanelsInv, PanelTypes, BookOK
  <1>3. \A s \in Subs : SubOK(sub'[s], owed'[s], reveals'[s])
    BY DEF PanelsInv
  <1> QED BY <1>1, <1>2, <1>3 DEF PanelsInv

\* The facts every case below starts from.
LEMMA PanelFacts ==
  ASSUME NEW w, PanelProcs = {w}, PanelsInv(w)
  PROVE /\ request[w] \in Provisionings /\ book \in PanelBooks /\ bookCache \in [PanelProcs -> Seq(PanelBooks)]
        /\ bookCache[w] = <<>> \/ bookCache[w] = <<book>>
        /\ panelFaults \in Nat /\ panelPlanBook(w) = book
        /\ 0 \in Quotas /\ 0 \notin Subs /\ Subs \subseteq 0..MaxSubs
  <1>1. request[w] \in Provisionings /\ book \in PanelBooks /\ bookCache \in [PanelProcs -> Seq(PanelBooks)] /\ panelFaults \in Nat
    BY DEF PanelsInv, PanelTypes
  <1>2. panelPlanBook(w) = book /\ (bookCache[w] = <<>> \/ bookCache[w] = <<book>>)
    BY BookRead DEF PanelsInv, BookOK
  <1>3. 0 \in Quotas /\ 0 \notin Subs /\ Subs \subseteq 0..MaxSubs
    BY ResellerPanelsAssumption DEF Quotas, Unlimited, Subs
  <1> QED BY <1>1, <1>2, <1>3

\* The 5 s of the cache pass.
LEMMA CacheStep ==
  ASSUME NEW w, PanelProcs = {w}, PanelsInv(w), bookCacheExpires(w) PROVE PanelsInv(w)'
  <1>1. UNCHANGED <<book, sub, panelOrder, request, handoff, owed, reveals, panelFaults>> /\ bookCache' = [bookCache EXCEPT ![w] = <<>>]
    BY DEF bookCacheExpires
  <1>2. bookCache' \in [PanelProcs -> Seq(PanelBooks)] /\ bookCache'[w] = <<>>
    <2>1. bookCache \in [PanelProcs -> Seq(PanelBooks)] /\ w \in PanelProcs
      BY PanelFacts
    <2>2. <<>> \in Seq(PanelBooks)
      OBVIOUS
    <2> QED BY <1>1, <2>1, <2>2
  <1>3. PanelTypes' /\ BookOK(w)'
    BY <1>1, <1>2 DEF PanelsInv, PanelTypes, BookOK
  <1>4. \A s \in Subs : SubOK(sub'[s], owed'[s], reveals'[s])
    BY <1>1 DEF PanelsInv
  <1> QED BY <1>1, <1>3, <1>4 DEF PanelsInv

\* A book is written back with another link or another account c of buyer b.
LEMMA BookStep ==
  ASSUME NEW w, PanelProcs = {w}, PanelsInv(w), NEW v \in PanelBooks, savePanelPlanBook(w, v),
         \A b \in Buyers : v.accounts[b] # 0 => sub[v.accounts[b]].password # 0,
         NEW r \in Provisionings, request' = [request EXCEPT ![w] = r],
         UNCHANGED <<sub, panelOrder, handoff, owed, reveals, panelFaults>>,
         ProvisionOK(r, sub, handoff, owed, reveals, panelOrder),
         panelFaults = 0 => NothingLost(r, sub, handoff, panelOrder)
  PROVE PanelsInv(w)'
  <1>1. book' = v /\ bookCache' = [bookCache EXCEPT ![w] = <<v>>]
    BY DEF savePanelPlanBook, setSettingCache
  <1>2. <<v>> \in Seq(PanelBooks)
    OBVIOUS
  <1>3. bookCache' \in [PanelProcs -> Seq(PanelBooks)] /\ bookCache'[w] = <<v>>
    BY <1>1, <1>2, PanelFacts
  <1>4. request' \in [PanelProcs -> Provisionings] /\ request'[w] = r
    BY DEF PanelsInv, PanelTypes
  <1>5. PanelTypes' /\ BookOK(w)'
    BY <1>1, <1>3, <1>4 DEF PanelsInv, PanelTypes, BookOK
  <1>6. \A s \in Subs : SubOK(sub'[s], owed'[s], reveals'[s])
    BY DEF PanelsInv
  <1> QED BY <1>4, <1>5, <1>6 DEF PanelsInv

\* savePanelPlan and deletePanelPlan.
LEMMA RelinkStep ==
  ASSUME NEW w, PanelProcs = {w}, PanelsInv(w), NEW l \in Links, Relink(w, l) PROVE PanelsInv(w)'
  <1> DEFINE v == [book EXCEPT !.link = l]
  <1>1. savePanelPlanBook(w, v) /\ UNCHANGED <<sub, panelOrder, request, handoff, owed, reveals, panelFaults>>
    BY PanelFacts DEF Relink
  <1>2. v \in PanelBooks /\ v.accounts = book.accounts
    BY PanelFacts DEF PanelBooks
  <1> HIDE DEF v
  <1>3. \A b \in Buyers : v.accounts[b] # 0 => sub[v.accounts[b]].password # 0
    BY <1>2 DEF PanelsInv, BookOK
  <1>4. request' = [request EXCEPT ![w] = request[w]]
    BY <1>1 DEF PanelsInv, PanelTypes
  <1>5. request[w] \in Provisionings
    BY PanelFacts
  <1> QED BY <1>1, <1>2, <1>3, <1>4, <1>5, BookStep DEF PanelsInv

\* provisionPanelOrder reads the book and the admin row.
LEMMA BeginStep ==
  ASSUME NEW w, PanelProcs = {w}, PanelsInv(w), NEW o \in PanelOrders, beginProvision(w, o) PROVE PanelsInv(w)'
  <1> DEFINE prev == IF book.link.topUp THEN book.accounts[BuyerOf[o]] ELSE 0
             ren == prev # 0 /\ sub[prev].exists
             q == IF ren THEN AddQuota(sub[prev].quota, book.link.gb) ELSE IF book.link.gb > 0 THEN book.link.gb ELSE Unlimited
             who == IF ren THEN prev ELSE 0
             r == [IdleRequest EXCEPT !.at = "account", !.order = o, !.sub = who, !.renewal = ren, !.gb = book.link.gb, !.quota = q]
  <1>1. /\ request[w].at = "idle" /\ panelOrder[o] = "PAID" /\ bookCache' = [bookCache EXCEPT ![w] = <<book>>]
        /\ request' = [request EXCEPT ![w] = r] /\ UNCHANGED <<book, sub, panelOrder, handoff, owed, reveals, panelFaults>>
    BY PanelFacts DEF beginProvision, setSettingCache
  <1>2. book.link.gb \in {0, 1} /\ book.link.topUp \in BOOLEAN /\ prev \in 0..MaxSubs
    <2>1. BuyerOf[o] \in Buyers
      BY DEF Buyers
    <2>2. book.link \in Links /\ book.accounts \in [Buyers -> 0..MaxSubs]
      BY PanelFacts DEF PanelBooks
    <2>3. 0 \in 0..MaxSubs /\ book.accounts[BuyerOf[o]] \in 0..MaxSubs
      BY <2>1, <2>2, ResellerPanelsAssumption
    <2> QED BY <2>2, <2>3 DEF Links
  <1>3. prev # 0 => prev \in Subs /\ sub[prev].password # 0 /\ sub[prev].quota \in Quotas
    <2>1. BuyerOf[o] \in Buyers
      BY DEF Buyers
    <2>2. prev # 0 => prev = book.accounts[BuyerOf[o]] /\ prev \in Subs
      BY <1>2, ResellerPanelsAssumption DEF Subs
    <2>3. prev # 0 => sub[prev].password # 0
      BY <2>1, <2>2 DEF PanelsInv, BookOK
    <2>4. prev # 0 => sub[prev].quota \in Quotas
      BY <2>2 DEF PanelsInv, PanelTypes, SubRows
    <2> QED BY <2>2, <2>3, <2>4
  <1>4. ren \in BOOLEAN
    OBVIOUS
  <1> HIDE DEF prev
  <1>5. q \in Quotas /\ (ren => q = AddQuota(sub[prev].quota, book.link.gb)) /\ (~ren => q = AddQuota(0, book.link.gb))
    <2>1. ~ren => q = AddQuota(0, book.link.gb)
      BY <1>2 DEF AddQuota, Unlimited
    <2> QED BY <2>1, <1>2, <1>3, PanelFacts, AddQuotaPays
  <1>6. who \in 0..MaxSubs /\ (ren => who = prev)
    BY <1>2, ResellerPanelsAssumption
  <1> HIDE DEF ren, q, who
  <1>7. /\ r \in Provisionings /\ r.at = "account" /\ r.order = o /\ r.sub = who /\ r.renewal = ren /\ r.gb = book.link.gb
        /\ r.quota = q /\ r.password = 0
    BY <1>2, <1>4, <1>5, <1>6, IdleIs DEF Provisionings
  <1> HIDE DEF r
  <1>8. ProvisionOK(r, sub, handoff, owed, reveals, panelOrder)
    <2>1. ren => prev \in Subs /\ sub[prev].password # 0
      BY <1>3 DEF ren
    <2> QED BY <1>1, <1>5, <1>6, <1>7, <2>1 DEF ProvisionOK
  <1>9. panelFaults' = 0 => NothingLost(r, sub, handoff, panelOrder)
    BY <1>1, <1>7 DEF PanelsInv, NothingLost, Reachable
  <1>10. <<book>> \in Seq(PanelBooks) /\ bookCache' \in [PanelProcs -> Seq(PanelBooks)] /\ bookCache'[w] = <<book>> /\ panelFaults' \in Nat
    <2>1. bookCache \in [PanelProcs -> Seq(PanelBooks)] /\ w \in PanelProcs /\ book \in PanelBooks /\ panelFaults \in Nat
      BY PanelFacts
    <2>2. <<book>> \in Seq(PanelBooks)
      BY <2>1
    <2> QED BY <1>1, <2>1, <2>2
  <1> QED BY <1>1, <1>7, <1>8, <1>9, <1>10, RequestStep

\* What HandoffOK and BookOK ask of sub-panels is that created ones stay created.
LEMMA PasswordsKept ==
  ASSUME NEW w, PanelProcs = {w}, PanelsInv(w), sub' \in [Subs -> SubRows],
         \A s \in Subs : sub[s].password # 0 => sub'[s].password # 0 /\ sub[s].password <= sub'[s].password,
         UNCHANGED <<book, bookCache, handoff, reveals>>
  PROVE BookOK(w)' /\ HandoffOK(handoff, sub', reveals)
  <1>1. \A b \in Buyers : book.accounts[b] # 0 => book.accounts[b] \in Subs
    BY ResellerPanelsAssumption DEF PanelsInv, PanelTypes, PanelBooks, Subs
  <1>2. BookOK(w)'
    BY <1>1 DEF PanelsInv, BookOK
  <1>3. \A o \in PanelOrders : handoff[o].sub # 0 => handoff[o].sub \in Subs
    BY ResellerPanelsAssumption DEF PanelsInv, PanelTypes, Handoffs, Subs
  <1>4. \A o \in PanelOrders : handoff[o].sub # 0 => handoff[o].password <= sub'[handoff[o].sub].password /\ sub'[handoff[o].sub].password # 0
    <2> SUFFICES ASSUME NEW o \in PanelOrders, handoff[o].sub # 0, NEW s, s = handoff[o].sub
                 PROVE handoff[o].password <= sub'[s].password /\ sub'[s].password # 0
      OBVIOUS
    <2>1. s \in Subs /\ sub[s].password # 0 /\ handoff[o].password <= sub[s].password
      BY <1>3 DEF PanelsInv, HandoffOK
    <2>2. sub[s].password \in Nat /\ sub'[s].password \in Nat /\ handoff[o].password \in Nat
      BY <2>1 DEF PanelsInv, PanelTypes, SubRows, Handoffs
    <2> QED BY <2>1, <2>2
  <1>5. HandoffOK(handoff, sub', reveals)
    BY <1>4 DEF PanelsInv, HandoffOK
  <1> QED BY <1>2, <1>5

\* A renewal writes the added quota.
LEMMA TopUpStep ==
  ASSUME NEW w, PanelProcs = {w}, PanelsInv(w), NEW z, z = request[w], z.at = "account", z.renewal, sub[z.sub].exists,
         sub' = [sub EXCEPT ![z.sub].quota = z.quota], request' = [request EXCEPT ![w].at = "book"],
         UNCHANGED <<book, bookCache, panelOrder, handoff, owed, reveals, panelFaults>>
  PROVE PanelsInv(w)'
  <1>1. z \in Provisionings /\ z.sub \in Subs /\ sub[z.sub].password # 0 /\ z.quota = AddQuota(sub[z.sub].quota, z.gb) /\ z.password = 0
        /\ z.order \in PanelOrders /\ panelOrder[z.order] = "PAID"
    BY PanelFacts DEF PanelsInv, ProvisionOK
  <1> DEFINE r == [z EXCEPT !.at = "book"]
  <1>2. request' = [request EXCEPT ![w] = r] /\ r \in Provisionings /\ r.at = "book" /\ r.order = z.order /\ r.sub = z.sub /\ r.gb = z.gb /\ r.password = 0
    BY <1>1 DEF PanelsInv, PanelTypes, Provisionings
  <1> HIDE DEF r
  <1>3. request' \in [PanelProcs -> Provisionings] /\ request'[w] = r
    <2>1. request \in [PanelProcs -> Provisionings] /\ w \in PanelProcs
      BY DEF PanelsInv, PanelTypes
    <2>2. request' = [request EXCEPT ![w] = r] /\ r \in Provisionings
      BY <1>2
    <2> QED BY ONLY <2>1, <2>2
  <1>4. z.quota \in Quotas /\ z.gb \in {0, 1} /\ sub \in [Subs -> SubRows]
    BY <1>1 DEF PanelsInv, PanelTypes, Provisionings
  <1>5. sub' \in [Subs -> SubRows] /\ sub'[z.sub].quota = z.quota
    BY <1>1, <1>4 DEF SubRows
  <1>6. \A s \in Subs : /\ sub'[s].password = sub[s].password /\ sub'[s].known = sub[s].known /\ sub'[s].exists = sub[s].exists
                         /\ (s # z.sub => sub'[s].quota = sub[s].quota)
    BY <1>1, <1>4 DEF SubRows
  <1>7. \A s \in Subs : sub[s].password \in Nat /\ sub[s].quota \in Quotas /\ owed[s] \in Quotas
    BY <1>4 DEF PanelsInv, PanelTypes, SubRows
  <1>8. BookOK(w)' /\ HandoffOK(handoff, sub', reveals)
    <2>1. \A s \in Subs : sub[s].password # 0 => sub'[s].password # 0 /\ sub[s].password <= sub'[s].password
      BY <1>6, <1>7
    <2> QED BY <1>5, <2>1, PasswordsKept
  <1>9. Pays(z.quota, owed[z.sub]) /\ Pays(z.quota, AddQuota(owed[z.sub], z.gb))
    BY <1>1, <1>4, <1>7, AddQuotaPays DEF PanelsInv, SubOK
  <1>10. \A s \in Subs : SubOK(sub'[s], owed[s], reveals[s])
    BY <1>5, <1>6, <1>9 DEF PanelsInv, SubOK
  <1>11. ProvisionOK(r, sub', handoff, owed, reveals, panelOrder)
    BY <1>1, <1>2, <1>5, <1>6, <1>9 DEF ProvisionOK
  <1>12. panelFaults = 0 => NothingLost(r, sub', handoff, panelOrder)
    <2> SUFFICES ASSUME panelFaults = 0 PROVE NothingLost(r, sub', handoff, panelOrder)
      OBVIOUS
    <2>1. \A s \in Subs : sub[s].password # 0 => Reachable(z, s, sub, handoff)
      BY DEF PanelsInv, NothingLost
    <2>2. \A s \in Subs : sub'[s].password # 0 => Reachable(r, s, sub', handoff)
      BY <2>1, <1>6 DEF Reachable
    <2> QED BY <2>2, <1>2 DEF PanelsInv, NothingLost
  <1>13. PanelTypes'
    BY <1>3, <1>5 DEF PanelsInv, PanelTypes
  <1> QED BY <1>3, <1>8, <1>10, <1>11, <1>12, <1>13 DEF PanelsInv

\* A new sub-panel under a number that was never used.
LEMMA CreateSubStep ==
  ASSUME NEW w, PanelProcs = {w}, PanelsInv(w), NEW z, z = request[w], z.at = "account", ~z.renewal,
         NEW c \in Subs, sub[c].password = 0, sub' = [sub EXCEPT ![c] = [exists |-> TRUE, quota |-> z.quota, password |-> 1, known |-> 0]],
         request' = [request EXCEPT ![w].at = "book", ![w].sub = c, ![w].password = 1],
         UNCHANGED <<book, bookCache, panelOrder, handoff, owed, reveals, panelFaults>>
  PROVE PanelsInv(w)'
  <1>1. z \in Provisionings /\ z.quota = AddQuota(0, z.gb) /\ z.order \in PanelOrders /\ panelOrder[z.order] = "PAID"
    BY PanelFacts DEF PanelsInv, ProvisionOK
  <1> DEFINE r == [z EXCEPT !.at = "book", !.sub = c, !.password = 1]
             x == [exists |-> TRUE, quota |-> z.quota, password |-> 1, known |-> 0]
  <1>a. c \in 0..MaxSubs
    BY PanelFacts
  <1>2. request' = [request EXCEPT ![w] = r] /\ r \in Provisionings /\ r.at = "book" /\ r.order = z.order /\ r.sub = c /\ r.gb = z.gb /\ r.password = 1
    BY <1>1, <1>a DEF PanelsInv, PanelTypes, Provisionings
  <1> HIDE DEF r
  <1>3. request' \in [PanelProcs -> Provisionings] /\ request'[w] = r
    <2>1. request \in [PanelProcs -> Provisionings] /\ w \in PanelProcs
      BY DEF PanelsInv, PanelTypes
    <2>2. request' = [request EXCEPT ![w] = r] /\ r \in Provisionings
      BY <1>2
    <2> QED BY ONLY <2>1, <2>2
  <1>4. z.quota \in Quotas /\ z.gb \in {0, 1} /\ sub \in [Subs -> SubRows]
    BY <1>1 DEF PanelsInv, PanelTypes, Provisionings
  <1>5. x \in SubRows /\ x.quota = z.quota /\ x.password = 1 /\ x.known = 0
    BY <1>4 DEF SubRows
  <1>b. sub' = [sub EXCEPT ![c] = x]
    OBVIOUS
  <1> HIDE DEF x
  <1>6. sub' \in [Subs -> SubRows] /\ sub'[c] = x /\ \A s \in Subs : s # c => sub'[s] = sub[s]
    BY <1>4, <1>5, <1>b
  <1>7. \A s \in Subs : sub[s].password \in Nat
    BY <1>4 DEF SubRows
  <1>8. BookOK(w)' /\ HandoffOK(handoff, sub', reveals)
    <2>1. \A s \in Subs : sub[s].password # 0 => sub'[s].password # 0 /\ sub[s].password <= sub'[s].password
      BY <1>6, <1>7
    <2> QED BY <1>6, <2>1, PasswordsKept
  <1>9. owed[c] = 0 /\ reveals[c] = 0
    BY DEF PanelsInv, SubOK
  <1>10. Pays(z.quota, 0) /\ Pays(z.quota, AddQuota(0, z.gb))
    <2>1. Pays(0, 0) /\ 0 \in Quotas
      BY PanelFacts DEF Pays, Unlimited
    <2> QED BY <2>1, <1>1, <1>4, AddQuotaPays
  <1>11. \A s \in Subs : SubOK(sub'[s], owed[s], reveals[s])
    <2>1. SubOK(x, 0, 0)
      BY <1>5, <1>10 DEF SubOK
    <2> QED BY <2>1, <1>6, <1>9 DEF PanelsInv
  <1>12. \A o \in PanelOrders : handoff[o].sub # c
    BY PanelFacts DEF PanelsInv, HandoffOK
  <1>13. ProvisionOK(r, sub', handoff, owed, reveals, panelOrder)
    BY <1>1, <1>2, <1>5, <1>6, <1>9, <1>10, <1>12 DEF ProvisionOK
  <1>14. panelFaults = 0 => NothingLost(r, sub', handoff, panelOrder)
    <2> SUFFICES ASSUME panelFaults = 0 PROVE NothingLost(r, sub', handoff, panelOrder)
      OBVIOUS
    <2>1. \A s \in Subs : sub[s].password # 0 => Reachable(z, s, sub, handoff)
      BY DEF PanelsInv, NothingLost
    <2>2. \A s \in Subs : sub'[s].password # 0 => Reachable(r, s, sub', handoff)
      BY <2>1, <1>2, <1>5, <1>6 DEF Reachable
    <2> QED BY <2>2, <1>2 DEF PanelsInv, NothingLost
  <1>15. PanelTypes'
    BY <1>3, <1>6 DEF PanelsInv, PanelTypes
  <1> QED BY <1>3, <1>8, <1>11, <1>13, <1>14, <1>15 DEF PanelsInv

\* admin.update or admin.create.
LEMMA WriteAccountStep ==
  ASSUME NEW w, PanelProcs = {w}, PanelsInv(w), writeAccount(w) PROVE PanelsInv(w)'
  <1>1. UNCHANGED <<book, bookCache, panelOrder, handoff, owed, reveals, panelFaults>> /\ request[w].at = "account"
    BY DEF writeAccount
  <1>2. CASE /\ request[w].renewal /\ sub[request[w].sub].exists /\ sub' = [sub EXCEPT ![request[w].sub].quota = request[w].quota]
             /\ request' = [request EXCEPT ![w].at = "book"]
    BY <1>1, <1>2, TopUpStep
  <1>3. ASSUME ~request[w].renewal, NEW c \in Subs, sub[c].password = 0,
               sub' = [sub EXCEPT ![c] = [exists |-> TRUE, quota |-> request[w].quota, password |-> 1, known |-> 0]],
               request' = [request EXCEPT ![w].at = "book", ![w].sub = c, ![w].password = 1]
        PROVE PanelsInv(w)'
    BY <1>1, <1>3, CreateSubStep
  <1> QED BY <1>2, <1>3 DEF writeAccount

\* The account is put in the book.
LEMMA RecordStep ==
  ASSUME NEW w, PanelProcs = {w}, PanelsInv(w), NEW z, z = request[w], recordAccount(w) PROVE PanelsInv(w)'
  <1>1. z \in Provisionings /\ z.at = "book" /\ z.order \in PanelOrders /\ z.sub \in Subs /\ sub[z.sub].password # 0
    BY PanelFacts DEF PanelsInv, ProvisionOK, recordAccount
  <1> DEFINE v == [book EXCEPT !.accounts[BuyerOf[z.order]] = z.sub]
             r == [z EXCEPT !.at = "deliver"]
  <1>2. savePanelPlanBook(w, v) /\ UNCHANGED <<sub, panelOrder, handoff, owed, reveals, panelFaults>> /\ request' = [request EXCEPT ![w].at = "deliver"]
    BY PanelFacts DEF recordAccount
  <1>3. /\ r \in Provisionings /\ r.at = "deliver" /\ r.order = z.order /\ r.sub = z.sub /\ r.gb = z.gb /\ r.password = z.password
    BY <1>1 DEF Provisionings
  <1>4. request' = [request EXCEPT ![w] = r]
    BY <1>2 DEF PanelsInv, PanelTypes
  <1>5. BuyerOf[z.order] \in Buyers /\ z.sub \in 0..MaxSubs
    BY <1>1, PanelFacts DEF Buyers
  <1>6. v \in PanelBooks /\ \A b \in Buyers : v.accounts[b] = IF b = BuyerOf[z.order] THEN z.sub ELSE book.accounts[b]
    BY <1>5, PanelFacts DEF PanelBooks
  <1> HIDE DEF v, r
  <1>7. \A b \in Buyers : v.accounts[b] # 0 => sub[v.accounts[b]].password # 0
    BY <1>1, <1>6 DEF PanelsInv, BookOK
  <1>8. ProvisionOK(r, sub, handoff, owed, reveals, panelOrder)
    BY <1>1, <1>3 DEF PanelsInv, ProvisionOK
  <1>9. panelFaults = 0 => NothingLost(r, sub, handoff, panelOrder)
    BY <1>1, <1>3 DEF PanelsInv, NothingLost, Reachable
  <1> QED BY <1>2, <1>3, <1>4, <1>6, <1>7, <1>8, <1>9, BookStep

\* Somebody learns password k of sub-panel c; the request moves on to r.
LEMMA LearnFacts ==
  ASSUME NEW w, PanelProcs = {w}, PanelsInv(w), NEW c \in Subs, NEW k \in Nat, k <= sub[c].password, Learn(c, k)
  PROVE /\ sub' \in [Subs -> SubRows]
        /\ \A s \in Subs : s # c => sub'[s] = sub[s]
        /\ sub'[c].exists = sub[c].exists /\ sub'[c].quota = sub[c].quota /\ sub'[c].password = sub[c].password
        /\ sub'[c].known <= sub[c].password /\ (sub[c].known = sub[c].password \/ k = sub[c].password => sub'[c].known = sub[c].password)
        /\ \A s \in Subs : sub[s].password # 0 => sub'[s].password # 0 /\ sub[s].password <= sub'[s].password
  <1>1. sub \in [Subs -> SubRows] /\ sub[c].known <= sub[c].password /\ sub[c].known \in Nat /\ sub[c].password \in Nat
    BY DEF PanelsInv, PanelTypes, SubOK, SubRows
  <1>2. PICK n \in Nat : n = (IF k > sub[c].known THEN k ELSE sub[c].known)
    BY <1>1
  <1>3. n <= sub[c].password /\ (sub[c].known = sub[c].password \/ k = sub[c].password => n = sub[c].password)
    BY <1>1, <1>2
  <1>4. sub' = [sub EXCEPT ![c].known = n]
    BY <1>2 DEF Learn
  <1>5. sub' \in [Subs -> SubRows] /\ (\A s \in Subs : s # c => sub'[s] = sub[s])
        /\ sub'[c].exists = sub[c].exists /\ sub'[c].quota = sub[c].quota /\ sub'[c].password = sub[c].password /\ sub'[c].known = n
    BY <1>1, <1>4 DEF SubRows
  <1>6. \A s \in Subs : sub[s].password \in Nat
    BY <1>1 DEF SubRows
  <1>7. \A s \in Subs : sub'[s].password = sub[s].password
    BY <1>5
  <1>8. \A s \in Subs : sub[s].password <= sub[s].password
    BY <1>6
  <1> QED BY <1>3, <1>5, <1>7, <1>8

\* deliverPanelAccount: the message arrives, or the password will be parked.
LEMMA DeliverStep ==
  ASSUME NEW w, PanelProcs = {w}, PanelsInv(w), NEW z, z = request[w], deliverPanelAccount(w) PROVE PanelsInv(w)'
  <1>1. /\ z \in Provisionings /\ z.at = "deliver" /\ z.order \in PanelOrders /\ z.sub \in Subs /\ sub[z.sub].password # 0
        /\ panelOrder[z.order] = "PAID" /\ Pays(sub[z.sub].quota, AddQuota(owed[z.sub], z.gb))
        /\ z.password # 0 => z.password = sub[z.sub].password
    BY PanelFacts DEF PanelsInv, ProvisionOK, deliverPanelAccount
  <1>2. UNCHANGED <<book, bookCache, panelOrder, handoff, owed, reveals, panelFaults>>
    BY DEF deliverPanelAccount
  <1>3. CASE Learn(z.sub, z.password) /\ request' = [request EXCEPT ![w].at = "finish"]
    <2> DEFINE r == [z EXCEPT !.at = "finish"]
    <2>1. r \in Provisionings /\ r.at = "finish" /\ r.order = z.order /\ r.sub = z.sub /\ r.gb = z.gb /\ r.password = z.password
      BY <1>1 DEF Provisionings
    <2>2. request' = [request EXCEPT ![w] = r]
      BY <1>3 DEF PanelsInv, PanelTypes
    <2> HIDE DEF r
    <2>3. request' \in [PanelProcs -> Provisionings] /\ request'[w] = r
      BY <2>1, <2>2 DEF PanelsInv, PanelTypes
    <2>4. z.password \in Nat /\ sub[z.sub].password \in Nat
      BY <1>1 DEF Provisionings, PanelsInv, PanelTypes, SubRows
    <2>5. z.password <= sub[z.sub].password
      BY <1>1, <2>4
    <2> DEFINE c == z.sub
    <2>6. /\ sub' \in [Subs -> SubRows] /\ (\A s \in Subs : s # c => sub'[s] = sub[s])
          /\ sub'[c].exists = sub[c].exists /\ sub'[c].quota = sub[c].quota /\ sub'[c].password = sub[c].password
          /\ sub'[c].known <= sub[c].password /\ (sub[c].known = sub[c].password \/ z.password = sub[c].password => sub'[c].known = sub[c].password)
          /\ \A s \in Subs : sub[s].password # 0 => sub'[s].password # 0 /\ sub[s].password <= sub'[s].password
      BY <1>1, <1>3, <2>4, <2>5, LearnFacts
    <2>7. BookOK(w)' /\ HandoffOK(handoff, sub', reveals)
      BY <1>2, <2>6, PasswordsKept
    <2>8. \A s \in Subs : SubOK(sub'[s], owed[s], reveals[s])
      BY <1>1, <2>6 DEF PanelsInv, SubOK
    <2>9. ProvisionOK(r, sub', handoff, owed, reveals, panelOrder)
      BY <1>1, <2>1, <2>6 DEF ProvisionOK
    <2>10. panelFaults = 0 => NothingLost(r, sub', handoff, panelOrder)
      <3> SUFFICES ASSUME panelFaults = 0 PROVE NothingLost(r, sub', handoff, panelOrder)
        OBVIOUS
      <3>1. \A s \in Subs : sub[s].password # 0 => Reachable(z, s, sub, handoff)
        BY DEF PanelsInv, NothingLost
      <3>2. \A s \in Subs : sub'[s].password # 0 => Reachable(r, s, sub', handoff)
        BY <3>1, <1>1, <2>6 DEF Reachable
      <3> QED BY <3>2, <1>1, <2>1 DEF PanelsInv, NothingLost
    <2>11. PanelTypes'
      BY <1>2, <2>3, <2>6 DEF PanelsInv, PanelTypes
    <2> QED BY <1>2, <2>3, <2>7, <2>8, <2>9, <2>10, <2>11 DEF PanelsInv
  <1>4. CASE request' = [request EXCEPT ![w].at = "park", ![w].seen = handoff] /\ UNCHANGED sub
    <2> DEFINE r == [z EXCEPT !.at = "park", !.seen = handoff]
    <2>0. handoff \in [PanelOrders -> Handoffs]
      BY DEF PanelsInv, PanelTypes
    <2>1. r \in Provisionings /\ r.at = "park" /\ r.order = z.order /\ r.sub = z.sub /\ r.gb = z.gb /\ r.password = z.password /\ r.seen = handoff
      BY <1>1, <2>0 DEF Provisionings
    <2>2. request' = [request EXCEPT ![w] = r]
      BY <1>4 DEF PanelsInv, PanelTypes
    <2> HIDE DEF r
    <2>3. ProvisionOK(r, sub, handoff, owed, reveals, panelOrder)
      BY <1>1, <2>1 DEF PanelsInv, ProvisionOK
    <2>4. panelFaults' = 0 => NothingLost(r, sub, handoff, panelOrder)
      BY <1>1, <1>2, <2>1 DEF PanelsInv, NothingLost, Reachable
    <2>5. panelFaults' \in Nat /\ bookCache' \in [PanelProcs -> Seq(PanelBooks)] /\ (bookCache'[w] = <<>> \/ bookCache'[w] = <<book>>)
      BY <1>2, PanelFacts
    <2> QED BY <1>2, <1>4, <2>1, <2>2, <2>3, <2>4, <2>5, RequestStep
  <1> QED BY <1>3, <1>4 DEF deliverPanelAccount

\* parkPanelHandoff.
LEMMA ParkStep ==
  ASSUME NEW w, PanelProcs = {w}, PanelsInv(w), NEW z, z = request[w], parkPanelHandoff(w) PROVE PanelsInv(w)'
  <1>1. /\ z \in Provisionings /\ z.at = "park" /\ z.order \in PanelOrders /\ z.sub \in Subs /\ sub[z.sub].password # 0
        /\ panelOrder[z.order] = "PAID" /\ Pays(sub[z.sub].quota, AddQuota(owed[z.sub], z.gb)) /\ z.seen = handoff
        /\ z.password # 0 => z.password = sub[z.sub].password /\ reveals[z.sub] = 0 /\ \A o \in PanelOrders : handoff[o].password # 0 => handoff[o].sub # z.sub
    BY PanelFacts DEF PanelsInv, ProvisionOK, parkPanelHandoff
  <1>2. UNCHANGED <<book, bookCache, sub, panelOrder, owed, reveals, panelFaults>> /\ request' = [request EXCEPT ![w].at = "finish"]
        /\ handoff' = [handoff EXCEPT ![z.order] = [sub |-> z.sub, password |-> z.password]]
    BY <1>1 DEF parkPanelHandoff
  <1> DEFINE r == [z EXCEPT !.at = "finish"]
             y == [sub |-> z.sub, password |-> z.password]
             h == [handoff EXCEPT ![z.order] = y]
  <1>3. r \in Provisionings /\ r.at = "finish" /\ r.order = z.order /\ r.sub = z.sub /\ r.gb = z.gb
    BY <1>1 DEF Provisionings
  <1>4. request' = [request EXCEPT ![w] = r]
    BY <1>2 DEF PanelsInv, PanelTypes
  <1> HIDE DEF r
  <1>5. request' \in [PanelProcs -> Provisionings] /\ request'[w] = r
    BY <1>3, <1>4 DEF PanelsInv, PanelTypes
  <1>6. z.password \in Nat /\ sub[z.sub].password \in Nat /\ z.sub \in 0..MaxSubs /\ z.sub # 0
    BY <1>1, PanelFacts DEF Provisionings, PanelsInv, PanelTypes, SubRows
  <1>7. z.password <= sub[z.sub].password
    BY <1>1, <1>6
  <1>8. y \in Handoffs /\ y.sub = z.sub /\ y.password = z.password
    BY <1>6 DEF Handoffs
  <1>9. handoff' = h
    BY <1>2
  <1> HIDE DEF y
  <1>10. h \in [PanelOrders -> Handoffs] /\ h[z.order] = y /\ \A o \in PanelOrders : o # z.order => h[o] = handoff[o]
    BY <1>1, <1>8 DEF PanelsInv, PanelTypes
  <1> HIDE DEF h
  <1>11. HandoffOK(h, sub, reveals)
    <2> SUFFICES ASSUME NEW o \in PanelOrders
                 PROVE /\ h[o].sub = 0 => h[o].password = 0
                       /\ h[o].sub # 0 => sub[h[o].sub].password # 0 /\ h[o].password <= sub[h[o].sub].password
                       /\ h[o].password # 0 => reveals[h[o].sub] = 0 /\ \A x \in PanelOrders : h[x].password # 0 /\ h[x].sub = h[o].sub => x = o
      BY DEF HandoffOK
    <2>1. CASE o = z.order
      BY <1>1, <1>6, <1>7, <1>8, <1>10, <2>1
    <2>2. CASE o # z.order
      <3>1. h[o] = handoff[o]
        BY <1>10, <2>2
      <3>2. /\ handoff[o].sub = 0 => handoff[o].password = 0
            /\ handoff[o].sub # 0 => sub[handoff[o].sub].password # 0 /\ handoff[o].password <= sub[handoff[o].sub].password
            /\ handoff[o].password # 0 => reveals[handoff[o].sub] = 0
        BY DEF PanelsInv, HandoffOK
      <3>3. ASSUME handoff[o].password # 0, NEW x \in PanelOrders, h[x].password # 0, h[x].sub = handoff[o].sub PROVE x = o
        <4>1. CASE x = z.order
          BY <1>1, <1>8, <1>10, <3>3, <4>1
        <4>2. CASE x # z.order
          BY <1>10, <3>3, <4>2 DEF PanelsInv, HandoffOK
        <4> QED BY <4>1, <4>2
      <3> QED BY <3>1, <3>2, <3>3
    <2> QED BY <2>1, <2>2
  <1>12. ProvisionOK(r, sub, h, owed, reveals, panelOrder)
    BY <1>1, <1>3 DEF ProvisionOK
  <1>13. panelFaults = 0 => NothingLost(r, sub, h, panelOrder)
    <2> SUFFICES ASSUME panelFaults = 0 PROVE NothingLost(r, sub, h, panelOrder)
      OBVIOUS
    <2>1. \A s \in Subs : sub[s].password # 0 => Reachable(z, s, sub, handoff)
      BY DEF PanelsInv, NothingLost
    <2>2. \A o \in PanelOrders : handoff[o].sub # 0 => panelOrder[o] = "FULFILLED"
      BY <1>1 DEF PanelsInv, NothingLost
    <2>3. handoff[z.order].sub = 0
      BY <1>1, <2>2
    <2>4. ASSUME NEW s \in Subs, sub[s].password # 0 PROVE Reachable(r, s, sub, h)
      <3>1. CASE sub[s].known = sub[s].password
        BY <3>1 DEF Reachable
      <3>2. ASSUME NEW o \in PanelOrders, handoff[o] = [sub |-> s, password |-> sub[s].password] PROVE Reachable(r, s, sub, h)
        <4>1. handoff[o].sub = s /\ s # 0
          BY <3>2, PanelFacts
        <4>2. h[o] = [sub |-> s, password |-> sub[s].password]
          BY <1>10, <2>3, <3>2, <4>1
        <4> QED BY <4>2 DEF Reachable
      <3>3. CASE z.sub = s /\ z.password = sub[s].password
        BY <1>1, <1>10, <3>3 DEF Reachable, y
      <3> QED BY <2>1, <2>4, <3>1, <3>2, <3>3 DEF Reachable
    <2>5. \A o \in PanelOrders : h[o].sub # 0 => panelOrder[o] = "FULFILLED" \/ (r.at = "finish" /\ r.order = o)
      BY <1>3, <1>10, <2>2
    <2> QED BY <2>4, <2>5 DEF NothingLost
  <1>14. PanelTypes' /\ BookOK(w)'
    BY <1>2, <1>5, <1>9, <1>10 DEF PanelsInv, PanelTypes, BookOK
  <1>15. \A s \in Subs : SubOK(sub'[s], owed'[s], reveals'[s])
    BY <1>2 DEF PanelsInv
  <1> QED BY <1>2, <1>5, <1>9, <1>11, <1>12, <1>13, <1>14, <1>15 DEF PanelsInv

\* The order is FULFILLED and its traffic owed.
LEMMA FinishStep ==
  ASSUME NEW w, PanelProcs = {w}, PanelsInv(w), NEW z, z = request[w], finishOrder(w) PROVE PanelsInv(w)'
  <1>1. /\ z \in Provisionings /\ z.at = "finish" /\ z.order \in PanelOrders /\ z.sub \in Subs /\ sub[z.sub].password # 0
        /\ Pays(sub[z.sub].quota, AddQuota(owed[z.sub], z.gb))
    BY PanelFacts DEF PanelsInv, ProvisionOK, finishOrder
  <1>2. /\ UNCHANGED <<book, bookCache, sub, handoff, reveals, panelFaults>> /\ request' = [request EXCEPT ![w] = IdleRequest]
        /\ panelOrder' = [panelOrder EXCEPT ![z.order] = "FULFILLED"] /\ owed' = [owed EXCEPT ![z.sub] = AddQuota(owed[z.sub], z.gb)]
    BY DEF finishOrder
  <1>3. request' \in [PanelProcs -> Provisionings] /\ request'[w] = IdleRequest
    BY <1>2, IdleIs DEF PanelsInv, PanelTypes
  <1>4. PICK n \in Quotas : n = AddQuota(owed[z.sub], z.gb)
    <2>1. owed[z.sub] \in Quotas /\ z.gb \in {0, 1}
      BY <1>1 DEF PanelsInv, PanelTypes, Provisionings
    <2> QED BY <2>1, AddQuotaPays
  <1>5. owed' \in [Subs -> Quotas] /\ owed'[z.sub] = n /\ \A s \in Subs : s # z.sub => owed'[s] = owed[s]
    BY <1>1, <1>2, <1>4 DEF PanelsInv, PanelTypes
  <1>6. \A s \in Subs : SubOK(sub[s], owed'[s], reveals[s])
    BY <1>1, <1>4, <1>5 DEF PanelsInv, SubOK
  <1>7. panelOrder' \in [PanelOrders -> {"PAID", "FULFILLED"}] /\ panelOrder'[z.order] = "FULFILLED" /\ \A o \in PanelOrders : o # z.order => panelOrder'[o] = panelOrder[o]
    BY <1>1, <1>2 DEF PanelsInv, PanelTypes
  <1>8. ProvisionOK(IdleRequest, sub, handoff, owed', reveals, panelOrder')
    BY IdleIs DEF ProvisionOK
  <1>9. panelFaults = 0 => NothingLost(IdleRequest, sub, handoff, panelOrder')
    BY <1>1, <1>7, IdleIs DEF PanelsInv, NothingLost, Reachable
  <1>10. PanelTypes' /\ BookOK(w)'
    BY <1>2, <1>3, <1>5, <1>7 DEF PanelsInv, PanelTypes, BookOK
  <1> QED BY <1>2, <1>3, <1>6, <1>8, <1>9, <1>10 DEF PanelsInv

\* A provisioning breaks off; a parked record is asked for.
LEMMA FailStep ==
  ASSUME NEW w, PanelProcs = {w}, PanelsInv(w), provisionFails(w) PROVE PanelsInv(w)'
  <1>1. UNCHANGED <<book, bookCache, sub, panelOrder, handoff, owed, reveals>> /\ request' = [request EXCEPT ![w] = IdleRequest] /\ panelFaults' = panelFaults + 1
    BY DEF provisionFails
  <1>2. panelFaults' \in Nat /\ panelFaults' # 0
    BY <1>1, PanelFacts
  <1>3. ProvisionOK(IdleRequest, sub, handoff, owed, reveals, panelOrder)
    BY IdleIs DEF ProvisionOK
  <1>4. bookCache' \in [PanelProcs -> Seq(PanelBooks)] /\ (bookCache'[w] = <<>> \/ bookCache'[w] = <<book>>)
    BY <1>1, PanelFacts
  <1> QED BY <1>1, <1>2, <1>3, <1>4, IdleIs, RequestStep

\* revealPanelHandoff reads the record.
LEMMA BeginRevealStep ==
  ASSUME NEW w, PanelProcs = {w}, PanelsInv(w), NEW o \in PanelOrders, beginReveal(w, o) PROVE PanelsInv(w)'
  <1> DEFINE r == [IdleRequest EXCEPT !.at = "reveal", !.order = o, !.sub = handoff[o].sub, !.password = handoff[o].password, !.seen = handoff]
  <1>1. UNCHANGED <<book, bookCache, sub, panelOrder, handoff, owed, reveals, panelFaults>> /\ request' = [request EXCEPT ![w] = r]
        /\ request[w].at = "idle" /\ handoff[o].sub # 0 /\ handoff[o].password # 0
    BY DEF beginReveal
  <1>2. handoff \in [PanelOrders -> Handoffs] /\ handoff[o].sub \in 0..MaxSubs /\ handoff[o].password \in Nat
    BY DEF PanelsInv, PanelTypes, Handoffs
  <1>3. r \in Provisionings /\ r.at = "reveal" /\ r.order = o /\ r.sub = handoff[o].sub /\ r.password = handoff[o].password /\ r.seen = handoff
    BY <1>2, IdleIs DEF Provisionings
  <1> HIDE DEF r
  <1>4. handoff[o].sub \in Subs
    BY <1>1, <1>2, ResellerPanelsAssumption DEF Subs
  <1>5. handoff[o] = [sub |-> handoff[o].sub, password |-> handoff[o].password]
    BY <1>2 DEF Handoffs
  <1>6. ProvisionOK(r, sub, handoff, owed, reveals, panelOrder)
    BY <1>1, <1>3, <1>4, <1>5 DEF ProvisionOK
  <1>7. panelFaults' = 0 => NothingLost(r, sub, handoff, panelOrder)
    BY <1>1, <1>3 DEF PanelsInv, NothingLost, Reachable
  <1>8. panelFaults' \in Nat /\ bookCache' \in [PanelProcs -> Seq(PanelBooks)] /\ (bookCache'[w] = <<>> \/ bookCache'[w] = <<book>>)
    BY <1>1, PanelFacts
  <1> QED BY <1>1, <1>3, <1>6, <1>7, <1>8, RequestStep

\* revealPanelHandoff deletes the record and returns its password.
LEMMA RevealStep ==
  ASSUME NEW w, PanelProcs = {w}, PanelsInv(w), NEW z, z = request[w], revealPanelHandoff(w) PROVE PanelsInv(w)'
  <1>1. /\ z \in Provisionings /\ z.at = "reveal" /\ z.order \in PanelOrders /\ z.sub \in Subs /\ z.password # 0 /\ z.seen = handoff
        /\ handoff[z.order] = [sub |-> z.sub, password |-> z.password]
    BY PanelFacts DEF PanelsInv, ProvisionOK, revealPanelHandoff
  <1> DEFINE c == z.sub
             h == [handoff EXCEPT ![z.order] = NoHandoff]
  <1>2. /\ UNCHANGED <<book, bookCache, panelOrder, owed, panelFaults>> /\ request' = [request EXCEPT ![w] = IdleRequest]
        /\ handoff' = h /\ reveals' = [reveals EXCEPT ![c] = reveals[c] + 1] /\ Learn(c, z.password)
    BY <1>1 DEF revealPanelHandoff
  <1>3. handoff[z.order].sub = c /\ handoff[z.order].password = z.password /\ c # 0
    BY <1>1, PanelFacts
  <1>4. z.password \in Nat /\ z.password <= sub[c].password /\ sub[c].password # 0 /\ reveals[c] = 0
        /\ \A x \in PanelOrders : handoff[x].password # 0 /\ handoff[x].sub = c => x = z.order
    <2>1. z.password \in Nat
      BY <1>1 DEF Provisionings
    <2> QED BY <2>1, <1>1, <1>3 DEF PanelsInv, HandoffOK
  <1>5. /\ sub' \in [Subs -> SubRows] /\ (\A s \in Subs : s # c => sub'[s] = sub[s])
        /\ sub'[c].exists = sub[c].exists /\ sub'[c].quota = sub[c].quota /\ sub'[c].password = sub[c].password
        /\ sub'[c].known <= sub[c].password /\ (sub[c].known = sub[c].password \/ z.password = sub[c].password => sub'[c].known = sub[c].password)
    BY <1>1, <1>2, <1>4, LearnFacts
  <1>6. NoHandoff \in Handoffs /\ NoHandoff.sub = 0 /\ NoHandoff.password = 0
    BY ResellerPanelsAssumption DEF NoHandoff, Handoffs
  <1>7. h \in [PanelOrders -> Handoffs] /\ h[z.order] = NoHandoff /\ \A o \in PanelOrders : o # z.order => h[o] = handoff[o]
    BY <1>1, <1>6 DEF PanelsInv, PanelTypes
  <1> HIDE DEF h, c
  <1>8. reveals' \in [Subs -> Nat] /\ reveals'[c] = 1 /\ \A s \in Subs : s # c => reveals'[s] = reveals[s]
    BY <1>1, <1>2, <1>4 DEF PanelsInv, PanelTypes, c
  <1>9. request' \in [PanelProcs -> Provisionings] /\ request'[w] = IdleRequest
    BY <1>2, IdleIs DEF PanelsInv, PanelTypes
  <1>10. \A s \in Subs : SubOK(sub'[s], owed[s], reveals'[s])
    BY <1>4, <1>5, <1>8 DEF PanelsInv, SubOK
  <1>11. \A s \in Subs : sub'[s].password = sub[s].password
    BY <1>5
  <1>12. \A o \in PanelOrders : handoff[o].sub # 0 => handoff[o].sub \in Subs
    BY ResellerPanelsAssumption DEF PanelsInv, PanelTypes, Handoffs, Subs
  <1>13. HandoffOK(h, sub', reveals')
    <2> SUFFICES ASSUME NEW o \in PanelOrders, o # z.order
                 PROVE /\ h[o].sub = 0 => h[o].password = 0
                       /\ h[o].sub # 0 => sub'[h[o].sub].password # 0 /\ h[o].password <= sub'[h[o].sub].password
                       /\ h[o].password # 0 => reveals'[h[o].sub] = 0 /\ \A x \in PanelOrders : h[x].password # 0 /\ h[x].sub = h[o].sub => x = o
      BY <1>6, <1>7 DEF HandoffOK
    <2>1. h[o] = handoff[o]
      BY <1>7
    <2>2. /\ handoff[o].sub = 0 => handoff[o].password = 0
          /\ handoff[o].sub # 0 => sub[handoff[o].sub].password # 0 /\ handoff[o].password <= sub[handoff[o].sub].password
          /\ handoff[o].password # 0 => reveals[handoff[o].sub] = 0 /\ \A x \in PanelOrders : handoff[x].password # 0 /\ handoff[x].sub = handoff[o].sub => x = o
      BY DEF PanelsInv, HandoffOK
    <2>3. handoff[o].password # 0 => handoff[o].sub # c /\ handoff[o].sub # 0
      BY <1>4, <2>2
    <2>4. \A x \in PanelOrders : h[x].password # 0 => h[x] = handoff[x]
      BY <1>6, <1>7
    <2> QED BY <2>1, <2>2, <2>3, <2>4, <1>8, <1>11, <1>12
  <1>14. ProvisionOK(IdleRequest, sub', h, owed, reveals', panelOrder)
    BY IdleIs DEF ProvisionOK
  <1>15. panelFaults = 0 => NothingLost(IdleRequest, sub', h, panelOrder)
    <2> SUFFICES ASSUME panelFaults = 0 PROVE NothingLost(IdleRequest, sub', h, panelOrder)
      OBVIOUS
    <2>1. \A s \in Subs : sub[s].password # 0 => Reachable(z, s, sub, handoff)
      BY DEF PanelsInv, NothingLost
    <2>2. ASSUME NEW s \in Subs, sub'[s].password # 0 PROVE Reachable(IdleRequest, s, sub', h)
      <3>1. CASE sub[s].known = sub[s].password
        BY <1>5, <3>1 DEF Reachable
      <3>2. ASSUME NEW o \in PanelOrders, handoff[o] = [sub |-> s, password |-> sub[s].password] PROVE Reachable(IdleRequest, s, sub', h)
        <4>1. CASE o = z.order
          <5>1. handoff[o].sub = s /\ handoff[o].password = sub[s].password
            BY <3>2
          <5>2. s = c /\ z.password = sub[c].password
            BY <1>3, <4>1, <5>1
          <5> QED BY <1>5, <5>2 DEF Reachable
        <4>2. CASE o # z.order
          BY <1>7, <1>11, <3>2, <4>2 DEF Reachable
        <4> QED BY <4>1, <4>2
      <3> QED BY <1>1, <1>11, <2>1, <2>2, <3>1, <3>2 DEF Reachable
    <2>3. \A o \in PanelOrders : h[o].sub # 0 => panelOrder[o] = "FULFILLED"
      BY <1>1, <1>6, <1>7 DEF PanelsInv, NothingLost
    <2> QED BY <2>2, <2>3 DEF NothingLost
  <1>16. BookOK(w)'
    <2>1. \A b \in Buyers : book.accounts[b] # 0 => book.accounts[b] \in Subs
      BY ResellerPanelsAssumption DEF PanelsInv, PanelTypes, PanelBooks, Subs
    <2> QED BY <1>2, <1>11, <2>1 DEF PanelsInv, BookOK
  <1>17. PanelTypes'
    BY <1>2, <1>5, <1>7, <1>8, <1>9 DEF PanelsInv, PanelTypes
  <1> QED BY <1>2, <1>9, <1>10, <1>13, <1>14, <1>15, <1>16, <1>17 DEF PanelsInv

\* A new password is set for c, or its row deleted: the request does not depend on it.
LEMMA AdminStep ==
  ASSUME NEW w, PanelProcs = {w}, PanelsInv(w), NEW c \in Subs,
         \/ resetPanelAccountPassword(w, c)
         \/ deleteAdmin(c)
  PROVE PanelsInv(w)'
  <1>1. UNCHANGED <<book, bookCache, panelOrder, request, handoff, owed, reveals, panelFaults>>
    BY DEF resetPanelAccountPassword, deleteAdmin
  <1>2. sub \in [Subs -> SubRows] /\ sub[c].password \in Nat /\ SubOK(sub[c], owed[c], reveals[c])
    BY DEF PanelsInv, PanelTypes, SubRows
  <1>3. CASE resetPanelAccountPassword(w, c)
    <2>1. PICK n \in Nat : n = sub[c].password + 1
      BY <1>2
    <2>2. sub' = [sub EXCEPT ![c].password = n, ![c].known = n] /\ request[w].at = "idle" /\ sub[c].exists
      BY <1>3, <2>1 DEF resetPanelAccountPassword, Rescuable
    <2>3. /\ sub' \in [Subs -> SubRows] /\ \A s \in Subs : s # c => sub'[s] = sub[s]
          /\ sub'[c].exists = sub[c].exists /\ sub'[c].quota = sub[c].quota /\ sub'[c].password = n /\ sub'[c].known = n
      BY <1>2, <2>2 DEF SubRows
    <2>4. \A s \in Subs : sub[s].password # 0 => sub'[s].password # 0 /\ sub[s].password <= sub'[s].password
      <3>1. \A s \in Subs : sub[s].password \in Nat
        BY <1>2 DEF SubRows
      <3> QED BY <2>1, <2>3, <3>1
    <2>5. BookOK(w)' /\ HandoffOK(handoff, sub', reveals)
      BY <1>1, <2>3, <2>4, PasswordsKept
    <2>6. \A s \in Subs : SubOK(sub'[s], owed[s], reveals[s])
      <3>1. n <= n /\ n # 0
        BY <1>2, <2>1
      <3> QED BY <1>2, <2>3, <3>1 DEF PanelsInv, SubOK
    <2>7. ProvisionOK(request[w], sub', handoff, owed, reveals, panelOrder)
      BY <2>2 DEF ProvisionOK
    <2>8. panelFaults = 0 => NothingLost(request[w], sub', handoff, panelOrder)
      BY <2>2, <2>3 DEF PanelsInv, NothingLost, Reachable
    <2>9. PanelTypes'
      BY <1>1, <2>3 DEF PanelsInv, PanelTypes
    <2> QED BY <1>1, <2>5, <2>6, <2>7, <2>8, <2>9 DEF PanelsInv
  <1>4. CASE deleteAdmin(c)
    <2>1. sub' = [sub EXCEPT ![c].exists = FALSE]
      BY <1>4 DEF deleteAdmin
    <2>2. /\ sub' \in [Subs -> SubRows]
          /\ \A s \in Subs : /\ sub'[s].quota = sub[s].quota /\ sub'[s].password = sub[s].password /\ sub'[s].known = sub[s].known
                             /\ sub'[s].exists => sub[s].exists
      BY <1>2, <2>1 DEF SubRows
    <2>4. \A s \in Subs : sub[s].password # 0 => sub'[s].password # 0 /\ sub[s].password <= sub'[s].password
      <3>1. \A s \in Subs : sub[s].password \in Nat
        BY <1>2 DEF SubRows
      <3> QED BY <2>2, <3>1
    <2>5. BookOK(w)' /\ HandoffOK(handoff, sub', reveals)
      BY <1>1, <2>2, <2>4, PasswordsKept
    <2>6. \A s \in Subs : SubOK(sub'[s], owed[s], reveals[s])
      BY <2>2 DEF PanelsInv, SubOK
    <2>7. ProvisionOK(request[w], sub', handoff, owed, reveals, panelOrder)
      BY <2>2 DEF PanelsInv, ProvisionOK
    <2>8. panelFaults = 0 => NothingLost(request[w], sub', handoff, panelOrder)
      BY <2>2 DEF PanelsInv, NothingLost, Reachable
    <2>9. PanelTypes'
      BY <1>1, <2>2 DEF PanelsInv, PanelTypes
    <2> QED BY <1>1, <2>5, <2>6, <2>7, <2>8, <2>9 DEF PanelsInv
  <1> QED BY <1>3, <1>4

(***************************************************************************)
(* One process that serves orders and the settings page, any number of     *)
(* orders, buyers and sub-panels, and any call of a provisioning failing:  *)
(* a sub-panel keeps the traffic that was paid for, a parked password is   *)
(* handed out at most once, and while nothing has failed none is lost.     *)
(***************************************************************************)
THEOREM SubPanelsAreSound == \A w : PanelProcs = {w} => (ResellerPanelsSpec => []SubPanelsSound)
<1> SUFFICES ASSUME NEW w, PanelProcs = {w} PROVE ResellerPanelsSpec => []SubPanelsSound
  OBVIOUS
<1>1. ResellerPanelsInit => PanelsInv(w)
  <2> SUFFICES ASSUME ResellerPanelsInit PROVE PanelsInv(w)
    OBVIOUS
  <2>1. NoSub \in SubRows /\ NoSub.password = 0 /\ NoSub.known = 0 /\ ~NoSub.exists /\ NoSub.quota = 0
    BY DEF NoSub, SubRows, Quotas, Unlimited
  <2>2. NoHandoff \in Handoffs /\ NoHandoff.sub = 0 /\ NoHandoff.password = 0
    BY ResellerPanelsAssumption DEF NoHandoff, Handoffs
  <2>3. book \in PanelBooks /\ \A b \in Buyers : book.accounts[b] = 0
    <3>1. NoLink \in Links /\ 0 \in 0..MaxSubs
      BY ResellerPanelsAssumption DEF NoLink, Links
    <3> QED BY <3>1 DEF ResellerPanelsInit, PanelBooks
  <2>4. bookCache \in [PanelProcs -> Seq(PanelBooks)] /\ bookCache[w] = <<>>
    <3>1. <<>> \in Seq(PanelBooks)
      OBVIOUS
    <3> QED BY <3>1 DEF ResellerPanelsInit
  <2>5. 0 \in Quotas
    BY DEF Quotas, Unlimited
  <2>6. PanelTypes /\ BookOK(w)
    BY <2>1, <2>2, <2>3, <2>4, <2>5, IdleIs DEF ResellerPanelsInit, PanelTypes, BookOK
  <2>7. \A s \in Subs : SubOK(sub[s], owed[s], reveals[s])
    <3>1. SubOK(NoSub, 0, 0)
      BY <2>1 DEF SubOK, Pays, Unlimited
    <3> QED BY <3>1 DEF ResellerPanelsInit
  <2>8. HandoffOK(handoff, sub, reveals)
    BY <2>2 DEF ResellerPanelsInit, HandoffOK
  <2>9. request[w] = IdleRequest
    BY DEF ResellerPanelsInit
  <2>10. ProvisionOK(request[w], sub, handoff, owed, reveals, panelOrder)
    BY <2>9, IdleIs DEF ProvisionOK
  <2>11. NothingLost(request[w], sub, handoff, panelOrder)
    BY <2>1, <2>2 DEF ResellerPanelsInit, NothingLost
  <2> QED BY <2>6, <2>7, <2>8, <2>10, <2>11 DEF PanelsInv
<1>2. PanelsInv(w) /\ [ResellerPanelsNext]_panelVars => PanelsInv(w)'
  <2> SUFFICES ASSUME PanelsInv(w), [ResellerPanelsNext]_panelVars PROVE PanelsInv(w)'
    OBVIOUS
  <2>1. CASE bookCacheExpires(w)
    BY <2>1, CacheStep
  <2>2. CASE savePanelPlan(w)
    BY <2>2, RelinkStep DEF savePanelPlan
  <2>3. CASE deletePanelPlan(w)
    <3>1. NoLink \in Links
      BY DEF NoLink, Links
    <3> QED BY <2>3, <3>1, RelinkStep DEF deletePanelPlan
  <2>4. ASSUME NEW o \in PanelOrders, beginProvision(w, o) PROVE PanelsInv(w)'
    BY <2>4, BeginStep
  <2>5. ASSUME NEW o \in PanelOrders, beginReveal(w, o) PROVE PanelsInv(w)'
    BY <2>5, BeginRevealStep
  <2>6. CASE writeAccount(w)
    BY <2>6, WriteAccountStep
  <2>7. CASE recordAccount(w)
    BY <2>7, RecordStep
  <2>8. CASE deliverPanelAccount(w)
    BY <2>8, DeliverStep
  <2>9. CASE parkPanelHandoff(w)
    BY <2>9, ParkStep
  <2>10. CASE finishOrder(w)
    BY <2>10, FinishStep
  <2>11. CASE provisionFails(w)
    BY <2>11, FailStep
  <2>12. CASE revealPanelHandoff(w)
    BY <2>12, RevealStep
  <2>13. ASSUME NEW s \in Subs, resetPanelAccountPassword(w, s) \/ deleteAdmin(s) PROVE PanelsInv(w)'
    BY <2>13, AdminStep
  <2>14. CASE UNCHANGED panelVars
    <3>1. UNCHANGED <<book, bookCache, sub, panelOrder, request, handoff, owed, reveals, panelFaults>>
      BY <2>14 DEF panelVars
    <3>2. PanelTypes' /\ BookOK(w)'
      BY <3>1 DEF PanelsInv, PanelTypes, BookOK
    <3> QED BY <3>1, <3>2 DEF PanelsInv
  <2> QED BY <2>1, <2>2, <2>3, <2>4, <2>5, <2>6, <2>7, <2>8, <2>9, <2>10, <2>11, <2>12, <2>13, <2>14 DEF ResellerPanelsNext
<1>3. PanelsInv(w) => SubPanelsSound
  <2> SUFFICES ASSUME PanelsInv(w) PROVE SubPanelsSound
    OBVIOUS
  <2>1. ResellerPanelsTypeOK
    BY DEF PanelsInv, PanelTypes, PanelBooks, Handoffs, SubRows, Quotas, SubOK, ResellerPanelsTypeOK
  <2>2. PaidTrafficKept
    BY DEF PanelsInv, SubOK, Pays, PaidTrafficKept
  <2>3. RevealedOnce
    BY DEF PanelsInv, SubOK, RevealedOnce
  <2>4. CredentialsNotLost
    <3> SUFFICES ASSUME panelFaults = 0, NEW s \in Subs, sub[s].exists, owed[s] # 0
                 PROVE sub[s].known = sub[s].password \/ \E o \in PanelOrders : handoff[o] = [sub |-> s, password |-> sub[s].password]
      BY DEF CredentialsNotLost
    <3>1. sub[s].password # 0 /\ Reachable(request[w], s, sub, handoff)
      BY DEF PanelsInv, SubOK, NothingLost
    <3>2. request[w].at \in {"book", "deliver", "park"} /\ request[w].password # 0 => owed[request[w].sub] = 0
      BY DEF PanelsInv, ProvisionOK
    <3> QED BY <3>1, <3>2 DEF Reachable
  <2> QED BY <2>1, <2>2, <2>3, <2>4 DEF SubPanelsSound
<1> QED BY <1>1, <1>2, <1>3, PTL DEF ResellerPanelsSpec

(* ------------------------------ bulk actions ----------------------------- *)

BulkTypes ==
  /\ rows \subseteq BulkClients /\ broken \subseteq BulkClients /\ stuck \subseteq BulkClients /\ targets \subseteq BulkClients
  /\ bulk \in [at : {"idle", "send", "serve", "done"}, action : {"", "addDays", "repushBroken", "deleteStale"},
               ids : SUBSET BulkClients, chosen : SUBSET BulkClients, round : Nat]
  /\ tally \in [requested : Nat, done : Nat] /\ touched \in [BulkClients -> Nat] /\ disturbed \in BOOLEAN

\* Which requests there are: none at rest, and none left over when one is sent.
RunForm ==
  /\ bulk.at = "idle" => bulk.chosen = {}
  /\ bulk.at # "serve" => targets = {}
  /\ bulk.at \in {"send", "serve", "done"} => (bulk.chosen # {} <=> bulk.action = "addDays") /\ bulk.action # ""

\* A selection: what is sent is not sent again, and what was served was touched once.
SelectionInv ==
  bulk.chosen # {} =>
    /\ bulk.ids \subseteq bulk.chosen /\ targets \subseteq bulk.chosen \ bulk.ids
    /\ \A c \in BulkClients : touched[c] <= 1
    /\ \A c \in BulkClients : touched[c] = 1 => c \in bulk.chosen /\ c \notin bulk.ids /\ c \notin targets
    /\ ~disturbed => bulk.chosen \subseteq rows /\ \A c \in bulk.chosen : c \in bulk.ids \/ c \in targets \/ touched[c] = 1
    /\ bulk.at = "done" /\ ~disturbed => bulk.ids = {}

\* A filter: a client whose panel accepts the push matches no more once it was touched.
TouchedInv ==
  \A c \in BulkClients : ~disturbed /\ c \notin stuck /\ touched[c] > 0 =>
    touched[c] = 1 /\ (bulk.at # "idle" /\ bulk.chosen = {} => c \notin targets /\ c \notin Matching)

\* The clients a filter has left when the requests sent so far have been served.
Left == Matching \ targets
Rounds == IF bulk.at = "serve" THEN bulk.round + 1 ELSE bulk.round
RoundInv ==
  ~disturbed /\ stuck = {} /\ bulk.chosen = {} =>
    /\ bulk.at \in {"send", "serve"} => bulk.round < ROUNDS /\ (Left = {} \/ Cardinality(Left) + CLIENT_BULK_MAX * Rounds <= Cardinality(BulkClients))
    /\ bulk.at = "serve" => targets \subseteq Matching /\ (tally.done = 0 => targets # {} \/ Matching = {})
    /\ bulk.at = "done" => Matching = {} \/ Cardinality(BulkClients) > CLIENT_BULK_MAX * ROUNDS

BulkInv == BulkTypes /\ RunForm /\ SelectionInv /\ TouchedInv /\ RoundInv

\* The limits, and the set of clients.
LEMMA BulkNumbers ==
  /\ CLIENT_BULK_MAX \in Nat \ {0} /\ CHUNK \in Nat \ {0} /\ ROUNDS \in Nat \ {0} /\ CHUNK <= CLIENT_BULK_MAX
  /\ BulkClients \subseteq Nat /\ IsFiniteSet(BulkClients) /\ Cardinality(BulkClients) \in Nat
  BY ClientBulkAssumption, FS_CardinalityType

\* The subsets of the clients are finite, and smaller than what they are part of.
LEMMA BulkFinite ==
  ASSUME NEW S \in SUBSET BulkClients
  PROVE  /\ IsFiniteSet(S) /\ Cardinality(S) \in Nat /\ Cardinality(S) <= Cardinality(BulkClients)
         /\ \A T \in SUBSET S : IsFiniteSet(T) /\ Cardinality(T) \in Nat /\ Cardinality(T) <= Cardinality(S)
                                /\ Cardinality(S \ T) = Cardinality(S) - Cardinality(T)
         /\ S # {} => Cardinality(S) # 0
  <1>1. IsFiniteSet(S) /\ Cardinality(S) <= Cardinality(BulkClients) /\ Cardinality(S) \in Nat
    BY BulkNumbers, FS_Subset, FS_CardinalityType
  <1>2. ASSUME NEW T \in SUBSET S
        PROVE  IsFiniteSet(T) /\ Cardinality(T) \in Nat /\ Cardinality(T) <= Cardinality(S) /\ Cardinality(S \ T) = Cardinality(S) - Cardinality(T)
    <2>1. IsFiniteSet(T) /\ Cardinality(T) \in Nat /\ Cardinality(T) <= Cardinality(S)
      BY <1>1, FS_Subset, FS_CardinalityType
    <2>2. Cardinality(S \ T) = Cardinality(S) - Cardinality(S \intersect T) /\ S \intersect T = T
      BY <1>1, <2>1, FS_Difference
    <2> QED BY <2>1, <2>2
  <1> QED BY <1>1, <1>2, FS_EmptySet

\* The n oldest of a set are n, or all of it; all when it has no more than n.
LEMMA OldestTakes ==
  ASSUME NEW S \in SUBSET BulkClients, NEW n \in Nat
  PROVE  /\ Oldest(S, n) \subseteq S
         /\ Oldest(S, n) = S \/ Cardinality(Oldest(S, n)) >= n
         /\ Cardinality(S) <= n => Oldest(S, n) = S
  <1> DEFINE T == Oldest(S, n)
             Before(c) == {d \in S : d < c}
  <1>0. S \subseteq Nat /\ T \in SUBSET S /\ Cardinality(T) \in Nat /\ Cardinality(S) \in Nat
    BY BulkNumbers, BulkFinite DEF Oldest
  <1>1. ASSUME T # S PROVE Cardinality(T) >= n
    <2>1. PICK c \in S \ T : \A d \in S \ T : c <= d
      BY <1>0, <1>1, SmallestThreshold
    <2>2. Before(c) \in SUBSET T
      <3> SUFFICES ASSUME NEW d \in S, d < c, d \notin T PROVE FALSE
        OBVIOUS
      <3>1. c <= d /\ c \in Nat /\ d \in Nat
        BY <1>0, <2>1
      <3> QED BY <3>1
    <2>3. ~(Cardinality(Before(c)) < n)
      BY <2>1 DEF Oldest
    <2>4. T \in SUBSET BulkClients
      BY <1>0
    <2> HIDE DEF T, Before
    <2>5. Cardinality(Before(c)) \in Nat /\ Cardinality(Before(c)) <= Cardinality(T)
      BY <2>2, <2>4, BulkFinite
    <2> QED BY <1>0, <2>3, <2>5
  <1>2. ASSUME Cardinality(S) <= n, NEW c \in S PROVE c \in T
    <2>1. Before(c) \in SUBSET (S \ {c}) /\ S \ {c} \in SUBSET S /\ {c} \in SUBSET S
      BY <1>0
    <2>2. Cardinality(S \ {c}) = Cardinality(S) - 1
      BY <2>1, BulkFinite, FS_Singleton
    <2>3. Cardinality(Before(c)) <= Cardinality(S \ {c}) /\ Cardinality(Before(c)) \in Nat
      <3>1. S \ {c} \in SUBSET BulkClients
        OBVIOUS
      <3> HIDE DEF Before
      <3> QED BY <2>1, <3>1, BulkFinite
    <2>4. Cardinality(Before(c)) < n
      BY <1>0, <1>2, <2>2, <2>3
    <2> QED BY <2>4 DEF Oldest
  <1> QED BY <1>0, <1>1, <1>2

\* The server takes a whole slice.
LEMMA SliceTaken ==
  ASSUME BulkTypes, NEW slice \in Slices(bulk.ids)
  PROVE  /\ slice \subseteq bulk.ids /\ slice \subseteq BulkClients /\ Cardinality(slice) <= CHUNK
         /\ bulk.chosen # {} => resolveBulkClients(slice) = slice \intersect rows
         /\ bulk.chosen = {} => resolveBulkClients(slice) = Oldest(Matching, CLIENT_BULK_MAX)
  <1>1. bulk.ids \subseteq BulkClients /\ slice \subseteq bulk.ids
    BY DEF BulkTypes, Slices
  <1>2. Cardinality(slice) <= CHUNK /\ Cardinality(slice) \in Nat
    <2>1. Cardinality(slice) = CHUNK \/ Cardinality(slice) < CHUNK
      BY DEF Slices
    <2> QED BY <1>1, <2>1, BulkNumbers, BulkFinite
  <1>3. Cardinality(slice \intersect rows) <= CLIENT_BULK_MAX
    <2>1. slice \in SUBSET BulkClients /\ slice \intersect rows \in SUBSET slice
      BY <1>1
    <2>2. Cardinality(slice \intersect rows) <= Cardinality(slice) /\ Cardinality(slice \intersect rows) \in Nat
      BY <2>1, BulkFinite
    <2> QED BY <1>2, <2>2, BulkNumbers
  <1>4. Oldest(slice \intersect rows, CLIENT_BULK_MAX) = slice \intersect rows
    <2>1. slice \intersect rows \in SUBSET BulkClients
      BY <1>1
    <2> QED BY <1>3, <2>1, OldestTakes, BulkNumbers
  <1> QED BY <1>1, <1>2, <1>4 DEF resolveBulkClients

\* The user starts a run.
LEMMA BulkRunStep ==
  ASSUME BulkInv, NEW action \in {"addDays", "repushBroken", "deleteStale"}, NEW chosen \in SUBSET rows, chosen # {} <=> action = "addDays",
         run(action, chosen)
  PROVE  BulkInv'
  <1> DEFINE b == [at |-> "send", action |-> action, ids |-> chosen, chosen |-> chosen, round |-> 0]
  <1>1. /\ rows \subseteq BulkClients /\ bulk' = b /\ UNCHANGED <<rows, broken, stuck, targets, tally>> /\ targets = {}
        /\ touched' = [c \in BulkClients |-> 0] /\ disturbed' = FALSE
    BY DEF BulkInv, BulkTypes, RunForm, run
  <1>2. /\ b.at = "send" /\ b.action = action /\ b.ids = chosen /\ b.chosen = chosen /\ b.round = 0
        /\ b \in [at : {"idle", "send", "serve", "done"}, action : {"", "addDays", "repushBroken", "deleteStale"},
                  ids : SUBSET BulkClients, chosen : SUBSET BulkClients, round : Nat]
    BY <1>1
  <1> HIDE DEF b
  <1>3. BulkTypes'
    BY <1>1, <1>2 DEF BulkInv, BulkTypes
  <1>4. RunForm' /\ SelectionInv' /\ TouchedInv'
    <2>1. RunForm'
      BY <1>1, <1>2 DEF RunForm
    <2>2. \A c \in BulkClients : touched'[c] = 0 /\ touched'[c] <= 1 /\ touched'[c] # 1
      BY <1>1
    <2>3. SelectionInv'
      <3>1. bulk'.ids = chosen /\ bulk'.chosen = chosen /\ targets' = {} /\ bulk'.at # "done" /\ chosen \subseteq rows'
        BY <1>1, <1>2
      <3> QED BY <2>2, <3>1 DEF SelectionInv
    <2>4. TouchedInv'
      BY <2>2 DEF TouchedInv
    <2> QED BY <2>1, <2>3, <2>4
  <1>5. RoundInv'
    <2>1. Left' \in SUBSET BulkClients /\ Rounds' = 0
      BY <1>1, <1>2, <1>3 DEF Left, Matching, Rounds, BulkTypes
    <2>2. Cardinality(Left') + CLIENT_BULK_MAX * 0 <= Cardinality(BulkClients)
      BY <2>1, BulkFinite, BulkNumbers
    <2>3. 0 < ROUNDS
      BY BulkNumbers
    <2> QED BY <1>1, <1>2, <2>1, <2>2, <2>3 DEF RoundInv
  <1> QED BY <1>3, <1>4, <1>5 DEF BulkInv

\* A request arrives at the server.
LEMMA BulkServeStep ==
  ASSUME BulkInv, NEW slice \in Slices(bulk.ids), runClientBulk(slice)
  PROVE  BulkInv'
  <1> DEFINE b == [bulk EXCEPT !.at = "serve", !.ids = @ \ slice]
             T == resolveBulkClients(slice)
  <1>0. /\ BulkTypes /\ RunForm /\ SelectionInv /\ TouchedInv /\ RoundInv /\ bulk.at = "send" /\ targets = {}
    BY DEF BulkInv, RunForm, runClientBulk
  <1>1. /\ bulk' = b /\ targets' = T /\ tally' = [requested |-> Cardinality(T), done |-> 0]
        /\ UNCHANGED <<rows, broken, stuck, touched, disturbed>>
    BY DEF runClientBulk
  <1>2. /\ b.at = "serve" /\ b.action = bulk.action /\ b.ids = bulk.ids \ slice /\ b.chosen = bulk.chosen /\ b.round = bulk.round
        /\ b \in [at : {"idle", "send", "serve", "done"}, action : {"", "addDays", "repushBroken", "deleteStale"},
                  ids : SUBSET BulkClients, chosen : SUBSET BulkClients, round : Nat]
    BY <1>0 DEF BulkTypes
  <1>3. /\ slice \subseteq bulk.ids /\ slice \subseteq BulkClients
        /\ bulk.chosen # {} => T = slice \intersect rows
        /\ bulk.chosen = {} => T = Oldest(Matching, CLIENT_BULK_MAX)
    BY <1>0, SliceTaken
  <1>4. Matching \in SUBSET BulkClients
    BY <1>0 DEF Matching, BulkTypes
  <1>5. T \subseteq BulkClients /\ (bulk.chosen = {} => T \subseteq Matching)
    <2>1. Oldest(Matching, CLIENT_BULK_MAX) \subseteq Matching
      BY <1>4, OldestTakes, BulkNumbers
    <2> HIDE DEF T
    <2> QED BY <1>3, <1>4, <2>1
  <1>6. Cardinality(T) \in Nat
    BY <1>5, BulkFinite
  <1> HIDE DEF b, T
  <1>7. Matching' = Matching
    BY <1>1, <1>2 DEF Matching
  <1>8. BulkTypes' /\ tally'.done = 0
    BY <1>0, <1>1, <1>2, <1>5, <1>6 DEF BulkTypes
  <1>9. RunForm'
    BY <1>0, <1>1, <1>2 DEF RunForm
  <1>10. SelectionInv'
    BY <1>0, <1>1, <1>2, <1>3 DEF SelectionInv
  <1>11. TouchedInv'
    BY <1>0, <1>1, <1>2, <1>5, <1>7 DEF TouchedInv
  <1>12. RoundInv'
    <2> SUFFICES ASSUME ~disturbed, stuck = {}, bulk.chosen = {}
                 PROVE  /\ bulk.round < ROUNDS /\ (Left' = {} \/ Cardinality(Left') + CLIENT_BULK_MAX * (bulk.round + 1) <= Cardinality(BulkClients))
                        /\ T \subseteq Matching /\ (T # {} \/ Matching = {})
      BY <1>1, <1>2, <1>7 DEF RoundInv, Rounds
    <2>1. /\ bulk.round < ROUNDS /\ bulk.round \in Nat
          /\ Matching = {} \/ Cardinality(Matching) + CLIENT_BULK_MAX * bulk.round <= Cardinality(BulkClients)
      BY <1>0 DEF RoundInv, Left, Rounds, BulkTypes
    <2>2. T = Matching \/ Cardinality(T) >= CLIENT_BULK_MAX
      BY <1>3, <1>4, OldestTakes, BulkNumbers
    <2>3. Left' = Matching \ T
      BY <1>1, <1>7 DEF Left
    <2>4. CASE T = Matching
      BY <1>5, <2>1, <2>3, <2>4
    <2>5. CASE T # Matching
      <3>1. Cardinality(Matching \ T) = Cardinality(Matching) - Cardinality(T) /\ Cardinality(Matching) \in Nat
        BY <1>4, <1>5, BulkFinite
      <3>2. Matching # {} /\ T # {}
        <4>1. Cardinality(T) # 0
          BY <1>6, <2>2, <2>5, BulkNumbers
        <4> QED BY <1>5, <4>1, FS_EmptySet
      <3>3. CLIENT_BULK_MAX * (bulk.round + 1) = CLIENT_BULK_MAX * bulk.round + CLIENT_BULK_MAX /\ CLIENT_BULK_MAX * bulk.round \in Nat
        BY <2>1, BulkNumbers
      <3>4. Cardinality(Left') + CLIENT_BULK_MAX * (bulk.round + 1) <= Cardinality(BulkClients)
        <4> DEFINE x == CLIENT_BULK_MAX * bulk.round
                   y == CLIENT_BULK_MAX * (bulk.round + 1)
                   l == Cardinality(Left')
                   m == Cardinality(Matching)
                   t == Cardinality(T)
                   k == Cardinality(BulkClients)
        <4>1. /\ x \in Nat /\ y = x + CLIENT_BULK_MAX /\ l = m - t /\ m \in Nat /\ t \in Nat /\ k \in Nat /\ CLIENT_BULK_MAX \in Nat
              /\ t >= CLIENT_BULK_MAX /\ m + x <= k
          BY <1>6, <2>1, <2>2, <2>3, <2>5, <3>1, <3>2, <3>3, BulkNumbers
        <4> HIDE DEF x, y, l, m, t, k
        <4>2. l + y <= k
          BY <4>1
        <4> QED BY <4>2 DEF l, y, k
      <3> QED BY <1>5, <2>1, <3>2, <3>4
    <2> QED BY <2>4, <2>5
  <1> QED BY <1>8, <1>9, <1>10, <1>11, <1>12 DEF BulkInv

\* The server goes through one client.
LEMMA BulkClientStep ==
  ASSUME BulkInv, NEW c \in BulkClients, bulkClient(c)
  PROVE  BulkInv'
  <1>0. /\ BulkTypes /\ RunForm /\ SelectionInv /\ TouchedInv /\ RoundInv /\ bulk.at = "serve" /\ c \in targets
        /\ touched \in [BulkClients -> Nat] /\ tally \in [requested : Nat, done : Nat]
    BY DEF BulkInv, BulkTypes, bulkClient
  <1>1. /\ targets' = targets \ {c} /\ UNCHANGED <<stuck, bulk, disturbed>>
        /\ touched' = IF c \in rows THEN [touched EXCEPT ![c] = @ + 1] ELSE touched
        /\ tally' = IF c \in rows THEN [tally EXCEPT !.done = @ + 1] ELSE tally
        /\ rows' = IF bulk.action = "deleteStale" THEN rows \ {c} ELSE rows
        /\ broken' = IF c \in stuck THEN broken \union {c} ELSE broken \ {c}
    BY DEF bulkClient
  <1>2. /\ touched' \in [BulkClients -> Nat] /\ \A d \in BulkClients : d # c => touched'[d] = touched[d]
        /\ touched'[c] = IF c \in rows THEN touched[c] + 1 ELSE touched[c]
    BY <1>0, <1>1
  <1>3. tally' \in [requested : Nat, done : Nat] /\ (c \in rows => tally'.done > 0)
    BY <1>0, <1>1
  <1>4. BulkTypes'
    BY <1>0, <1>1, <1>2, <1>3 DEF BulkTypes
  <1>5. RunForm'
    BY <1>0, <1>1 DEF RunForm
  <1>6. SelectionInv'
    <2> SUFFICES ASSUME bulk.chosen # {} PROVE SelectionInv'
      BY <1>1 DEF SelectionInv
    <2>1. bulk.action = "addDays" /\ rows' = rows
      BY <1>0, <1>1 DEF RunForm
    <2>2. touched[c] = 0 /\ c \in bulk.chosen /\ c \notin bulk.ids
      BY <1>0, <1>2 DEF SelectionInv
    <2> QED BY <1>0, <1>1, <1>2, <2>1, <2>2 DEF SelectionInv
  <1>7. TouchedInv'
    <2> SUFFICES ASSUME NEW d \in BulkClients, ~disturbed, d \notin stuck, touched'[d] > 0
                 PROVE  touched'[d] = 1 /\ (bulk.chosen = {} => d \notin targets' /\ d \notin Matching')
      BY <1>1 DEF TouchedInv
    <2>1. CASE bulk.chosen # {}
      BY <1>2, <1>6, <1>1, <2>1 DEF SelectionInv
    <2>2. CASE bulk.chosen = {} /\ d # c
      <3>1. touched[d] = 1 /\ d \notin targets /\ d \notin Matching
        BY <1>0, <1>2, <2>2 DEF TouchedInv
      <3>2. d \notin Matching'
        BY <1>1, <2>2, <3>1 DEF Matching
      <3> QED BY <1>1, <1>2, <2>2, <3>1, <3>2
    <2>3. CASE bulk.chosen = {} /\ d = c
      <3>1. touched[c] = 0
        BY <1>0, <1>2, <2>3 DEF TouchedInv
      <3>2. c \notin Matching'
        BY <1>0, <1>1, <2>3 DEF Matching, RunForm, BulkTypes
      <3> QED BY <1>0, <1>1, <1>2, <2>3, <3>1, <3>2
    <2> QED BY <2>1, <2>2, <2>3
  <1>8. RoundInv'
    <2> SUFFICES ASSUME ~disturbed, stuck = {}, bulk.chosen = {} PROVE RoundInv'
      BY <1>1 DEF RoundInv
    <2>1. targets \subseteq Matching /\ Matching \subseteq rows
      BY <1>0 DEF RoundInv, Matching
    <2>2. Matching' = Matching \ {c}
      BY <1>0, <1>1 DEF Matching, RunForm, BulkTypes
    <2>3. Left' = Left /\ Rounds' = Rounds
      BY <1>0, <1>1, <2>1, <2>2 DEF Left, Rounds
    <2>4. tally'.done # 0
      BY <1>0, <1>3, <2>1
    <2> QED BY <1>0, <1>1, <2>1, <2>2, <2>3, <2>4 DEF RoundInv
  <1> QED BY <1>4, <1>5, <1>6, <1>7, <1>8 DEF BulkInv

\* The answer comes back: another request, or the end.
LEMMA BulkAnswerStep ==
  ASSUME BulkInv, answered \/ answerLost
  PROVE  BulkInv'
  <1>0. /\ BulkTypes /\ RunForm /\ SelectionInv /\ TouchedInv /\ RoundInv /\ bulk.at = "serve" /\ targets = {}
    BY DEF BulkInv, answered, answerLost
  <1>1. UNCHANGED <<rows, broken, stuck, targets, tally, touched>>
    BY DEF answered, answerLost
  <1>2. ASSUME answered, bulk' = [bulk EXCEPT !.at = "send", !.round = @ + 1],
               IF bulk.chosen # {} THEN bulk.ids # {} ELSE tally.done > 0 /\ bulk.round + 1 < ROUNDS
        PROVE  BulkInv'
    <2>1. /\ bulk'.at = "send" /\ bulk'.action = bulk.action /\ bulk'.ids = bulk.ids /\ bulk'.chosen = bulk.chosen
          /\ bulk'.round = bulk.round + 1 /\ disturbed' = disturbed
          /\ bulk' \in [at : {"idle", "send", "serve", "done"}, action : {"", "addDays", "repushBroken", "deleteStale"},
                        ids : SUBSET BulkClients, chosen : SUBSET BulkClients, round : Nat]
      <3>0. bulk.round \in Nat
        BY <1>0 DEF BulkTypes
      <3>1. bulk.round + 1 \in Nat /\ disturbed' = disturbed
        BY <1>2, <3>0 DEF answered
      <3> DEFINE n == bulk.round + 1
      <3>2. n \in Nat /\ bulk' = [bulk EXCEPT !.at = "send", !.round = n]
        BY <1>2, <3>1
      <3> HIDE DEF n
      <3>3. /\ bulk'.at = "send" /\ bulk'.action = bulk.action /\ bulk'.ids = bulk.ids /\ bulk'.chosen = bulk.chosen /\ bulk'.round = n
            /\ bulk' \in [at : {"idle", "send", "serve", "done"}, action : {"", "addDays", "repushBroken", "deleteStale"},
                          ids : SUBSET BulkClients, chosen : SUBSET BulkClients, round : Nat]
        BY <1>0, <3>2 DEF BulkTypes
      <3> QED BY <3>1, <3>3 DEF n
    <2>2. Matching' = Matching /\ Left' = Left /\ Rounds' = Rounds
      BY <1>0, <1>1, <2>1 DEF Matching, Left, Rounds
    <2>3. BulkTypes' /\ RunForm'
      BY <1>0, <1>1, <2>1 DEF BulkTypes, RunForm
    <2>4. SelectionInv'
      BY <1>0, <1>1, <2>1 DEF SelectionInv
    <2>5. TouchedInv'
      BY <1>0, <1>1, <2>1, <2>2 DEF TouchedInv
    <2>6. RoundInv'
      BY <1>0, <1>1, <1>2, <2>1, <2>2 DEF RoundInv
    <2> QED BY <2>3, <2>4, <2>5, <2>6 DEF BulkInv
  <1>3. ASSUME bulk' = [bulk EXCEPT !.at = "done"],
               ~disturbed' => ~disturbed /\ IF bulk.chosen # {} THEN bulk.ids = {} ELSE tally.done = 0 \/ bulk.round + 1 >= ROUNDS,
               disturbed' \in BOOLEAN
        PROVE  BulkInv'
    <2>1. /\ bulk'.at = "done" /\ bulk'.action = bulk.action /\ bulk'.ids = bulk.ids /\ bulk'.chosen = bulk.chosen
          /\ bulk' \in [at : {"idle", "send", "serve", "done"}, action : {"", "addDays", "repushBroken", "deleteStale"},
                        ids : SUBSET BulkClients, chosen : SUBSET BulkClients, round : Nat]
      BY <1>0, <1>3 DEF BulkTypes
    <2>2. Matching' = Matching
      BY <1>1, <2>1 DEF Matching
    <2>3. BulkTypes' /\ RunForm'
      BY <1>0, <1>1, <1>3, <2>1 DEF BulkTypes, RunForm
    <2>4. SelectionInv'
      BY <1>0, <1>1, <1>3, <2>1 DEF SelectionInv
    <2>5. TouchedInv'
      BY <1>0, <1>1, <1>3, <2>1, <2>2 DEF TouchedInv
    <2>6. RoundInv'
      <3> SUFFICES ASSUME ~disturbed, stuck = {}, bulk.chosen = {}, tally.done = 0 \/ bulk.round + 1 >= ROUNDS
                   PROVE  Matching = {} \/ Cardinality(BulkClients) > CLIENT_BULK_MAX * ROUNDS
        BY <1>1, <1>3, <2>1, <2>2 DEF RoundInv
      <3>1. CASE tally.done = 0
        BY <1>0, <3>1 DEF RoundInv
      <3>2. CASE bulk.round + 1 >= ROUNDS
        <4>1. /\ bulk.round < ROUNDS /\ bulk.round \in Nat
              /\ Matching = {} \/ Cardinality(Matching) + CLIENT_BULK_MAX * (bulk.round + 1) <= Cardinality(BulkClients)
          BY <1>0 DEF RoundInv, Left, Rounds, BulkTypes
        <4>2. bulk.round + 1 = ROUNDS
          BY <3>2, <4>1, BulkNumbers
        <4>3. Cardinality(Matching) \in Nat /\ (Matching # {} => Cardinality(Matching) # 0)
          BY <1>0, BulkFinite DEF Matching, BulkTypes
        <4>4. CLIENT_BULK_MAX * ROUNDS \in Nat
          BY BulkNumbers
        <4> QED BY <4>1, <4>2, <4>3, <4>4, BulkNumbers
      <3> QED BY <3>1, <3>2
    <2> QED BY <2>3, <2>4, <2>5, <2>6 DEF BulkInv
  <1>4. CASE answerLost
    BY <1>3, <1>4 DEF answerLost, BulkFault
  <1>5. CASE answered
    <2>1. disturbed' = disturbed /\ disturbed \in BOOLEAN /\ tally.done \in Nat /\ bulk.round \in Nat
      BY <1>0, <1>5 DEF answered, BulkTypes
    <2>2. CASE IF bulk.chosen # {} THEN bulk.ids # {} ELSE tally.done > 0 /\ bulk.round + 1 < ROUNDS
      BY <1>2, <1>5, <2>2 DEF answered
    <2>3. CASE ~IF bulk.chosen # {} THEN bulk.ids # {} ELSE tally.done > 0 /\ bulk.round + 1 < ROUNDS
      <3>1. bulk' = [bulk EXCEPT !.at = "done"]
        BY <1>5, <2>3 DEF answered
      <3>2. IF bulk.chosen # {} THEN bulk.ids = {} ELSE tally.done = 0 \/ bulk.round + 1 >= ROUNDS
        BY <2>1, <2>3, BulkNumbers
      <3> QED BY <1>3, <2>1, <3>1, <3>2
    <2> QED BY <2>2, <2>3
  <1> QED BY <1>4, <1>5

\* A run ends in a fault, is over, or others change the clients meanwhile.
LEMMA BulkOtherSteps ==
  ASSUME BulkInv, onDone \/ \E c \in BulkClients : bulkClientFails(c) \/ clientGone(c) \/ panelRecovers(c)
  PROVE  BulkInv'
  <1>0. BulkTypes /\ RunForm /\ SelectionInv /\ TouchedInv /\ RoundInv
    BY DEF BulkInv
  <1>1. CASE onDone
    <2>1. /\ bulk' = NoRun /\ targets' = {} /\ tally' = NoTally /\ UNCHANGED <<rows, broken, stuck, touched, disturbed>>
      BY <1>1 DEF onDone
    <2>2. /\ NoRun.at = "idle" /\ NoRun.chosen = {} /\ NoTally \in [requested : Nat, done : Nat]
          /\ NoRun \in [at : {"idle", "send", "serve", "done"}, action : {"", "addDays", "repushBroken", "deleteStale"},
                        ids : SUBSET BulkClients, chosen : SUBSET BulkClients, round : Nat]
      BY DEF NoRun, NoTally
    <2>3. BulkTypes' /\ RunForm' /\ SelectionInv' /\ RoundInv'
      BY <1>0, <2>1, <2>2 DEF BulkTypes, RunForm, SelectionInv, RoundInv
    <2>4. TouchedInv'
      BY <1>0, <2>1, <2>2 DEF TouchedInv
    <2> QED BY <2>3, <2>4 DEF BulkInv
  <1>2. ASSUME NEW c \in BulkClients, bulkClientFails(c) \/ clientGone(c) \/ panelRecovers(c) PROVE BulkInv'
    <2>1. /\ disturbed' /\ disturbed' \in BOOLEAN /\ UNCHANGED <<bulk, tally, touched, broken>> /\ targets' \subseteq targets
          /\ rows' \subseteq rows /\ stuck' \subseteq stuck
      BY <1>2 DEF bulkClientFails, clientGone, panelRecovers, BulkFault
    <2>2. BulkTypes' /\ RunForm'
      BY <1>0, <2>1 DEF BulkTypes, RunForm
    <2>3. SelectionInv'
      BY <1>0, <2>1 DEF SelectionInv
    <2>4. TouchedInv' /\ RoundInv'
      BY <2>1 DEF TouchedInv, RoundInv
    <2> QED BY <2>2, <2>3, <2>4 DEF BulkInv
  <1> QED BY <1>1, <1>2

(***************************************************************************)
(* For any number of clients, and any caps of which a slice is no larger   *)
(* than what the server takes: a selected client is served once, a         *)
(* maintenance run that nothing disturbed leaves nothing that matches as   *)
(* long as its rounds can take all clients, and no client whose panel      *)
(* accepts the push is taken twice.                                        *)
(***************************************************************************)
THEOREM BulkActionsAreSound == ClientBulkSpec => []BulkSound
<1>1. ClientBulkInit => BulkInv
  <2> SUFFICES ASSUME ClientBulkInit PROVE BulkInv
    OBVIOUS
  <2>1. /\ NoRun.at = "idle" /\ NoRun.chosen = {} /\ NoTally \in [requested : Nat, done : Nat]
        /\ NoRun \in [at : {"idle", "send", "serve", "done"}, action : {"", "addDays", "repushBroken", "deleteStale"},
                      ids : SUBSET BulkClients, chosen : SUBSET BulkClients, round : Nat]
    BY DEF NoRun, NoTally
  <2>2. \A c \in BulkClients : ~(touched[c] > 0)
    BY DEF ClientBulkInit
  <2> QED BY <2>1, <2>2 DEF ClientBulkInit, BulkInv, BulkTypes, RunForm, SelectionInv, TouchedInv, RoundInv
<1>2. BulkInv /\ [ClientBulkNext]_bulkVars => BulkInv'
  <2> SUFFICES ASSUME BulkInv, [ClientBulkNext]_bulkVars PROVE BulkInv'
    OBVIOUS
  <2>1. ASSUME NEW chosen \in (SUBSET rows) \ {{}}, run("addDays", chosen) PROVE BulkInv'
    <3>1. chosen \in SUBSET rows /\ chosen # {}
      BY <2>1
    <3> QED BY <2>1, <3>1, BulkRunStep
  <2>2. ASSUME NEW action \in {"repushBroken", "deleteStale"}, run(action, {}) PROVE BulkInv'
    <3>1. action # "addDays" /\ {} \in SUBSET rows
      BY <2>2
    <3> QED BY <2>2, <3>1, BulkRunStep
  <2>3. CASE UNCHANGED bulkVars
    <3>1. UNCHANGED <<rows, broken, stuck, bulk, targets, tally, touched, disturbed>>
      BY <2>3 DEF bulkVars
    <3> QED BY <3>1 DEF BulkInv, BulkTypes, RunForm, SelectionInv, TouchedInv, RoundInv, Left, Rounds, Matching
  <2> QED BY <2>1, <2>2, <2>3, BulkServeStep, BulkClientStep, BulkAnswerStep, BulkOtherSteps DEF ClientBulkNext
<1>3. BulkInv => BulkSound
  <2> SUFFICES ASSUME BulkInv PROVE BulkSound
    OBVIOUS
  <2>0. \A c \in BulkClients : touched[c] \in Nat
    BY DEF BulkInv, BulkTypes
  <2>1. EachSelectedOnce
    <3> SUFFICES ASSUME bulk.chosen # {} PROVE EachSelectedOnce
      BY DEF EachSelectedOnce
    <3>1. ASSUME NEW c \in BulkClients PROVE touched[c] <= (IF c \in bulk.chosen THEN 1 ELSE 0)
      BY <2>0 DEF BulkInv, SelectionInv
    <3>2. ASSUME bulk.at = "done", ~disturbed, NEW c \in bulk.chosen PROVE touched[c] = 1
      BY <3>2 DEF BulkInv, SelectionInv, RunForm
    <3> QED BY <3>1, <3>2 DEF EachSelectedOnce
  <2>2. NothingLeft
    <3>1. CLIENT_BULK_MAX * ROUNDS \in Nat /\ Cardinality(BulkClients) \in Nat
      BY BulkNumbers
    <3> QED BY <3>1 DEF BulkInv, RoundInv, NothingLeft
  <2>3. NextBatch
    <3> SUFFICES ASSUME NEW c \in BulkClients, touched[c] > 1 PROVE bulk.chosen = {} /\ (c \in stuck \/ disturbed)
      BY DEF NextBatch
    <3>1. bulk.chosen = {}
      BY <2>0 DEF BulkInv, SelectionInv
    <3>2. touched[c] > 0 /\ touched[c] # 1
      BY <2>0
    <3> QED BY <3>1, <3>2 DEF BulkInv, TouchedInv
  <2> QED BY <2>1, <2>2, <2>3 DEF BulkSound
<1> QED BY <1>1, <1>2, <1>3, PTL DEF ClientBulkSpec

(* ------------------------- a client on its inbounds ---------------------- *)

Emails == {e \in Seq(Nat) : Len(e) <= 2 /\ e # NoRow}
PanelConfigs == [email : Emails, owner : {"ours", "other"}, inbs : SUBSET Inbounds]
PanelGroups == [s : Panels, email : Emails, inbs : SUBSET Inbounds]
TargetJobs ==
  [at : {"idle", "detach", "attach", "push"}, wanted : SUBSET Inbounds, snap : [Inbounds -> Emails \union {NoRow}],
   todo : SUBSET PanelGroups, attach : SUBSET SUBSET Inbounds, used : SUBSET (Panels \X Emails), errs : Nat]

TargetTypes ==
  /\ link \in [Inbounds -> Emails \union {NoRow}]
  /\ remote \in [Panels -> SUBSET PanelConfigs] /\ \A s \in Panels : \A c \in remote[s] : c.inbs \subseteq On(s)
  /\ job \in TargetJobs /\ nameTaken \in BOOLEAN /\ targetOps \in Nat /\ targetFaults \in 0..MaxTargetFaults
  /\ lastDone \in [added : SUBSET Inbounds, dropped : SUBSET Inbounds, errs : Nat, ever : BOOLEAN]

\* A client starts without rows.
FreshClient ==
  targetOps = 0 => /\ job.at = "idle" /\ lastDone.added = {} /\ lastDone.dropped = {}
                   /\ \A i \in Inbounds : link[i] = NoRow

\* The inbounds a request adds, and the one group of them that k is in.
Added(j) == j.wanted \ LinkRows(j.snap)
GroupOf(j, k) == {i \in Added(j) : ServerOf[i] = ServerOf[k] /\ ShapeOf[i] = ShapeOf[k]}

\* The groups still to be attached are whole groups, and every one of them leaves
\* room for an email of its own among the suffixes.
GroupsInv ==
  job.at \in {"detach", "attach"} =>
    /\ \A g \in job.attach : g # {} /\ \A k \in g : k \in Added(job) /\ g = GroupOf(job, k) /\ link[k] = NoRow
    /\ IsFiniteSet(job.used) /\ Cardinality(job.used) + Cardinality(UNION job.attach) <= Cardinality(Inbounds)

\* The rows of a group of links: all rows of that panel and email when the list was read.
WholeGroup(j, g) == g.inbs # {} /\ g.inbs = {i \in On(g.s) : j.snap[i] = g.email}

\* Detaching: a row is as it was read, or dropped; those of a group not yet handled are.
DetachInv ==
  job.at = "detach" =>
    /\ \A g \in job.todo : WholeGroup(job, g) /\ \A i \in g.inbs : link[i] = job.snap[i]
    /\ \A i \in Inbounds : link[i] = job.snap[i] \/ (link[i] = NoRow /\ i \notin job.wanted)
    /\ Added(job) \subseteq UNION job.attach
    /\ job.errs = 0 => \A i \in LinkRows(job.snap) \ job.wanted : link[i] = NoRow \/ \E g \in job.todo : i \in g.inbs

\* Another group has the email of a kept row of another shape.
MixedKept(i) == \E k \in Kept(job) : ServerOf[k] = ServerOf[i] /\ link[k] = link[i] /\ ShapeOf[k] # ShapeOf[i]

\* Attaching: one group at a time has its rows and not yet its config; the others are
\* served, unless an error was reported or their email is one of several shapes.
AttachInv ==
  job.at = "attach" =>
    /\ \A i \in Kept(job) : link[i] = job.snap[i]
    /\ \A g, h \in job.todo : g = h
    /\ \A g \in job.todo :
         /\ g.inbs # {} /\ \A k \in g.inbs : k \in Added(job) /\ g.inbs = GroupOf(job, k) /\ ServerOf[k] = g.s /\ link[k] = g.email
         /\ \A h \in job.attach : h \intersect g.inbs = {}
         /\ \A c \in Ours(g.s) : c.inbs \intersect g.inbs = {}
         /\ IF Hosts(g.inbs) = {} THEN Len(g.email) <= 1 ELSE \E k \in Hosts(g.inbs) : g.email = job.snap[k]
    /\ job.errs = 0 =>
         /\ \A i \in LinkRows(job.snap) \ job.wanted : link[i] = NoRow
         /\ \A i \in Added(job) : i \in UNION job.attach \/ (\E g \in job.todo : i \in g.inbs) \/ Served(i) \/ MixedKept(i)

\* Pushing: rows do not change, and a group is all rows of its email.
PushInv == job.at = "push" => job.snap = link /\ \A g \in job.todo : WholeGroup(job, g)

\* Between two requests that change rows: what the last one promised.
DoneInv ==
  job.at \in {"idle", "push"} /\ lastDone.errs = 0 =>
    /\ \A i \in lastDone.added : Served(i) \/ MixedRow(i)
    /\ \A i \in lastDone.dropped : link[i] = NoRow

\* A row has a config of ours, but for the group whose config is being made.
HasConfig(i) == \E c \in Ours(ServerOf[i]) : c.email = link[i]
OwnConfigs ==
  nameTaken /\ NoErrorYet => \A i \in Inbounds :
    \/ link[i] = NoRow \/ (job.at = "attach" /\ \E g \in job.todo : i \in g.inbs)
    \/ HasConfig(i)

TargetInv ==
  /\ TargetTypes /\ FreshClient /\ NoHiddenConfig
  /\ GroupsInv /\ DetachInv /\ AttachInv /\ PushInv
  /\ DoneInv /\ OwnConfigs /\ OthersUntouched

\* What the emails of a client look like: the label, and the label with one or two suffixes.
LEMMA EmailFacts ==
  /\ Label \in Emails /\ Len(Label) <= 1 /\ NoRow \notin Emails
  /\ \A n \in Nat : n >= 2 => <<n>> \in Emails /\ Len(<<n>>) <= 1
  /\ \A e \in Emails, n \in Nat : Len(e) <= 1 /\ n >= 2 => Append(e, n) \in Emails
<1>1. Label \in Emails /\ Len(Label) <= 1 /\ NoRow \notin Emails
  BY DEF Label, Emails, NoRow
<1>2. ASSUME NEW n \in Nat, n >= 2 PROVE <<n>> \in Emails /\ Len(<<n>>) <= 1
  BY <1>2 DEF Emails, NoRow
<1>3. ASSUME NEW e \in Emails, NEW n \in Nat, Len(e) <= 1, n >= 2 PROVE Append(e, n) \in Emails
  <2>1. e \in Seq(Nat) /\ Len(e) \in Nat
    BY DEF Emails
  <2>2. Append(e, n) \in Seq(Nat) /\ Len(Append(e, n)) = Len(e) + 1 /\ Append(e, n)[Len(e) + 1] = n
    BY <2>1
  <2>3. Append(e, n) # NoRow
    <3> SUFFICES ASSUME Append(e, n) = NoRow PROVE FALSE
      OBVIOUS
    <3>1. Len(e) + 1 = 1
      BY <2>2 DEF NoRow
    <3>2. Append(e, n)[1] = n
      BY <2>1, <2>2, <3>1
    <3> QED BY <1>3, <3>2 DEF NoRow
  <2> QED BY <1>3, <2>1, <2>2, <2>3 DEF Emails
<1> QED BY <1>1, <1>2, <1>3

\* The inbounds of a panel, and the constants.
LEMMA InboundFacts ==
  /\ \A i \in Inbounds : ServerOf[i] \in Panels /\ i \in On(ServerOf[i])
  /\ \A s \in Panels : On(s) \subseteq Inbounds /\ \A i \in On(s) : ServerOf[i] = s
  /\ IsFiniteSet(Inbounds) /\ Cardinality(Inbounds) \in Nat /\ PANEL_ATTEMPTS \in Nat \ {0} /\ MaxTargetFaults \in Nat
  BY ClientTargetsAssumption, FS_CardinalityType DEF Panels, On

\* The fields of a request that takes one group off its list.
LEMMA JobFields ==
  ASSUME TargetTypes, NEW todo \in SUBSET PanelGroups, NEW errs \in Nat, job' = [job EXCEPT !.todo = todo, !.errs = errs]
  PROVE  /\ job' \in TargetJobs /\ job'.todo = todo /\ job'.errs = errs
         /\ job'.at = job.at /\ job'.wanted = job.wanted /\ job'.snap = job.snap /\ job'.attach = job.attach /\ job'.used = job.used
  BY DEF TargetTypes, TargetJobs

\* The configs after one of them was written.
LEMMA PutConfigs ==
  ASSUME TargetTypes, NEW s \in Panels, NEW e \in Emails, NEW inbs \in SUBSET On(s), remote' = Put(s, e, inbs)
  PROVE  /\ remote' \in [Panels -> SUBSET PanelConfigs]
         /\ \A t \in Panels : \A c \in remote'[t] : c.inbs \subseteq On(t)
         /\ \A t \in Panels : t # s => remote'[t] = remote[t]
         /\ \A c : c \in remote'[s] <=> (c \in remote[s] /\ c.email # e) \/ c = [email |-> e, owner |-> "ours", inbs |-> inbs]
<1> DEFINE new == [email |-> e, owner |-> "ours", inbs |-> inbs]
<1>1. new \in PanelConfigs /\ new.inbs \subseteq On(s)
  BY InboundFacts DEF PanelConfigs
<1>2. remote' = [remote EXCEPT ![s] = (remote[s] \ Config(s, e)) \union {new}]
  BY DEF Put
<1>3. remote \in [Panels -> SUBSET PanelConfigs] /\ \A t \in Panels : \A c \in remote[t] : c.inbs \subseteq On(t)
  BY DEF TargetTypes
<1>4. remote'[s] = (remote[s] \ Config(s, e)) \union {new} /\ \A t \in Panels : t # s => remote'[t] = remote[t]
  BY <1>2, <1>3
<1>5. \A c : c \in remote'[s] <=> (c \in remote[s] /\ c.email # e) \/ c = new
  BY <1>4 DEF Config
<1> HIDE DEF new
<1>6. (remote[s] \ Config(s, e)) \union {new} \in SUBSET PanelConfigs
  BY <1>1, <1>3
<1>7. remote' \in [Panels -> SUBSET PanelConfigs]
  BY <1>2, <1>3, <1>6
<1>8. ASSUME NEW t \in Panels, NEW c \in remote'[t] PROVE c.inbs \subseteq On(t)
  <2>1. CASE t = s
    BY <1>1, <1>3, <1>5, <1>8, <2>1
  <2>2. CASE t # s
    BY <1>3, <1>4, <1>8, <2>2
  <2> QED BY <2>1, <2>2
<1> QED BY <1>4, <1>5, <1>7, <1>8 DEF new

\* Writing a config whose inbounds have its email: none is hidden by it, its inbounds are
\* served, and other configs serve what they served.
LEMMA PutStep ==
  ASSUME TargetTypes, NoHiddenConfig, NEW s \in Panels, NEW e \in Emails, NEW inbs \in SUBSET On(s), remote' = Put(s, e, inbs),
         \A i \in inbs : link'[i] = e,
         \A t \in Panels : \A c \in Ours(t) : \A i \in c.inbs : link'[i] # link[i] => t = s /\ c.email = e
  PROVE  /\ remote' \in [Panels -> SUBSET PanelConfigs] /\ \A t \in Panels : \A c \in remote'[t] : c.inbs \subseteq On(t)
         /\ NoHiddenConfig' /\ \A i \in inbs : Served(i)'
         /\ \A i \in Inbounds : link'[i] = link[i] /\ Served(i) /\ ~(ServerOf[i] = s /\ link[i] = e) => Served(i)'
         /\ \A i \in Inbounds : link'[i] = link[i] /\ HasConfig(i) => HasConfig(i)'
         /\ e # Label => \A t \in Panels : Theirs \in remote[t] => Theirs \in remote'[t]
<1> DEFINE new == [email |-> e, owner |-> "ours", inbs |-> inbs]
<1>1. /\ remote' \in [Panels -> SUBSET PanelConfigs]
      /\ \A t \in Panels : \A c \in remote'[t] : c.inbs \subseteq On(t)
      /\ \A t \in Panels : t # s => remote'[t] = remote[t]
      /\ \A c : c \in remote'[s] <=> (c \in remote[s] /\ c.email # e) \/ c = new
  BY PutConfigs
<1>2. new.email = e /\ new.owner = "ours" /\ new.inbs = inbs
  OBVIOUS
<1> HIDE DEF new
<1>3. NoHiddenConfig'
  <2>1. ASSUME NEW t \in Panels, NEW c \in remote'[t], NEW d \in remote'[t], c.email = d.email PROVE c = d
    <3>1. CASE t = s
      BY <1>1, <1>2, <2>1, <3>1 DEF NoHiddenConfig
    <3>2. CASE t # s
      BY <1>1, <2>1, <3>2 DEF NoHiddenConfig
    <3> QED BY <3>1, <3>2
  <2>2. ASSUME NEW t \in Panels, NEW c \in remote'[t], c.owner = "ours", NEW i \in c.inbs PROVE link'[i] = c.email
    <3>1. CASE t = s /\ c = new
      BY <1>2, <2>2, <3>1
    <3>2. CASE ~(t = s /\ c = new)
      <4>1. c \in remote[t] /\ ~(t = s /\ c.email = e)
        BY <1>1, <2>2, <3>2
      <4>2. link[i] = c.email /\ c \in Ours(t)
        BY <2>2, <4>1 DEF NoHiddenConfig, Ours
      <4> QED BY <2>2, <4>1, <4>2
    <3> QED BY <3>1, <3>2
  <2> QED BY <2>1, <2>2 DEF NoHiddenConfig, Ours
<1>4. new \in remote'[s]
  BY <1>1
<1>5. ASSUME NEW i \in inbs PROVE Served(i)'
  <2>1. ServerOf[i] = s /\ link'[i] = e
    BY InboundFacts
  <2> QED BY <1>2, <1>4, <2>1 DEF Served, Ours
<1>6. ASSUME NEW i \in Inbounds, link'[i] = link[i], Served(i), ~(ServerOf[i] = s /\ link[i] = e) PROVE Served(i)'
  <2>1. PICK c \in remote[ServerOf[i]] : c.owner = "ours" /\ c.email = link[i] /\ i \in c.inbs
    BY <1>6 DEF Served, Ours
  <2>2. c \in remote'[ServerOf[i]]
    BY <1>1, <1>6, <2>1, InboundFacts
  <2> QED BY <1>6, <2>1, <2>2 DEF Served, Ours
<1>7. ASSUME NEW i \in Inbounds, link'[i] = link[i], HasConfig(i) PROVE HasConfig(i)'
  <2>1. PICK c \in remote[ServerOf[i]] : c.owner = "ours" /\ c.email = link[i]
    BY <1>7 DEF HasConfig, Ours
  <2>2. \E d \in remote'[ServerOf[i]] : d.owner = "ours" /\ d.email = link[i]
    <3>1. CASE ServerOf[i] = s /\ c.email = e
      BY <1>2, <1>4, <2>1, <3>1
    <3>2. CASE ~(ServerOf[i] = s /\ c.email = e)
      BY <1>1, <2>1, <3>2, InboundFacts
    <3> QED BY <3>1, <3>2
  <2> QED BY <1>7, <2>2 DEF HasConfig, Ours
<1>8. ASSUME e # Label, NEW t \in Panels, Theirs \in remote[t] PROVE Theirs \in remote'[t]
  <2>1. Theirs.email = Label
    BY DEF Theirs
  <2> QED BY <1>1, <1>8, <2>1
<1> QED BY <1>1, <1>3, <1>5, <1>6, <1>7, <1>8

\* With an email of ours on a panel, the other customer's config is not of that email.
LEMMA OursIsNotTheirs ==
  ASSUME TargetTypes, NoHiddenConfig, nameTaken, NoErrorYet, OthersUntouched, NEW i \in Inbounds, HasConfig(i)
  PROVE  link[i] # Label
<1>1. ServerOf[i] \in Panels /\ Theirs \in remote[ServerOf[i]]
  BY InboundFacts DEF OthersUntouched
<1>2. PICK c \in remote[ServerOf[i]] : c.owner = "ours" /\ c.email = link[i]
  BY DEF HasConfig, Ours
<1>3. Theirs.email = Label /\ Theirs.owner = "other"
  BY DEF Theirs
<1>4. link[i] = Label => c = Theirs
  BY <1>1, <1>2, <1>3 DEF NoHiddenConfig
<1> QED BY <1>2, <1>3, <1>4

\* With fewer emails in use than there are inbounds, one of the suffixes is free.
LEMMA FreshEmailIsEmail ==
  ASSUME TargetTypes, NEW s \in Panels, IsFiniteSet(job.used), Cardinality(job.used) < Cardinality(Inbounds)
  PROVE  FreshEmail(s) \in Emails /\ Len(FreshEmail(s)) <= 1
<1> DEFINE N == Cardinality(Inbounds)
           D == 2..(N + 1)
           UsedSuffix(n) == <<s, <<n>>>> \in job.used
           Free == {n \in D : ~UsedSuffix(n)}
           First(n) == ~UsedSuffix(n) /\ \A m \in 2..(n - 1) : UsedSuffix(m)
<1>1. N \in Nat /\ IsFiniteSet(D) /\ Cardinality(D) = N
  <2>1. N \in Nat
    BY InboundFacts
  <2>2. IsFiniteSet(D) /\ Cardinality(D) = IF 2 > N + 1 THEN 0 ELSE (N + 1) - 2 + 1
    BY <2>1, FS_Interval
  <2> QED BY <2>1, <2>2
<1>2. Free # {}
  <2> SUFFICES ASSUME \A n \in D : UsedSuffix(n) PROVE FALSE
    OBVIOUS
  <2> DEFINE f == [n \in D |-> <<s, <<n>>>>]
  <2>1. f \in [D -> job.used]
    OBVIOUS
  <2>2. \A n, m \in D : f[n] = f[m] => n = m
    OBVIOUS
  <2> HIDE DEF f, D, N
  <2>3. \E n, m \in D : n # m /\ f[n] = f[m]
    BY <1>1, <2>1, FS_PigeonHole DEF N
  <2> QED BY <2>2, <2>3
<1>3. \E n \in D : First(n)
  <2>1. Free \in SUBSET Nat
    BY <1>1
  <2>2. PICK n \in Free : \A m \in Free : n <= m
    BY <1>2, <2>1, SmallestThreshold
  <2>3. ASSUME NEW m \in 2..(n - 1) PROVE UsedSuffix(m)
    <3>1. m \in D /\ ~(n <= m)
      BY <1>1, <2>1, <2>2
    <3> QED BY <2>2, <3>1
  <2> QED BY <2>2, <2>3
<1>4. FreshEmail(s) = IF <<s, Label>> \notin job.used THEN Label ELSE <<CHOOSE n \in D : First(n)>>
  BY DEF FreshEmail
<1>5. (CHOOSE n \in D : First(n)) \in D
  <2> HIDE DEF D, First
  <2> QED BY <1>3
<1> DEFINE n0 == CHOOSE n \in D : First(n)
<1>6. n0 \in Nat /\ n0 >= 2
  <2>1. n0 \in D
    BY <1>5
  <2> HIDE DEF n0
  <2> QED BY <1>1, <2>1
<1> HIDE DEF n0
<1>7. <<n0>> \in Emails /\ Len(<<n0>>) <= 1
  BY <1>6, EmailFacts
<1> QED BY <1>4, <1>7, EmailFacts DEF n0

\* The email addToPanel ends up with: free on the panel, and an email.
LEMMA FirstFreeTry ==
  ASSUME TargetTypes, NEW g \in PanelGroups, Len(g.email) <= 1, FreeTries(g) # {}
  PROVE  LET e == Tries(g.email)[CHOOSE a \in FreeTries(g) : \A b \in FreeTries(g) : a <= b]
         IN  e \in Emails /\ Config(g.s, e) = {}
<1> DEFINE a0 == CHOOSE a \in FreeTries(g) : \A b \in FreeTries(g) : a <= b
<1>1. g.email \in Emails /\ g.email \in Seq(Nat) /\ PANEL_ATTEMPTS \in Nat \ {0}
  BY InboundFacts DEF PanelGroups, Emails
<1>2. FreeTries(g) \in SUBSET Nat /\ FreeTries(g) \subseteq 1..PANEL_ATTEMPTS
  BY <1>1 DEF FreeTries
<1>3. \E a \in FreeTries(g) : \A b \in FreeTries(g) : a <= b
  BY <1>2, SmallestThreshold
<1>4. a0 \in FreeTries(g)
  <2> DEFINE P(a) == \A b \in FreeTries(g) : a <= b
  <2>1. \E a \in FreeTries(g) : P(a)
    BY <1>3
  <2> HIDE DEF P
  <2>2. (CHOOSE a \in FreeTries(g) : P(a)) \in FreeTries(g)
    BY <2>1
  <2> QED BY <2>2 DEF P
<1> HIDE DEF a0
<1>5. Config(g.s, Tries(g.email)[a0]) = {} /\ a0 \in 1..PANEL_ATTEMPTS
  BY <1>4 DEF FreeTries
<1>6. Tries(g.email)[a0] \in Emails
  <2> DEFINE more == [a \in 1..(PANEL_ATTEMPTS - 1) |-> Append(g.email, a + 1)]
  <2>1. more \in Seq(Seq(Nat)) /\ Len(more) = PANEL_ATTEMPTS - 1
    <3> DEFINE n == PANEL_ATTEMPTS - 1
               S == Seq(Nat)
    <3>1. \A a \in 1..n : Append(g.email, a + 1) \in S
      BY <1>1
    <3>2. n \in Nat
      BY <1>1
    <3>3. more \in [1..n -> S]
      BY <3>1
    <3> HIDE DEF more, n, S
    <3>4. more \in Seq(S) /\ Len(more) = n
      BY <3>2, <3>3
    <3> QED BY <3>4 DEF n, S
  <2>2. Tries(g.email) = <<g.email>> \o more
    BY DEF Tries
  <2> DEFINE one == <<g.email>>
  <2>3. one \in Seq(Seq(Nat)) /\ Len(one) = 1 /\ one[1] = g.email
    BY <1>1
  <2>4. CASE a0 = 1
    <3> HIDE DEF more, one
    <3>1. (one \o more)[1] = one[1]
      BY <2>1, <2>3, ConcatProperties
    <3> QED BY <1>1, <2>2, <2>3, <2>4, <3>1 DEF one
  <2>5. CASE a0 # 1
    <3>1. a0 - 1 \in 1..(PANEL_ATTEMPTS - 1) /\ a0 \in Nat /\ a0 >= 2 /\ a0 <= PANEL_ATTEMPTS
      BY <1>1, <1>5, <2>5
    <3>2. more[a0 - 1] = Append(g.email, a0)
      <4>1. more[a0 - 1] = Append(g.email, (a0 - 1) + 1)
        BY <3>1
      <4>2. (a0 - 1) + 1 = a0
        BY <3>1
      <4> QED BY <4>1, <4>2
    <3> HIDE DEF more, one
    <3>3. (one \o more)[a0] = more[a0 - 1]
      <4>1. a0 \in 1..(Len(one) + Len(more)) /\ ~(a0 <= Len(one)) /\ a0 - Len(one) = a0 - 1
        BY <1>1, <2>1, <2>3, <3>1
      <4>2. \A b \in 1..(Len(one) + Len(more)) : (one \o more)[b] = IF b <= Len(one) THEN one[b] ELSE more[b - Len(one)]
        BY <2>1, <2>3, ConcatProperties
      <4> QED BY <4>1, <4>2
    <3>4. Append(g.email, a0) \in Emails
      BY <1>1, <3>1, EmailFacts
    <3> QED BY <2>2, <3>2, <3>3, <3>4 DEF one
  <2> QED BY <2>4, <2>5
<1> QED BY <1>5, <1>6 DEF a0

\* What is derived from the list a request read and the one it was given.
LEMMA SameRequest ==
  ASSUME job'.wanted = job.wanted, job'.snap = job.snap
  PROVE  /\ Kept(job)' = Kept(job) /\ Added(job)' = Added(job) /\ LinkRows(job.snap)' = LinkRows(job.snap)
         /\ \A k : GroupOf(job, k)' = GroupOf(job, k)
         /\ \A g : Hosts(g)' = Hosts(g)
         /\ \A g : WholeGroup(job, g)' <=> WholeGroup(job, g)
  BY DEF Kept, Added, LinkRows, GroupOf, Hosts, WholeGroup

\* What is derived from the rows and the configs.
LEMMA SameRows ==
  ASSUME UNCHANGED <<link, remote>>
  PROVE  /\ NoHiddenConfig' <=> NoHiddenConfig
         /\ \A s : Ours(s)' = Ours(s)
         /\ \A i : (Served(i)' <=> Served(i)) /\ (HasConfig(i)' <=> HasConfig(i)) /\ (MixedRow(i)' <=> MixedRow(i))
  BY DEF NoHiddenConfig, Ours, Served, HasConfig, MixedRow

\* A call that comes to nothing leaves rows and configs alone, and an error.
LEMMA ErrorKeepsInv ==
  ASSUME TargetInv, NEW g \in job.todo, job' = [job EXCEPT !.todo = job.todo \ {g}, !.errs = job.errs + 1],
         UNCHANGED <<link, remote, lastDone, nameTaken, targetOps>>, targetFaults' \in 0..MaxTargetFaults
  PROVE  TargetInv'
<1>0. /\ TargetTypes /\ FreshClient /\ NoHiddenConfig /\ GroupsInv /\ DetachInv /\ AttachInv /\ PushInv
      /\ DoneInv /\ OwnConfigs /\ OthersUntouched
  BY DEF TargetInv
<1>1. /\ job' \in TargetJobs /\ job'.todo = job.todo \ {g} /\ job'.errs = job.errs + 1 /\ job.errs \in Nat
      /\ job'.at = job.at /\ job'.wanted = job.wanted /\ job'.snap = job.snap /\ job'.attach = job.attach /\ job'.used = job.used
  <2>1. job.todo \ {g} \in SUBSET PanelGroups /\ job.errs + 1 \in Nat /\ job.errs \in Nat
    BY <1>0 DEF TargetTypes, TargetJobs
  <2> QED BY <1>0, <2>1, JobFields
<1>2. UNCHANGED <<link, remote>> /\ targetFaults' \in 0..MaxTargetFaults
  OBVIOUS
<1>3. TargetTypes'
  BY <1>0, <1>1, <1>2 DEF TargetTypes
<1>4. /\ NoHiddenConfig' /\ \A s : Ours(s)' = Ours(s)
      /\ \A i : (Served(i)' <=> Served(i)) /\ (HasConfig(i)' <=> HasConfig(i)) /\ (MixedRow(i)' <=> MixedRow(i))
  BY <1>0, <1>2, SameRows
<1>5. /\ Kept(job)' = Kept(job) /\ Added(job)' = Added(job) /\ LinkRows(job.snap)' = LinkRows(job.snap)
      /\ \A k : GroupOf(job, k)' = GroupOf(job, k)
      /\ \A h : Hosts(h)' = Hosts(h)
      /\ \A h : WholeGroup(job, h)' <=> WholeGroup(job, h)
  BY <1>1, SameRequest
<1>6. job'.errs # 0
  BY <1>1
<1>7. FreshClient' /\ GroupsInv'
  BY <1>0, <1>1, <1>2, <1>5 DEF FreshClient, GroupsInv
<1>8. DetachInv'
  BY <1>0, <1>1, <1>2, <1>5, <1>6 DEF DetachInv
<1>9. AttachInv'
  BY <1>0, <1>1, <1>2, <1>4, <1>5, <1>6 DEF AttachInv
<1>10. PushInv'
  BY <1>0, <1>1, <1>2, <1>5 DEF PushInv
<1>11. DoneInv'
  BY <1>0, <1>1, <1>2, <1>4 DEF DoneInv
<1>12. NoErrorYet' => NoErrorYet /\ job.at \notin {"detach", "attach"}
  BY <1>1, <1>6 DEF NoErrorYet
<1>13. OwnConfigs'
  BY <1>0, <1>1, <1>2, <1>4, <1>12 DEF OwnConfigs
<1>14. OthersUntouched'
  BY <1>0, <1>2, <1>12 DEF OthersUntouched
<1> QED BY <1>3, <1>4, <1>7, <1>8, <1>9, <1>10, <1>11, <1>13, <1>14 DEF TargetInv

\* A panel call that fails without effect.
LEMMA FailedCallKeepsInv ==
  ASSUME TargetInv, NEW g \in job.todo, CallFailed(g), UNCHANGED <<lastDone, nameTaken, targetOps>>
  PROVE  TargetInv'
<1>1. targetFaults' \in 0..MaxTargetFaults
  BY InboundFacts DEF CallFailed, TargetInv, TargetTypes
<1>2. /\ job' = [job EXCEPT !.todo = job.todo \ {g}, !.errs = job.errs + 1]
      /\ UNCHANGED <<link, remote, lastDone, nameTaken, targetOps>>
  BY DEF CallFailed
<1> QED BY <1>1, <1>2, ErrorKeepsInv

\* Nothing is there, but perhaps another customer of the name.
LEMMA TargetsStart ==
  ASSUME ClientTargetsInit
  PROVE  TargetInv
<1>1. /\ link = [i \in Inbounds |-> NoRow] /\ nameTaken \in BOOLEAN /\ targetOps = 0 /\ targetFaults = 0
      /\ lastDone = [added |-> {}, dropped |-> {}, errs |-> 0, ever |-> FALSE]
      /\ \A s \in Panels : remote[s] = IF nameTaken THEN {Theirs} ELSE {}
  BY DEF ClientTargetsInit
<1>2. /\ job \in TargetJobs /\ job.at = "idle"
  BY DEF ClientTargetsInit, NoJob, TargetJobs
<1>3. Theirs \in PanelConfigs /\ Theirs.inbs = {} /\ Theirs.owner = "other"
  BY EmailFacts DEF Theirs, PanelConfigs
<1>4. remote \in [Panels -> SUBSET PanelConfigs]
  BY <1>3 DEF ClientTargetsInit
<1>5. TargetTypes
  <2>1. \A s \in Panels : \A c \in remote[s] : c.inbs \subseteq On(s)
    BY <1>1, <1>3
  <2>2. lastDone \in [added : SUBSET Inbounds, dropped : SUBSET Inbounds, errs : Nat, ever : BOOLEAN]
    BY <1>1
  <2> QED BY <1>1, <1>2, <1>4, <2>1, <2>2, InboundFacts DEF TargetTypes
<1>6. NoHiddenConfig
  BY <1>1, <1>3 DEF NoHiddenConfig, Ours
<1>7. FreshClient /\ GroupsInv /\ DetachInv /\ AttachInv /\ PushInv
  BY <1>1, <1>2 DEF FreshClient, GroupsInv, DetachInv, AttachInv, PushInv
<1>8. DoneInv /\ OwnConfigs /\ OthersUntouched
  BY <1>1, <1>2 DEF DoneInv, OwnConfigs, OthersUntouched
<1> QED BY <1>5, <1>6, <1>7, <1>8 DEF TargetInv

\* An adopted client has its rows and its config.
LEMMA ImportKeepsInv ==
  ASSUME TargetInv, NEW s \in Panels, NEW inbs \in SUBSET On(s), importClient(s, inbs)
  PROVE  TargetInv'
<1>0. TargetTypes /\ FreshClient /\ NoHiddenConfig /\ DoneInv /\ OwnConfigs /\ OthersUntouched
  BY DEF TargetInv
<1>1. /\ targetOps = 0 /\ targetOps' = 1 /\ remote' = Put(s, Label, inbs) /\ Config(s, Label) = {}
      /\ link' = [i \in Inbounds |-> IF i \in inbs THEN Label ELSE link[i]]
      /\ UNCHANGED <<job, lastDone, nameTaken, targetFaults>>
  BY DEF importClient
<1>2. /\ job.at = "idle" /\ lastDone.added = {} /\ lastDone.dropped = {} /\ \A i \in Inbounds : link[i] = NoRow
  BY <1>0, <1>1 DEF FreshClient
<1>3. link' \in [Inbounds -> Emails \union {NoRow}] /\ \A i \in inbs : link'[i] = Label
  BY <1>0, <1>1, EmailFacts, InboundFacts DEF TargetTypes
<1>4. \A t \in Panels : \A c \in Ours(t) : \A i \in c.inbs : FALSE
  <2> SUFFICES ASSUME NEW t \in Panels, NEW c \in Ours(t), NEW i \in c.inbs PROVE FALSE
    OBVIOUS
  <2>1. c \in remote[t] /\ link[i] = c.email
    BY <1>0 DEF NoHiddenConfig, Ours
  <2>2. c.email \in Emails /\ i \in Inbounds
    BY <1>0, <2>1 DEF TargetTypes, PanelConfigs
  <2> QED BY <1>2, <2>1, <2>2, EmailFacts
<1>5. /\ remote' \in [Panels -> SUBSET PanelConfigs] /\ \A t \in Panels : \A c \in remote'[t] : c.inbs \subseteq On(t)
      /\ NoHiddenConfig' /\ \A i \in inbs : Served(i)'
  BY <1>0, <1>1, <1>3, <1>4, EmailFacts, PutStep
<1>6. TargetTypes'
  BY <1>0, <1>1, <1>3, <1>5 DEF TargetTypes
<1>7. FreshClient' /\ GroupsInv' /\ DetachInv' /\ AttachInv' /\ PushInv' /\ DoneInv'
  BY <1>1, <1>2 DEF FreshClient, GroupsInv, DetachInv, AttachInv, PushInv, DoneInv
<1>8. ~(nameTaken' /\ NoErrorYet')
  <2> SUFFICES ASSUME nameTaken, NoErrorYet PROVE FALSE
    BY <1>1 DEF NoErrorYet
  <2>1. Theirs \in remote[s]
    BY <1>0 DEF OthersUntouched
  <2> QED BY <1>1, <2>1 DEF Config, Theirs
<1> QED BY <1>5, <1>6, <1>7, <1>8 DEF TargetInv, OwnConfigs, OthersUntouched

\* Groups of links are of the panel and email of their rows; groups of targets are whole.
LEMMA GroupsOfLinks ==
  ASSUME TargetTypes, NEW inbs \in SUBSET Inbounds, NEW g \in groupLinks(link, inbs)
  PROVE  /\ g \in PanelGroups /\ g.inbs # {} /\ g.inbs = {i \in On(g.s) : link[i] = g.email}
<1>1. PICK k \in inbs : link[k] # NoRow /\ g = [s |-> ServerOf[k], email |-> link[k], inbs |-> {i \in On(ServerOf[k]) : link[i] = link[k]}]
  BY DEF groupLinks
<1>2. g.s = ServerOf[k] /\ g.email = link[k] /\ g.inbs = {i \in On(ServerOf[k]) : link[i] = link[k]}
  BY <1>1
<1>3. link[k] \in Emails /\ ServerOf[k] \in Panels /\ k \in On(ServerOf[k]) /\ On(ServerOf[k]) \subseteq Inbounds
  BY <1>1, InboundFacts DEF TargetTypes
<1>4. g \in PanelGroups
  BY <1>1, <1>3 DEF PanelGroups
<1> QED BY <1>2, <1>3, <1>4

\* A request is taken: what it has to do is what differs.
LEMMA SetTargetsKeepsInv ==
  ASSUME TargetInv, NEW wanted \in SUBSET Inbounds, setClientTargets(wanted)
  PROVE  TargetInv'
<1> DEFINE L == LinkRows(link)
           A == wanted \ L
           K == L \intersect wanted
           U == {<<ServerOf[i], link[i]>> : i \in K}
<1>0. TargetTypes /\ NoHiddenConfig /\ OwnConfigs /\ OthersUntouched
  BY DEF TargetInv
<1>1. /\ job.at = "idle" /\ targetOps' = targetOps + 1 /\ UNCHANGED <<link, remote, lastDone, nameTaken, targetFaults>>
      /\ job' = [NoJob EXCEPT !.at = "detach", !.wanted = wanted, !.snap = link, !.todo = groupLinks(link, L \ wanted),
                              !.attach = groupTargets(A), !.used = U]
  BY DEF setClientTargets
<1>2. /\ job'.at = "detach" /\ job'.wanted = wanted /\ job'.snap = link /\ job'.todo = groupLinks(link, L \ wanted)
      /\ job'.attach = groupTargets(A) /\ job'.used = U /\ job'.errs = 0
  BY <1>1 DEF NoJob
<1>3. L \subseteq Inbounds /\ \A i \in L : link[i] \in Emails
  BY <1>0 DEF LinkRows, TargetTypes
<1>4. Added(job)' = A /\ \A k : GroupOf(job, k)' = {i \in A : ServerOf[i] = ServerOf[k] /\ ShapeOf[i] = ShapeOf[k]}
  BY <1>2 DEF Added, GroupOf
<1>5. ASSUME NEW g \in groupTargets(A) PROVE g # {} /\ g \subseteq A /\ \A k \in g : g = {i \in A : ServerOf[i] = ServerOf[k] /\ ShapeOf[i] = ShapeOf[k]}
  BY <1>5 DEF groupTargets
<1>6. UNION groupTargets(A) = A
  <2>1. \A k \in A : k \in {i \in A : ServerOf[i] = ServerOf[k] /\ ShapeOf[i] = ShapeOf[k]}
    OBVIOUS
  <2> HIDE DEF A
  <2> QED BY <1>5, <2>1 DEF groupTargets
<1>7. U \subseteq Panels \X Emails
  BY <1>3, InboundFacts
<1>8. \A g \in groupLinks(link, L \ wanted) : g \in PanelGroups /\ g.inbs # {} /\ g.inbs = {i \in On(g.s) : link[i] = g.email}
  <2>1. L \ wanted \in SUBSET Inbounds
    BY <1>3
  <2> HIDE DEF L
  <2> QED BY <1>0, <2>1, GroupsOfLinks
<1>9. job' \in TargetJobs
  <2>1. groupTargets(A) \in SUBSET SUBSET Inbounds
    BY <1>5
  <2> HIDE DEF U, A, L
  <2> QED BY <1>0, <1>1, <1>7, <1>8, <2>1 DEF TargetJobs, NoJob, TargetTypes
<1>10. TargetTypes'
  BY <1>0, <1>1, <1>9 DEF TargetTypes
<1>11. /\ NoHiddenConfig' /\ \A i : HasConfig(i)' <=> HasConfig(i)
  BY <1>0, <1>1, SameRows
<1>12. GroupsInv'
  <2>1. \A i \in A : link[i] = NoRow
    BY DEF LinkRows
  <2>2. ASSUME NEW g \in groupTargets(A) PROVE g # {} /\ \A k \in g : k \in Added(job)' /\ g = GroupOf(job, k)' /\ link'[k] = NoRow
    <3>1. g # {} /\ g \subseteq A /\ \A k \in g : g = {i \in A : ServerOf[i] = ServerOf[k] /\ ShapeOf[i] = ShapeOf[k]}
      BY <1>5
    <3>2. ASSUME NEW k \in g PROVE g = GroupOf(job, k)'
      <4>1. GroupOf(job, k)' = {i \in A : ServerOf[i] = ServerOf[k] /\ ShapeOf[i] = ShapeOf[k]}
        BY <1>2 DEF GroupOf, Added
      <4> HIDE DEF A
      <4> QED BY <3>1, <4>1
    <3>3. \A k \in g : k \in Added(job)' /\ link'[k] = NoRow
      BY <1>1, <1>4, <2>1, <3>1
    <3> QED BY <3>1, <3>2, <3>3
  <2>3. K \in SUBSET Inbounds /\ A \in SUBSET Inbounds /\ K \intersect A = {} /\ K \union A \in SUBSET Inbounds
    BY <1>3
  <2>4. IsFiniteSet(U) /\ Cardinality(U) <= Cardinality(K)
    <3> DEFINE f == [i \in K |-> <<ServerOf[i], link[i]>>]
    <3>1. f \in Surjection(K, U)
      BY DEF Surjection
    <3>2. IsFiniteSet(K)
      BY <2>3, InboundFacts, FS_Subset
    <3> HIDE DEF f, K, U
    <3> QED BY <3>1, <3>2, FS_Surjection
  <2> HIDE DEF K, A
  <2>5. IsFiniteSet(K) /\ IsFiniteSet(A) /\ Cardinality(K) \in Nat /\ Cardinality(A) \in Nat
    BY <2>3, InboundFacts, FS_Subset, FS_CardinalityType
  <2>6. Cardinality(K \union A) = Cardinality(K) + Cardinality(A) - Cardinality(K \intersect A) /\ Cardinality(K \intersect A) = 0
    BY <2>3, <2>5, FS_Union, FS_EmptySet
  <2>7. Cardinality(K \union A) <= Cardinality(Inbounds)
    BY <2>3, InboundFacts, FS_Subset
  <2> HIDE DEF U
  <2>8. Cardinality(U) \in Nat
    BY <2>4, FS_CardinalityType
  <2>9. Cardinality(U) + Cardinality(A) <= Cardinality(Inbounds)
    BY <2>4, <2>5, <2>6, <2>7, <2>8, InboundFacts
  <2>10. UNION job'.attach = A /\ job'.used = U /\ job'.attach = groupTargets(A)
    BY <1>2, <1>6
  <2>11. \A g \in job'.attach : g # {} /\ \A k \in g : k \in Added(job)' /\ g = GroupOf(job, k)' /\ link'[k] = NoRow
    BY <2>2, <2>10
  <2> QED BY <2>4, <2>9, <2>10, <2>11 DEF GroupsInv
<1>13. DetachInv'
  <2>1. \A g \in job'.todo : WholeGroup(job, g)' /\ \A i \in g.inbs : link'[i] = job'.snap[i]
    BY <1>1, <1>2, <1>8 DEF WholeGroup
  <2>2. ASSUME NEW i \in L \ wanted PROVE \E g \in groupLinks(link, L \ wanted) : i \in g.inbs
    <3> DEFINE g == [s |-> ServerOf[i], email |-> link[i], inbs |-> {k \in On(ServerOf[i]) : link[k] = link[i]}]
    <3>1. link[i] # NoRow /\ i \in Inbounds
      BY <2>2 DEF LinkRows
    <3>2. g \in groupLinks(link, L \ wanted)
      BY <2>2, <3>1 DEF groupLinks
    <3>3. i \in g.inbs
      BY <3>1, InboundFacts
    <3> QED BY <3>2, <3>3
  <2>3. LinkRows(job.snap)' = L
    BY <1>2
  <2>4. Added(job)' \subseteq UNION job'.attach
    BY <1>2, <1>4, <1>6
  <2> QED BY <1>1, <1>2, <2>1, <2>2, <2>3, <2>4 DEF DetachInv
<1>14. FreshClient' /\ AttachInv' /\ PushInv' /\ DoneInv'
  BY <1>0, <1>1, <1>2 DEF FreshClient, AttachInv, PushInv, DoneInv, TargetTypes
<1>15. NoErrorYet' => NoErrorYet
  BY <1>1 DEF NoErrorYet
<1>16. OwnConfigs' /\ OthersUntouched'
  BY <1>0, <1>1, <1>11, <1>15 DEF OwnConfigs, OthersUntouched
<1> QED BY <1>10, <1>11, <1>12, <1>13, <1>14, <1>16 DEF TargetInv

\* One email is detached: the rows that go are those of the config that shrinks or goes.
LEMMA DetachKeepsInv ==
  ASSUME TargetInv, NEW g \in job.todo, detach(g)
  PROVE  TargetInv'
<1> DEFINE keep == g.inbs \intersect job.wanted
           drop == g.inbs \ job.wanted
<1>0. /\ TargetTypes /\ FreshClient /\ NoHiddenConfig /\ GroupsInv /\ DetachInv /\ OwnConfigs /\ OthersUntouched
      /\ job.at = "detach" /\ UNCHANGED <<lastDone, nameTaken, targetOps>>
  BY DEF TargetInv, detach
<1>a. CASE CallFailed(g)
  BY <1>0, <1>a, FailedCallKeepsInv
<1>b. CASE /\ link' = [i \in Inbounds |-> IF i \in drop THEN NoRow ELSE link[i]]
           /\ remote' = IF Config(g.s, g.email) = {} THEN remote
                        ELSE IF keep # {} THEN Put(g.s, g.email, keep)
                        ELSE [remote EXCEPT ![g.s] = remote[g.s] \ Config(g.s, g.email)]
           /\ job' = [job EXCEPT !.todo = job.todo \ {g}] /\ UNCHANGED targetFaults
  <2>1. /\ job' \in TargetJobs /\ job'.todo = job.todo \ {g} /\ job'.errs = job.errs /\ job.errs \in Nat
        /\ job'.at = job.at /\ job'.wanted = job.wanted /\ job'.snap = job.snap /\ job'.attach = job.attach /\ job'.used = job.used
    BY <1>0, <1>b DEF TargetTypes, TargetJobs
  <2>2. /\ g \in PanelGroups /\ g.s \in Panels /\ g.email \in Emails /\ g.inbs # {} /\ g.inbs \subseteq On(g.s) /\ g.inbs \subseteq Inbounds
        /\ \A i \in g.inbs : link[i] = g.email /\ job.snap[i] = g.email /\ ServerOf[i] = g.s
        /\ \A i \in Inbounds : ServerOf[i] = g.s /\ job.snap[i] = g.email => i \in g.inbs
    <3>1. g \in PanelGroups /\ g.s \in Panels /\ g.email \in Emails
      BY <1>0 DEF TargetTypes, TargetJobs, PanelGroups
    <3>2. WholeGroup(job, g) /\ \A i \in g.inbs : link[i] = job.snap[i]
      BY <1>0 DEF DetachInv
    <3> QED BY <3>1, <3>2, InboundFacts DEF WholeGroup
  <2>3. /\ link' \in [Inbounds -> Emails \union {NoRow}]
        /\ \A i \in drop : link'[i] = NoRow
        /\ \A i \in Inbounds : i \notin drop => link'[i] = link[i]
    BY <1>0, <1>b, <2>2 DEF TargetTypes
  <2>4. ASSUME NEW t \in Panels, NEW c \in Ours(t), NEW i \in c.inbs, link'[i] # link[i] PROVE t = g.s /\ c.email = g.email
    <3>1. c \in remote[t] /\ link[i] = c.email
      BY <1>0 DEF NoHiddenConfig, Ours
    <3>2. i \in On(t) /\ i \in Inbounds /\ ServerOf[i] = t
      BY <1>0, <3>1, InboundFacts DEF TargetTypes
    <3> QED BY <2>2, <2>3, <2>4, <3>1, <3>2
  <2>5. /\ remote' \in [Panels -> SUBSET PanelConfigs] /\ \A t \in Panels : \A c \in remote'[t] : c.inbs \subseteq On(t)
        /\ NoHiddenConfig'
        /\ \A i \in Inbounds : link'[i] = link[i] /\ link[i] # NoRow /\ HasConfig(i) => HasConfig(i)'
        /\ g.email # Label => \A t \in Panels : Theirs \in remote[t] => Theirs \in remote'[t]
    <3>1. CASE Config(g.s, g.email) = {}
      <4>1. remote' = remote
        BY <1>b, <3>1
      <4>2. ASSUME NEW t \in Panels, NEW c \in Ours(t), NEW i \in c.inbs PROVE link'[i] = c.email
        <5>1. c \in remote[t] /\ link[i] = c.email
          BY <1>0 DEF NoHiddenConfig, Ours
        <5>2. ~(t = g.s /\ c.email = g.email)
          BY <3>1, <5>1 DEF Config
        <5> QED BY <2>4, <5>1, <5>2
      <4> QED BY <1>0, <4>1, <4>2 DEF NoHiddenConfig, Ours, HasConfig, TargetTypes
    <3>2. CASE Config(g.s, g.email) # {} /\ keep # {}
      <4>1. remote' = Put(g.s, g.email, keep) /\ keep \in SUBSET On(g.s)
        BY <1>b, <2>2, <3>2
      <4>2. \A i \in keep : link'[i] = g.email
        BY <2>2, <2>3
      <4> HIDE DEF keep
      <4> QED BY <1>0, <2>2, <2>4, <4>1, <4>2, PutStep
    <3>3. CASE Config(g.s, g.email) # {} /\ keep = {}
      <4>1. remote' = [remote EXCEPT ![g.s] = remote[g.s] \ Config(g.s, g.email)]
        BY <1>b, <3>3
      <4>2. remote \in [Panels -> SUBSET PanelConfigs]
        BY <1>0 DEF TargetTypes
      <4>3. \A t \in Panels : \A c : c \in remote'[t] <=> c \in remote[t] /\ ~(t = g.s /\ c.email = g.email)
        BY <2>2, <4>1, <4>2 DEF Config
      <4>4. remote' \in [Panels -> SUBSET PanelConfigs]
        BY <2>2, <4>1, <4>2
      <4>5. \A t \in Panels : \A c \in remote'[t] : c.inbs \subseteq On(t)
        BY <1>0, <4>3 DEF TargetTypes
      <4>6. NoHiddenConfig'
        <5>1. ASSUME NEW t \in Panels, NEW c \in remote'[t], c.owner = "ours", NEW i \in c.inbs PROVE link'[i] = c.email
          <6>1. c \in remote[t] /\ ~(t = g.s /\ c.email = g.email) /\ c \in Ours(t)
            BY <4>3, <5>1 DEF Ours
          <6>2. link[i] = c.email
            BY <1>0, <6>1 DEF NoHiddenConfig
          <6> QED BY <2>4, <6>1, <6>2
        <5>2. \A t \in Panels : \A c, d \in remote'[t] : c.email = d.email => c = d
          BY <1>0, <4>3 DEF NoHiddenConfig
        <5> QED BY <5>1, <5>2 DEF NoHiddenConfig, Ours
      <4>7. ASSUME NEW i \in Inbounds, link'[i] = link[i], link[i] # NoRow, HasConfig(i) PROVE HasConfig(i)'
        <5>1. PICK c \in remote[ServerOf[i]] : c.owner = "ours" /\ c.email = link[i]
          BY <4>7 DEF HasConfig, Ours
        <5>2. ~(ServerOf[i] = g.s /\ c.email = g.email)
          <6> SUFFICES ASSUME ServerOf[i] = g.s, link[i] = g.email PROVE FALSE
            BY <5>1
          <6>1. job.snap[i] = link[i]
            BY <1>0, <4>7 DEF DetachInv
          <6>2. i \in drop
            BY <2>2, <3>3, <6>1
          <6> QED BY <2>3, <4>7, <6>2
        <5>3. c \in remote'[ServerOf[i]]
          BY <4>3, <5>1, <5>2, InboundFacts
        <5> QED BY <4>7, <5>1, <5>3 DEF HasConfig, Ours
      <4>8. g.email # Label => \A t \in Panels : Theirs \in remote[t] => Theirs \in remote'[t]
        BY <4>3 DEF Theirs
      <4> QED BY <4>4, <4>5, <4>6, <4>7, <4>8
    <3> QED BY <3>1, <3>2, <3>3
  <2>6. TargetTypes'
    BY <1>0, <1>b, <2>1, <2>3, <2>5 DEF TargetTypes
  <2>7. /\ Added(job)' = Added(job) /\ LinkRows(job.snap)' = LinkRows(job.snap)
        /\ \A k : GroupOf(job, k)' = GroupOf(job, k)
        /\ \A h : WholeGroup(job, h)' <=> WholeGroup(job, h)
    BY <2>1, SameRequest
  <2>8. FreshClient' /\ AttachInv' /\ PushInv' /\ DoneInv'
    BY <1>0, <2>1 DEF FreshClient, AttachInv, PushInv, DoneInv
  <2>9. GroupsInv'
    <3>1. \A k \in Added(job) : k \in Inbounds
      BY <1>0 DEF Added, TargetTypes, TargetJobs
    <3>2. \A k \in Inbounds : link[k] = NoRow => link'[k] = NoRow
      BY <2>3
    <3> QED BY <1>0, <2>1, <2>7, <3>1, <3>2 DEF GroupsInv
  <2>10. DetachInv'
    <3>1. ASSUME NEW h \in job'.todo PROVE WholeGroup(job, h)' /\ \A i \in h.inbs : link'[i] = job'.snap[i]
      <4>1. h \in job.todo /\ h # g /\ h \in PanelGroups /\ WholeGroup(job, h) /\ \A i \in h.inbs : link[i] = job.snap[i]
        BY <1>0, <2>1 DEF DetachInv, TargetTypes, TargetJobs
      <4>2. h.s # g.s \/ h.email # g.email
        <5> SUFFICES ASSUME h.s = g.s, h.email = g.email PROVE FALSE
          OBVIOUS
        <5>1. WholeGroup(job, g)
          BY <1>0 DEF DetachInv
        <5>2. h.inbs = g.inbs
          BY <4>1, <5>1 DEF WholeGroup
        <5> QED BY <2>2, <4>1, <5>2 DEF PanelGroups
      <4>3. ASSUME NEW i \in h.inbs PROVE i \notin drop /\ i \in Inbounds
        <5>1. i \in On(h.s) /\ job.snap[i] = h.email /\ h.s \in Panels
          BY <4>1, <4>3 DEF WholeGroup, PanelGroups
        <5> QED BY <2>2, <4>2, <5>1, InboundFacts
      <4> QED BY <2>1, <2>3, <2>7, <4>1, <4>3
    <3>2. ASSUME NEW i \in Inbounds PROVE link'[i] = job'.snap[i] \/ (link'[i] = NoRow /\ i \notin job'.wanted)
      BY <1>0, <2>1, <2>3 DEF DetachInv
    <3>3. ASSUME job'.errs = 0, NEW i \in LinkRows(job.snap) \ job.wanted PROVE link'[i] = NoRow \/ \E h \in job'.todo : i \in h.inbs
      <4>1. i \in Inbounds
        BY DEF LinkRows
      <4>2. link[i] = NoRow \/ \E h \in job.todo : i \in h.inbs
        BY <1>0, <2>1, <3>3 DEF DetachInv
      <4>3. i \in g.inbs => link'[i] = NoRow
        BY <2>3, <3>3
      <4> QED BY <2>1, <2>3, <4>1, <4>2, <4>3
    <3>4. Added(job)' \subseteq UNION job'.attach
      BY <1>0, <2>1, <2>7 DEF DetachInv
    <3> QED BY <2>1, <2>7, <3>1, <3>2, <3>3, <3>4 DEF DetachInv
  <2>11. NoErrorYet' => NoErrorYet
    BY <1>0, <2>1 DEF NoErrorYet
  <2>12. ASSUME nameTaken, NoErrorYet PROVE \A i \in Inbounds : link[i] = NoRow \/ HasConfig(i)
    BY <1>0, <2>12 DEF OwnConfigs
  <2>13. OwnConfigs'
    BY <1>0, <2>3, <2>5, <2>11, <2>12 DEF OwnConfigs
  <2>14. OthersUntouched'
    <3> SUFFICES ASSUME nameTaken, NoErrorYet PROVE \A t \in Panels : Theirs \in remote'[t]
      BY <1>0, <2>11 DEF OthersUntouched
    <3>1. PICK k \in g.inbs : TRUE
      BY <2>2
    <3>2. k \in Inbounds /\ link[k] = g.email /\ link[k] # NoRow
      BY <2>2, EmailFacts
    <3>3. HasConfig(k)
      BY <2>12, <3>2
    <3>4. g.email # Label
      BY <1>0, <3>2, <3>3, OursIsNotTheirs
    <3> QED BY <1>0, <2>5, <3>4 DEF OthersUntouched
  <2> QED BY <2>5, <2>6, <2>8, <2>9, <2>10, <2>13, <2>14 DEF TargetInv
<1> QED BY <1>a, <1>b DEF detach

\* All emails were handled: what no error was reported for has no row any more.
LEMMA DetachedKeepsInv ==
  ASSUME TargetInv, detached
  PROVE  TargetInv'
<1>0. /\ TargetTypes /\ FreshClient /\ NoHiddenConfig /\ GroupsInv /\ DetachInv /\ OwnConfigs /\ OthersUntouched
      /\ job.at = "detach" /\ job.todo = {} /\ UNCHANGED <<link, remote, lastDone, nameTaken, targetOps, targetFaults>>
  BY DEF TargetInv, detached
<1>1. /\ job' \in TargetJobs /\ job'.todo = {} /\ job'.errs = job.errs
      /\ job'.at = "attach" /\ job'.wanted = job.wanted /\ job'.snap = job.snap /\ job'.attach = job.attach /\ job'.used = job.used
  BY <1>0 DEF TargetTypes, TargetJobs, detached
<1>2. /\ Kept(job)' = Kept(job) /\ Added(job)' = Added(job) /\ LinkRows(job.snap)' = LinkRows(job.snap)
      /\ \A k : GroupOf(job, k)' = GroupOf(job, k)
  BY <1>1, SameRequest
<1>3. NoHiddenConfig' /\ \A i : HasConfig(i)' <=> HasConfig(i)
  BY <1>0, SameRows
<1>4. TargetTypes' /\ FreshClient' /\ GroupsInv' /\ DetachInv' /\ PushInv' /\ DoneInv'
  BY <1>0, <1>1, <1>2 DEF TargetTypes, FreshClient, GroupsInv, DetachInv, PushInv, DoneInv
<1>5. AttachInv'
  <2>1. \A i \in Kept(job) : link'[i] = job'.snap[i]
    BY <1>0, <1>1 DEF DetachInv, Kept, LinkRows
  <2>2. job'.errs = 0 => \A i \in LinkRows(job.snap) \ job.wanted : link'[i] = NoRow
    BY <1>0, <1>1 DEF DetachInv
  <2>3. Added(job) \subseteq UNION job'.attach
    BY <1>0, <1>1 DEF DetachInv
  <2> QED BY <1>1, <1>2, <2>1, <2>2, <2>3 DEF AttachInv
<1>6. NoErrorYet' => NoErrorYet
  BY <1>0, <1>1 DEF NoErrorYet
<1>7. OwnConfigs' /\ OthersUntouched'
  BY <1>0, <1>1, <1>3, <1>6 DEF OwnConfigs, OthersUntouched
<1> QED BY <1>3, <1>4, <1>5, <1>7 DEF TargetInv

\* The rows of a group are created: they were none, and no config has them yet.
LEMMA AttachRowsKeepsInv ==
  ASSUME TargetInv, NEW g \in job.attach, attachRows(g)
  PROVE  TargetInv'
<1> DEFINE s == ServerOf[CHOOSE i \in g : TRUE]
<1>0. /\ TargetTypes /\ FreshClient /\ NoHiddenConfig /\ GroupsInv /\ AttachInv /\ OwnConfigs /\ OthersUntouched
      /\ job.at = "attach" /\ job.todo = {} /\ UNCHANGED <<remote, lastDone, nameTaken, targetOps, targetFaults>>
  BY DEF TargetInv, attachRows
<1>1. /\ g # {} /\ g \subseteq Inbounds /\ g \subseteq Added(job)
      /\ \A k \in g : k \in Added(job) /\ g = GroupOf(job, k) /\ link[k] = NoRow
  BY <1>0 DEF GroupsInv, Added, TargetTypes, TargetJobs
<1>2. s \in Panels /\ \A k \in g : ServerOf[k] = s
  <2> DEFINE i0 == CHOOSE i \in g : TRUE
  <2>1. i0 \in g
    BY <1>1
  <2> HIDE DEF i0
  <2>2. ServerOf[i0] \in Panels /\ \A k \in g : ServerOf[k] = ServerOf[i0]
    BY <1>1, <2>1, InboundFacts DEF GroupOf
  <2> QED BY <2>2 DEF i0
<1>3. PICK e \in IF Hosts(g) = {} THEN {FreshEmail(s)} ELSE {job.snap[k] : k \in Hosts(g)} :
        /\ link' = [i \in Inbounds |-> IF i \in g THEN e ELSE link[i]]
        /\ job' = [job EXCEPT !.attach = job.attach \ {g}, !.used = job.used \union {<<s, e>>},
                              !.todo = {[s |-> s, email |-> e, inbs |-> g]}]
  BY DEF attachRows
<1> HIDE DEF s
<1>4. UNION job.attach \in SUBSET Inbounds /\ IsFiniteSet(UNION job.attach) /\ Cardinality(UNION job.attach) \in Nat
      /\ IsFiniteSet(job.used) /\ Cardinality(job.used) \in Nat
      /\ Cardinality(job.used) + Cardinality(UNION job.attach) <= Cardinality(Inbounds)
  <2>1. UNION job.attach \in SUBSET Inbounds
    BY <1>0 DEF TargetTypes, TargetJobs
  <2>2. IsFiniteSet(job.used) /\ Cardinality(job.used) + Cardinality(UNION job.attach) <= Cardinality(Inbounds)
    BY <1>0 DEF GroupsInv
  <2> QED BY <2>1, <2>2, InboundFacts, FS_Subset, FS_CardinalityType
<1>5. PICK k0 \in g : k0 \in UNION job.attach
  BY <1>1
<1>6. Cardinality((UNION job.attach) \ {k0}) = Cardinality(UNION job.attach) - 1
  BY <1>4, <1>5, FS_RemoveElement
<1>7. /\ e \in Emails
      /\ IF Hosts(g) = {} THEN Len(e) <= 1 ELSE \E k \in Hosts(g) : e = job.snap[k]
  <2>1. CASE Hosts(g) = {}
    <3>1. Cardinality((UNION job.attach) \ {k0}) \in Nat
      BY <1>4, FS_RemoveElement, FS_CardinalityType
    <3>2. Cardinality(job.used) < Cardinality(Inbounds)
      BY <1>4, <1>6, <3>1, InboundFacts
    <3>3. FreshEmail(s) \in Emails /\ Len(FreshEmail(s)) <= 1
      BY <1>0, <1>2, <1>4, <3>2, FreshEmailIsEmail
    <3> QED BY <1>3, <2>1, <3>3
  <2>2. CASE Hosts(g) # {}
    <3>1. PICK k \in Hosts(g) : e = job.snap[k]
      BY <1>3, <2>2
    <3>2. job.snap[k] # NoRow /\ k \in Inbounds
      BY <3>1 DEF Hosts, Kept, LinkRows
    <3>3. job.snap[k] \in Emails
      BY <1>0, <3>2 DEF TargetTypes, TargetJobs
    <3> QED BY <2>2, <3>1, <3>3
  <2> QED BY <2>1, <2>2
<1> DEFINE new == [s |-> s, email |-> e, inbs |-> g]
<1>8. /\ new \in PanelGroups /\ new.s = s /\ new.email = e /\ new.inbs = g
  BY <1>1, <1>2, <1>7 DEF PanelGroups
<1>9. /\ job' \in TargetJobs /\ job'.todo = {new} /\ job'.errs = job.errs /\ job'.at = "attach" /\ job'.wanted = job.wanted
      /\ job'.snap = job.snap /\ job'.attach = job.attach \ {g} /\ job'.used = job.used \union {<<s, e>>}
  <2>1. job' = [job EXCEPT !.attach = job.attach \ {g}, !.used = job.used \union {<<s, e>>}, !.todo = {new}]
    BY <1>3
  <2> HIDE DEF new
  <2>2. <<s, e>> \in Panels \X Emails
    BY <1>2, <1>7
  <2> QED BY <1>0, <1>8, <2>1, <2>2 DEF TargetTypes, TargetJobs
<1> HIDE DEF new
<1>10. /\ link' \in [Inbounds -> Emails \union {NoRow}] /\ \A i \in g : link'[i] = e
       /\ \A i \in Inbounds : i \notin g => link'[i] = link[i]
  BY <1>0, <1>1, <1>3, <1>7 DEF TargetTypes
<1>11. TargetTypes'
  BY <1>0, <1>9, <1>10 DEF TargetTypes
<1>12. ASSUME NEW t \in Panels, NEW c \in Ours(t), NEW i \in c.inbs PROVE i \notin g /\ link'[i] = link[i] /\ link[i] = c.email
  <2>1. c \in remote[t] /\ link[i] = c.email
    BY <1>0 DEF NoHiddenConfig, Ours
  <2>2. c.email \in Emails /\ i \in Inbounds
    BY <1>0, <2>1 DEF TargetTypes, PanelConfigs
  <2> QED BY <1>1, <1>10, <2>1, <2>2, EmailFacts
<1>13. NoHiddenConfig'
  BY <1>0, <1>12 DEF NoHiddenConfig, Ours
<1>14. /\ Kept(job)' = Kept(job) /\ Added(job)' = Added(job) /\ LinkRows(job.snap)' = LinkRows(job.snap)
       /\ \A k : GroupOf(job, k)' = GroupOf(job, k)
       /\ \A h : Hosts(h)' = Hosts(h)
  BY <1>9, SameRequest
<1>15. \A h \in job'.attach : h \in job.attach /\ h \intersect g = {}
  BY <1>0, <1>1, <1>9 DEF GroupsInv
<1>16. GroupsInv'
  <2>1. ASSUME NEW h \in job'.attach PROVE h # {} /\ \A k \in h : k \in Added(job) /\ h = GroupOf(job, k) /\ link'[k] = NoRow
    BY <1>0, <1>10, <1>15, <2>1 DEF GroupsInv, Added, TargetTypes, TargetJobs
  <2>2. IsFiniteSet(job'.used) /\ Cardinality(job'.used) \in Nat /\ Cardinality(job'.used) <= Cardinality(job.used) + 1
    <3> DEFINE x == <<s, e>>
    <3>1. job'.used = job.used \union {x}
      BY <1>9
    <3> HIDE DEF x
    <3>2. /\ IsFiniteSet(job.used \union {x})
          /\ Cardinality(job.used \union {x}) = IF x \in job.used THEN Cardinality(job.used) ELSE Cardinality(job.used) + 1
      BY <1>4, FS_AddElement
    <3> QED BY <1>4, <3>1, <3>2
  <2>3. (UNION job'.attach) \in SUBSET ((UNION job.attach) \ {k0})
    BY <1>5, <1>15
  <2>4. IsFiniteSet((UNION job.attach) \ {k0})
    BY <1>4, FS_RemoveElement
  <2>5. Cardinality(UNION job'.attach) <= Cardinality((UNION job.attach) \ {k0}) /\ Cardinality(UNION job'.attach) \in Nat
    BY <2>3, <2>4, FS_Subset, FS_CardinalityType
  <2>6. Cardinality(job'.used) + Cardinality(UNION job'.attach) <= Cardinality(Inbounds)
    BY <1>4, <1>6, <2>2, <2>5, InboundFacts
  <2> QED BY <1>14, <2>1, <2>2, <2>6 DEF GroupsInv
<1>17. \A i \in Kept(job) : i \notin g /\ i \in Inbounds /\ link'[i] = link[i]
  BY <1>1, <1>10 DEF Kept, Added, LinkRows
<1>18. AttachInv'
  <2>1. \A i \in Kept(job) : link'[i] = job'.snap[i]
    BY <1>0, <1>9, <1>17 DEF AttachInv
  <2>2. ASSUME NEW h \in job'.todo
        PROVE  /\ h.inbs # {} /\ \A k \in h.inbs : k \in Added(job) /\ h.inbs = GroupOf(job, k) /\ ServerOf[k] = h.s /\ link'[k] = h.email
               /\ \A d \in job'.attach : d \intersect h.inbs = {}
               /\ \A c \in Ours(h.s)' : c.inbs \intersect h.inbs = {}
               /\ IF Hosts(h.inbs) = {} THEN Len(h.email) <= 1 ELSE \E k \in Hosts(h.inbs) : h.email = job'.snap[k]
    <3>1. h.inbs = g /\ h.s = s /\ h.email = e
      BY <1>8, <1>9
    <3>2. \A c \in Ours(s)' : c.inbs \intersect g = {}
      BY <1>0, <1>2, <1>12 DEF Ours
    <3> QED BY <1>1, <1>2, <1>7, <1>9, <1>10, <1>15, <3>1, <3>2
  <2>3. ASSUME job.errs = 0, NEW i \in LinkRows(job.snap) \ job.wanted PROVE link'[i] = NoRow
    BY <1>0, <1>1, <1>10, <2>3 DEF AttachInv, Added, LinkRows
  <2>4. ASSUME job.errs = 0, NEW i \in Added(job)
        PROVE  i \in UNION job'.attach \/ (\E h \in job'.todo : i \in h.inbs) \/ Served(i)' \/ MixedKept(i)'
    <3>1. CASE i \in g
      BY <1>8, <1>9, <3>1
    <3>2. CASE i \notin g
      <4>1. i \in Inbounds /\ link'[i] = link[i]
        BY <1>0, <1>10, <3>2 DEF Added, TargetTypes, TargetJobs
      <4>2. i \in UNION job.attach \/ Served(i) \/ MixedKept(i)
        BY <1>0, <2>4 DEF AttachInv
      <4>3. i \in UNION job.attach => i \in UNION job'.attach
        BY <1>9, <3>2
      <4>4. Served(i) => Served(i)'
        BY <1>0, <4>1 DEF Served, Ours
      <4>5. MixedKept(i) => MixedKept(i)'
        BY <1>14, <1>17, <4>1 DEF MixedKept
      <4> QED BY <4>2, <4>3, <4>4, <4>5
    <3> QED BY <3>1, <3>2
  <2>5. \A h, d \in job'.todo : h = d
    BY <1>9
  <2> QED BY <1>9, <1>14, <2>1, <2>2, <2>3, <2>4, <2>5 DEF AttachInv
<1>19. FreshClient' /\ DetachInv' /\ PushInv' /\ DoneInv'
  BY <1>0, <1>9 DEF FreshClient, DetachInv, PushInv, DoneInv
<1>20. NoErrorYet' => NoErrorYet
  BY <1>0, <1>9 DEF NoErrorYet
<1>21. OwnConfigs'
  <2> SUFFICES ASSUME nameTaken, NoErrorYet, NEW i \in Inbounds, i \notin g PROVE link'[i] = NoRow \/ HasConfig(i)'
    BY <1>0, <1>8, <1>9, <1>20 DEF OwnConfigs
  <2>1. link'[i] = link[i] /\ (link[i] = NoRow \/ HasConfig(i))
    BY <1>0, <1>10 DEF OwnConfigs
  <2> QED BY <1>0, <2>1 DEF HasConfig, Ours
<1>22. OthersUntouched'
  BY <1>0, <1>20 DEF OthersUntouched
<1> QED BY <1>11, <1>13, <1>16, <1>18, <1>19, <1>21, <1>22 DEF TargetInv

\* What is known of the group whose config is being made.
LEMMA AttachedGroup ==
  ASSUME TargetInv, job.at = "attach", NEW g \in job.todo
  PROVE  /\ g \in PanelGroups /\ g.s \in Panels /\ g.email \in Emails /\ g.inbs # {} /\ g.inbs \subseteq Inbounds /\ g.inbs \subseteq On(g.s)
         /\ \A k \in g.inbs : k \in Added(job) /\ g.inbs = GroupOf(job, k) /\ ServerOf[k] = g.s /\ link[k] = g.email
         /\ \A h \in job.todo : h = g
         /\ \A h \in job.attach : h \intersect g.inbs = {}
         /\ \A c \in Ours(g.s) : c.inbs \intersect g.inbs = {}
         /\ \A i \in Kept(job) : i \in Inbounds /\ i \notin g.inbs /\ link[i] = job.snap[i] /\ link[i] # NoRow
<1>0. TargetTypes /\ AttachInv
  BY DEF TargetInv
<1>1. g \in PanelGroups /\ g.s \in Panels /\ g.email \in Emails /\ g.inbs \subseteq Inbounds
  BY <1>0 DEF TargetTypes, TargetJobs, PanelGroups
<1>2. /\ g.inbs # {} /\ \A k \in g.inbs : k \in Added(job) /\ g.inbs = GroupOf(job, k) /\ ServerOf[k] = g.s /\ link[k] = g.email
      /\ \A h \in job.todo : h = g
      /\ \A h \in job.attach : h \intersect g.inbs = {}
      /\ \A c \in Ours(g.s) : c.inbs \intersect g.inbs = {}
  BY <1>0 DEF AttachInv
<1>3. g.inbs \subseteq On(g.s)
  BY <1>1, <1>2 DEF On
<1>4. \A i \in Kept(job) : i \in Inbounds /\ i \notin Added(job) /\ link[i] = job.snap[i] /\ link[i] # NoRow
  BY <1>0 DEF AttachInv, Kept, Added, LinkRows
<1> QED BY <1>1, <1>2, <1>3, <1>4

\* updateOnPanel: the config of the host serves the group and the kept rows of its email;
\* a group of another shape that joined it before is then of a mixed email.
LEMMA UpdateKeepsInv ==
  ASSUME TargetInv, NEW g \in job.todo, updateOnPanel(g)
  PROVE  TargetInv'
<1> DEFINE member == g.inbs \union {k \in Kept(job) : ServerOf[k] = g.s /\ job.snap[k] = g.email}
<1>0. /\ TargetTypes /\ FreshClient /\ NoHiddenConfig /\ GroupsInv /\ AttachInv /\ OwnConfigs /\ OthersUntouched
      /\ job.at = "attach" /\ Hosts(g.inbs) # {} /\ UNCHANGED <<lastDone, nameTaken, targetOps>>
  BY DEF TargetInv, updateOnPanel
<1>a. CASE CallFailed(g)
  BY <1>0, <1>a, FailedCallKeepsInv
<1>b. CASE /\ UNCHANGED <<link, targetFaults>>
           /\ remote' = IF Config(g.s, g.email) = {} THEN remote ELSE Put(g.s, g.email, member)
           /\ job' = [job EXCEPT !.todo = job.todo \ {g}, !.errs = IF Config(g.s, g.email) = {} THEN job.errs + 1 ELSE job.errs]
  <2>a. CASE Config(g.s, g.email) = {}
    <3>1. /\ job' = [job EXCEPT !.todo = job.todo \ {g}, !.errs = job.errs + 1]
          /\ UNCHANGED <<link, remote, lastDone, nameTaken, targetOps>> /\ targetFaults' \in 0..MaxTargetFaults
      BY <1>0, <1>b, <2>a DEF TargetTypes
    <3> QED BY <3>1, ErrorKeepsInv
  <2>b. CASE Config(g.s, g.email) # {}
    <3>1. /\ job' \in TargetJobs /\ job'.todo = job.todo \ {g} /\ job'.errs = job.errs /\ job.errs \in Nat
          /\ job'.at = job.at /\ job'.wanted = job.wanted /\ job'.snap = job.snap /\ job'.attach = job.attach /\ job'.used = job.used
      <4>1. job.todo \ {g} \in SUBSET PanelGroups /\ job.errs \in Nat
        BY <1>0 DEF TargetTypes, TargetJobs
      <4>2. job' = [job EXCEPT !.todo = job.todo \ {g}, !.errs = job.errs]
        BY <1>b, <2>b
      <4> QED BY <1>0, <4>1, <4>2, JobFields
    <3>2. /\ g.s \in Panels /\ g.email \in Emails /\ g.inbs \subseteq Inbounds /\ g.inbs \subseteq On(g.s)
          /\ \A k \in g.inbs : k \in Added(job) /\ g.inbs = GroupOf(job, k) /\ ServerOf[k] = g.s /\ link[k] = g.email
          /\ \A h \in job.todo : h = g
          /\ \A i \in Kept(job) : i \in Inbounds /\ i \notin g.inbs /\ link[i] = job.snap[i] /\ link[i] # NoRow
      BY <1>0, AttachedGroup
    <3>3. job'.todo = {}
      BY <3>1, <3>2
    <3>4. member \in SUBSET On(g.s) /\ \A i \in member : link'[i] = g.email
      BY <1>b, <3>2 DEF On
    <3>5. remote' = Put(g.s, g.email, member) /\ link' = link
      BY <1>b, <2>b
    <3>6. /\ remote' \in [Panels -> SUBSET PanelConfigs] /\ \A t \in Panels : \A c \in remote'[t] : c.inbs \subseteq On(t)
          /\ NoHiddenConfig' /\ \A i \in member : Served(i)'
          /\ \A i \in Inbounds : Served(i) /\ ~(ServerOf[i] = g.s /\ link[i] = g.email) => Served(i)'
          /\ \A i \in Inbounds : HasConfig(i) => HasConfig(i)'
          /\ g.email # Label => \A t \in Panels : Theirs \in remote[t] => Theirs \in remote'[t]
      <4> HIDE DEF member
      <4> QED BY <1>0, <3>2, <3>4, <3>5, PutStep
    <3>7. PICK k \in Hosts(g.inbs) : g.email = job.snap[k]
      BY <1>0 DEF AttachInv
    <3>8. PICK j \in g.inbs : k \in Kept(job) /\ ServerOf[k] = ServerOf[j] /\ ShapeOf[k] = ShapeOf[j]
      BY <3>7 DEF Hosts
    <3>9. TargetTypes'
      BY <1>0, <1>b, <3>1, <3>6 DEF TargetTypes
    <3>10. /\ Kept(job)' = Kept(job) /\ Added(job)' = Added(job) /\ LinkRows(job.snap)' = LinkRows(job.snap)
           /\ \A x : GroupOf(job, x)' = GroupOf(job, x)
      BY <3>1, SameRequest
    <3>11. FreshClient' /\ GroupsInv' /\ DetachInv' /\ PushInv' /\ DoneInv'
      BY <1>0, <3>1, <3>5, <3>10 DEF FreshClient, GroupsInv, DetachInv, PushInv, DoneInv
    <3>12. AttachInv'
      <4>1. ASSUME job.errs = 0, NEW i \in Added(job) PROVE i \in UNION job.attach \/ Served(i)' \/ MixedKept(i)'
        <5>1. i \in Inbounds
          BY <1>0 DEF Added, TargetTypes, TargetJobs
        <5>2. i \in UNION job.attach \/ i \in g.inbs \/ Served(i) \/ MixedKept(i)
          BY <1>0, <3>2, <4>1 DEF AttachInv
        <5>3. i \in g.inbs => Served(i)'
          BY <3>6
        <5>4. MixedKept(i) => MixedKept(i)'
          BY <3>5, <3>10 DEF MixedKept
        <5>5. ASSUME i \notin g.inbs, ServerOf[i] = g.s, link[i] = g.email PROVE MixedKept(i)'
          <6>1. ServerOf[k] = ServerOf[i] /\ link'[k] = link'[i]
            BY <3>2, <3>5, <3>7, <3>8, <5>5
          <6>2. ShapeOf[k] # ShapeOf[i]
            BY <3>2, <3>8, <5>5 DEF GroupOf
          <6> QED BY <3>8, <3>10, <6>1, <6>2 DEF MixedKept
        <5> QED BY <3>6, <5>1, <5>2, <5>3, <5>4, <5>5
      <4>2. job.errs = 0 => \A i \in LinkRows(job.snap) \ job.wanted : link'[i] = NoRow
        BY <1>0, <3>5 DEF AttachInv
      <4>3. \A i \in Kept(job) : link'[i] = job'.snap[i]
        BY <3>1, <3>2, <3>5
      <4> QED BY <3>1, <3>3, <3>10, <4>1, <4>2, <4>3 DEF AttachInv
    <3>13. NoErrorYet' => NoErrorYet
      BY <1>0, <3>1 DEF NoErrorYet
    <3>14. OwnConfigs'
      <4> SUFFICES ASSUME nameTaken, NoErrorYet, NEW i \in Inbounds PROVE link'[i] = NoRow \/ HasConfig(i)'
        BY <1>0, <3>13 DEF OwnConfigs
      <4>1. link[i] = NoRow \/ i \in g.inbs \/ HasConfig(i)
        BY <1>0, <3>2 DEF OwnConfigs
      <4>2. i \in g.inbs => HasConfig(i)'
        BY <3>6 DEF HasConfig, Served
      <4> QED BY <3>5, <3>6, <4>1, <4>2
    <3>15. OthersUntouched'
      <4> SUFFICES ASSUME nameTaken, NoErrorYet PROVE \A t \in Panels : Theirs \in remote'[t]
        BY <1>0, <3>13 DEF OthersUntouched
      <4>1. k \in Inbounds /\ link[k] = g.email /\ HasConfig(k)
        BY <1>0, <3>2, <3>7, <3>8 DEF OwnConfigs
      <4>2. g.email # Label
        BY <1>0, <4>1, OursIsNotTheirs
      <4> QED BY <1>0, <3>6, <4>2 DEF OthersUntouched
    <3> QED BY <3>6, <3>9, <3>11, <3>12, <3>14, <3>15 DEF TargetInv
  <2> QED BY <2>a, <2>b
<1> QED BY <1>a, <1>b DEF updateOnPanel

\* addToPanel: the group gets a config under an email that was free on the panel.
LEMMA AddKeepsInv ==
  ASSUME TargetInv, NEW g \in job.todo, addToPanel(g)
  PROVE  TargetInv'
<1> DEFINE e == Tries(g.email)[CHOOSE a \in FreeTries(g) : \A b \in FreeTries(g) : a <= b]
<1>0. /\ TargetTypes /\ FreshClient /\ NoHiddenConfig /\ GroupsInv /\ AttachInv /\ OwnConfigs /\ OthersUntouched
      /\ job.at = "attach" /\ Hosts(g.inbs) = {} /\ UNCHANGED <<lastDone, nameTaken, targetOps>>
  BY DEF TargetInv, addToPanel
<1>a. CASE CallFailed(g)
  BY <1>0, <1>a, FailedCallKeepsInv
<1>b. CASE job' = [job EXCEPT !.todo = job.todo \ {g}, !.errs = job.errs + 1] /\ UNCHANGED <<link, remote, targetFaults>>
  <2>1. targetFaults' \in 0..MaxTargetFaults
    BY <1>0, <1>b DEF TargetTypes
  <2> QED BY <1>0, <1>b, <2>1, ErrorKeepsInv
<1>c. CASE /\ FreeTries(g) # {} /\ remote' = Put(g.s, e, g.inbs)
           /\ link' = [i \in Inbounds |-> IF i \in g.inbs THEN e ELSE link[i]]
           /\ job' = [job EXCEPT !.todo = job.todo \ {g}] /\ UNCHANGED targetFaults
  <2>1. /\ job' \in TargetJobs /\ job'.todo = job.todo \ {g} /\ job'.errs = job.errs /\ job.errs \in Nat
        /\ job'.at = job.at /\ job'.wanted = job.wanted /\ job'.snap = job.snap /\ job'.attach = job.attach /\ job'.used = job.used
    BY <1>0, <1>c DEF TargetTypes, TargetJobs
  <2>2. /\ g \in PanelGroups /\ g.s \in Panels /\ g.inbs \subseteq Inbounds /\ g.inbs \in SUBSET On(g.s)
        /\ \A k \in g.inbs : k \in Added(job) /\ ServerOf[k] = g.s
        /\ \A h \in job.todo : h = g
        /\ \A h \in job.attach : h \intersect g.inbs = {}
        /\ \A c \in Ours(g.s) : c.inbs \intersect g.inbs = {}
        /\ \A i \in Kept(job) : i \in Inbounds /\ i \notin g.inbs /\ link[i] = job.snap[i]
    BY <1>0, AttachedGroup
  <2>3. Len(g.email) <= 1
    BY <1>0 DEF AttachInv
  <2>4. e \in Emails /\ Config(g.s, e) = {}
    BY <1>0, <1>c, <2>2, <2>3, FirstFreeTry
  <2> HIDE DEF e
  <2>5. /\ link' \in [Inbounds -> Emails \union {NoRow}] /\ \A i \in g.inbs : link'[i] = e
        /\ \A i \in Inbounds : i \notin g.inbs => link'[i] = link[i]
    BY <1>0, <1>c, <2>2, <2>4 DEF TargetTypes
  <2>6. ASSUME NEW t \in Panels, NEW c \in Ours(t), NEW i \in c.inbs PROVE link'[i] = link[i]
    <3>1. i \in On(t) /\ i \in Inbounds /\ ServerOf[i] = t
      BY <1>0, InboundFacts DEF Ours, TargetTypes
    <3>2. i \notin g.inbs
      BY <2>2, <2>6, <3>1
    <3> QED BY <2>5, <3>1, <3>2
  <2>7. /\ remote' \in [Panels -> SUBSET PanelConfigs] /\ \A t \in Panels : \A c \in remote'[t] : c.inbs \subseteq On(t)
        /\ NoHiddenConfig' /\ \A i \in g.inbs : Served(i)'
        /\ \A i \in Inbounds : link'[i] = link[i] /\ Served(i) /\ ~(ServerOf[i] = g.s /\ link[i] = e) => Served(i)'
        /\ \A i \in Inbounds : link'[i] = link[i] /\ HasConfig(i) => HasConfig(i)'
        /\ e # Label => \A t \in Panels : Theirs \in remote[t] => Theirs \in remote'[t]
    BY <1>0, <1>c, <2>2, <2>4, <2>5, <2>6, PutStep
  <2>8. TargetTypes'
    BY <1>0, <1>c, <2>1, <2>5, <2>7 DEF TargetTypes
  <2>9. /\ Kept(job)' = Kept(job) /\ Added(job)' = Added(job) /\ LinkRows(job.snap)' = LinkRows(job.snap)
        /\ \A x : GroupOf(job, x)' = GroupOf(job, x)
    BY <2>1, SameRequest
  <2>10. FreshClient' /\ DetachInv' /\ PushInv' /\ DoneInv'
    BY <1>0, <2>1 DEF FreshClient, DetachInv, PushInv, DoneInv
  <2>11. GroupsInv'
    <3>1. \A h \in job.attach : \A k \in h : k \in Inbounds /\ k \notin g.inbs
      BY <1>0, <2>2 DEF TargetTypes, TargetJobs
    <3> QED BY <1>0, <2>1, <2>5, <2>9, <3>1 DEF GroupsInv
  <2>12. AttachInv'
    <3>1. ASSUME job.errs = 0, NEW i \in Added(job) PROVE i \in UNION job.attach \/ Served(i)' \/ MixedKept(i)'
      <4>1. i \in Inbounds
        BY <1>0 DEF Added, TargetTypes, TargetJobs
      <4>2. i \in UNION job.attach \/ i \in g.inbs \/ Served(i) \/ MixedKept(i)
        BY <1>0, <2>2, <3>1 DEF AttachInv
      <4>3. CASE i \in g.inbs
        BY <2>7, <4>3
      <4>4. CASE i \notin g.inbs
        <5>1. link'[i] = link[i]
          BY <2>5, <4>1, <4>4
        <5>2. MixedKept(i) => MixedKept(i)'
          BY <2>2, <2>5, <2>9, <5>1 DEF MixedKept
        <5>3. Served(i) => ~(ServerOf[i] = g.s /\ link[i] = e)
          BY <2>4 DEF Served, Ours, Config
        <5> QED BY <2>7, <4>1, <4>2, <4>4, <5>1, <5>2, <5>3
      <4> QED BY <4>3, <4>4
    <3>2. ASSUME job.errs = 0, NEW i \in LinkRows(job.snap) \ job.wanted PROVE link'[i] = NoRow
      <4>1. i \in Inbounds /\ i \notin g.inbs
        BY <2>2 DEF LinkRows, Added
      <4> QED BY <1>0, <2>5, <3>2, <4>1 DEF AttachInv
    <3>3. \A i \in Kept(job) : link'[i] = job'.snap[i]
      BY <2>1, <2>2, <2>5
    <3>4. job'.todo = {}
      BY <2>1, <2>2
    <3> QED BY <2>1, <2>9, <3>1, <3>2, <3>3, <3>4 DEF AttachInv
  <2>13. NoErrorYet' => NoErrorYet
    BY <1>0, <2>1 DEF NoErrorYet
  <2>14. OwnConfigs'
    <3> SUFFICES ASSUME nameTaken, NoErrorYet, NEW i \in Inbounds PROVE link'[i] = NoRow \/ HasConfig(i)'
      BY <1>0, <2>13 DEF OwnConfigs
    <3>1. link[i] = NoRow \/ i \in g.inbs \/ HasConfig(i)
      BY <1>0, <2>2 DEF OwnConfigs
    <3>2. i \in g.inbs => HasConfig(i)'
      BY <2>7 DEF HasConfig, Served
    <3> QED BY <2>5, <2>7, <3>1, <3>2
  <2>15. OthersUntouched'
    <3> SUFFICES ASSUME nameTaken, NoErrorYet PROVE \A t \in Panels : Theirs \in remote'[t]
      BY <1>0, <2>13 DEF OthersUntouched
    <3>1. Theirs \in remote[g.s] /\ Theirs.email = Label
      BY <1>0, <2>2 DEF OthersUntouched, Theirs
    <3>2. e # Label
      BY <2>4, <3>1 DEF Config
    <3> QED BY <1>0, <2>7, <3>2 DEF OthersUntouched
  <2> QED BY <2>7, <2>8, <2>10, <2>11, <2>12, <2>14, <2>15 DEF TargetInv
<1> QED BY <1>a, <1>b, <1>c DEF addToPanel

\* A request that is over leaves no request.
LEMMA NoRequest ==
  NoJob \in TargetJobs /\ NoJob.at = "idle" /\ NoJob.errs = 0
  BY DEF NoJob, TargetJobs

\* The request is over: all it added is served or mixed, all it dropped has no row.
LEMMA SetDoneKeepsInv ==
  ASSUME TargetInv, setDone
  PROVE  TargetInv'
<1>0. /\ TargetTypes /\ FreshClient /\ NoHiddenConfig /\ AttachInv /\ OwnConfigs /\ OthersUntouched
      /\ job.at = "attach" /\ job.todo = {} /\ job.attach = {} /\ job' = NoJob
      /\ UNCHANGED <<link, remote, nameTaken, targetOps, targetFaults>>
  BY DEF TargetInv, setDone
<1>1. lastDone' = [added |-> Added(job), dropped |-> LinkRows(job.snap) \ job.wanted, errs |-> job.errs, ever |-> lastDone.ever \/ job.errs # 0]
  BY DEF setDone, Added
<1>2. /\ lastDone'.added = Added(job) /\ lastDone'.dropped = LinkRows(job.snap) \ job.wanted /\ lastDone'.errs = job.errs
      /\ lastDone'.ever = (lastDone.ever \/ job.errs # 0)
  BY <1>1
<1>3. job' \in TargetJobs /\ job'.at = "idle"
  BY <1>0, NoRequest
<1>4. lastDone' \in [added : SUBSET Inbounds, dropped : SUBSET Inbounds, errs : Nat, ever : BOOLEAN]
  <2>1. Added(job) \in SUBSET Inbounds /\ LinkRows(job.snap) \ job.wanted \in SUBSET Inbounds /\ job.errs \in Nat
    BY <1>0 DEF Added, LinkRows, TargetTypes, TargetJobs
  <2>2. (lastDone.ever \/ job.errs # 0) \in BOOLEAN
    OBVIOUS
  <2> QED BY <1>1, <2>1, <2>2
<1>5. TargetTypes'
  BY <1>0, <1>3, <1>4 DEF TargetTypes
<1>6. /\ NoHiddenConfig'
      /\ \A i : (Served(i)' <=> Served(i)) /\ (HasConfig(i)' <=> HasConfig(i)) /\ (MixedRow(i)' <=> MixedRow(i))
  BY <1>0, SameRows
<1>7. FreshClient' /\ GroupsInv' /\ DetachInv' /\ AttachInv' /\ PushInv'
  BY <1>0, <1>3 DEF FreshClient, GroupsInv, DetachInv, AttachInv, PushInv
<1>8. DoneInv'
  <2>1. ASSUME job.errs = 0, NEW i \in Added(job) PROVE Served(i) \/ MixedRow(i)
    <3>1. Served(i) \/ MixedKept(i)
      BY <1>0, <2>1 DEF AttachInv
    <3>2. MixedKept(i) => MixedRow(i)
      BY DEF MixedKept, MixedRow, Kept, LinkRows
    <3> QED BY <3>1, <3>2
  <2>2. job.errs = 0 => \A i \in LinkRows(job.snap) \ job.wanted : link[i] = NoRow
    BY <1>0 DEF AttachInv
  <2> QED BY <1>0, <1>2, <1>6, <2>1, <2>2 DEF DoneInv
<1>9. NoErrorYet' => NoErrorYet
  BY <1>0, <1>2 DEF NoErrorYet
<1>10. OwnConfigs' /\ OthersUntouched'
  BY <1>0, <1>6, <1>9 DEF OwnConfigs, OthersUntouched
<1> QED BY <1>5, <1>6, <1>7, <1>8, <1>10 DEF TargetInv

\* A push begins or ends: rows, configs and what was promised of them stay.
LEMMA PushEndsKeepInv ==
  ASSUME TargetInv, job.at \in {"idle", "push"}, UNCHANGED <<link, remote, lastDone, nameTaken, targetFaults>>,
         job' \in TargetJobs, job'.at \in {"idle", "push"}, targetOps' \in Nat, targetOps' = 0 => targetOps = 0 /\ job'.at = "idle", PushInv'
  PROVE  TargetInv'
<1>0. /\ TargetTypes /\ FreshClient /\ NoHiddenConfig /\ DoneInv /\ OwnConfigs /\ OthersUntouched
  BY DEF TargetInv
<1>1. /\ NoHiddenConfig'
      /\ \A i : (Served(i)' <=> Served(i)) /\ (HasConfig(i)' <=> HasConfig(i)) /\ (MixedRow(i)' <=> MixedRow(i))
  BY <1>0, SameRows
<1>2. TargetTypes'
  BY <1>0 DEF TargetTypes
<1>3. FreshClient' /\ GroupsInv' /\ DetachInv' /\ AttachInv' /\ DoneInv'
  BY <1>0, <1>1 DEF FreshClient, GroupsInv, DetachInv, AttachInv, DoneInv
<1>4. NoErrorYet' => NoErrorYet
  BY DEF NoErrorYet
<1>5. OwnConfigs' /\ OthersUntouched'
  BY <1>0, <1>1, <1>4 DEF OwnConfigs, OthersUntouched
<1> QED BY <1>1, <1>2, <1>3, <1>5 DEF TargetInv

\* One email is pushed: its config serves all rows of the email.
LEMMA PushGroupKeepsInv ==
  ASSUME TargetInv, NEW g \in job.todo, pushGroup(g)
  PROVE  TargetInv'
<1>0. /\ TargetTypes /\ FreshClient /\ NoHiddenConfig /\ PushInv /\ DoneInv /\ OwnConfigs /\ OthersUntouched
      /\ job.at = "push" /\ UNCHANGED <<lastDone, nameTaken, targetOps>>
  BY DEF TargetInv, pushGroup
<1>a. CASE CallFailed(g)
  BY <1>0, <1>a, FailedCallKeepsInv
<1>b. CASE /\ remote' = IF Config(g.s, g.email) = {} THEN remote ELSE Put(g.s, g.email, g.inbs)
           /\ job' = [job EXCEPT !.todo = job.todo \ {g}] /\ UNCHANGED <<link, targetFaults>>
  <2>1. /\ job' \in TargetJobs /\ job'.todo = job.todo \ {g} /\ job'.at = "push" /\ job'.snap = job.snap
    BY <1>0, <1>b DEF TargetTypes, TargetJobs
  <2>2. PushInv'
    BY <1>0, <1>b, <2>1 DEF PushInv, WholeGroup
  <2>3. /\ g.s \in Panels /\ g.email \in Emails /\ g.inbs # {} /\ g.inbs \in SUBSET On(g.s) /\ g.inbs = {i \in On(g.s) : link[i] = g.email}
    BY <1>0 DEF PushInv, WholeGroup, TargetTypes, TargetJobs, PanelGroups
  <2>a. CASE Config(g.s, g.email) = {}
    <3>1. UNCHANGED <<link, remote, lastDone, nameTaken, targetFaults>>
      BY <1>0, <1>b, <2>a
    <3>2. targetOps' \in Nat /\ (targetOps' = 0 => targetOps = 0 /\ job'.at = "idle")
      BY <1>0 DEF FreshClient, TargetTypes
    <3> QED BY <1>0, <2>1, <2>2, <3>1, <3>2, PushEndsKeepInv
  <2>b. CASE Config(g.s, g.email) # {}
    <3>1. remote' = Put(g.s, g.email, g.inbs) /\ link' = link
      BY <1>b, <2>b
    <3>2. /\ remote' \in [Panels -> SUBSET PanelConfigs] /\ \A t \in Panels : \A c \in remote'[t] : c.inbs \subseteq On(t)
          /\ NoHiddenConfig' /\ \A i \in g.inbs : Served(i)'
          /\ \A i \in Inbounds : Served(i) /\ ~(ServerOf[i] = g.s /\ link[i] = g.email) => Served(i)'
          /\ \A i \in Inbounds : HasConfig(i) => HasConfig(i)'
          /\ g.email # Label => \A t \in Panels : Theirs \in remote[t] => Theirs \in remote'[t]
      <4>1. \A i \in g.inbs : link'[i] = g.email
        BY <2>3, <3>1
      <4> QED BY <1>0, <2>3, <3>1, <4>1, PutStep
    <3>3. TargetTypes'
      BY <1>0, <1>b, <2>1, <3>2 DEF TargetTypes
    <3>4. FreshClient' /\ GroupsInv' /\ DetachInv' /\ AttachInv'
      BY <1>0, <2>1 DEF FreshClient, GroupsInv, DetachInv, AttachInv
    <3>5. DoneInv'
      <4>1. \A i \in Inbounds : ServerOf[i] = g.s /\ link[i] = g.email => i \in g.inbs
        BY <2>3 DEF On
      <4>2. \A i \in Inbounds : Served(i) => Served(i)'
        BY <3>2, <4>1
      <4>3. \A i : MixedRow(i)' <=> MixedRow(i)
        BY <3>1 DEF MixedRow
      <4>4. lastDone.added \subseteq Inbounds
        BY <1>0 DEF TargetTypes
      <4> QED BY <1>0, <3>1, <4>2, <4>3, <4>4 DEF DoneInv
    <3>6. NoErrorYet' => NoErrorYet
      BY <1>0, <2>1 DEF NoErrorYet
    <3>7. ASSUME nameTaken, NoErrorYet PROVE \A i \in Inbounds : link[i] = NoRow \/ HasConfig(i)
      BY <1>0, <3>7 DEF OwnConfigs
    <3>8. OwnConfigs'
      BY <1>0, <3>1, <3>2, <3>6, <3>7 DEF OwnConfigs
    <3>9. OthersUntouched'
      <4> SUFFICES ASSUME nameTaken, NoErrorYet PROVE \A t \in Panels : Theirs \in remote'[t]
        BY <1>0, <3>6 DEF OthersUntouched
      <4>1. PICK k \in g.inbs : TRUE
        BY <2>3
      <4>2. k \in Inbounds /\ link[k] = g.email /\ link[k] # NoRow
        BY <2>3, EmailFacts, InboundFacts
      <4>3. g.email # Label
        BY <1>0, <3>7, <4>2, OursIsNotTheirs
      <4> QED BY <1>0, <3>2, <4>3 DEF OthersUntouched
    <3> QED BY <2>2, <3>2, <3>3, <3>4, <3>5, <3>8, <3>9 DEF TargetInv
  <2> QED BY <2>a, <2>b
<1> QED BY <1>a, <1>b DEF pushGroup

\* For any inbounds, servers, shapes and attempts, and whichever panel calls fail: a panel
\* serves the client only where a row says so (setClientTargets creates rows before it
\* asks the panel and deletes them after), a request without an error did what it was
\* asked but for emails of several shapes, and while no error was reported another
\* customer of the same name is left alone.
THEOREM TargetsAreSound == ClientTargetsSpec => []TargetsSound
<1>1. ClientTargetsInit => TargetInv
  BY TargetsStart
<1>2. TargetInv /\ [ClientTargetsNext]_targetVars => TargetInv'
  <2> SUFFICES ASSUME TargetInv, [ClientTargetsNext]_targetVars PROVE TargetInv'
    OBVIOUS
  <2>0. targetOps \in Nat /\ FreshClient /\ TargetTypes /\ PushInv
    BY DEF TargetInv, TargetTypes
  <2>1. ASSUME NEW s \in Panels, NEW inbs \in SUBSET On(s), importClient(s, inbs) PROVE TargetInv'
    BY <2>1, ImportKeepsInv
  <2>2. ASSUME NEW w \in SUBSET Inbounds, setClientTargets(w) PROVE TargetInv'
    BY <2>2, SetTargetsKeepsInv
  <2>3. CASE detached
    BY <2>3, DetachedKeepsInv
  <2>4. CASE setDone
    BY <2>4, SetDoneKeepsInv
  <2>5. CASE pushClient
    <3> DEFINE L == LinkRows(link)
    <3>1. /\ job.at = "idle" /\ targetOps' = targetOps + 1 /\ UNCHANGED <<link, remote, lastDone, nameTaken, targetFaults>>
          /\ job' = [NoJob EXCEPT !.at = "push", !.snap = link, !.todo = groupLinks(link, L)]
      BY <2>5 DEF pushClient
    <3>2. L \in SUBSET Inbounds
      BY DEF LinkRows
    <3> HIDE DEF L
    <3>3. \A g \in groupLinks(link, L) : g \in PanelGroups /\ g.inbs # {} /\ g.inbs = {i \in On(g.s) : link[i] = g.email}
      BY <2>0, <3>2, GroupsOfLinks
    <3>4. /\ job' \in TargetJobs /\ job'.at = "push" /\ job'.snap = link /\ job'.todo = groupLinks(link, L)
      BY <2>0, <3>1, <3>3 DEF TargetJobs, NoJob, TargetTypes
    <3>5. PushInv'
      BY <3>1, <3>3, <3>4 DEF PushInv, WholeGroup
    <3>6. targetOps' \in Nat /\ targetOps' # 0
      BY <2>0, <3>1
    <3> QED BY <3>1, <3>4, <3>5, <3>6, PushEndsKeepInv
  <2>6. CASE pushed
    <3>1. /\ job.at = "push" /\ job' = NoJob /\ UNCHANGED <<link, remote, lastDone, nameTaken, targetOps, targetFaults>>
      BY <2>6 DEF pushed
    <3>2. job' \in TargetJobs /\ job'.at = "idle" /\ PushInv' /\ targetOps' # 0 /\ targetOps' \in Nat
      BY <2>0, <3>1, NoRequest DEF PushInv, FreshClient
    <3> QED BY <3>1, <3>2, PushEndsKeepInv
  <2>7. ASSUME NEW g \in job.todo, detach(g) \/ updateOnPanel(g) \/ addToPanel(g) \/ pushGroup(g) PROVE TargetInv'
    BY <2>7, DetachKeepsInv, UpdateKeepsInv, AddKeepsInv, PushGroupKeepsInv
  <2>8. ASSUME NEW g \in job.attach, attachRows(g) PROVE TargetInv'
    BY <2>8, AttachRowsKeepsInv
  <2>9. CASE UNCHANGED targetVars
    BY <2>9 DEF targetVars, TargetInv, TargetTypes, FreshClient, NoHiddenConfig, GroupsInv, DetachInv, AttachInv, PushInv, DoneInv,
                OwnConfigs, OthersUntouched, NoErrorYet, Served, HasConfig, MixedRow, MixedKept, Ours, Kept, Added, GroupOf, Hosts, WholeGroup, LinkRows
  <2> QED BY <2>1, <2>2, <2>3, <2>4, <2>5, <2>6, <2>7, <2>8, <2>9 DEF ClientTargetsNext
<1>3. TargetInv => TargetsSound
  <2> SUFFICES ASSUME TargetInv PROVE TargetsSound
    OBVIOUS
  <2>1. TargetTypes /\ NoHiddenConfig /\ DoneInv /\ OthersUntouched
    BY DEF TargetInv
  <2>2. ClientTargetsTypeOK
    <3>1. NoRow \in Seq(Nat) /\ Len(NoRow) <= 2
      BY DEF NoRow
    <3>2. \A e \in Emails : e \in Seq(Nat) /\ Len(e) <= 2
      BY DEF Emails
    <3>3. \A i \in Inbounds : link[i] \in Emails \/ link[i] = NoRow
      BY <2>1 DEF TargetTypes
    <3>4. job.wanted \subseteq Inbounds
      BY <2>1 DEF TargetTypes, TargetJobs
    <3> QED BY <2>1, <3>1, <3>2, <3>3, <3>4 DEF TargetTypes, ClientTargetsTypeOK
  <2>3. DiffApplied
    <3> SUFFICES ASSUME job.at = "idle", lastDone.errs = 0
                 PROVE  /\ \A i \in lastDone.added : Served(i) \/ MixedRow(i)
                        /\ \A i \in lastDone.dropped : \A c \in Ours(ServerOf[i]) : i \notin c.inbs
      BY DEF DiffApplied
    <3>1. ASSUME NEW i \in lastDone.dropped, NEW c \in Ours(ServerOf[i]), i \in c.inbs PROVE FALSE
      <4>1. i \in Inbounds /\ link[i] = NoRow /\ ServerOf[i] \in Panels
        BY <2>1, <3>1, InboundFacts DEF DoneInv, TargetTypes
      <4>2. c \in remote[ServerOf[i]] /\ c.email = link[i]
        BY <2>1, <3>1, <4>1 DEF NoHiddenConfig, Ours
      <4>3. c.email \in Emails
        BY <2>1, <4>1, <4>2 DEF TargetTypes, PanelConfigs
      <4> QED BY <4>1, <4>2, <4>3, EmailFacts
    <3> QED BY <2>1, <3>1 DEF DoneInv
  <2> QED BY <2>1, <2>2, <2>3 DEF TargetsSound
<1> QED BY <1>1, <1>2, <1>3, PTL DEF ClientTargetsSpec
=============================================================================
