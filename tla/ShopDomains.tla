---------------------------- MODULE ShopDomains -----------------------------
(***************************************************************************)
(* services/storeDomains.ts: a seller asks for a shop domain, proves it    *)
(* with a loop-back request to it, and the shop moves there.  All sellers' *)
(* records are in one Setting, read and written as a whole.                *)
(***************************************************************************)
EXTENDS Settings, Integers, FiniteSets

CONSTANTS Sellers, ShopHosts, NoHost,
          MaxDomainOps   \* bound: requests of the sellers

ASSUME ShopDomainsAssumption == NoHost \notin ShopHosts /\ MaxDomainOps \in Nat

VARIABLES domainBook,  \* the stored records: host, token, verified
          live,        \* Brand.customDomain, unique
          domainReq,   \* each seller's request: where it is and what it has read
          pointing,    \* hosts whose DNS leads to this install
          domainOps,
          proved       \* ghost: the hosts that answered with the token of this seller

domainVars == <<domainBook, live, domainReq, pointing, domainOps, proved>>

\* A token is known by the seller and the host it was made for (a host registered a
\* second time has the same one here, so the model lets more probes pass).
NoRecord == [host |-> NoHost, token |-> <<NoHost, NoHost>>, verified |-> FALSE]
NoReq == [at |-> "idle", host |-> NoHost, items |-> <<>>, rec |-> NoRecord, ok |-> FALSE]

ShopDomainsInit ==
  /\ domainBook = [a \in Sellers |-> NoRecord] /\ live = [a \in Sellers |-> NoHost]
  /\ domainReq = [a \in Sellers |-> NoReq] /\ pointing = {} /\ domainOps = 0 /\ proved = [a \in Sellers |-> {}]

DomainOp == domainOps < MaxDomainOps /\ domainOps' = domainOps + 1

\* setStoreDomain: the host must be free in the brands and in the book.
setStoreDomain(a, h) ==
  /\ DomainOp /\ domainReq[a].at = "idle"
  /\ \A b \in Sellers \ {a} : live[b] # h /\ domainBook[b].host # h
  /\ domainReq' = [domainReq EXCEPT ![a] = [NoReq EXCEPT !.at = "set", !.host = h, !.items = <<domainBook>>]]
  /\ UNCHANGED <<domainBook, live, pointing, proved>>

\* The whole book goes back with the new record; a record for the same host keeps
\* its token.
saveDomain(a) ==
  LET q == domainReq[a]
      book == Head(q.items)
      same == book[a].host = q.host
      rec == IF same THEN book[a] ELSE [host |-> q.host, token |-> <<a, q.host>>, verified |-> FALSE] IN
  /\ q.at = "set" /\ domainBook' = [book EXCEPT ![a] = rec]
  /\ domainReq' = [domainReq EXCEPT ![a].at = IF same THEN "idle" ELSE "clear"]
  /\ UNCHANGED <<live, pointing, domainOps, proved>>

\* clearLive.
clearLive(a) ==
  /\ domainReq[a].at = "clear" /\ live' = [live EXCEPT ![a] = NoHost]
  /\ domainReq' = [domainReq EXCEPT ![a] = NoReq] /\ UNCHANGED <<domainBook, pointing, domainOps, proved>>

\* removeStoreDomain: the record goes, then the live domain.
removeStoreDomain(a) ==
  /\ DomainOp /\ domainReq[a].at = "idle" /\ (domainBook[a] # NoRecord \/ live[a] # NoHost)
  /\ domainReq' = [domainReq EXCEPT ![a] = [NoReq EXCEPT !.at = "remove", !.items = <<domainBook>>]]
  /\ UNCHANGED <<domainBook, live, pointing, proved>>
removeRecord(a) ==
  /\ domainReq[a].at = "remove" /\ domainBook' = [Head(domainReq[a].items) EXCEPT ![a] = NoRecord]
  /\ domainReq' = [domainReq EXCEPT ![a].at = "clear"] /\ UNCHANGED <<live, pointing, domainOps, proved>>

\* verifyStoreDomain: the record is read once and used to the end.
verifyStoreDomain(a) ==
  /\ DomainOp /\ domainReq[a].at = "idle" /\ domainBook[a] # NoRecord
  /\ domainReq' = [domainReq EXCEPT ![a] = [NoReq EXCEPT !.at = "probe", !.rec = domainBook[a]]]
  /\ UNCHANGED <<domainBook, live, pointing, proved>>

\* domainTokenForHost: the first record with that host answers.
domainTokenForHost(h) == {domainBook[b].token : b \in {x \in Sellers : domainBook[x].host = h}}

\* Mutant of probe: any answer of this install will do, whosever token it is.
probeAnyToken(a) ==
  LET rec == domainReq[a].rec IN
  /\ domainReq[a].at = "probe"
  /\ \/ /\ rec.host \in pointing /\ domainReq' = [domainReq EXCEPT ![a].at = "save", ![a].ok = TRUE]
        /\ proved' = [proved EXCEPT ![a] = IF rec.token \in domainTokenForHost(rec.host) THEN @ \union {rec.host} ELSE @]
     \/ domainReq' = [domainReq EXCEPT ![a].at = "save"] /\ UNCHANGED proved
  /\ UNCHANGED <<domainBook, live, pointing, domainOps>>

\* probe over https and http: it passes when the host leads here and this install
\* answers with the token of the record; it may always fail.
probe(a) ==
  LET rec == domainReq[a].rec IN
  /\ domainReq[a].at = "probe"
  /\ \/ /\ rec.host \in pointing /\ rec.token \in domainTokenForHost(rec.host)
        /\ domainReq' = [domainReq EXCEPT ![a].at = "save", ![a].ok = TRUE]
        /\ proved' = [proved EXCEPT ![a] = @ \union {rec.host}]
     \/ domainReq' = [domainReq EXCEPT ![a].at = "save"] /\ UNCHANGED proved
  /\ UNCHANGED <<domainBook, live, pointing, domainOps>>

\* The book is read again, the record of before goes into it.
saveVerified(a) ==
  LET q == domainReq[a] IN
  /\ q.at = "save" /\ domainBook' = [domainBook EXCEPT ![a] = [q.rec EXCEPT !.verified = @ \/ q.ok]]
  /\ domainReq' = [domainReq EXCEPT ![a] = IF q.ok THEN [q EXCEPT !.at = "live"] ELSE NoReq]
  /\ UNCHANGED <<live, pointing, domainOps, proved>>

\* The brand takes the host; the unique index refuses one that another brand has.
goLive(a) ==
  LET h == domainReq[a].rec.host IN
  /\ domainReq[a].at = "live" /\ domainReq' = [domainReq EXCEPT ![a] = NoReq]
  /\ IF \E b \in Sellers \ {a} : live[b] = h THEN UNCHANGED live ELSE live' = [live EXCEPT ![a] = h]
  /\ UNCHANGED <<domainBook, pointing, domainOps, proved>>

\* DNS changes.  External.
dnsChanges(h) ==
  /\ domainOps < MaxDomainOps /\ domainOps' = domainOps + 1
  /\ pointing' = IF h \in pointing THEN pointing \ {h} ELSE pointing \union {h}
  /\ UNCHANGED <<domainBook, live, domainReq, proved>>

ShopDomainsNext ==
  \/ \E a \in Sellers :
       \/ \E h \in ShopHosts : setStoreDomain(a, h)
       \/ saveDomain(a) \/ clearLive(a) \/ removeStoreDomain(a) \/ removeRecord(a)
       \/ verifyStoreDomain(a) \/ probe(a) \/ saveVerified(a) \/ goLive(a)
  \/ \E h \in ShopHosts : dnsChanges(h)

ShopDomainsSpec == ShopDomainsInit /\ [][ShopDomainsNext]_domainVars

(* ------------------------------ properties ------------------------------ *)

\* Records, requests and live domains stay within their types.
ShopDomainsTypeOK ==
  /\ live \in [Sellers -> ShopHosts \union {NoHost}] /\ \A a \in Sellers : proved[a] \subseteq ShopHosts
  /\ \A a \in Sellers : domainBook[a].host \in ShopHosts \union {NoHost} /\ domainReq[a].rec.host \in ShopHosts \union {NoHost}

\* "a host only becomes live once it has been verified" (storeDomains.ts:15):
\* however requests of the sellers overlap and overwrite each other's records, a shop
\* is served only under hosts that answered with this seller's own token, no host
\* serves two shops, and no record calls a host verified that was not.
LiveHostWasProved ==
  \A a \in Sellers :
    /\ live[a] # NoHost => live[a] \in proved[a] /\ \A b \in Sellers \ {a} : live[b] # live[a]
    /\ domainBook[a].verified => domainBook[a].host \in proved[a]

\* What shop domains promise while the sellers' requests overlap.
DomainsSound == ShopDomainsTypeOK /\ LiveHostWasProved
=============================================================================
