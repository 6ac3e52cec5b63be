----------------------------- MODULE PanelImport -----------------------------
(***************************************************************************)
(* services/panelImport.ts: adopting the clients that already live on a     *)
(* panel.  A scan reads the panel and our tables; the import then creates,  *)
(* row by row, a Client (uuid is unique), a pending start, and the link     *)
(* rows that carry the remote email and the usage so far.                   *)
(***************************************************************************)
EXTENDS Integers, FiniteSets

CONSTANTS ImportRows,    \* panel clients of one server: records of email, uuid ("" if none), pending
          Owners,        \* import requests
          MaxImports, MaxImportFaults \* bounds

ASSUME PanelImportAssumption ==
  /\ \A r, s \in ImportRows : r.email = s.email => r = s  \* scanPanelClients merges the inbounds of an email
  /\ \A r \in ImportRows : r.pending \in BOOLEAN
  /\ MaxImports \in Nat /\ MaxImportFaults \in Nat

VARIABLES imported,   \* Client rows by uuid: the email each was created for
          pendingRow, \* uuids with a pending-start row
          linkRow,    \* link rows of the server: pairs of email and uuid
          adopter,   \* requests: rows left, the row under work
          imports, importFaults

importVars == <<imported, pendingRow, linkRow, adopter, imports, importFaults>>

NoImport == [at |-> "idle", left |-> {}, row |-> {}]
PanelImportInit ==
  /\ imported = {} /\ pendingRow = {} /\ linkRow = {} /\ adopter = [o \in Owners |-> NoImport]
  /\ imports = 0 /\ importFaults = 0

Linked(r) == \E l \in linkRow : l[1] = r.email
Taken(u) == \E c \in imported : c[2] = u
Importable(r) == ~Linked(r) /\ r.uuid # "" /\ ~Taken(r.uuid)

\* scanPanelClients and the selection: linked rows are left out, rows that are not
\* importable are reported and skipped.
importPanelClients(o, picked) ==
  /\ adopter[o].at = "idle" /\ imports < MaxImports /\ picked # {} /\ \A r \in picked : ~Linked(r)
  /\ imports' = imports + 1
  /\ adopter' = [adopter EXCEPT ![o] = [NoImport EXCEPT !.at = "next", !.left = {r \in picked : Importable(r)}]]
  /\ UNCHANGED <<imported, pendingRow, linkRow, importFaults>>

\* Mutant of createImported: uuid is not unique.
createTwice(o, r) ==
  /\ adopter[o].at = "next" /\ r \in adopter[o].left
  /\ IF FALSE
     THEN adopter' = [adopter EXCEPT ![o].left = @ \ {r}] /\ UNCHANGED imported
     ELSE /\ imported' = imported \union {<<r.email, r.uuid>>}
          /\ adopter' = [adopter EXCEPT ![o] = [at |-> "start", left |-> adopter[o].left \ {r}, row |-> {r}]]
  /\ UNCHANGED <<pendingRow, linkRow, imports, importFaults>>

\* client.create; a uuid taken meanwhile (or twice in the list) is a unique
\* violation: skipped with an error.
createImported(o, r) ==
  /\ adopter[o].at = "next" /\ r \in adopter[o].left
  /\ IF Taken(r.uuid)
     THEN adopter' = [adopter EXCEPT ![o].left = @ \ {r}] /\ UNCHANGED imported
     ELSE /\ imported' = imported \union {<<r.email, r.uuid>>}
          /\ adopter' = [adopter EXCEPT ![o] = [at |-> "start", left |-> adopter[o].left \ {r}, row |-> {r}]]
  /\ UNCHANGED <<pendingRow, linkRow, imports, importFaults>>

\* A negative expiry on the panel becomes a pending start, before the links exist.
importPending(o) ==
  /\ adopter[o].at = "start" /\ adopter' = [adopter EXCEPT ![o].at = "links"]
  /\ pendingRow' = pendingRow \union {r.uuid : r \in {x \in adopter[o].row : x.pending}}
  /\ UNCHANGED <<imported, linkRow, imports, importFaults>>

\* createMany and recomputeClient.
importLinks(o) ==
  /\ adopter[o].at = "links" /\ linkRow' = linkRow \union {<<r.email, r.uuid>> : r \in adopter[o].row}
  /\ adopter' = [adopter EXCEPT ![o].at = "next", ![o].row = {}]
  /\ UNCHANGED <<imported, pendingRow, imports, importFaults>>

\* A failing statement is reported for its row and the loop goes on; what the row
\* had written stays.
importFails(o) ==
  /\ adopter[o].at \in {"start", "links"} /\ importFaults < MaxImportFaults
  /\ importFaults' = importFaults + 1 /\ adopter' = [adopter EXCEPT ![o].at = "next", ![o].row = {}]
  /\ UNCHANGED <<imported, pendingRow, linkRow, imports>>

importDone(o) ==
  /\ adopter[o].at = "next" /\ adopter[o].left = {} /\ adopter' = [adopter EXCEPT ![o] = NoImport]
  /\ UNCHANGED <<imported, pendingRow, linkRow, imports, importFaults>>

PanelImportNext ==
  \E o \in Owners :
    \/ \E p \in SUBSET ImportRows : importPanelClients(o, p)
    \/ \E r \in ImportRows : createImported(o, r)
    \/ importPending(o) \/ importLinks(o) \/ importFails(o) \/ importDone(o)

PanelImportSpec == PanelImportInit /\ [][PanelImportNext]_importVars

(* ------------------------------ properties ------------------------------ *)
\* What was imported came from the panel.
PanelImportTypeOK ==
  /\ imported \subseteq {<<r.email, r.uuid>> : r \in ImportRows} /\ linkRow \subseteq imported
  /\ \A o \in Owners : adopter[o].left \subseteq ImportRows

\* "Another SRPanel client already owns this UUID" (panelImport.ts:41): whatever
\* imports overlap, a uuid and a remote email are each adopted by one client.
AdoptedOnce ==
  \A c, d \in imported : (c[1] = d[1] \/ c[2] = d[2]) => c = d

\* A panel client that had not started its period is never linked, and so synced
\* and pushed with a date of its own, before its pending start is on record.
PendingBeforeLinks ==
  \A l \in linkRow : \A r \in ImportRows : r.email = l[1] /\ r.pending => r.uuid \in pendingRow

\* Once the imports are over every client they created has its links, unless a
\* statement failed.
AdoptedIsLinked ==
  (\A o \in Owners : adopter[o].at = "idle") => Cardinality(imported \ linkRow) <= importFaults

\* What importing panel clients promises, with imports that overlap or fail.
ImportsSound == PanelImportTypeOK /\ AdoptedOnce /\ PendingBeforeLinks /\ AdoptedIsLinked
=============================================================================
