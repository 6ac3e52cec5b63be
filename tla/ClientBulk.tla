----------------------------- MODULE ClientBulk -----------------------------
(***************************************************************************)
(* A bulk action between the browser (clients/BulkBar.tsx) and the server   *)
(* (services/clientBulk.ts).  A selection goes out in slices of CHUNK ids,  *)
(* in whichever order it was made; a maintenance run repeats a filter,      *)
(* ROUNDS times at most, and the server takes the oldest matching clients,  *)
(* CLIENT_BULK_MAX at a time.                                               *)
(***************************************************************************)
EXTENDS Integers, FiniteSets

CONSTANTS BulkClients,      \* clients, numbered by their creation
          CLIENT_BULK_MAX, CHUNK, ROUNDS,
          MaxBulkRuns,      \* bound: bulk actions pressed
          MaxBulkFaults     \* bound: single operations that throw, answers that are lost

ASSUME ClientBulkAssumption ==
  /\ BulkClients \subseteq Nat /\ IsFiniteSet(BulkClients)
  /\ {CLIENT_BULK_MAX, CHUNK, ROUNDS} \subseteq Nat \ {0} /\ {MaxBulkRuns, MaxBulkFaults} \subseteq Nat
  /\ CHUNK <= CLIENT_BULK_MAX

VARIABLES rows,       \* clients that exist
          broken,     \* clients whose last push failed (ClientServer.lastError)
          stuck,      \* clients whose panel refuses every push
          bulk,       \* the run in the browser
          targets,    \* clients the request under way still goes through
          tally,      \* its result so far: requested, done
          touched,    \* how often the run's operation was applied to a client
          bulkRuns, bulkFaults,
          disturbed   \* ghost: an operation of this run threw, an answer was lost, or others changed the clients

bulkVars == <<rows, broken, stuck, bulk, targets, tally, touched, bulkRuns, bulkFaults, disturbed>>

NoRun == [at |-> "idle", action |-> "", ids |-> {}, chosen |-> {}, round |-> 0] \* ids: not sent yet
NoTally == [requested |-> 0, done |-> 0]

ClientBulkInit ==
  /\ rows = BulkClients /\ broken \in SUBSET BulkClients /\ stuck \in SUBSET broken
  /\ bulk = NoRun /\ targets = {} /\ tally = NoTally /\ touched = [c \in BulkClients |-> 0]
  /\ bulkRuns = 0 /\ bulkFaults = 0 /\ disturbed = FALSE

\* ids.slice(i, i + CHUNK): the next CHUNK ids, or the rest.
Slices(ids) == {s \in SUBSET ids : Cardinality(s) = CHUNK \/ (s = ids /\ Cardinality(s) < CHUNK)}

\* The user presses an action for a selection, or a row of the maintenance card.
run(action, chosen) ==
  /\ bulk.at = "idle" /\ bulkRuns < MaxBulkRuns
  /\ bulkRuns' = bulkRuns + 1
  /\ bulk' = [at |-> "send", action |-> action, ids |-> chosen, chosen |-> chosen, round |-> 0]
  /\ touched' = [c \in BulkClients |-> 0] /\ disturbed' = FALSE
  /\ UNCHANGED <<rows, broken, stuck, targets, tally, bulkFaults>>

\* What the filter of a maintenance row matches: failing configs, or clients expired long ago.
Matching == IF bulk.action = "repushBroken" THEN broken \cap rows ELSE rows

\* orderBy createdAt, take: the n oldest.
Oldest(S, n) == {c \in S : Cardinality({d \in S : d < c}) < n}

\* Mutant of resolveBulkClients: the server takes fewer clients than a slice holds.
resolveBulkClientsShort(slice) ==
  Oldest(IF bulk.chosen # {} THEN slice \cap rows ELSE Matching, CLIENT_BULK_MAX - 1)

\* The explicit selection wins; a filter takes the oldest.  A selection has no order on
\* the server and needs none: a slice is no longer than what is taken.
resolveBulkClients(slice) ==
  Oldest(IF bulk.chosen # {} THEN slice \cap rows ELSE Matching, CLIENT_BULK_MAX)

\* The request arrives: the clients are looked up once.
runClientBulk(slice) ==
  /\ bulk.at = "send"
  /\ targets' = resolveBulkClients(slice)
  /\ tally' = [requested |-> Cardinality(resolveBulkClients(slice)), done |-> 0]
  /\ bulk' = [bulk EXCEPT !.at = "serve", !.ids = @ \ slice]
  /\ UNCHANGED <<rows, broken, stuck, touched, bulkRuns, bulkFaults, disturbed>>

\* One client: the operation of the one-by-one button.  A refused push is a warning
\* and counts as done; a client that is gone is a failure.
bulkClient(c) ==
  LET there == c \in rows IN
  /\ bulk.at = "serve" /\ c \in targets
  /\ targets' = targets \ {c}
  /\ touched' = IF there THEN [touched EXCEPT ![c] = @ + 1] ELSE touched
  /\ tally' = IF there THEN [tally EXCEPT !.done = @ + 1] ELSE tally
  /\ rows' = IF bulk.action = "deleteStale" THEN rows \ {c} ELSE rows
  /\ broken' = IF c \in stuck THEN broken \cup {c} ELSE broken \ {c}
  /\ UNCHANGED <<stuck, bulk, bulkRuns, bulkFaults, disturbed>>

BulkFault == bulkFaults < MaxBulkFaults /\ bulkFaults' = bulkFaults + 1 /\ disturbed' = TRUE

\* The operation throws (no credit, no quota, a database error): the loop goes on.
bulkClientFails(c) ==
  /\ bulk.at = "serve" /\ c \in targets /\ BulkFault
  /\ targets' = targets \ {c}
  /\ UNCHANGED <<rows, broken, stuck, bulk, tally, touched, bulkRuns>>

\* The answer: the next slice, or another round unless nothing matched or nothing worked.
answered ==
  LET more == IF bulk.chosen # {} THEN bulk.ids # {} ELSE tally.done > 0 /\ bulk.round + 1 < ROUNDS IN
  /\ bulk.at = "serve" /\ targets = {}
  /\ bulk' = IF more THEN [bulk EXCEPT !.at = "send", !.round = @ + 1]
             ELSE [bulk EXCEPT !.at = "done"]
  /\ UNCHANGED <<rows, broken, stuck, targets, tally, touched, bulkRuns, bulkFaults, disturbed>>

\* The answer does not arrive: the browser stops, the server has done the slice.
answerLost ==
  /\ bulk.at = "serve" /\ targets = {} /\ BulkFault
  /\ bulk' = [bulk EXCEPT !.at = "done"]
  /\ UNCHANGED <<rows, broken, stuck, targets, tally, touched, bulkRuns>>

\* The list is loaded again and the buttons are enabled.
onDone ==
  /\ bulk.at = "done" /\ bulk' = NoRun /\ targets' = {} /\ tally' = NoTally
  /\ UNCHANGED <<rows, broken, stuck, touched, bulkRuns, bulkFaults, disturbed>>

\* Somebody else deletes a client, or its panel starts to accept pushes again.
clientGone(c) ==
  /\ bulk.at = "serve" /\ c \in rows /\ bulkFaults < MaxBulkFaults /\ bulkFaults' = bulkFaults + 1
  /\ rows' = rows \ {c} /\ disturbed' = TRUE
  /\ UNCHANGED <<broken, stuck, bulk, targets, tally, touched, bulkRuns>>
panelRecovers(c) ==
  /\ c \in stuck /\ stuck' = stuck \ {c} /\ disturbed' = TRUE
  /\ UNCHANGED <<rows, broken, bulk, targets, tally, touched, bulkRuns, bulkFaults>>

ClientBulkNext ==
  \/ \E chosen \in (SUBSET rows) \ {{}} : run("addDays", chosen)
  \/ \E action \in {"repushBroken", "deleteStale"} : run(action, {})
  \/ \E slice \in Slices(bulk.ids) : runClientBulk(slice)
  \/ answered \/ answerLost \/ onDone
  \/ \E c \in BulkClients : bulkClient(c) \/ bulkClientFails(c) \/ clientGone(c) \/ panelRecovers(c)

ClientBulkSpec == ClientBulkInit /\ [][ClientBulkNext]_bulkVars

(* ------------------------------ properties ------------------------------ *)

\* Days are added, and charged, once to each selected client: the slices overlap in
\* none and leave none out, and a failure in one slice repeats no other.
EachSelectedOnce ==
  bulk.chosen # {} =>
    /\ \A c \in BulkClients : touched[c] <= (IF c \in bulk.chosen THEN 1 ELSE 0)
    /\ (bulk.at = "done" /\ ~disturbed => \A c \in bulk.chosen : touched[c] = 1)

\* "repeats a filter run until nothing is left" (api/clients/bulk/route.ts:11): when no
\* operation threw and no panel refuses, a maintenance run that ends has left nothing
\* that matches.
NothingLeft ==
  /\ bulk.at = "done" /\ bulk.chosen = {} /\ ~disturbed /\ stuck = {}
  /\ Cardinality(BulkClients) <= CLIENT_BULK_MAX * ROUNDS
  => Matching = {}

\* "every round takes the next batch" (BulkBar.tsx:42) holds of clients whose panel
\* accepts the push: none of them is pushed or deleted twice in a run.
NextBatch == \A c \in BulkClients : touched[c] > 1 => (bulk.chosen = {} /\ (c \in stuck \/ disturbed))

\* What a bulk action promises.
BulkSound == EachSelectedOnce /\ NothingLeft /\ NextBatch
=============================================================================
