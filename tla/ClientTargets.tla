---------------------------- MODULE ClientTargets ----------------------------
(***************************************************************************)
(* Which inbounds a client lives on: clients/targets.ts setClientTargets,   *)
(* the provisioning loop of clients/crud.ts createClient, pushClient, and   *)
(* grouping.ts and panelSync.ts under them.  A link row holds an inbound    *)
(* and the remote email; on the panel one email is one client with a set of *)
(* inbounds, and no two clients share an email.  Rows are created before    *)
(* the panel is asked, deleted after it.  Requests run one after the other. *)
(***************************************************************************)
EXTENDS Integers, Sequences, FiniteSets

CONSTANTS Inbounds, ServerOf, ShapeOf,  \* ShapeOf: protocol and flow of an inbound
          PANEL_ATTEMPTS,               \* 4 in the code
          MaxTargetOps, MaxTargetFaults \* bounds: requests, failing panel calls

ASSUME ClientTargetsAssumption ==
  /\ ServerOf \in [Inbounds -> {ServerOf[i] : i \in Inbounds}]
  /\ ShapeOf \in [Inbounds -> {ShapeOf[i] : i \in Inbounds}]
  /\ IsFiniteSet(Inbounds) /\ PANEL_ATTEMPTS \in Nat \ {0} /\ MaxTargetOps \in Nat /\ MaxTargetFaults \in Nat

VARIABLES link,       \* the client's rows: inbound -> remoteEmail, or NoRow
          remote,     \* the configs on each panel
          job,        \* the request under way
          lastDone,   \* ghost: what the last finished setClientTargets changed, its errors,
                      \* and whether one of them ever reported any
          nameTaken,  \* another customer of the same name is on every panel
          targetOps, targetFaults

targetVars == <<link, remote, job, lastDone, nameTaken, targetOps, targetFaults>>

NoRow == <<0>>
Label == <<>>     \* configLabel; <<k>> is label-k, <<k, j>> is label-k-j
Panels == {ServerOf[i] : i \in Inbounds}
On(s) == {i \in Inbounds : ServerOf[i] = s}
Theirs == [email |-> Label, owner |-> "other", inbs |-> {}]
NoJob == [at |-> "idle", wanted |-> {}, snap |-> [i \in Inbounds |-> NoRow], todo |-> {}, attach |-> {},
          used |-> {}, errs |-> 0]

ClientTargetsInit ==
  /\ link = [i \in Inbounds |-> NoRow] /\ nameTaken \in BOOLEAN
  /\ remote = [s \in Panels |-> IF nameTaken THEN {Theirs} ELSE {}]
  /\ job = NoJob /\ lastDone = [added |-> {}, dropped |-> {}, errs |-> 0, ever |-> FALSE]
  /\ targetOps = 0 /\ targetFaults = 0

(* ------------------------------ the panel ------------------------------- *)
Config(s, e) == {c \in remote[s] : c.email = e}
Put(s, e, inbs) == [remote EXCEPT ![s] = (@ \ Config(s, e)) \union {[email |-> e, owner |-> "ours", inbs |-> inbs]}]

(* ------------------------------- the groups ----------------------------- *)
\* normalizeTargets makes the list a set; groupTargets: one group for each server
\* and shape.
groupTargets(inbs) == {{i \in inbs : ServerOf[i] = ServerOf[k] /\ ShapeOf[i] = ShapeOf[k]} : k \in inbs}
\* groupLinks and byEmail: links of one server and email are one remote client.
groupLinks(rows, inbs) ==
  {[s |-> ServerOf[k], email |-> rows[k], inbs |-> {i \in On(ServerOf[k]) : rows[i] = rows[k]}] :
     k \in {i \in inbs : rows[i] # NoRow}}
LinkRows(f) == {i \in Inbounds : f[i] # NoRow}
Kept(j) == LinkRows(j.snap) \intersect j.wanted

\* importPanelClients, for one client: it was made on the panel and is adopted, with one row for
\* each of its inbounds, whatever their shapes, and the email it has there.
importClient(s, inbs) ==
  /\ targetOps = 0 /\ targetOps < MaxTargetOps /\ inbs # {} /\ Config(s, Label) = {}
  /\ targetOps' = targetOps + 1
  /\ remote' = Put(s, Label, inbs)
  /\ link' = [i \in Inbounds |-> IF i \in inbs THEN Label ELSE link[i]]
  /\ UNCHANGED <<job, lastDone, nameTaken, targetFaults>>

\* createClient provisions an empty client; setClientTargets diffs the list it read.
setClientTargets(wanted) ==
  /\ job.at = "idle" /\ targetOps < MaxTargetOps /\ wanted # {} /\ wanted # LinkRows(link)
  /\ targetOps' = targetOps + 1
  /\ job' = [NoJob EXCEPT !.at = "detach", !.wanted = wanted, !.snap = link,
                          !.todo = groupLinks(link, LinkRows(link) \ wanted),
                          !.attach = groupTargets(wanted \ LinkRows(link)),
                          !.used = {<<ServerOf[i], link[i]>> : i \in LinkRows(link) \intersect wanted}]
  /\ UNCHANGED <<link, remote, lastDone, nameTaken, targetFaults>>

\* A panel call may fail without effect; the error is collected and the loop goes on.
CallFailed(g) ==
  /\ targetFaults < MaxTargetFaults /\ targetFaults' = targetFaults + 1
  /\ job' = [job EXCEPT !.todo = @ \ {g}, !.errs = @ + 1] /\ UNCHANGED <<link, remote>>

\* Mutant of detach: a config without inbounds is left on the panel.
detachRowsOnly(g) ==
  LET keep == g.inbs \intersect job.wanted
      drop == g.inbs \ job.wanted IN
  /\ job.at = "detach" /\ g \in job.todo
  /\ \/ CallFailed(g)
     \/ /\ link' = [i \in Inbounds |-> IF i \in drop THEN NoRow ELSE link[i]]
        /\ remote' = IF Config(g.s, g.email) = {} THEN remote
                     ELSE IF keep # {} THEN Put(g.s, g.email, keep)
                     ELSE remote
        /\ job' = [job EXCEPT !.todo = @ \ {g}] /\ UNCHANGED targetFaults
  /\ UNCHANGED <<lastDone, nameTaken, targetOps>>

\* One email of the detach loop: the remaining inbounds are the new membership, and
\* none left deletes the config; a config already gone only loses its rows.
detach(g) ==
  LET keep == g.inbs \intersect job.wanted
      drop == g.inbs \ job.wanted IN
  /\ job.at = "detach" /\ g \in job.todo
  /\ \/ CallFailed(g)
     \/ /\ link' = [i \in Inbounds |-> IF i \in drop THEN NoRow ELSE link[i]]
        /\ remote' = IF Config(g.s, g.email) = {} THEN remote
                     ELSE IF keep # {} THEN Put(g.s, g.email, keep)
                     ELSE [remote EXCEPT ![g.s] = @ \ Config(g.s, g.email)]
        /\ job' = [job EXCEPT !.todo = @ \ {g}] /\ UNCHANGED targetFaults
  /\ UNCHANGED <<lastDone, nameTaken, targetOps>>
detached ==
  /\ job.at = "detach" /\ job.todo = {} /\ job' = [job EXCEPT !.at = "attach"]
  /\ UNCHANGED <<link, remote, lastDone, nameTaken, targetOps, targetFaults>>

\* A kept link of the same server and shape hosts the new inbounds; otherwise a
\* fresh label-n is taken, and the rows are created with it.
Hosts(g) == {k \in Kept(job) : \E i \in g : ServerOf[k] = ServerOf[i] /\ ShapeOf[k] = ShapeOf[i]}
FreshEmail(s) ==
  IF <<s, Label>> \notin job.used THEN Label
  ELSE <<CHOOSE n \in 2..(Cardinality(Inbounds) + 1) :
           <<s, <<n>>>> \notin job.used /\ \A m \in 2..(n - 1) : <<s, <<m>>>> \in job.used>>
attachRows(g) ==
  LET s == ServerOf[CHOOSE i \in g : TRUE] IN
  /\ job.at = "attach" /\ job.todo = {} /\ g \in job.attach
  /\ \E e \in IF Hosts(g) = {} THEN {FreshEmail(s)} ELSE {job.snap[k] : k \in Hosts(g)} :
       /\ link' = [i \in Inbounds |-> IF i \in g THEN e ELSE link[i]]
       /\ job' = [job EXCEPT !.attach = @ \ {g}, !.used = @ \union {<<s, e>>},
                             !.todo = {[s |-> s, email |-> e, inbs |-> g]}]
  /\ UNCHANGED <<remote, lastDone, nameTaken, targetOps, targetFaults>>

\* updateOnPanel sends the whole membership of the host's email.
updateOnPanel(g) ==
  LET member == g.inbs \union {k \in Kept(job) : ServerOf[k] = g.s /\ job.snap[k] = g.email} IN
  /\ job.at = "attach" /\ g \in job.todo /\ Hosts(g.inbs) # {}
  /\ \/ CallFailed(g)
     \/ /\ UNCHANGED <<link, targetFaults>>
        /\ remote' = IF Config(g.s, g.email) = {} THEN remote ELSE Put(g.s, g.email, member)
        /\ job' = [job EXCEPT !.todo = @ \ {g}, !.errs = IF Config(g.s, g.email) = {} THEN @ + 1 ELSE @]
  /\ UNCHANGED <<lastDone, nameTaken, targetOps>>

\* addToPanel retries a taken email with a numeric suffix; the rows follow it.
Tries(e) == <<e>> \o [a \in 1..(PANEL_ATTEMPTS - 1) |-> Append(e, a + 1)]

FreeTries(g) == {a \in 1..PANEL_ATTEMPTS : Config(g.s, Tries(g.email)[a]) = {}}
addToPanel(g) ==
  /\ job.at = "attach" /\ g \in job.todo /\ Hosts(g.inbs) = {}
  /\ \/ CallFailed(g)
     \/ /\ FreeTries(g) = {} /\ job' = [job EXCEPT !.todo = @ \ {g}, !.errs = @ + 1]
        /\ UNCHANGED <<link, remote, targetFaults>>
     \/ /\ FreeTries(g) # {}
        /\ LET e == Tries(g.email)[CHOOSE a \in FreeTries(g) : \A b \in FreeTries(g) : a <= b] IN
           /\ remote' = Put(g.s, e, g.inbs)
           /\ link' = [i \in Inbounds |-> IF i \in g.inbs THEN e ELSE link[i]]
        /\ job' = [job EXCEPT !.todo = @ \ {g}] /\ UNCHANGED targetFaults
  /\ UNCHANGED <<lastDone, nameTaken, targetOps>>

setDone ==
  /\ job.at = "attach" /\ job.todo = {} /\ job.attach = {} /\ job' = NoJob
  /\ lastDone' = [added |-> job.wanted \ LinkRows(job.snap), dropped |-> LinkRows(job.snap) \ job.wanted,
                  errs |-> job.errs, ever |-> lastDone.ever \/ job.errs # 0]
  /\ UNCHANGED <<link, remote, nameTaken, targetOps, targetFaults>>

\* pushClient (repush, a device limit, an update): every email with the inbounds of
\* its rows; a missing config is an error.
pushClient ==
  /\ job.at = "idle" /\ targetOps < MaxTargetOps /\ LinkRows(link) # {} /\ targetOps' = targetOps + 1
  /\ job' = [NoJob EXCEPT !.at = "push", !.snap = link, !.todo = groupLinks(link, LinkRows(link))]
  /\ UNCHANGED <<link, remote, lastDone, nameTaken, targetFaults>>
pushGroup(g) ==
  /\ job.at = "push" /\ g \in job.todo
  /\ \/ CallFailed(g)
     \/ /\ remote' = IF Config(g.s, g.email) = {} THEN remote ELSE Put(g.s, g.email, g.inbs)
        /\ job' = [job EXCEPT !.todo = @ \ {g}] /\ UNCHANGED <<link, targetFaults>>
  /\ UNCHANGED <<lastDone, nameTaken, targetOps>>
pushed ==
  /\ job.at = "push" /\ job.todo = {} /\ job' = NoJob
  /\ UNCHANGED <<link, remote, lastDone, nameTaken, targetOps, targetFaults>>

ClientTargetsNext ==
  \/ \E s \in Panels : \E inbs \in SUBSET On(s) : importClient(s, inbs)
  \/ \E w \in SUBSET Inbounds : setClientTargets(w)
  \/ detached \/ setDone \/ pushClient \/ pushed
  \/ \E g \in job.todo : detach(g) \/ updateOnPanel(g) \/ addToPanel(g) \/ pushGroup(g)
  \/ \E g \in job.attach : attachRows(g)

ClientTargetsSpec == ClientTargetsInit /\ [][ClientTargetsNext]_targetVars

(* ------------------------------ properties ------------------------------ *)
\* Rows and panel configs stay within their types.
ClientTargetsTypeOK ==
  /\ \A i \in Inbounds : link[i] \in Seq(Nat) /\ Len(link[i]) <= 2
  /\ \A s \in Panels : \A c \in remote[s] : c.inbs \subseteq On(s)
  /\ job.wanted \subseteq Inbounds /\ targetFaults \in 0..MaxTargetFaults

Ours(s) == {c \in remote[s] : c.owner = "ours"}

\* "links that share server+email are ONE remote client" (targets.ts:21): whatever
\* panel calls failed, an inbound the panel serves this client on has its row, with
\* the email it has there, so no detached or unprovisioned config works on unseen;
\* and an email is one config.
NoHiddenConfig ==
  \A s \in Panels :
    /\ \A c, d \in remote[s] : c.email = d.email => c = d
    /\ \A c \in Ours(s) : \A i \in c.inbs : link[i] = c.email

Served(i) == \E c \in Ours(ServerOf[i]) : c.email = link[i] /\ i \in c.inbs
\* The row's email is also that of a row of another shape.
MixedRow(i) == \E k \in Inbounds : ServerOf[k] = ServerOf[i] /\ link[k] = link[i] /\ ShapeOf[k] # ShapeOf[i]

\* A setClientTargets that reports no error did all it was asked: what it added is
\* served by the panel under the row's email, unless the email is one of several
\* shapes; what it dropped is served no more.
DiffApplied ==
  job.at = "idle" /\ lastDone.errs = 0 =>
    /\ \A i \in lastDone.added : Served(i) \/ MixedRow(i)
    /\ \A i \in lastDone.dropped : \A c \in Ours(ServerOf[i]) : i \notin c.inbs

\* "two customers may well carry the same name, so on a collision we retry"
\* (panelSync.ts:16): as long as no setClientTargets had to report an error, the
\* config of another customer is not touched.
NoErrorYet == ~lastDone.ever /\ (job.at \in {"detach", "attach"} => job.errs = 0)
OthersUntouched == nameTaken /\ NoErrorYet => \A s \in Panels : Theirs \in remote[s]

\* What moving a client between inbounds promises, whichever panel call fails.
TargetsSound == ClientTargetsTypeOK /\ NoHiddenConfig /\ DiffApplied /\ OthersUntouched

\* "extend the existing config: send its full membership, old inbounds included"
\* (targets.ts:178): after a setClientTargets without an error, every inbound it added
\* is served by the panel.
FullMembership == job.at = "idle" /\ lastDone.errs = 0 => \A i \in lastDone.added : Served(i)
=============================================================================
