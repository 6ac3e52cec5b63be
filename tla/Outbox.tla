------------------------------- MODULE Outbox -------------------------------
(***************************************************************************)
(* services/webhooks.ts: events are queued as one delivery row per matching *)
(* webhook and posted by the worker with a growing back-off.  The question  *)
(* "is there any webhook at all" is answered from a 30 s cache.             *)
(***************************************************************************)
EXTENDS Settings, Integers, FiniteSets

CONSTANTS Hooks,        \* webhook rows
          HookDeliveries, \* delivery rows, in the order they are used
          MAX_ATTEMPTS, \* 6 in the code
          MaxHookCrashes, \* bound on worker crashes
          MaxHookEdits  \* bound on updates and deletions of webhooks

ASSUME OutboxAssumption == MAX_ATTEMPTS \in Nat \ {0} /\ MaxHookCrashes \in Nat /\ MaxHookEdits \in Nat

VARIABLES webhook,    \* "none", "on" or "off"
          hookEdit,   \* a create/update that has invalidated the cache but not written yet
          hookCount,  \* hookCountCache of the emitting process
          hookEmit,   \* emitEvent between its two queries and createMany: the target hooks
          delivery,   \* delivery rows
          batch,      \* the rows dispatchWebhooks has read, and the answer it holds
          hookCrashes, hookEdits  \* bounds

outboxVars == <<webhook, hookEdit, hookCount, hookEmit, delivery, batch, hookCrashes, hookEdits>>

NoRowYet == [st |-> "none", hook |-> CHOOSE h \in Hooks : TRUE, attempts |-> 0, due |-> FALSE, posts |-> 0, oks |-> 0]
NoBatch == [rows |-> {}, off |-> {}, at |-> "idle", id |-> CHOOSE d \in HookDeliveries : TRUE, attempts |-> 0, ok |-> FALSE]

OutboxInit ==
  /\ webhook = [h \in Hooks |-> "none"] /\ hookEdit = {} /\ hookCount = <<>> /\ hookEmit = <<>>
  /\ delivery = [d \in HookDeliveries |-> NoRowYet] /\ batch = NoBatch
  /\ hookCrashes = 0 /\ hookEdits = 0

(* ------------------------------ management ------------------------------ *)

\* createWebhook, updateWebhook: the cache is invalidated first, then the row is
\* written; another request may fill the cache in between.
beginHookEdit(h, v) ==
  /\ hookEdits < MaxHookEdits /\ hookEdit = {} /\ v \in {"on", "off"} /\ webhook[h] # v
  /\ hookEdits' = hookEdits + 1
  /\ hookEdit' = {<<h, v>>} /\ hookCount' = <<>>
  /\ UNCHANGED <<webhook, hookEmit, delivery, batch, hookCrashes>>
writeHook ==
  /\ \E e \in hookEdit : webhook' = [webhook EXCEPT ![e[1]] = e[2]]
  /\ hookEdit' = {}
  /\ UNCHANGED <<hookCount, hookEmit, delivery, batch, hookCrashes, hookEdits>>

\* deleteWebhook: the foreign key deletes the deliveries with the webhook.
deleteWebhook(h) ==
  /\ webhook[h] # "none" /\ hookEdits < MaxHookEdits /\ hookEdits' = hookEdits + 1
  /\ webhook' = [webhook EXCEPT ![h] = "none"] /\ hookCount' = <<>>
  /\ delivery' = [d \in HookDeliveries |-> IF delivery[d].st # "none" /\ delivery[d].hook = h
                                           THEN [delivery[d] EXCEPT !.st = "gone"] ELSE delivery[d]]
  /\ UNCHANGED <<hookEdit, hookEmit, batch, hookCrashes>>

(* ------------------------------- emitEvent ------------------------------ *)

Active == {h \in Hooks : webhook[h] = "on"}

\* anyHooks answers from the cache; only then are the hooks themselves read.
anyHooks == getSetting(Active # {}, hookCount)
emitEvent ==
  /\ hookEmit = <<>> /\ \E d \in HookDeliveries : delivery[d].st = "none"
  /\ hookCount' = <<anyHooks>>
  /\ IF anyHooks THEN hookEmit' = (IF Active = {} THEN <<>> ELSE <<Active>>)
                 ELSE hookEmit' = <<>>
  /\ UNCHANGED <<webhook, hookEdit, delivery, batch, hookCrashes, hookEdits>>

\* createMany: one row per target, in one statement; a target deleted meanwhile
\* breaks the foreign key and none is written.
createDeliveries ==
  /\ hookEmit # <<>> /\ hookEmit' = <<>>
  /\ LET targets == Head(hookEmit) IN
     \/ (\E h \in targets : webhook[h] = "none") /\ UNCHANGED delivery
     \/ /\ \A h \in targets : webhook[h] # "none"
        /\ \E f \in [targets -> {d \in HookDeliveries : delivery[d].st = "none"}] :
             /\ Cardinality({f[h] : h \in targets}) = Cardinality(targets)
             /\ delivery' = [d \in HookDeliveries |->
                  IF \E h \in targets : f[h] = d
                  THEN [NoRowYet EXCEPT !.st = "queued", !.due = TRUE, !.hook = CHOOSE h \in targets : f[h] = d]
                  ELSE delivery[d]]
  /\ UNCHANGED <<webhook, hookEdit, hookCount, batch, hookCrashes, hookEdits>>

\* The 30 s of hookCountCache pass.
hookCacheExpires ==
  /\ hookCount # <<>> /\ hookCount' = <<>>
  /\ UNCHANGED <<webhook, hookEdit, hookEmit, delivery, batch, hookCrashes, hookEdits>>

(* --------------------------- dispatchWebhooks --------------------------- *)

Due == {d \in HookDeliveries : delivery[d].st = "queued" /\ delivery[d].due /\ delivery[d].attempts < MAX_ATTEMPTS}
dispatchWebhooks ==
  /\ batch.at = "idle" /\ Due # {} /\ batch' = [NoBatch EXCEPT !.at = "loop", !.rows = Due, !.off = {d \in Due : webhook[delivery[d].hook] = "off"}]
  /\ UNCHANGED <<webhook, hookEdit, hookCount, hookEmit, delivery, hookCrashes, hookEdits>>

\* attempts and the webhook were read with the batch: a row whose webhook was off
\* then is closed unsent, any other is posted, whatever has become of it since.
Posted(d, ok) == [delivery EXCEPT ![d].posts = @ + 1, ![d].oks = @ + (IF ok THEN 1 ELSE 0)]
deliver(d) ==
  /\ batch.at = "loop" /\ d \in batch.rows
  /\ \/ /\ d \in batch.off /\ delivery[d].st = "gone"  \* the update of a deleted row throws
        /\ batch' = NoBatch /\ UNCHANGED delivery
     \/ /\ d \in batch.off /\ delivery[d].st # "gone"
        /\ delivery' = [delivery EXCEPT ![d].st = "done"] /\ batch' = [batch EXCEPT !.rows = @ \ {d}]
     \/ /\ d \notin batch.off
        /\ \E ok \in BOOLEAN :
             /\ delivery' = Posted(d, ok)
             /\ batch' = [batch EXCEPT !.rows = @ \ {d}, !.at = "answered", !.id = d, !.ok = ok,
                                       !.attempts = delivery[d].attempts + 1]
  /\ UNCHANGED <<webhook, hookEdit, hookCount, hookEmit, hookCrashes, hookEdits>>

\* Mutant of recordAttempt: a 2xx does not finish the row.
recordIgnoringSuccess ==
  LET d == batch.id IN
  /\ batch.at = "answered"
  /\ IF delivery[d].st = "gone" THEN batch' = NoBatch /\ UNCHANGED delivery
     ELSE /\ delivery' = [delivery EXCEPT ![d].attempts = batch.attempts, ![d].due = FALSE,
                            ![d].st = IF batch.attempts >= MAX_ATTEMPTS THEN "done" ELSE @]
          /\ batch' = IF batch.rows = {} THEN NoBatch ELSE [batch EXCEPT !.at = "loop"]
  /\ UNCHANGED <<webhook, hookEdit, hookCount, hookEmit, hookCrashes, hookEdits>>

\* The transaction after the post: attempts, back-off, and doneAt on success or
\* after the last attempt; a row deleted meanwhile aborts the batch.
recordAttempt ==
  LET d == batch.id IN
  /\ batch.at = "answered"
  /\ IF delivery[d].st = "gone" THEN batch' = NoBatch /\ UNCHANGED delivery
     ELSE /\ delivery' = [delivery EXCEPT ![d].attempts = batch.attempts, ![d].due = FALSE,
                            ![d].st = IF batch.ok \/ batch.attempts >= MAX_ATTEMPTS THEN "done" ELSE @]
          /\ batch' = IF batch.rows = {} THEN NoBatch ELSE [batch EXCEPT !.at = "loop"]
  /\ UNCHANGED <<webhook, hookEdit, hookCount, hookEmit, hookCrashes, hookEdits>>

batchEnds ==
  /\ batch.at = "loop" /\ batch.rows = {} /\ batch' = NoBatch
  /\ UNCHANGED <<webhook, hookEdit, hookCount, hookEmit, delivery, hookCrashes, hookEdits>>

\* nextAt arrives: the back-off of min(60, 2^attempts) minutes is over.
backoffEnds(d) ==
  /\ delivery[d].st = "queued" /\ ~delivery[d].due /\ delivery' = [delivery EXCEPT ![d].due = TRUE]
  /\ UNCHANGED <<webhook, hookEdit, hookCount, hookEmit, batch, hookCrashes, hookEdits>>

workerCrashes ==
  /\ batch # NoBatch /\ hookCrashes < MaxHookCrashes
  /\ hookCrashes' = hookCrashes + 1 /\ batch' = NoBatch
  /\ UNCHANGED <<webhook, hookEdit, hookCount, hookEmit, delivery, hookEdits>>

HookDispatch == dispatchWebhooks \/ (\E d \in HookDeliveries : deliver(d)) \/ recordAttempt \/ batchEnds
OutboxNext ==
  \/ \E h \in Hooks : deleteWebhook(h) \/ \E v \in {"on", "off"} : beginHookEdit(h, v)
  \/ writeHook \/ emitEvent \/ createDeliveries \/ hookCacheExpires
  \/ HookDispatch \/ workerCrashes
  \/ \E d \in HookDeliveries : backoffEnds(d)

\* The worker runs dispatchWebhooks on a timer and clocks advance.
OutboxFairness == WF_outboxVars(HookDispatch) /\ \A d \in HookDeliveries : WF_outboxVars(backoffEnds(d))

OutboxSpec == OutboxInit /\ [][OutboxNext]_outboxVars

(* ------------------------------ properties ------------------------------ *)

\* Webhooks, deliveries and the batch stay within their types.
OutboxTypeOK ==
  /\ webhook \in [Hooks -> {"none", "on", "off"}]
  /\ \A d \in HookDeliveries : delivery[d].st \in {"none", "queued", "done", "gone"}
                               /\ delivery[d].attempts \in 0..MAX_ATTEMPTS
  /\ batch.rows \subseteq HookDeliveries /\ hookEmit \in {<<>>} \union {<<s>> : s \in SUBSET Hooks}

\* A receiver that answered 2xx is not called again with the same delivery,
\* except once for each crash between the post and the transaction; and no
\* delivery is posted more than MAX_ATTEMPTS times plus those.
PostedOncePerSuccess ==
  \A d \in HookDeliveries : /\ delivery[d].oks <= 1 + hookCrashes
                            /\ delivery[d].posts <= MAX_ATTEMPTS + hookCrashes

\* Every queued delivery is eventually delivered, given up on, closed with its
\* webhook disabled or deleted with its webhook, whatever the receiver answers.
DeliveriesEnd == \A d \in HookDeliveries : delivery[d].st = "queued" ~> delivery[d].st \in {"done", "gone"}

\* What webhook deliveries promise, with crashes and receivers that answer late or
\* never.
DeliveriesSound == [](OutboxTypeOK /\ PostedOncePerSuccess) /\ DeliveriesEnd
=============================================================================
