----------------------------- MODULE PluginBook -----------------------------
(***************************************************************************)
(* services/paymentPlugins.ts and paymentPluginHooks.ts: plugins that      *)
(* confirm payments over a signed webhook.  All of them are one Setting,   *)
(* which the sellers' edits and every callback read and write as a whole.  *)
(***************************************************************************)
EXTENDS Settings, Integers, FiniteSets

CONSTANTS Plugins,        \* plugin rows of one seller; MAX_PER_ADMIN of them at most
          PluginPays,     \* payments of that seller and of another one
          OtherPays,      \* those of another one
          Master,         \* plugins created by the owner
          MAX_PER_ADMIN,
          PluginOverlap,  \* may requests run at the same time?
          MaxPluginOps    \* bound: edits and callbacks

ASSUME PluginBookAssumption ==
  OtherPays \subseteq PluginPays /\ Master \subseteq Plugins /\ MAX_PER_ADMIN \in Nat /\ PluginOverlap \in BOOLEAN /\ MaxPluginOps \in Nat

VARIABLES plugins,     \* the stored book: exists, enabled, secret, autoConfirm, capped
          pluginEdit,  \* an edit between reading the book and writing it
          callback,    \* a callback on its way through handlePaymentPluginCallback
          paid,        \* payment status
          pluginOps,
          secretNow,   \* ghost: the newest secret shown to the seller
          confirmedBy  \* ghost: the secret a payment was confirmed with, and the newest one at that callback's arrival

pluginVars == <<plugins, pluginEdit, callback, paid, pluginOps, secretNow, confirmedBy>>

NoPlugin == [exists |-> FALSE, enabled |-> FALSE, secret |-> 0, auto |-> FALSE, capped |-> FALSE]
NoCall == [at |-> "idle", book |-> <<>>, plugin |-> <<>>, pay |-> <<>>, signed |-> 0, newest |-> 0]

PluginBookInit ==
  /\ plugins = [g \in Plugins |-> NoPlugin] /\ pluginEdit = <<>> /\ callback = NoCall
  /\ paid = [p \in PluginPays |-> "PENDING"] /\ pluginOps = 0
  /\ secretNow = [g \in Plugins |-> 0] /\ confirmedBy = [p \in PluginPays |-> <<0, 0>>]

PluginOp ==
  /\ pluginOps < MaxPluginOps /\ pluginOps' = pluginOps + 1
  /\ pluginEdit = <<>> /\ (PluginOverlap \/ callback.at = "idle")

\* create, update, rotate, delete: read, change one entry, write the whole book.
beginPluginEdit(g, row) ==
  /\ PluginOp /\ pluginEdit' = <<[plugins EXCEPT ![g] = row]>>
  /\ UNCHANGED <<plugins, callback, paid, secretNow, confirmedBy>>
createPaymentPlugin(g, auto, capped) ==
  /\ ~plugins[g].exists /\ secretNow[g] = 0 /\ Cardinality({x \in Plugins : plugins[x].exists}) < MAX_PER_ADMIN
  /\ beginPluginEdit(g, [exists |-> TRUE, enabled |-> TRUE, secret |-> 1, auto |-> auto, capped |-> capped])
updatePaymentPlugin(g) == plugins[g].exists /\ beginPluginEdit(g, [plugins[g] EXCEPT !.enabled = ~@])

\* Mutant of rotatePaymentPluginSecret: the new secret is shown, not stored.
rotateNotStored(g) ==
  /\ plugins[g].exists /\ PluginOp /\ pluginEdit' = <<plugins>> /\ secretNow' = [secretNow EXCEPT ![g] = @ + 1]
  /\ UNCHANGED <<plugins, callback, paid, confirmedBy>>

rotatePaymentPluginSecret(g) == plugins[g].exists /\ beginPluginEdit(g, [plugins[g] EXCEPT !.secret = secretNow[g] + 1])
deletePaymentPlugin(g) == plugins[g].exists /\ beginPluginEdit(g, NoPlugin)
savePluginBook ==
  /\ pluginEdit # <<>> /\ plugins' = Head(pluginEdit) /\ pluginEdit' = <<>>
  /\ secretNow' = [g \in Plugins |-> IF Head(pluginEdit)[g].secret > secretNow[g] THEN Head(pluginEdit)[g].secret ELSE secretNow[g]]
  /\ UNCHANGED <<callback, paid, pluginOps, confirmedBy>>

\* handlePaymentPluginCallback: the plugin is read once; an unknown or disabled one
\* and a wrong signature end the call (the last is stamped).
receiveCallback(g, p, k) ==
  /\ PluginOp /\ callback.at = "idle" /\ plugins[g].exists /\ plugins[g].enabled /\ k \in 1..secretNow[g]
  /\ callback' = [at |-> IF k = plugins[g].secret THEN "act" ELSE "stamp", book |-> <<>>, plugin |-> <<g, plugins[g]>>, pay |-> <<p>>, signed |-> k, newest |-> secretNow[g]]
  /\ UNCHANGED <<plugins, pluginEdit, paid, secretNow, confirmedBy>>

\* The payment: another seller's needs a master plugin (a method the plugin is not for
\* ends the same way); a closed one is left alone;
\* a bad word rejects; an unknown word, a short amount, a ceiling or autoConfirm off
\* send it to review; else confirmPayment.
applyCallback(word) ==
  LET g == Head(callback.plugin)
      row == callback.plugin[2]
      p == Head(callback.pay) IN
  /\ callback.at = "act" /\ callback' = [callback EXCEPT !.at = "stamp"]
  /\ IF (p \in OtherPays /\ g \notin Master) \/ paid[p] \notin {"PENDING", "REVIEW"} THEN UNCHANGED <<paid, confirmedBy>>
     ELSE LET next == IF word = "bad" THEN "REJECTED" ELSE IF word = "unknown" \/ row.capped \/ ~row.auto THEN "REVIEW" ELSE "CONFIRMED" IN
          /\ paid' = [paid EXCEPT ![p] = next]
          /\ confirmedBy' = IF next = "CONFIRMED" THEN [confirmedBy EXCEPT ![p] = <<callback.signed, callback.newest>>] ELSE confirmedBy
  /\ UNCHANGED <<plugins, pluginEdit, pluginOps, secretNow>>

\* stamp: the book is read again and written back with the call counted.
stampRead ==
  /\ callback.at = "stamp" /\ callback' = [callback EXCEPT !.at = "write", !.book = <<plugins>>]
  /\ UNCHANGED <<plugins, pluginEdit, paid, pluginOps, secretNow, confirmedBy>>
stampWrite ==
  /\ callback.at = "write" /\ callback' = NoCall
  /\ plugins' = IF Head(callback.book)[Head(callback.plugin)].exists THEN Head(callback.book) ELSE plugins
  /\ UNCHANGED <<pluginEdit, paid, pluginOps, secretNow, confirmedBy>>

PluginBookNext ==
  \/ \E g \in Plugins :
       \/ \E b, c \in BOOLEAN : createPaymentPlugin(g, b, c)
       \/ updatePaymentPlugin(g) \/ rotatePaymentPluginSecret(g) \/ deletePaymentPlugin(g)
       \/ \E p \in PluginPays, k \in 1..(MaxPluginOps + 1) : receiveCallback(g, p, k)
  \/ \E word \in {"ok", "bad", "unknown"} : applyCallback(word)
  \/ savePluginBook \/ stampRead \/ stampWrite

PluginBookSpec == PluginBookInit /\ [][PluginBookNext]_pluginVars

(* ------------------------------ properties ------------------------------ *)

\* The book, the callback and the payments stay within their types.
PluginBookTypeOK ==
  /\ \A g \in Plugins : plugins[g].secret \in 0..(MaxPluginOps + 1)
  /\ paid \in [PluginPays -> {"PENDING", "REVIEW", "CONFIRMED", "REJECTED"}]
  /\ callback.at \in {"idle", "act", "stamp", "write"} /\ Len(pluginEdit) <= 1

\* "The old secret stops working immediately" (paymentPlugins.ts:189): no callback
\* that arrives after a rotation confirms a payment with an earlier secret, however
\* many callbacks were stamped into the same book before and after.
OldSecretStopsWorking == \A p \in PluginPays : confirmedBy[p][1] = confirmedBy[p][2]

\* A payment that a plugin rejected, or confirmed, is not moved by a later callback,
\* whatever was changed in between.
ClosedPaymentStays ==
  [][\A p \in PluginPays : paid[p] \in {"CONFIRMED", "REJECTED"} => paid'[p] = paid[p]]_pluginVars

\* What payment plugins promise while edits and callbacks take turns.
PluginsSound == [](PluginBookTypeOK /\ OldSecretStopsWorking) /\ ClosedPaymentStays
=============================================================================
