----------------------------- MODULE JobProofs -----------------------------
(***************************************************************************)
(* The components of the jobs run, which talk to somebody else's server or  *)
(* to an agent on the host: what they keep whatever it answers, and         *)
(* whenever.  That their work ends is left to the run, which assumes        *)
(* fairness.  Then the dumps that the worker and the backups page make.     *)
(***************************************************************************)
EXTENDS PanelDriver, Outbox, SmtpClient, Updates, Licensing, BotPolling, Backups, FiniteSetTheorems, SequenceTheorems, TLAPS

(* ---------------------------- calls to a panel -------------------------- *)

DriverOps ==
  [at : {"idle", "ready", "sent", "ok", "failed"}, route : 1..3, routes : 1..2, retry : BOOLEAN,
   wants : {"call", "login"}, ops : Nat]
Jars == [cookie : {"none", "good", "stale"}, csrf : BOOLEAN]

DriverTypes ==
  /\ op \in [PanelCalls -> DriverOps] /\ jar \in [PanelCalls -> Jars]
  /\ tls \in [depth : Nat, verify : BOOLEAN]
  /\ applied \in [PanelCalls -> Nat] /\ garbled \in [PanelCalls -> Nat]

(***************************************************************************)
(* An operation q of caller c, carried out n times, g of them garbled.     *)
(* While it is under way every time it was carried out was garbled, which  *)
(* spent the only retry; a legacy panel does nothing on the first route.   *)
(***************************************************************************)
OperationOK(q, c, n, g) ==
  /\ n <= 1 + g /\ g <= 2 /\ n <= 2
  /\ q.at = "ok" => n >= 1
  /\ q.at \in {"ready", "sent"} => /\ n = g /\ n <= 1 /\ (q.retry => n = 0) /\ q.route \in {1, 2}
                                   /\ c \in Legacy /\ q.route = 1 => n = 0

\* Requests to panels with self-signed certificates that are out.
Out == {c \in Insecure : op[c].at = "sent"}

DriverInv ==
  /\ DriverTypes
  /\ \A c \in PanelCalls : OperationOK(op[c], c, applied[c], garbled[c])
  /\ tls.depth = Cardinality(Out) /\ (tls.verify <=> Out = {})

\* A subset of the callers is finite.
LEMMA OutIsFinite == IsFiniteSet(Out) /\ Cardinality(Out) \in Nat /\ Cardinality(Out) <= Cardinality(PanelCalls)
BY PanelDriverAssumption, FS_Subset, FS_CardinalityType DEF Out

\* The switch follows the requests: a request that leaves, one that ends, and a step that does neither.
LEMMA TlsFollows ==
  ASSUME DriverInv, NEW c \in PanelCalls, NEW q \in DriverOps, op' = [op EXCEPT ![c] = q],
         \/ op[c].at # "sent" /\ q.at = "sent" /\ enterTls(c)
         \/ op[c].at = "sent" /\ q.at # "sent" /\ leaveTls(c)
         \/ op[c].at # "sent" /\ q.at # "sent" /\ UNCHANGED tls
  PROVE  tls' \in [depth : Nat, verify : BOOLEAN] /\ tls'.depth = Cardinality(Out') /\ (tls'.verify <=> Out' = {})
<1>1. /\ tls \in [depth : Nat, verify : BOOLEAN] /\ tls.depth = Cardinality(Out) /\ (tls.verify <=> Out = {})
      /\ IsFiniteSet(Out) /\ Cardinality(Out) \in Nat
  BY OutIsFinite DEF DriverInv, DriverTypes
<1>2. \A x \in Insecure : op'[x].at = IF x = c THEN q.at ELSE op[x].at
  BY PanelDriverAssumption DEF DriverInv, DriverTypes
<1>3. CASE c \notin Insecure
  <2>1. Out' = Out
    BY <1>2, <1>3 DEF Out
  <2> QED BY <1>1, <1>3, <2>1 DEF enterTls, leaveTls
<1>4. CASE c \in Insecure /\ op[c].at # "sent" /\ q.at = "sent" /\ enterTls(c)
  <2>1. Out' = Out \union {c} /\ c \notin Out
    BY <1>2, <1>4 DEF Out
  <2>2. Cardinality(Out') = Cardinality(Out) + 1
    BY <1>1, <2>1, FS_AddElement
  <2> QED BY <1>1, <1>4, <2>1, <2>2 DEF enterTls
<1>5. CASE c \in Insecure /\ op[c].at = "sent" /\ q.at # "sent" /\ leaveTls(c)
  <2>1. Out' = Out \ {c} /\ c \in Out
    BY <1>2, <1>5 DEF Out
  <2>2. Cardinality(Out') = Cardinality(Out) - 1 /\ IsFiniteSet(Out') /\ Cardinality(Out') \in Nat
    BY <1>1, <2>1, FS_RemoveElement, FS_CardinalityType
  <2>3. Out' = {} <=> Cardinality(Out') = 0
    BY <2>2, FS_EmptySet
  <2>4. tls' = [depth |-> tls.depth - 1, verify |-> tls.depth = 1]
    BY <1>5 DEF leaveTls
  <2>5. (tls.depth = 1) \in BOOLEAN /\ (tls.depth = 1 <=> Out' = {})
    BY <1>1, <2>2, <2>3
  <2> QED BY <1>1, <2>2, <2>4, <2>5
<1>6. CASE c \in Insecure /\ op[c].at # "sent" /\ q.at # "sent" /\ UNCHANGED tls
  <2>1. Out' = Out
    BY <1>2, <1>6 DEF Out
  <2> QED BY <1>1, <1>6, <2>1
<1> QED BY <1>3, <1>4, <1>5, <1>6

\* A step of one call keeps the invariant when it leaves its own operation in order.
LEMMA DriverStep ==
  ASSUME DriverInv, NEW c \in PanelCalls, NEW q \in DriverOps, NEW n \in Nat, NEW g \in Nat,
         op' = [op EXCEPT ![c] = q], applied' = [applied EXCEPT ![c] = n], garbled' = [garbled EXCEPT ![c] = g],
         jar' \in [PanelCalls -> Jars], OperationOK(q, c, n, g),
         \/ op[c].at # "sent" /\ q.at = "sent" /\ enterTls(c)
         \/ op[c].at = "sent" /\ q.at # "sent" /\ leaveTls(c)
         \/ op[c].at # "sent" /\ q.at # "sent" /\ UNCHANGED tls
  PROVE  DriverInv'
<1>1. tls' \in [depth : Nat, verify : BOOLEAN] /\ tls'.depth = Cardinality(Out') /\ (tls'.verify <=> Out' = {})
  BY TlsFollows
<1>2. DriverTypes'
  BY <1>1 DEF DriverInv, DriverTypes
<1>3. ASSUME NEW x \in PanelCalls PROVE OperationOK(op'[x], x, applied'[x], garbled'[x])
  <2>1. CASE x = c
    BY <2>1 DEF DriverInv, DriverTypes
  <2>2. CASE x # c
    <3>1. op'[x] = op[x] /\ applied'[x] = applied[x] /\ garbled'[x] = garbled[x]
      BY <2>2 DEF DriverInv, DriverTypes
    <3> QED BY <3>1 DEF DriverInv
  <2> QED BY <2>1, <2>2
<1> QED BY <1>1, <1>2, <1>3 DEF DriverInv

\* The same for a step after which the panel has carried out nothing more.
LEMMA DriverStepQuiet ==
  ASSUME DriverInv, NEW c \in PanelCalls, NEW q \in DriverOps, op' = [op EXCEPT ![c] = q], UNCHANGED <<applied, garbled>>,
         jar' \in [PanelCalls -> Jars], OperationOK(q, c, applied[c], garbled[c]),
         \/ op[c].at # "sent" /\ q.at = "sent" /\ enterTls(c)
         \/ op[c].at = "sent" /\ q.at # "sent" /\ leaveTls(c)
  PROVE  DriverInv'
<1> DEFINE n == applied[c]
           g == garbled[c]
<1>1. n \in Nat /\ g \in Nat /\ applied' = [applied EXCEPT ![c] = n] /\ garbled' = [garbled EXCEPT ![c] = g] /\ OperationOK(q, c, n, g)
  BY DEF DriverInv, DriverTypes
<1> HIDE DEF n, g
<1> QED BY <1>1, DriverStep

(***************************************************************************)
(* An operation is carried out at most once more than its answers were     *)
(* garbled and never more than twice, a reported success was carried out,  *)
(* and certificates are verified exactly while no request to a self-signed *)
(* panel is out: for any number of overlapping calls.                      *)
(***************************************************************************)
THEOREM PanelCallsAreSafe == PanelDriverSpec => [](PanelDriverTypeOK /\ AppliedOnce /\ VerifyRestored)
<1>a. NoOp \in DriverOps /\ NoOp.at = "idle" /\ NoJar \in Jars
  BY DEF NoOp, DriverOps, NoJar, Jars
<1>1. PanelDriverInit => DriverInv
  <2> SUFFICES ASSUME PanelDriverInit PROVE DriverInv
    OBVIOUS
  <2>1. DriverTypes
    BY <1>a DEF PanelDriverInit, DriverTypes
  <2>2. \A c \in PanelCalls : op[c] = NoOp /\ applied[c] = 0 /\ garbled[c] = 0
    BY DEF PanelDriverInit
  <2>3. Out = {}
    BY <1>a, <2>2, PanelDriverAssumption DEF Out
  <2>4. \A c \in PanelCalls : OperationOK(op[c], c, applied[c], garbled[c])
    BY <1>a, <2>2 DEF OperationOK
  <2> QED BY <2>1, <2>3, <2>4, FS_EmptySet DEF DriverInv, PanelDriverInit
<1>2. DriverInv /\ [PanelDriverNext]_driverVars => DriverInv'
  <2> SUFFICES ASSUME DriverInv, [PanelDriverNext]_driverVars PROVE DriverInv'
    OBVIOUS
  <2>a. /\ \A c \in PanelCalls : /\ op[c] \in DriverOps /\ jar[c] \in Jars /\ applied[c] \in Nat /\ garbled[c] \in Nat
                                 /\ op[c].route \in 1..3 /\ op[c].routes \in 1..2 /\ op[c].retry \in BOOLEAN
                                 /\ OperationOK(op[c], c, applied[c], garbled[c])
        /\ op \in [PanelCalls -> DriverOps] /\ jar \in [PanelCalls -> Jars]
        /\ applied \in [PanelCalls -> Nat] /\ garbled \in [PanelCalls -> Nat]
    BY DEF DriverInv, DriverTypes, DriverOps
  <2>b. \A c \in PanelCalls : applied = [applied EXCEPT ![c] = applied[c]] /\ garbled = [garbled EXCEPT ![c] = garbled[c]]
    BY <2>a
  <2>1. ASSUME NEW c \in PanelCalls, NEW k \in 1..2, attempt(c, k) PROVE DriverInv'
    <3> DEFINE q == [NoOp EXCEPT !.at = "ready", !.routes = k, !.ops = op[c].ops + 1]
    <3>1. op[c].ops \in Nat
      BY <2>a DEF DriverOps
    <3>2. q \in DriverOps /\ q.at = "ready" /\ q.route = 1
      <4>1. NoOp.route = 1 /\ NoOp.routes = 1 /\ k \in 1..2 /\ op[c].ops + 1 \in Nat
        BY <3>1 DEF NoOp
      <4> QED BY <4>1, <1>a DEF DriverOps
    <3>3. /\ op' = [op EXCEPT ![c] = q] /\ applied' = [applied EXCEPT ![c] = 0] /\ garbled' = [garbled EXCEPT ![c] = 0]
          /\ jar' \in [PanelCalls -> Jars] /\ UNCHANGED tls /\ op[c].at # "sent"
      BY <2>1, <2>a, <1>a DEF attempt
    <3> HIDE DEF q
    <3>4. OperationOK(q, c, 0, 0)
      BY <3>2 DEF OperationOK
    <3> QED BY <3>2, <3>3, <3>4, DriverStep
  <2>2. ASSUME NEW c \in PanelCalls, raw(c) PROVE DriverInv'
    <3> DEFINE w == IF ensureSession(c) THEN "call" ELSE "login"
               q == [op[c] EXCEPT !.at = "sent", !.wants = w]
    <3>1. q \in DriverOps /\ q.at = "sent" /\ q.route = op[c].route /\ q.retry = op[c].retry
      BY <2>a DEF DriverOps
    <3>2. /\ op[c].at = "ready" /\ op' = [op EXCEPT ![c] = q] /\ enterTls(c) /\ UNCHANGED <<jar, applied, garbled>>
      BY <2>2 DEF raw
    <3> HIDE DEF q
    <3>3. OperationOK(q, c, applied[c], garbled[c])
      BY <2>a, <3>1, <3>2 DEF OperationOK
    <3> QED BY <2>a, <3>1, <3>2, <3>3, DriverStepQuiet
  <2>3. ASSUME NEW c \in PanelCalls, login(c) PROVE DriverInv'
    <3>1. PICK w \in {"failed", "ready"} : op' = [op EXCEPT ![c].at = w]
      BY <2>3 DEF login
    <3> DEFINE q == [op[c] EXCEPT !.at = w]
    <3>2. q \in DriverOps /\ q.at = w /\ q.route = op[c].route /\ q.retry = op[c].retry /\ op' = [op EXCEPT ![c] = q]
      BY <2>a, <3>1 DEF DriverOps
    <3> HIDE DEF q
    <3>3. op[c].at = "sent" /\ leaveTls(c) /\ UNCHANGED <<applied, garbled>>
      BY <2>3 DEF login
    <3>4. jar' \in [PanelCalls -> Jars]
      BY <2>3, <2>a DEF login, Jars
    <3>5. OperationOK(q, c, applied[c], garbled[c])
      BY <2>a, <3>1, <3>2, <3>3 DEF OperationOK
    <3> QED BY <3>1, <3>2, <3>3, <3>4, <3>5, DriverStepQuiet
  <2>4. ASSUME NEW c \in PanelCalls, missingEndpoint(c) PROVE DriverInv'
    <3> DEFINE w == IF op[c].route < op[c].routes THEN "ready" ELSE "failed"
               q == [op[c] EXCEPT !.at = w, !.route = @ + 1, !.retry = TRUE]
    <3>1. /\ op[c].at = "sent" /\ leaveTls(c) /\ UNCHANGED <<jar, applied, garbled>> /\ op' = [op EXCEPT ![c] = q]
          /\ c \in Legacy /\ ~(op[c].route > 1)
      BY <2>4 DEF missingEndpoint, RouteExists
    <3>2. op[c].route = 1 /\ applied[c] = 0 /\ garbled[c] = 0
      BY <2>a, <3>1 DEF OperationOK
    <3>3. q \in DriverOps /\ q.at \in {"ready", "failed"} /\ q.route = 2
      <4>1. w \in {"ready", "failed"} /\ op[c].route + 1 = 2
        BY <3>2
      <4>2. q = [op[c] EXCEPT !.at = w, !.route = 2, !.retry = TRUE]
        BY <4>1
      <4> HIDE DEF w, q
      <4>3. 2 \in 1..3 /\ op[c] \in DriverOps
        BY <2>a
      <4>4. q \in DriverOps /\ q.at = w /\ q.route = 2
        BY <4>1, <4>2, <4>3 DEF DriverOps
      <4> QED BY <4>1, <4>4
    <3> HIDE DEF q
    <3>4. OperationOK(q, c, applied[c], garbled[c])
      BY <3>2, <3>3 DEF OperationOK
    <3> QED BY <2>a, <3>1, <3>3, <3>4, DriverStepQuiet
  <2>5. ASSUME NEW c \in PanelCalls, NEW b \in BOOLEAN, replay(c, b) PROVE DriverInv'
    <3> DEFINE one == IF b THEN 1 ELSE 0
               n == applied[c] + one
               g == garbled[c] + one
    <3>1. /\ op[c].at = "sent" /\ leaveTls(c) /\ RouteExists(c)
          /\ applied' = [applied EXCEPT ![c] = n] /\ garbled' = [garbled EXCEPT ![c] = g]
      BY <2>5, <2>a DEF replay
    <3>2. jar' \in [PanelCalls -> Jars]
      BY <2>5, <2>a, <1>a DEF replay
    <3>3. n \in Nat /\ g \in Nat /\ n = g /\ n <= 2 /\ (op[c].retry => n <= 1) /\ ~(c \in Legacy /\ op[c].route = 1) /\ op[c].route \in {1, 2}
      BY <2>a, <3>1 DEF OperationOK, RouteExists
    <3> HIDE DEF n, g
    <3>4. CASE op[c].retry /\ op' = [op EXCEPT ![c].at = "ready", ![c].retry = FALSE]
      <4> DEFINE q == [op[c] EXCEPT !.at = "ready", !.retry = FALSE]
      <4>1. q \in DriverOps /\ q.at = "ready" /\ ~q.retry /\ q.route = op[c].route /\ op' = [op EXCEPT ![c] = q]
        BY <2>a, <3>4 DEF DriverOps
      <4> HIDE DEF q
      <4>2. OperationOK(q, c, n, g)
        BY <3>3, <3>4, <4>1 DEF OperationOK
      <4> QED BY <3>1, <3>2, <3>3, <4>1, <4>2, DriverStep
    <3>5. CASE op' = [op EXCEPT ![c].at = "failed"]
      <4> DEFINE q == [op[c] EXCEPT !.at = "failed"]
      <4>1. q \in DriverOps /\ q.at = "failed" /\ op' = [op EXCEPT ![c] = q]
        BY <2>a, <3>5 DEF DriverOps
      <4> HIDE DEF q
      <4>2. OperationOK(q, c, n, g)
        BY <3>3, <4>1 DEF OperationOK
      <4> QED BY <3>1, <3>2, <3>3, <4>1, <4>2, DriverStep
    <3> QED BY <2>5, <3>4, <3>5 DEF replay
  <2>6. ASSUME NEW c \in PanelCalls, NEW b \in BOOLEAN, answer(c, b) \/ connectionFails(c, b) PROVE DriverInv'
    <3> DEFINE n == applied[c] + (IF b THEN 1 ELSE 0)
    <3>1. PICK w \in {"ok", "failed"} : op' = [op EXCEPT ![c].at = w] /\ (w = "ok" => b)
      BY <2>6 DEF answer, connectionFails
    <3> DEFINE q == [op[c] EXCEPT !.at = w]
    <3>2. /\ op[c].at = "sent" /\ leaveTls(c) /\ applied' = [applied EXCEPT ![c] = n] /\ UNCHANGED <<jar, garbled>>
      BY <2>6, <2>a DEF answer, connectionFails
    <3>3. n \in Nat /\ n <= 1 + garbled[c] /\ garbled[c] <= 2 /\ n <= 2 /\ (b => n >= 1)
      BY <2>a, <3>2 DEF OperationOK
    <3> HIDE DEF n
    <3>4. q \in DriverOps /\ q.at = w /\ op' = [op EXCEPT ![c] = q]
      BY <2>a, <3>1 DEF DriverOps
    <3> HIDE DEF q
    <3>5. OperationOK(q, c, n, garbled[c])
      BY <3>1, <3>3, <3>4 DEF OperationOK
    <3>6. jar' \in [PanelCalls -> Jars] /\ garbled' = [garbled EXCEPT ![c] = garbled[c]] /\ q.at # "sent" /\ garbled[c] \in Nat
      BY <2>a, <2>b, <3>1, <3>2, <3>4
    <3> QED BY <3>2, <3>3, <3>4, <3>5, <3>6, DriverStep
  <2>7. ASSUME NEW c \in PanelCalls, sessionEnds(c) PROVE DriverInv'
    <3>1. jar' \in [PanelCalls -> Jars] /\ UNCHANGED <<op, tls, applied, garbled>>
      BY <2>7, <2>a DEF sessionEnds, Jars
    <3> QED BY <3>1 DEF DriverInv, DriverTypes, Out
  <2>8. CASE UNCHANGED driverVars
    BY <2>8 DEF driverVars, DriverInv, DriverTypes, Out
  <2> QED BY <2>1, <2>2, <2>3, <2>4, <2>5, <2>6, <2>7, <2>8 DEF PanelDriverNext, CallStep
<1>3. DriverInv => PanelDriverTypeOK /\ AppliedOnce /\ VerifyRestored
  <2> SUFFICES ASSUME DriverInv PROVE PanelDriverTypeOK /\ AppliedOnce /\ VerifyRestored
    OBVIOUS
  <2>1. PanelDriverTypeOK
    <3>1. tls.depth \in 0..Cardinality(PanelCalls)
      <4>1. Cardinality(PanelCalls) \in Nat
        BY PanelDriverAssumption, FS_CardinalityType
      <4> QED BY <4>1, OutIsFinite DEF DriverInv
    <3> QED BY <3>1 DEF PanelDriverTypeOK, DriverInv, DriverTypes, DriverOps, Jars
  <2>2. AppliedOnce
    BY DEF AppliedOnce, DriverInv, OperationOK
  <2>3. VerifyRestored
    <3>1. Out = {} <=> \A c \in Insecure : op[c].at # "sent"
      BY DEF Out
    <3> QED BY <3>1 DEF VerifyRestored, DriverInv
  <2> QED BY <2>1, <2>2, <2>3
<1> QED BY <1>1, <1>2, <1>3, PTL DEF PanelDriverSpec

(* --------------------------- webhook deliveries -------------------------- *)

AnyHook == Hooks \union {CHOOSE h \in Hooks : TRUE}
AnyDelivery == HookDeliveries \union {CHOOSE d \in HookDeliveries : TRUE}
DeliveryRows ==
  [st : {"none", "queued", "done", "gone"}, hook : AnyHook, attempts : 0..MAX_ATTEMPTS, due : BOOLEAN, posts : Nat, oks : Nat]
Batches ==
  [rows : SUBSET HookDeliveries, off : SUBSET HookDeliveries, at : {"idle", "loop", "answered"}, id : AnyDelivery,
   attempts : Nat, ok : BOOLEAN]

\* The batch b holds the answer to delivery d, not yet recorded.
Answered(b, d) == b.at = "answered" /\ b.id = d

(***************************************************************************)
(* Row r of delivery d, with the batch b and after c crashes.  What was    *)
(* posted is what the row counted, one post of the batch that has still to *)
(* be counted, and one for each crash that forgot to count; a row with a   *)
(* counted success is not queued.                                          *)
(***************************************************************************)
DeliveryOK(r, b, d, c) ==
  /\ r.posts <= MAX_ATTEMPTS + c /\ r.oks <= 1 + c
  /\ (r.st = "queued" /\ ~Answered(b, d)) \/ d \in b.rows =>
       r.posts <= r.attempts + c /\ r.oks <= c /\ r.attempts < MAX_ATTEMPTS
  /\ d \in b.rows \/ Answered(b, d) => r.st \in {"queued", "gone"}
  /\ Answered(b, d) => /\ d \notin b.rows /\ b.attempts = r.attempts + 1 /\ r.attempts < MAX_ATTEMPTS
                       /\ r.posts <= r.attempts + 1 + c /\ (b.ok \/ r.oks <= c)

OutboxColumns ==
  /\ webhook \in [Hooks -> {"none", "on", "off"}] /\ hookEdit \subseteq (Hooks \X {"on", "off"})
  /\ hookEmit \in {<<>>} \union {<<s>> : s \in SUBSET Hooks}
  /\ hookCrashes \in Nat

OutboxInv ==
  /\ OutboxColumns
  /\ delivery \in [HookDeliveries -> DeliveryRows] /\ batch \in Batches
  /\ \A d \in HookDeliveries : DeliveryOK(delivery[d], batch, d, hookCrashes)

\* The rows and the batch as they start out.
LEMMA OutboxStart ==
  /\ NoRowYet \in DeliveryRows /\ NoRowYet.st = "none" /\ NoRowYet.posts = 0 /\ NoRowYet.oks = 0 /\ NoRowYet.attempts = 0
  /\ NoBatch \in Batches /\ NoBatch.at = "idle" /\ NoBatch.rows = {}
BY OutboxAssumption DEF NoRowYet, DeliveryRows, NoBatch, Batches, AnyHook, AnyDelivery

\* A crash or an aborted batch: what it had not counted is forgotten.
LEMMA BatchForgotten ==
  ASSUME NEW r \in DeliveryRows, NEW b \in Batches, NEW d \in HookDeliveries, NEW c \in Nat, NEW e \in Nat, DeliveryOK(r, b, d, c),
         e = c + 1 \/ (e = c /\ (Answered(b, d) => r.st = "gone"))
  PROVE  DeliveryOK(r, NoBatch, d, e)
<1>1. ~Answered(NoBatch, d) /\ d \notin NoBatch.rows
  BY OutboxStart DEF Answered
<1>2. r.posts \in Nat /\ r.oks \in Nat /\ r.attempts \in Nat /\ MAX_ATTEMPTS \in Nat
  BY OutboxAssumption DEF DeliveryRows
<1>3. CASE e = c + 1
  BY <1>1, <1>2, <1>3 DEF DeliveryOK
<1>4. CASE e = c /\ (Answered(b, d) => r.st = "gone")
  BY <1>1, <1>2, <1>4 DEF DeliveryOK
<1> QED BY <1>3, <1>4

\* A step that writes neither deliveries nor the batch.
LEMMA OutboxAround ==
  ASSUME OutboxInv, OutboxColumns', UNCHANGED <<delivery, batch, hookCrashes>>
  PROVE  OutboxInv'
BY DEF OutboxInv

\* A step that rewrites one row and the batch.
LEMMA RowWritten ==
  ASSUME OutboxInv, NEW d \in HookDeliveries, NEW r \in DeliveryRows, NEW b \in Batches,
         delivery' = [delivery EXCEPT ![d] = r], batch' = b, UNCHANGED <<webhook, hookEdit, hookEmit, hookCrashes>>,
         DeliveryOK(r, b, d, hookCrashes),
         b.rows \subseteq batch.rows, \A x \in HookDeliveries \ {d} : Answered(b, x) <=> Answered(batch, x),
         (\E x \in HookDeliveries \ {d} : Answered(b, x)) => b.attempts = batch.attempts /\ b.ok = batch.ok
  PROVE  OutboxInv'
<1>1. delivery' \in [HookDeliveries -> DeliveryRows] /\ delivery'[d] = r /\ \A x \in HookDeliveries \ {d} : delivery'[x] = delivery[x]
  BY DEF OutboxInv
<1>2. \A x \in HookDeliveries \ {d} : DeliveryOK(delivery[x], b, x, hookCrashes)
  <2> SUFFICES ASSUME NEW x \in HookDeliveries \ {d} PROVE DeliveryOK(delivery[x], b, x, hookCrashes)
    OBVIOUS
  <2>1. DeliveryOK(delivery[x], batch, x, hookCrashes)
    BY DEF OutboxInv
  <2> QED BY <2>1 DEF DeliveryOK
<1>3. OutboxColumns'
  BY DEF OutboxInv, OutboxColumns
<1> QED BY <1>1, <1>2, <1>3 DEF OutboxInv

\* Webhooks are edited or deleted, their deliveries with them.
LEMMA HookSteps ==
  ASSUME OutboxInv, \/ \E h \in Hooks : deleteWebhook(h) \/ \E v \in {"on", "off"} : beginHookEdit(h, v)
                    \/ writeHook \/ emitEvent \/ hookCacheExpires
  PROVE  OutboxInv'
<1>1. ASSUME NEW h \in Hooks, deleteWebhook(h) PROVE OutboxInv'
  <2>1. OutboxColumns' /\ UNCHANGED <<batch, hookCrashes>>
    BY <1>1 DEF deleteWebhook, OutboxInv, OutboxColumns
  <2>2. \A d \in HookDeliveries : delivery'[d] \in DeliveryRows /\ DeliveryOK(delivery'[d], batch, d, hookCrashes)
    <3> SUFFICES ASSUME NEW d \in HookDeliveries PROVE delivery'[d] \in DeliveryRows /\ DeliveryOK(delivery'[d], batch, d, hookCrashes)
      OBVIOUS
    <3>1. delivery[d] \in DeliveryRows /\ DeliveryOK(delivery[d], batch, d, hookCrashes)
      BY DEF OutboxInv
    <3>2. delivery'[d] = delivery[d] \/ delivery'[d] = [delivery[d] EXCEPT !.st = "gone"]
      BY <1>1 DEF deleteWebhook
    <3>3. CASE delivery'[d] = [delivery[d] EXCEPT !.st = "gone"]
      <4>1. delivery'[d] \in DeliveryRows
        BY <3>1, <3>3 DEF DeliveryRows
      <4>2. delivery'[d].st = "gone" /\ delivery'[d].posts = delivery[d].posts /\ delivery'[d].oks = delivery[d].oks
            /\ delivery'[d].attempts = delivery[d].attempts
        BY <3>1, <3>3 DEF DeliveryRows
      <4> QED BY <3>1, <4>1, <4>2 DEF DeliveryOK
    <3> QED BY <3>1, <3>2, <3>3
  <2>3. delivery' \in [HookDeliveries -> DeliveryRows]
    BY <1>1, <2>2 DEF deleteWebhook
  <2> QED BY <2>1, <2>2, <2>3 DEF OutboxInv
<1>2. ASSUME NEW h \in Hooks, NEW v \in {"on", "off"}, beginHookEdit(h, v) PROVE OutboxInv'
  BY <1>2, OutboxAround DEF beginHookEdit, OutboxInv, OutboxColumns
<1>3. CASE writeHook
  <2>1. PICK e \in hookEdit : webhook' = [webhook EXCEPT ![e[1]] = e[2]]
    BY <1>3 DEF writeHook
  <2>2. e[1] \in Hooks /\ e[2] \in {"on", "off"}
    BY <2>1 DEF OutboxInv, OutboxColumns
  <2>3. OutboxColumns'
    BY <1>3, <2>1, <2>2 DEF writeHook, OutboxInv, OutboxColumns
  <2> QED BY <1>3, <2>3, OutboxAround DEF writeHook
<1>4. CASE emitEvent
  <2>1. hookEmit' \in {<<>>} \union {<<s>> : s \in SUBSET Hooks}
    BY <1>4 DEF emitEvent, Active
  <2> QED BY <1>4, <2>1, OutboxAround DEF emitEvent, OutboxInv, OutboxColumns
<1>5. CASE hookCacheExpires
  BY <1>5, OutboxAround DEF hookCacheExpires, OutboxInv, OutboxColumns
<1> QED BY <1>1, <1>2, <1>3, <1>4, <1>5

\* createMany fills rows that were not used yet, so none that the batch works on.
LEMMA RowsCreated ==
  ASSUME OutboxInv, createDeliveries
  PROVE  OutboxInv'
<1>1. OutboxColumns' /\ UNCHANGED <<batch, hookCrashes>>
  BY DEF createDeliveries, OutboxInv, OutboxColumns
<1>2. CASE UNCHANGED delivery
  BY <1>1, <1>2, OutboxAround
<1>3. CASE ~UNCHANGED delivery
  <2> DEFINE targets == Head(hookEmit)
  <2>0. targets \subseteq Hooks
    <3>1. PICK s \in SUBSET Hooks : hookEmit = <<s>>
      BY DEF createDeliveries, OutboxInv, OutboxColumns
    <3> QED BY <3>1
  <2> HIDE DEF targets
  <2>1. PICK f \in [targets -> {d \in HookDeliveries : delivery[d].st = "none"}] :
          delivery' = [d \in HookDeliveries |->
                  IF \E h \in targets : f[h] = d
                  THEN [NoRowYet EXCEPT !.st = "queued", !.due = TRUE, !.hook = CHOOSE h \in targets : f[h] = d]
                  ELSE delivery[d]]
    BY <1>3 DEF createDeliveries, targets
  <2>2. \A d \in HookDeliveries : delivery'[d] \in DeliveryRows /\ DeliveryOK(delivery'[d], batch, d, hookCrashes)
    <3> SUFFICES ASSUME NEW d \in HookDeliveries PROVE delivery'[d] \in DeliveryRows /\ DeliveryOK(delivery'[d], batch, d, hookCrashes)
      OBVIOUS
    <3>1. delivery[d] \in DeliveryRows /\ DeliveryOK(delivery[d], batch, d, hookCrashes) /\ hookCrashes \in Nat
      BY DEF OutboxInv, OutboxColumns
    <3>2. CASE ~\E h \in targets : f[h] = d
      BY <2>1, <3>1, <3>2
    <3>3. CASE \E h \in targets : f[h] = d
      <4>1. PICK g \in Hooks : delivery'[d] = [NoRowYet EXCEPT !.st = "queued", !.due = TRUE, !.hook = g]
        BY <2>0, <2>1, <3>3
      <4>2. delivery'[d] \in DeliveryRows
        BY <4>1, OutboxStart DEF DeliveryRows, AnyHook
      <4>3. delivery'[d].st = "queued" /\ delivery'[d].posts = 0 /\ delivery'[d].oks = 0 /\ delivery'[d].attempts = 0
        BY <4>1, OutboxStart DEF DeliveryRows
      <4>4. delivery[d].st = "none"
        BY <3>3
      <4>5. ~Answered(batch, d) /\ d \notin batch.rows
        BY <3>1, <4>4 DEF DeliveryOK
      <4>6. MAX_ATTEMPTS \in Nat /\ 0 < MAX_ATTEMPTS
        BY OutboxAssumption
      <4> QED BY <3>1, <4>2, <4>3, <4>5, <4>6 DEF DeliveryOK
    <3> QED BY <3>2, <3>3
  <2>3. delivery' \in [HookDeliveries -> DeliveryRows]
    BY <2>1, <2>2
  <2> QED BY <1>1, <2>2, <2>3 DEF OutboxInv
<1> QED BY <1>2, <1>3

\* The dispatcher takes the rows that are due, ends a batch, or dies.
LEMMA BatchSteps ==
  ASSUME OutboxInv, dispatchWebhooks \/ batchEnds \/ workerCrashes
  PROVE  OutboxInv'
<1>1. CASE dispatchWebhooks
  <2>1. batch' = [NoBatch EXCEPT !.at = "loop", !.rows = Due, !.off = {d \in Due : webhook[delivery[d].hook] = "off"}]
        /\ UNCHANGED <<webhook, hookEdit, hookEmit, delivery, hookCrashes>> /\ batch.at = "idle"
    BY <1>1 DEF dispatchWebhooks
  <2>2. batch' \in Batches /\ batch'.at = "loop" /\ batch'.rows = Due
    <3>1. Due \subseteq HookDeliveries
      BY DEF Due
    <3> QED BY <2>1, <3>1, OutboxStart DEF Batches
  <2>3. \A d \in HookDeliveries : DeliveryOK(delivery[d], batch', d, hookCrashes)
    <3> SUFFICES ASSUME NEW d \in HookDeliveries PROVE DeliveryOK(delivery[d], batch', d, hookCrashes)
      OBVIOUS
    <3>1. DeliveryOK(delivery[d], batch, d, hookCrashes) /\ ~Answered(batch, d) /\ ~Answered(batch', d)
      BY <2>1, <2>2 DEF OutboxInv, Answered
    <3>2. d \in batch'.rows => delivery[d].st = "queued"
      BY <2>2 DEF Due
    <3> QED BY <3>1, <3>2 DEF DeliveryOK
  <2> QED BY <2>1, <2>2, <2>3 DEF OutboxInv, OutboxColumns
<1>2. CASE batchEnds
  <2>1. batch' = NoBatch /\ batch.at = "loop" /\ UNCHANGED <<webhook, hookEdit, hookEmit, delivery, hookCrashes>>
    BY <1>2 DEF batchEnds
  <2>2. \A d \in HookDeliveries : DeliveryOK(delivery[d], NoBatch, d, hookCrashes)
    BY <2>1, BatchForgotten DEF OutboxInv, OutboxColumns, Answered
  <2> QED BY <2>1, <2>2, OutboxStart DEF OutboxInv, OutboxColumns
<1>3. CASE workerCrashes
  <2>1. batch' = NoBatch /\ hookCrashes' = hookCrashes + 1 /\ UNCHANGED <<webhook, hookEdit, hookEmit, delivery>>
    BY <1>3 DEF workerCrashes
  <2>2. hookCrashes' \in Nat /\ hookCrashes \in Nat
    BY <2>1 DEF OutboxInv, OutboxColumns
  <2>3. \A d \in HookDeliveries : DeliveryOK(delivery[d], NoBatch, d, hookCrashes')
    BY <2>1, <2>2, BatchForgotten DEF OutboxInv
  <2> QED BY <2>1, <2>2, <2>3, OutboxStart DEF OutboxInv, OutboxColumns
<1> QED BY <1>1, <1>2, <1>3

\* A row of the batch is closed unsent, or posted whatever has become of it.
LEMMA DeliverStep ==
  ASSUME OutboxInv, NEW d \in HookDeliveries, deliver(d)
  PROVE  OutboxInv'
<1>1. batch.at = "loop" /\ d \in batch.rows /\ UNCHANGED <<webhook, hookEdit, hookEmit, hookCrashes>> /\ hookCrashes \in Nat
  BY DEF deliver, OutboxInv, OutboxColumns
<1>2. delivery[d] \in DeliveryRows /\ DeliveryOK(delivery[d], batch, d, hookCrashes) /\ batch \in Batches
  BY DEF OutboxInv
<1>3. \A x \in HookDeliveries : ~Answered(batch, x)
  BY <1>1 DEF Answered
<1>4. CASE batch' = NoBatch /\ UNCHANGED delivery
  <2>1. \A x \in HookDeliveries : DeliveryOK(delivery[x], NoBatch, x, hookCrashes)
    BY <1>1, <1>3, BatchForgotten DEF OutboxInv
  <2> QED BY <1>1, <1>4, <2>1, OutboxStart DEF OutboxInv, OutboxColumns
<1>5. CASE delivery' = [delivery EXCEPT ![d].st = "done"] /\ batch' = [batch EXCEPT !.rows = @ \ {d}]
  <2>1. PICK r : r = [delivery[d] EXCEPT !.st = "done"]
    OBVIOUS
  <2>2. PICK b : b = [batch EXCEPT !.rows = batch.rows \ {d}]
    OBVIOUS
  <2>3. r \in DeliveryRows /\ r.st = "done" /\ r.posts = delivery[d].posts /\ r.oks = delivery[d].oks /\ r.attempts = delivery[d].attempts
    BY <1>2, <2>1 DEF DeliveryRows
  <2>4. b \in Batches /\ b.rows = batch.rows \ {d} /\ b.at = batch.at
    BY <1>2, <2>2 DEF Batches
  <2>5. \A x \in HookDeliveries : ~Answered(b, x)
    BY <1>1, <2>4 DEF Answered
  <2>6. DeliveryOK(r, b, d, hookCrashes)
    BY <1>2, <2>3, <2>4, <2>5 DEF DeliveryOK
  <2>7. delivery' = [delivery EXCEPT ![d] = r] /\ batch' = b
    BY <1>5, <2>1, <2>2
  <2> QED BY <1>1, <1>3, <2>3, <2>4, <2>5, <2>6, <2>7, RowWritten
<1>6. ASSUME NEW ok \in BOOLEAN, delivery' = Posted(d, ok),
             batch' = [batch EXCEPT !.rows = @ \ {d}, !.at = "answered", !.id = d, !.ok = ok, !.attempts = delivery[d].attempts + 1]
      PROVE  OutboxInv'
  <2>0. PICK n : n = delivery[d].oks + (IF ok THEN 1 ELSE 0)
    OBVIOUS
  <2>a. delivery[d].posts \in Nat /\ delivery[d].oks \in Nat /\ delivery[d].attempts \in Nat
    BY <1>2 DEF DeliveryRows
  <2>b. n \in Nat /\ delivery[d].posts + 1 \in Nat /\ delivery[d].attempts + 1 \in Nat
    BY <2>0, <2>a
  <2>1. PICK r : r = [delivery[d] EXCEPT !.posts = delivery[d].posts + 1, !.oks = n]
    OBVIOUS
  <2>2. PICK b : b = [batch EXCEPT !.rows = batch.rows \ {d}, !.at = "answered", !.id = d, !.ok = ok, !.attempts = delivery[d].attempts + 1]
    OBVIOUS
  <2>3. /\ r \in DeliveryRows /\ r.st = delivery[d].st /\ r.posts = delivery[d].posts + 1 /\ r.attempts = delivery[d].attempts
        /\ r.oks = n
    BY <1>2, <2>b, <2>1 DEF DeliveryRows
  <2>4. b \in Batches /\ b.rows = batch.rows \ {d} /\ b.at = "answered" /\ b.id = d /\ b.ok = ok /\ b.attempts = delivery[d].attempts + 1
    BY <1>2, <1>6, <2>b, <2>2 DEF Batches, AnyDelivery
  <2>5. Answered(b, d) /\ \A x \in HookDeliveries \ {d} : ~Answered(b, x)
    BY <2>4 DEF Answered
  <2>6. delivery[d].posts \in Nat /\ delivery[d].oks \in Nat /\ delivery[d].attempts \in Nat /\ MAX_ATTEMPTS \in Nat
    BY <1>2, OutboxAssumption DEF DeliveryRows
  <2>7. /\ delivery[d].posts <= delivery[d].attempts + hookCrashes /\ delivery[d].oks <= hookCrashes /\ delivery[d].attempts < MAX_ATTEMPTS
        /\ delivery[d].st \in {"queued", "gone"}
    BY <1>1, <1>2 DEF DeliveryOK
  <2>8. r.posts <= delivery[d].attempts + 1 + hookCrashes /\ r.posts <= MAX_ATTEMPTS + hookCrashes /\ r.oks <= 1 + hookCrashes
        /\ (ok \/ r.oks <= hookCrashes)
    BY <1>1, <1>6, <2>0, <2>3, <2>6, <2>7
  <2>9. DeliveryOK(r, b, d, hookCrashes)
    BY <2>3, <2>4, <2>5, <2>7, <2>8 DEF DeliveryOK
  <2>10. delivery' = [delivery EXCEPT ![d] = r]
    BY <1>2, <1>6, <2>0, <2>1 DEF Posted, OutboxInv, DeliveryRows
  <2>11. batch' = b
    BY <1>6, <2>2
  <2> QED BY <1>1, <1>3, <2>3, <2>4, <2>5, <2>9, <2>10, <2>11, RowWritten
<1> QED BY <1>4, <1>5, <1>6 DEF deliver

\* The answer is counted, and the row closed on success or after the last attempt.
LEMMA RecordStep ==
  ASSUME OutboxInv, recordAttempt
  PROVE  OutboxInv'
<1> DEFINE d == batch.id
<1>1. batch.at = "answered" /\ UNCHANGED <<webhook, hookEdit, hookEmit, hookCrashes>> /\ hookCrashes \in Nat /\ batch \in Batches
  BY DEF recordAttempt, OutboxInv, OutboxColumns
<1>e. CASE HookDeliveries = {}
  <2>1. delivery' \in [HookDeliveries -> DeliveryRows]
    BY <1>e DEF recordAttempt, OutboxInv
  <2>2. batch' \in Batches
    BY <1>1, OutboxStart DEF recordAttempt, Batches
  <2> QED BY <1>1, <1>e, <2>1, <2>2 DEF OutboxInv, OutboxColumns
<1>f. CASE HookDeliveries # {}
  <2>0. d \in HookDeliveries
    BY <1>1, <1>f DEF Batches, AnyDelivery
  <2>1. delivery[d] \in DeliveryRows /\ DeliveryOK(delivery[d], batch, d, hookCrashes) /\ Answered(batch, d)
    BY <1>1, <2>0 DEF OutboxInv, Answered
  <2>2. CASE delivery[d].st = "gone"
    <3>1. batch' = NoBatch /\ UNCHANGED delivery
      BY <2>2 DEF recordAttempt
    <3>2. \A x \in HookDeliveries : Answered(batch, x) => x = d
      BY DEF Answered
    <3>3. \A x \in HookDeliveries : DeliveryOK(delivery[x], NoBatch, x, hookCrashes)
      BY <1>1, <2>2, <3>2, BatchForgotten DEF OutboxInv
    <3> QED BY <1>1, <3>1, <3>3, OutboxStart DEF OutboxInv, OutboxColumns
  <2>3. CASE delivery[d].st # "gone"
    <3>1. PICK r : r = [delivery[d] EXCEPT !.attempts = batch.attempts, !.due = FALSE,
                          !.st = IF batch.ok \/ batch.attempts >= MAX_ATTEMPTS THEN "done" ELSE delivery[d].st]
      OBVIOUS
    <3>2. PICK b : b = IF batch.rows = {} THEN NoBatch ELSE [batch EXCEPT !.at = "loop"]
      OBVIOUS
    <3>3. delivery' = [delivery EXCEPT ![d] = r]
      BY <2>0, <2>1, <2>3, <3>1 DEF recordAttempt, OutboxInv, DeliveryRows
    <3>4. batch' = b
      BY <2>3, <3>2 DEF recordAttempt
    <3>5. b \in Batches /\ b.rows = batch.rows /\ b.at \in {"idle", "loop"}
      <4>1. CASE batch.rows = {}
        BY <3>2, <4>1, OutboxStart
      <4>2. CASE batch.rows # {}
        BY <1>1, <3>2, <4>2 DEF Batches
      <4> QED BY <4>1, <4>2
    <3>6. /\ delivery[d].posts \in Nat /\ delivery[d].oks \in Nat /\ delivery[d].attempts \in Nat /\ MAX_ATTEMPTS \in Nat
          /\ batch.attempts = delivery[d].attempts + 1 /\ delivery[d].attempts < MAX_ATTEMPTS /\ d \notin batch.rows
          /\ delivery[d].posts <= delivery[d].attempts + 1 + hookCrashes /\ (batch.ok \/ delivery[d].oks <= hookCrashes)
          /\ delivery[d].oks <= 1 + hookCrashes /\ delivery[d].posts <= MAX_ATTEMPTS + hookCrashes
      BY <2>1, OutboxAssumption DEF DeliveryOK, DeliveryRows
    <3>7. batch.attempts \in 0..MAX_ATTEMPTS
      BY <3>6
    <3>8. /\ r \in DeliveryRows /\ r.posts = delivery[d].posts /\ r.oks = delivery[d].oks /\ r.attempts = batch.attempts
          /\ r.st = IF batch.ok \/ batch.attempts >= MAX_ATTEMPTS THEN "done" ELSE delivery[d].st
      BY <2>1, <3>1, <3>7 DEF DeliveryRows
    <3>9. r.st = "queued" => ~batch.ok /\ batch.attempts < MAX_ATTEMPTS
      BY <3>6, <3>8
    <3>10. \A x \in HookDeliveries : ~Answered(b, x)
      BY <3>5 DEF Answered
    <3>11. \A x \in HookDeliveries \ {d} : ~Answered(batch, x)
      BY DEF Answered
    <3>12. DeliveryOK(r, b, d, hookCrashes)
      BY <2>0, <3>5, <3>6, <3>8, <3>9, <3>10 DEF DeliveryOK
    <3> HIDE DEF d
    <3> QED BY <1>1, <2>0, <3>3, <3>4, <3>5, <3>8, <3>10, <3>11, <3>12, RowWritten
  <2> QED BY <2>2, <2>3
<1> QED BY <1>e, <1>f

\* The back-off of a row ends.
LEMMA BackoffStep ==
  ASSUME OutboxInv, NEW d \in HookDeliveries, backoffEnds(d)
  PROVE  OutboxInv'
<1>1. PICK r : r = [delivery[d] EXCEPT !.due = TRUE]
  OBVIOUS
<1>2. delivery[d] \in DeliveryRows /\ DeliveryOK(delivery[d], batch, d, hookCrashes) /\ batch \in Batches
  BY DEF OutboxInv
<1>3. /\ r \in DeliveryRows /\ r.st = delivery[d].st /\ r.posts = delivery[d].posts
      /\ r.oks = delivery[d].oks /\ r.attempts = delivery[d].attempts
  BY <1>1, <1>2 DEF DeliveryRows
<1>4. DeliveryOK(r, batch, d, hookCrashes)
  BY <1>2, <1>3 DEF DeliveryOK
<1>5. delivery' = [delivery EXCEPT ![d] = r] /\ UNCHANGED <<webhook, hookEdit, hookEmit, batch, hookCrashes>>
  BY <1>1 DEF backoffEnds
<1> QED BY <1>2, <1>3, <1>4, <1>5, RowWritten

(***************************************************************************)
(* The safety half of DeliveriesSound, for any webhooks, deliveries and    *)
(* number of crashes: a receiver that answered 2xx is called again only    *)
(* after a crash before the answer was recorded, and no delivery is posted *)
(* more often than MAX_ATTEMPTS and the crashes allow.                     *)
(***************************************************************************)
THEOREM DeliveriesAreCounted == OutboxSpec => [](OutboxTypeOK /\ PostedOncePerSuccess)
<1>1. OutboxInit => OutboxInv
  <2> SUFFICES ASSUME OutboxInit PROVE OutboxInv
    OBVIOUS
  <2>1. OutboxColumns /\ delivery \in [HookDeliveries -> DeliveryRows] /\ batch \in Batches /\ hookCrashes = 0
    BY OutboxStart DEF OutboxInit, OutboxColumns
  <2>2. \A d \in HookDeliveries : DeliveryOK(NoRowYet, NoBatch, d, 0)
    BY OutboxStart, OutboxAssumption DEF DeliveryOK, Answered
  <2>3. \A d \in HookDeliveries : DeliveryOK(delivery[d], batch, d, hookCrashes)
    BY <2>1, <2>2 DEF OutboxInit
  <2> QED BY <2>1, <2>3 DEF OutboxInv
<1>2. OutboxInv /\ [OutboxNext]_outboxVars => OutboxInv'
  <2> SUFFICES ASSUME OutboxInv, [OutboxNext]_outboxVars PROVE OutboxInv'
    OBVIOUS
  <2>1. CASE UNCHANGED outboxVars
    BY <2>1 DEF outboxVars, OutboxInv, OutboxColumns
  <2>2. CASE OutboxNext
    BY <2>2, HookSteps, RowsCreated, BatchSteps, DeliverStep, RecordStep, BackoffStep DEF OutboxNext, HookDispatch
  <2> QED BY <2>1, <2>2
<1>3. OutboxInv => OutboxTypeOK /\ PostedOncePerSuccess
  BY DEF OutboxInv, OutboxColumns, OutboxTypeOK, PostedOncePerSuccess, DeliveryOK, DeliveryRows, Batches
<1> QED BY <1>1, <1>2, <1>3, PTL DEF OutboxSpec

(* -------------------------------- sending a mail ------------------------- *)

\* The conversation ends with the body and QUIT, and only its last step is QUIT.
LEMMA StepsAre ==
  /\ Len(Steps) \in Nat /\ Len(Steps) >= 7 /\ Steps[Len(Steps)].cmd = "QUIT"
  /\ Steps[Len(Steps) - 1].cmd = "body" /\ Steps[Len(Steps) - 1].want = {250}
  /\ \A i \in 1..(Len(Steps) - 1) : Steps[i].cmd # "QUIT"
<1> DEFINE S == [cmd : {"greeting", "EHLO", "AUTH", "user", "pass", "MAIL", "RCPT", "DATA", "body", "QUIT"}, want : SUBSET Nat]
           h == <<[cmd |-> "greeting", want |-> {220}], [cmd |-> "EHLO", want |-> {250}]>>
           a == <<[cmd |-> "AUTH", want |-> {334}], [cmd |-> "user", want |-> {334}], [cmd |-> "pass", want |-> {235}]>>
           m == IF WithAuth THEN a ELSE <<>>
           t == <<[cmd |-> "MAIL", want |-> {250}], [cmd |-> "RCPT", want |-> {250, 251}], [cmd |-> "DATA", want |-> {354}],
                  [cmd |-> "body", want |-> {250}], [cmd |-> "QUIT", want |-> {221}]>>
<1>1. h \in Seq(S) /\ Len(h) = 2 /\ \A i \in 1..2 : h[i].cmd # "QUIT"
  <2>1. Len(h) = 2 /\ h[1].cmd = "greeting" /\ h[2].cmd = "EHLO" /\ h[1].want = {220} /\ h[2].want = {250}
    OBVIOUS
  <2>2. [cmd |-> "greeting", want |-> {220}] \in S /\ [cmd |-> "EHLO", want |-> {250}] \in S
    OBVIOUS
  <2>3. h \in Seq(S)
    <3> HIDE DEF S
    <3> QED BY <2>2
  <2> QED BY <2>1, <2>3
<1>2. m \in Seq(S) /\ Len(m) \in Nat /\ \A i \in 1..Len(m) : m[i].cmd # "QUIT"
  <2>1. [cmd |-> "AUTH", want |-> {334}] \in S /\ [cmd |-> "user", want |-> {334}] \in S /\ [cmd |-> "pass", want |-> {235}] \in S
    OBVIOUS
  <2>2. a \in Seq(S)
    <3> HIDE DEF S
    <3> QED BY <2>1
  <2>3. Len(a) = 3 /\ a[1].cmd = "AUTH" /\ a[2].cmd = "user" /\ a[3].cmd = "pass"
    OBVIOUS
  <2> HIDE DEF a, S
  <2>4. CASE WithAuth
    <3>1. m = a
      BY <2>4
    <3> HIDE DEF m
    <3>2. Len(m) = 3 /\ \A i \in 1..3 : m[i].cmd # "QUIT"
      BY <2>3, <3>1
    <3> QED BY <2>2, <3>1, <3>2
  <2>5. CASE ~WithAuth
    BY <2>5
  <2> QED BY <2>4, <2>5
<1>3. t \in Seq(S) /\ Len(t) = 5 /\ t[5].cmd = "QUIT" /\ t[4].cmd = "body" /\ t[4].want = {250} /\ \A i \in 1..4 : t[i].cmd # "QUIT"
  <2>1. [cmd |-> "MAIL", want |-> {250}] \in S /\ [cmd |-> "RCPT", want |-> {250, 251}] \in S /\ [cmd |-> "DATA", want |-> {354}] \in S
    OBVIOUS
  <2>2. [cmd |-> "body", want |-> {250}] \in S /\ [cmd |-> "QUIT", want |-> {221}] \in S
    OBVIOUS
  <2>3. t \in Seq(S)
    <3> HIDE DEF S
    <3> QED BY <2>1, <2>2
  <2>4. Len(t) = 5 /\ t[5].cmd = "QUIT" /\ t[4].cmd = "body" /\ t[4].want = {250}
    OBVIOUS
  <2>5. t[1].cmd = "MAIL" /\ t[2].cmd = "RCPT" /\ t[3].cmd = "DATA"
    OBVIOUS
  <2> QED BY <2>3, <2>4, <2>5
<1>4. Steps = (h \o m) \o t
  BY DEF Steps
<1> HIDE DEF S, h, a, m, t
<1>5. h \o m \in Seq(S) /\ Len(h \o m) = 2 + Len(m) /\ \A i \in 1..(2 + Len(m)) : (h \o m)[i] = IF i <= 2 THEN h[i] ELSE m[i - 2]
  <2>1. /\ h \o m \in Seq(S) /\ Len(h \o m) = Len(h) + Len(m)
        /\ \A i \in 1..(Len(h) + Len(m)) : (h \o m)[i] = IF i <= Len(h) THEN h[i] ELSE m[i - Len(h)]
    BY <1>1, <1>2, ConcatProperties, Zenon
  <2> QED BY <1>1, <2>1
<1>6. \A i \in 1..(2 + Len(m)) : (h \o m)[i].cmd # "QUIT"
  <2> SUFFICES ASSUME NEW i \in 1..(2 + Len(m)) PROVE (h \o m)[i].cmd # "QUIT"
    OBVIOUS
  <2>1. CASE i <= 2
    BY <1>1, <1>2, <1>5, <2>1
  <2>2. CASE ~(i <= 2)
    <3>1. i - 2 \in 1..Len(m)
      BY <1>2, <2>2
    <3> QED BY <1>2, <1>5, <2>2, <3>1
  <2> QED BY <2>1, <2>2
<1>7. Len(Steps) = 7 + Len(m) /\ \A i \in 1..(7 + Len(m)) : Steps[i] = IF i <= 2 + Len(m) THEN (h \o m)[i] ELSE t[i - (2 + Len(m))]
  <2>1. /\ Len((h \o m) \o t) = Len(h \o m) + Len(t)
        /\ \A i \in 1..(Len(h \o m) + Len(t)) : ((h \o m) \o t)[i] = IF i <= Len(h \o m) THEN (h \o m)[i] ELSE t[i - Len(h \o m)]
    <3>1. h \o m \in Seq(S) /\ t \in Seq(S)
      BY <1>3, <1>5
    <3>2. PICK u : u = h \o m
      OBVIOUS
    <3>3. u \in Seq(S)
      BY <3>1, <3>2
    <3>4. /\ Len(u \o t) = Len(u) + Len(t)
          /\ \A i \in 1..(Len(u) + Len(t)) : (u \o t)[i] = IF i <= Len(u) THEN u[i] ELSE t[i - Len(u)]
      BY <3>1, <3>3, ConcatProperties, Zenon
    <3> QED BY <3>2, <3>4
  <2>2. Len(h \o m) + Len(t) = 7 + Len(m)
    BY <1>2, <1>3, <1>5
  <2> QED BY <1>4, <1>5, <2>1, <2>2
<1>8. Steps[7 + Len(m)] = t[5] /\ Steps[6 + Len(m)] = t[4]
  <2>1. 7 + Len(m) \in 1..(7 + Len(m)) /\ 6 + Len(m) \in 1..(7 + Len(m)) /\ ~(7 + Len(m) <= 2 + Len(m)) /\ ~(6 + Len(m) <= 2 + Len(m))
    BY <1>2
  <2>2. (7 + Len(m)) - (2 + Len(m)) = 5 /\ (6 + Len(m)) - (2 + Len(m)) = 4
    BY <1>2
  <2> QED BY <1>7, <2>1, <2>2
<1>9. \A i \in 1..(6 + Len(m)) : Steps[i].cmd # "QUIT"
  <2> SUFFICES ASSUME NEW i \in 1..(6 + Len(m)) PROVE Steps[i].cmd # "QUIT"
    OBVIOUS
  <2>0. i \in 1..(7 + Len(m))
    BY <1>2
  <2>1. CASE i <= 2 + Len(m)
    <3>1. Steps[i] = (h \o m)[i]
      BY <1>7, <2>0, <2>1
    <3>2. i \in 1..(2 + Len(m))
      BY <1>2, <2>1
    <3> QED BY <1>6, <3>1, <3>2
  <2>2. CASE ~(i <= 2 + Len(m))
    <3>1. Steps[i] = t[i - (2 + Len(m))]
      BY <1>7, <2>0, <2>2
    <3>2. i - (2 + Len(m)) \in 1..4
      BY <1>2, <2>2
    <3> QED BY <1>3, <3>1, <3>2
  <2> QED BY <2>1, <2>2
<1>10. Len(Steps) - 1 = 6 + Len(m) /\ Len(Steps) \in Nat /\ Len(Steps) >= 7
  BY <1>2, <1>7
<1> QED BY <1>3, <1>7, <1>8, <1>9, <1>10

\* Replies are consumed in step: at most one final line lies in the buffer, the
\* answer to the step being waited for, and past the body the server has taken it.
MailInv ==
  /\ mailStep \in 1..Len(Steps) /\ outcome \in {"idle", "open", "sent", "failed"}
  /\ waiting \in BOOLEAN /\ failure \in BOOLEAN /\ buffer \in Seq(Nat)
  /\ peer \in [answered : Nat, chunks : Nat, accepted : BOOLEAN] /\ peer.answered <= mailStep
  /\ \A j, k \in Finals : j = k
  /\ Finals # {} => peer.answered = mailStep
  /\ \A k \in Finals : mailStep = Len(Steps) - 1 /\ buffer[k] = 250 => peer.accepted
  /\ mailStep = Len(Steps) \/ outcome = "sent" => peer.accepted

\* What serverReplies and serverContinues add to the buffer is its last line.
LEMMA LineArrives ==
  ASSUME MailInv, NEW c \in Nat, buffer' = Append(buffer, c)
  PROVE  /\ buffer' \in Seq(Nat)
         /\ \A k \in Finals' : (k \in Finals /\ buffer'[k] = buffer[k]) \/ (k = Len(buffer) + 1 /\ buffer'[k] = c /\ c # 0)
<1>1. buffer \in Seq(Nat) /\ Len(buffer) \in Nat
  BY DEF MailInv
<1>2. /\ buffer' \in Seq(Nat) /\ Len(buffer') = Len(buffer) + 1
      /\ \A i \in 1..Len(buffer) : buffer'[i] = buffer[i]
      /\ buffer'[Len(buffer) + 1] = c
  BY <1>1, AppendProperties
<1> SUFFICES ASSUME NEW k \in 1..(Len(buffer) + 1), buffer'[k] # 0
             PROVE  (k \in Finals /\ buffer'[k] = buffer[k]) \/ (k = Len(buffer) + 1 /\ buffer'[k] = c /\ c # 0)
  BY <1>2 DEF Finals
<1>3. CASE k = Len(buffer) + 1
  BY <1>2, <1>3
<1>4. CASE k # Len(buffer) + 1
  <2>1. k \in 1..Len(buffer) /\ DOMAIN buffer = 1..Len(buffer)
    BY <1>1, <1>4
  <2> QED BY <1>2, <2>1 DEF Finals
<1> QED BY <1>3, <1>4

\* Taking a reply out leaves no final line behind.
LEMMA ReplyTaken ==
  ASSUME MailInv, Finals # {}, buffer' = SubSeq(buffer, takeReply + 1, Len(buffer))
  PROVE  takeReply \in Finals /\ buffer' \in Seq(Nat) /\ Finals' = {}
<1>1. PICK k \in Finals : \A j \in Finals : j = k
  BY DEF MailInv
<1>2. takeReply = k
  BY <1>1 DEF takeReply, Finals, MailInv
<1>3. buffer \in Seq(Nat) /\ Len(buffer) \in Nat /\ k \in 1..Len(buffer)
  BY DEF MailInv, Finals
<1>4. /\ buffer' \in Seq(Nat) /\ Len(buffer') = Len(buffer) - k
      /\ \A i \in 1..Len(buffer') : buffer'[i] = buffer[k + i]
  BY <1>2, <1>3, SubSeqProperties
<1>5. Finals' = {}
  <2> SUFFICES ASSUME NEW i \in 1..Len(buffer'), buffer'[i] # 0 PROVE FALSE
    BY <1>4 DEF Finals
  <2>1. k + i \in 1..Len(buffer) /\ k + i # k
    BY <1>3, <1>4
  <2>2. buffer'[i] = buffer[k + i]
    BY <1>4
  <2>3. DOMAIN buffer = 1..Len(buffer)
    BY <1>3
  <2> QED BY <1>1, <2>1, <2>2, <2>3 DEF Finals
<1> QED BY <1>1, <1>2, <1>4, <1>5

(***************************************************************************)
(* The safety half of MailSound, for every length of replies and whatever  *)
(* the server answers: sendMail resolves only when the server took the     *)
(* body, also when the socket dies or QUIT is refused.                     *)
(***************************************************************************)
THEOREM MailsAreAccepted == SmtpSpec => [](SmtpTypeOK /\ ResolvesWhenAccepted)
<1>1. SmtpInit => MailInv
  <2> SUFFICES ASSUME SmtpInit PROVE MailInv
    OBVIOUS
  <2>1. Finals = {} /\ buffer \in Seq(Nat)
    BY DEF SmtpInit, Finals
  <2>2. mailStep \in 1..Len(Steps) /\ mailStep # Len(Steps) /\ mailStep = 1
    BY StepsAre DEF SmtpInit
  <2>3. peer \in [answered : Nat, chunks : Nat, accepted : BOOLEAN] /\ peer.answered <= mailStep
    BY <2>2 DEF SmtpInit
  <2> QED BY <2>1, <2>2, <2>3 DEF SmtpInit, MailInv
<1>2. MailInv /\ [SmtpNext]_smtpVars => MailInv'
  <2> SUFFICES ASSUME MailInv, [SmtpNext]_smtpVars PROVE MailInv'
    OBVIOUS
  <2>a. Len(Steps)' = Len(Steps) /\ Steps' = Steps
    BY DEF Steps
  <2>1. CASE sendMail
    BY <2>1 DEF sendMail, MailInv, Finals, Steps
  <2>2. CASE settleFailure
    <3>1. outcome' = "sent" => mailStep = Len(Steps)
      BY <2>2, StepsAre DEF settleFailure, MailInv
    <3>2. UNCHANGED <<mailStep, buffer, failure, peer>> /\ waiting' = FALSE /\ outcome' \in {"sent", "failed"} /\ Finals' = Finals
      BY <2>2 DEF settleFailure, Finals
    <3> QED BY <2>a, <3>1, <3>2 DEF MailInv
  <2>3. CASE settleReply
    <3>1. Finals # {} /\ buffer' = SubSeq(buffer, takeReply + 1, Len(buffer)) /\ UNCHANGED <<failure, peer>>
      BY <2>3 DEF settleReply
    <3>2. takeReply \in Finals /\ buffer' \in Seq(Nat) /\ Finals' = {}
      BY <3>1, ReplyTaken
    <3>3. \/ outcome' = "sent" /\ waiting' = FALSE /\ mailStep' = mailStep /\ mailStep = Len(Steps)
          \/ /\ mailStep' = mailStep + 1 /\ waiting' = FALSE /\ outcome' = outcome /\ mailStep # Len(Steps) /\ outcome = "open"
             /\ buffer[takeReply] \in Steps[mailStep].want
          \/ outcome' = "failed" /\ waiting' = FALSE /\ mailStep' = mailStep
      BY <2>3, StepsAre DEF settleReply, MailInv
    <3>4. mailStep' = Len(Steps) /\ mailStep # Len(Steps) => peer.accepted
      <4> SUFFICES ASSUME mailStep' = Len(Steps), mailStep # Len(Steps) PROVE peer.accepted
        OBVIOUS
      <4>1. mailStep' = mailStep + 1 /\ buffer[takeReply] \in Steps[mailStep].want /\ mailStep \in Nat /\ Len(Steps) \in Nat
        BY <3>3, StepsAre DEF MailInv
      <4>2. mailStep = Len(Steps) - 1
        BY <4>1
      <4>3. buffer[takeReply] = 250
        BY <4>1, <4>2, StepsAre
      <4> QED BY <3>2, <4>2, <4>3 DEF MailInv
    <3>5. mailStep' \in 1..Len(Steps) /\ peer.answered <= mailStep'
      BY <3>3, StepsAre DEF MailInv
    <3> QED BY <2>a, <3>1, <3>2, <3>3, <3>4, <3>5 DEF MailInv
  <2>4. CASE nextStep
    BY <2>4 DEF nextStep, MailInv, Finals, Steps
  <2>5. CASE serverContinues
    <3>1. buffer' = Append(buffer, 0) /\ UNCHANGED <<mailStep, waiting, failure, outcome>> /\ peer'.answered = peer.answered
          /\ peer'.accepted = peer.accepted /\ peer' \in [answered : Nat, chunks : Nat, accepted : BOOLEAN]
      BY <2>5 DEF serverContinues, MailInv
    <3>2. buffer' \in Seq(Nat) /\ \A k \in Finals' : k \in Finals /\ buffer'[k] = buffer[k]
      BY <3>1, LineArrives
    <3>3. /\ Finals' # {} => Finals # {}
          /\ \A k \in Finals' : mailStep = Len(Steps) - 1 /\ buffer'[k] = 250 => peer.accepted
          /\ \A j, k \in Finals' : j = k
      BY <3>2 DEF MailInv
    <3> QED BY <2>a, <3>1, <3>2, <3>3 DEF MailInv
  <2>6. CASE socketDies
    BY <2>6 DEF socketDies, MailInv, Finals, Steps
  <2>7. ASSUME NEW c \in {220, 221, 235, 250, 251, 334, 354, 550}, serverReplies(c) PROVE MailInv'
    <3>1. /\ buffer' = Append(buffer, c) /\ UNCHANGED <<mailStep, waiting, failure, outcome>> /\ peer'.answered = mailStep
          /\ peer.accepted => peer'.accepted
          /\ Steps[mailStep].cmd = "body" /\ c = 250 => peer'.accepted
          /\ peer' \in [answered : Nat, chunks : Nat, accepted : BOOLEAN]
      <4>1. /\ buffer' = Append(buffer, c) /\ UNCHANGED <<mailStep, waiting, failure, outcome>>
            /\ peer' = [peer EXCEPT !.answered = mailStep, !.accepted = peer.accepted \/ (Steps[mailStep].cmd = "body" /\ c = 250)]
        BY <2>7 DEF serverReplies
      <4>2. peer \in [answered : Nat, chunks : Nat, accepted : BOOLEAN] /\ mailStep \in Nat
        BY StepsAre DEF MailInv
      <4>3. peer'.answered = mailStep /\ peer'.chunks = peer.chunks
            /\ peer'.accepted = (peer.accepted \/ (Steps[mailStep].cmd = "body" /\ c = 250))
        BY <4>1, <4>2
      <4>4. peer' \in [answered : Nat, chunks : Nat, accepted : BOOLEAN]
        BY <4>1, <4>2
      <4> QED BY <4>1, <4>3, <4>4
    <3>2. Finals = {}
      <4>1. peer.answered < mailStep /\ peer.answered \in Nat /\ mailStep \in Nat
        BY <2>7, StepsAre DEF serverReplies, MailInv
      <4> QED BY <4>1 DEF MailInv
    <3>3. buffer' \in Seq(Nat) /\ \A k \in Finals' : k = Len(buffer) + 1 /\ buffer'[k] = c
      BY <3>1, <3>2, LineArrives
    <3>4. \A k \in Finals' : mailStep = Len(Steps) - 1 /\ buffer'[k] = 250 => peer'.accepted
      BY <3>1, <3>3, StepsAre
    <3> QED BY <2>a, <3>1, <3>3, <3>4 DEF MailInv
  <2>8. CASE UNCHANGED smtpVars
    BY <2>8 DEF smtpVars, MailInv, Finals, Steps
  <2> QED BY <2>1, <2>2, <2>3, <2>4, <2>5, <2>6, <2>7, <2>8 DEF SmtpNext
<1>3. MailInv => SmtpTypeOK /\ ResolvesWhenAccepted
  BY DEF MailInv, SmtpTypeOK, ResolvesWhenAccepted
<1> QED BY <1>1, <1>2, <1>3, PTL DEF SmtpSpec

(* ------------------------------- updates -------------------------------- *)

Agents ==
  [at : {"watch", "check", "checking", "update", "source", "build", "rollback", "health", "down"}, from : 0..MaxCommit]

UpdateTypes ==
  /\ origin \in 0..MaxCommit /\ fetched \in 0..MaxCommit /\ head \in 0..MaxCommit /\ image \in 0..MaxCommit
  /\ reqFile \in {"none", "check", "update"} /\ asked \in [Requesters -> {"none", "check", "update"}]
  /\ status \in [state : {"idle", "checking", "running", "success", "failed"}, fresh : BOOLEAN]
  /\ latest \in [behind : -1..MaxCommit, fresh : BOOLEAN]
  /\ agent \in Agents /\ agentCrashes \in Nat

\* No commit between a and b changes the image.
SameImage(a, b) == \A c \in CodeCommits : ~(a < c /\ c <= b) /\ ~(b < c /\ c <= a)

(***************************************************************************)
(* Where agent q, the tree h and the containers i stand to each other.     *)
(* Between moving the tree and building it the containers still belong to  *)
(* the commit the job started from, to which a rollback returns.           *)
(***************************************************************************)
TreeOK(q, h, i) ==
  /\ q.at # "down"
  /\ q.at \in {"watch", "check", "checking", "update", "health"} => SameImage(i, h)
  /\ q.at = "source" => q.from = h /\ SameImage(i, h)
  /\ q.at = "build" => q.from <= h /\ SameImage(i, q.from)
  /\ q.at = "rollback" => SameImage(i, q.from)

UpdateInv ==
  /\ UpdateTypes
  /\ head <= fetched /\ fetched <= origin /\ agent.from <= fetched
  /\ agentCrashes = 0 => TreeOK(agent, head, image)

\* A tree whose commits since a leave the image alone, and containers of a.
LEMMA SameImageMoves ==
  ASSUME NEW a \in Nat, NEW h \in Nat, NEW i \in Nat, a <= h, SameImage(i, a),
         ~\E c \in CodeCommits : a < c /\ c <= h
  PROVE SameImage(i, h)
  <1>1. CodeCommits \subseteq Nat
    BY UpdatesAssumption
  <1> QED BY <1>1 DEF SameImage

(***************************************************************************)
(* However often requests overtake each other and builds fail, the files   *)
(* stay within their types, and a job that was not killed leaves           *)
(* containers that match the source tree.                                  *)
(***************************************************************************)
THEOREM UpdatesLeaveBuiltTree == UpdatesSpec => [](UpdatesTypeOK /\ JobLeavesBuiltTree)
<1>1. UpdatesInit => UpdateInv
  <2> SUFFICES ASSUME UpdatesInit PROVE UpdateInv
    OBVIOUS
  <2>1. UpdateTypes
    BY UpdatesAssumption DEF UpdatesInit, UpdateTypes, Agents, IdleAgent
  <2>2. CodeCommits \subseteq Nat
    BY UpdatesAssumption
  <2> QED BY <2>1, <2>2 DEF UpdatesInit, UpdateInv, TreeOK, IdleAgent, SameImage
<1>2. UpdateInv /\ [UpdatesNext]_updateVars => UpdateInv'
  <2> SUFFICES ASSUME UpdateInv, [UpdatesNext]_updateVars PROVE UpdateInv'
    OBVIOUS
  <2>a. MaxCommit \in Nat /\ CodeCommits \subseteq Nat
    BY UpdatesAssumption
  <2>b. UpdateTypes /\ agent \in Agents
    BY DEF UpdateInv, UpdateTypes
  <2>q. ASSUME UNCHANGED <<fetched, head, image, agent, agentCrashes>>, origin' \in 0..MaxCommit, origin <= origin', UpdateTypes'
        PROVE UpdateInv'
    BY <2>a, <2>q DEF UpdateInv, UpdateTypes, TreeOK, SameImage
  <2>1. CASE commitPushed
    BY <2>1, <2>a, <2>b, <2>q DEF commitPushed, UpdateTypes
  <2>2. CASE cancelUpdateRequest
    BY <2>2, <2>a, <2>b, <2>q DEF cancelUpdateRequest, UpdateTypes
  <2>3. CASE heartbeatAges
    BY <2>3, <2>a, <2>b, <2>q DEF heartbeatAges, UpdateTypes
  <2>4. CASE statusAges
    <3>1. status' \in [state : {"idle", "checking", "running", "success", "failed"}, fresh : BOOLEAN]
      BY <2>4, <2>b DEF statusAges, UpdateTypes
    <3>2. UNCHANGED <<origin, fetched, head, image, reqFile, latest, agent, asked, agentCrashes>>
      BY <2>4 DEF statusAges
    <3>3. UpdateTypes'
      BY <2>b, <3>1, <3>2 DEF UpdateTypes
    <3> QED BY <2>a, <2>b, <2>q, <3>2, <3>3 DEF UpdateTypes
  <2>5. CASE latestAges
    <3>1. latest' \in [behind : -1..MaxCommit, fresh : BOOLEAN]
      BY <2>5, <2>b DEF latestAges, UpdateTypes
    <3>2. UNCHANGED <<origin, fetched, head, image, reqFile, status, agent, asked, agentCrashes>>
      BY <2>5 DEF latestAges
    <3>3. UpdateTypes'
      BY <2>b, <3>1, <3>2 DEF UpdateTypes
    <3> QED BY <2>a, <2>b, <2>q, <3>2, <3>3 DEF UpdateTypes
  <2>6. ASSUME NEW r \in Requesters, autoUpdateTick(r) \/ (\E a \in {"check", "update"} : requestUpdateJob(r, a))
        PROVE UpdateInv'
    <3>1. PICK a \in {"check", "update"} : requestUpdateJob(r, a)
      BY <2>6 DEF autoUpdateTick
    <3> QED BY <3>1, <2>a, <2>b, <2>q DEF requestUpdateJob, UpdateTypes
  <2>7. ASSUME NEW r \in Requesters, writeRequest(r) PROVE UpdateInv'
    BY <2>7, <2>a, <2>b, <2>q DEF writeRequest, UpdateTypes
  <2>8. CASE agentHeartbeat
    BY <2>8, <2>a, <2>b, <2>q DEF agentHeartbeat, UpdateTypes
  <2>9. CASE take_request
    <3>1. PICK q \in Agents : q = agent' /\ q.from = agent.from /\ q.at \in {"check", "update"} /\ agent.at = "watch"
      BY <2>9, <2>b DEF take_request, Agents
    <3>2. UNCHANGED <<origin, fetched, head, image, agentCrashes>> /\ UpdateTypes'
      BY <2>9, <3>1, <2>b DEF take_request, UpdateTypes
    <3> QED BY <3>1, <3>2 DEF UpdateInv, TreeOK, SameImage
  <2>10. CASE handle_request
    <3>1. PICK q \in Agents : q = agent' /\ q.from = agent.from /\ q.at = "checking" /\ agent.at = "check"
      BY <2>10, <2>b DEF handle_request, Agents
    <3>2. UNCHANGED <<origin, fetched, head, image, agentCrashes>> /\ UpdateTypes'
      BY <2>10, <3>1, <2>b DEF handle_request, write_status, UpdateTypes
    <3> QED BY <3>1, <3>2 DEF UpdateInv, TreeOK, SameImage
  <2>11. CASE do_check
    <3>1. PICK q \in Agents : q = agent' /\ q.from = 0 /\ q.at = "watch" /\ agent.at = "checking"
      BY <2>11, <2>a DEF do_check, Agents, IdleAgent
    <3>2. PICK f \in 0..MaxCommit : f = fetched' /\ fetched <= f /\ f <= origin
      BY <2>11, <2>a, <2>b DEF do_check, UpdateInv, UpdateTypes
    <3>3. f - head \in -1..MaxCommit
      <4>1. f \in Nat /\ head \in Nat /\ f <= MaxCommit /\ head <= fetched /\ fetched \in Nat
        BY <2>a, <2>b, <3>2 DEF UpdateInv, UpdateTypes
      <4>2. f - head \in Int /\ 0 <= f - head /\ f - head <= MaxCommit
        <5>1. MaxCommit \in Nat /\ f \in Nat /\ head \in Nat /\ f <= MaxCommit /\ head <= f
          BY <2>a, <3>2, <4>1
        <5> QED BY ONLY <5>1
      <4> QED BY <2>a, <4>2
    <3>4. latest' = [behind |-> f - head, fresh |-> TRUE]
      BY <2>11, <3>2 DEF do_check
    <3>5. UNCHANGED <<origin, head, image, agentCrashes>> /\ UpdateTypes'
      <4>1. latest' \in [behind : -1..MaxCommit, fresh : BOOLEAN]
        BY <3>3, <3>4
      <4>2. status' \in [state : {"idle", "checking", "running", "success", "failed"}, fresh : BOOLEAN]
        BY <2>11 DEF do_check, write_status
      <4>3. UNCHANGED <<origin, head, image, reqFile, asked, agentCrashes>>
        BY <2>11 DEF do_check
      <4> QED BY <2>b, <3>1, <3>2, <4>1, <4>2, <4>3 DEF UpdateTypes
    <3> QED BY <2>a, <2>b, <3>1, <3>2, <3>5 DEF UpdateInv, UpdateTypes, TreeOK, SameImage
  <2>12. CASE preflight
    <3>1. PICK q \in Agents : q = agent' /\ q.from = head /\ q.at = "source" /\ agent.at = "update"
      BY <2>12, <2>b DEF preflight, Agents, UpdateTypes
    <3>2. UNCHANGED <<origin, fetched, head, image, agentCrashes>> /\ UpdateTypes'
      BY <2>12, <3>1, <2>b DEF preflight, write_status, UpdateTypes
    <3> QED BY <3>1, <3>2 DEF UpdateInv, TreeOK, SameImage
  <2>13. CASE source
    <3>1. UNCHANGED <<origin, image, agentCrashes>> /\ agent.at = "source"
      BY <2>13 DEF source
    <3>2. CASE fetched' = origin /\ head' = origin /\ agent' = [agent EXCEPT !.at = "build"] /\ write_status("running")
      <4>1. PICK q \in Agents : q = agent' /\ q.from = agent.from /\ q.at = "build"
        BY <3>2, <2>b DEF Agents
      <4>2. UpdateTypes'
        BY <2>13, <3>2, <4>1, <2>b DEF source, write_status, UpdateTypes
      <4>3. origin \in Nat /\ head \in Nat /\ fetched \in Nat /\ agent.from \in Nat
        BY <2>a, <2>b DEF UpdateTypes, Agents
      <4>4. head <= origin /\ agent.from <= origin
        BY <4>3 DEF UpdateInv
      <4>5. agentCrashes = 0 => agent.from = head /\ SameImage(image, head)
        BY <3>1 DEF UpdateInv, TreeOK
      <4>6. agentCrashes = 0 => TreeOK(q, origin, image)
        BY <4>1, <4>4, <4>5 DEF TreeOK
      <4>7. agentCrashes' = 0 => TreeOK(agent', head', image')
        BY <3>1, <3>2, <4>1, <4>6
      <4> QED BY <3>1, <3>2, <4>1, <4>2, <4>3, <4>4, <4>7 DEF UpdateInv
    <3>3. CASE agent' = IdleAgent /\ write_status("failed") /\ UNCHANGED <<fetched, head>>
      <4>1. PICK q \in Agents : q = agent' /\ q.from = 0 /\ q.at = "watch"
        BY <3>3, <2>a DEF Agents, IdleAgent
      <4>2. UpdateTypes'
        BY <2>13, <3>3, <4>1, <2>b DEF source, write_status, UpdateTypes
      <4> QED BY <2>a, <2>b, <3>1, <3>3, <4>1, <4>2 DEF UpdateInv, UpdateTypes, TreeOK, SameImage
    <3> QED BY <2>13, <3>2, <3>3 DEF source
  <2>14. CASE build
    <3>1. PICK q \in Agents : q = agent' /\ q.from = agent.from /\ q.at \in {"health", "rollback"} /\ agent.at = "build"
                              /\ (q.at = "rollback" => image' = image)
                              /\ (q.at = "health" => image' = head \/ (~needs_build /\ image' = image))
      BY <2>14, <2>b DEF build, Agents
    <3>2. UNCHANGED <<origin, fetched, head, agentCrashes>> /\ UpdateTypes'
      BY <2>14, <3>1, <2>b DEF build, write_status, UpdateTypes
    <3>3. agentCrashes = 0 /\ q.at = "health" => SameImage(image', head)
      <4>1. CASE image' = head
        BY <2>a, <2>b, <4>1 DEF SameImage, UpdateTypes
      <4>2. CASE ~needs_build /\ image' = image
        BY <2>b, <3>1, <4>2, SameImageMoves DEF needs_build, UpdateInv, UpdateTypes, TreeOK, Agents
      <4> QED BY <3>1, <4>1, <4>2
    <3> QED BY <3>1, <3>2, <3>3 DEF UpdateInv, TreeOK, SameImage
  <2>15. CASE rollback
    <3>1. PICK q \in Agents : q = agent' /\ q.from = 0 /\ q.at = "watch" /\ agent.at = "rollback"
      BY <2>15, <2>a DEF rollback, Agents, IdleAgent
    <3>2. head' = agent.from /\ image' \in {image, agent.from} /\ UNCHANGED <<origin, fetched, agentCrashes>> /\ agent.from \in 0..MaxCommit
      BY <2>15, <2>b DEF rollback, Agents
    <3>3. UpdateTypes'
      BY <2>15, <3>1, <3>2, <2>b DEF rollback, write_status, UpdateTypes
    <3> QED BY <2>a, <2>b, <3>1, <3>2, <3>3 DEF UpdateInv, UpdateTypes, TreeOK, SameImage
  <2>16. CASE health
    <3>1. PICK q \in Agents : q = agent' /\ q.from = 0 /\ q.at = "watch" /\ agent.at = "health"
      BY <2>16, <2>a DEF health, Agents, IdleAgent
    <3>2. UNCHANGED <<origin, fetched, head, image, agentCrashes>> /\ UpdateTypes'
      BY <2>16, <3>1, <2>b DEF health, write_status, UpdateTypes
    <3> QED BY <2>a, <2>b, <3>1, <3>2 DEF UpdateInv, UpdateTypes, TreeOK, SameImage
  <2>17. CASE agentCrash
    <3>1. PICK q \in Agents : q = agent' /\ q.from = 0 /\ q.at = "down"
      BY <2>17, <2>a DEF agentCrash, Agents, IdleAgent
    <3>2. UNCHANGED <<origin, fetched, head, image>> /\ agentCrashes' # 0 /\ UpdateTypes'
      BY <2>17, <3>1, <2>b DEF agentCrash, UpdateTypes
    <3> QED BY <2>a, <2>b, <3>1, <3>2 DEF UpdateInv, UpdateTypes
  <2>18. CASE cmd_watch
    <3>1. PICK q \in Agents : q = agent' /\ q.from = 0 /\ q.at = "watch" /\ agent.at = "down"
      BY <2>18, <2>a DEF cmd_watch, Agents, IdleAgent
    <3>2. UNCHANGED <<origin, fetched, head, image, agentCrashes>> /\ UpdateTypes'
      BY <2>18, <3>1, <2>b DEF cmd_watch, UpdateTypes
    <3> QED BY <2>a, <2>b, <3>1, <3>2 DEF UpdateInv, UpdateTypes, TreeOK
  <2>19. CASE UNCHANGED updateVars
    BY <2>19, <2>a, <2>b, <2>q DEF updateVars, UpdateTypes
  <2> QED BY <2>1, <2>2, <2>3, <2>4, <2>5, <2>6, <2>7, <2>8, <2>9, <2>10, <2>11, <2>12, <2>13, <2>14, <2>15, <2>16, <2>17, <2>18, <2>19
          DEF UpdatesNext, AgentStep
<1>3. UpdateInv => UpdatesTypeOK /\ JobLeavesBuiltTree
  BY DEF UpdateInv, UpdateTypes, Agents, UpdatesTypeOK, JobLeavesBuiltTree, ImageCurrent, TreeOK, SameImage
<1> QED BY <1>1, <1>2, <1>3, PTL DEF UpdatesSpec

(* ------------------------------- licenses ------------------------------- *)

Codes == [exists : BOOLEAN, bound : Installs \union {Free}, revoked : BOOLEAN, over : BOOLEAN]
InstallLicenses == [code : BOOLEAN, active : BOOLEAN, age : {"never", "fresh", "due", "stale"}]
VerifyCalls == [at : {"idle", "sent", "answered"}, kind : {"none", "activate", "recheck"}, ok : BOOLEAN]

(***************************************************************************)
(* A refusal has a reason from the moment it is answered.  While the       *)
(* vendor serves one request at a time, a row on its way to the store was  *)
(* read from a code that is not revoked and still is not.                  *)
(***************************************************************************)
LicenseInv ==
  /\ mint \in Codes /\ writing \in [Installs -> [on : BOOLEAN, row : Codes]]
  /\ license \in [Installs -> InstallLicenses] /\ call \in [Installs -> VerifyCalls]
  /\ refusal \in [Installs -> {"none", "budget", "code"}] /\ vendorOps \in Nat
  /\ \A i \in Installs : call[i].at = "answered" /\ ~call[i].ok => refusal[i] # "none"
  /\ ~VendorOverlap => \A i \in Installs : writing[i].on => ~mint.revoked /\ ~writing[i].row.revoked

\* The parts of LicenseInv a step of the vendor's page or of its clock leaves alone.
LEMMA VendorStep ==
  ASSUME LicenseInv, NEW row \in Codes, VendorWrites(row)
  PROVE LicenseInv'
  <1>1. mint' = row /\ vendorOps' = vendorOps + 1 /\ UNCHANGED <<writing, license, call, refusal>>
    BY DEF VendorWrites
  <1>2. ~VendorOverlap => \A i \in Installs : ~writing[i].on
    BY DEF VendorWrites, VendorQuiet
  <1> QED BY <1>1, <1>2 DEF LicenseInv

\* A step of an install that leaves the store alone and moves its call to q.
LEMMA CallMoves ==
  ASSUME LicenseInv, NEW i \in Installs, NEW q \in VerifyCalls, call' = [call EXCEPT ![i] = q],
         q.at # "answered" \/ q.ok, license' \in [Installs -> InstallLicenses],
         UNCHANGED <<mint, writing, vendorOps, refusal>>
  PROVE LicenseInv'
  <1>1. call' \in [Installs -> VerifyCalls] /\ \A j \in Installs : call'[j] = IF j = i THEN q ELSE call[j]
    BY DEF LicenseInv
  <1> QED BY <1>1 DEF LicenseInv

\* LicenseInv is inductive.
LEMMA LicenseStep == LicenseInv /\ [LicensingNext]_licenseVars => LicenseInv'
<1> SUFFICES ASSUME LicenseInv, [LicensingNext]_licenseVars PROVE LicenseInv'
  OBVIOUS
<1>a. mint \in Codes /\ vendorOps \in Nat /\ call \in [Installs -> VerifyCalls] /\ license \in [Installs -> InstallLicenses]
      /\ writing \in [Installs -> [on : BOOLEAN, row : Codes]]
  BY DEF LicenseInv
<1>1. CASE createLicenses
  <2>1. [exists |-> TRUE, bound |-> Free, revoked |-> FALSE, over |-> FALSE] \in Codes
    BY DEF Codes
  <2> QED BY <1>1, <2>1, VendorStep DEF createLicenses
<1>2. CASE setLicenseRevoked
  <2>1. PICK v \in BOOLEAN : VendorWrites([mint EXCEPT !.revoked = v])
    BY <1>2 DEF setLicenseRevoked
  <2>2. [mint EXCEPT !.revoked = v] \in Codes
    BY <1>a DEF Codes
  <2> QED BY <2>1, <2>2, VendorStep
<1>3. CASE releaseLicense
  <2>1. [mint EXCEPT !.bound = Free, !.over = FALSE] \in Codes
    BY <1>a DEF Codes
  <2> QED BY <1>3, <2>1, VendorStep DEF releaseLicense
<1>4. CASE deleteLicense
  <2>1. [mint EXCEPT !.exists = FALSE] \in Codes
    BY <1>a DEF Codes
  <2> QED BY <1>4, <2>1, VendorStep DEF deleteLicense
<1>5. CASE licenseExpires
  <2>1. mint' \in Codes /\ mint'.revoked = mint.revoked
    <3>1. mint' = [mint EXCEPT !.over = TRUE]
      BY <1>5 DEF licenseExpires
    <3> QED BY <3>1, <1>a DEF Codes
  <2>2. vendorOps' = vendorOps + 1 /\ UNCHANGED <<writing, license, call, refusal>>
    BY <1>5 DEF licenseExpires
  <2> QED BY <2>1, <2>2 DEF LicenseInv
<1>6. ASSUME NEW i \in Installs, verify(i) PROVE LicenseInv'
  <2>1. UNCHANGED <<mint, license, vendorOps>> /\ call[i].at = "sent" /\ (~VendorOverlap => \A j \in Installs : ~writing[j].on)
    BY <1>6 DEF verify, VendorQuiet
  <2>2. CASE Answer(i, FALSE) /\ refusal' = [refusal EXCEPT ![i] = IF hits[i] >= MAX_HITS THEN "budget" ELSE "code"] /\ UNCHANGED writing
    <3>1. PICK w \in {"budget", "code"} : refusal' = [refusal EXCEPT ![i] = w]
      BY <2>2
    <3>2. call' \in [Installs -> VerifyCalls] /\ \A j \in Installs : j # i => call'[j] = call[j]
      BY <2>2, <1>a DEF Answer, VerifyCalls
    <3>3. refusal' \in [Installs -> {"none", "budget", "code"}] /\ refusal'[i] # "none" /\ \A j \in Installs : j # i => refusal'[j] = refusal[j]
      BY <3>1 DEF LicenseInv
    <3> QED BY <2>1, <2>2, <3>2, <3>3 DEF LicenseInv
  <2>3. CASE ~Refused(i) /\ UNCHANGED <<call, refusal>> /\ writing' = [writing EXCEPT ![i] = [on |-> TRUE, row |-> [mint EXCEPT !.bound = i]]]
    <3> DEFINE m == [mint EXCEPT !.bound = i]
               w == [on |-> TRUE, row |-> m]
    <3>1. m \in Codes /\ m.revoked = mint.revoked
      BY <1>a DEF Codes
    <3>3. writing' = [writing EXCEPT ![i] = w]
      BY <2>3
    <3> HIDE DEF m
    <3>2. w \in [on : BOOLEAN, row : Codes] /\ w.row = m
      BY <3>1
    <3> HIDE DEF w
    <3>4. writing' \in [Installs -> [on : BOOLEAN, row : Codes]] /\ \A j \in Installs : writing'[j] = IF j = i THEN w ELSE writing[j]
      BY <3>2, <3>3, <1>a
    <3>5. ~mint.revoked
      BY <2>3 DEF Refused
    <3> QED BY <2>1, <2>3, <3>1, <3>2, <3>4, <3>5 DEF LicenseInv
  <2> QED BY <1>6, <2>2, <2>3 DEF verify
<1>7. ASSUME NEW i \in Installs, redeemLicense(i) PROVE LicenseInv'
  <2>1. writing[i].on /\ mint' = writing[i].row /\ UNCHANGED <<license, vendorOps, refusal>> /\ writing' = [writing EXCEPT ![i] = NotWriting]
    BY <1>7 DEF redeemLicense
  <2>2. NotWriting \in [on : BOOLEAN, row : Codes] /\ ~NotWriting.on
    BY DEF NotWriting, Codes
  <2>3. writing' \in [Installs -> [on : BOOLEAN, row : Codes]] /\ ~writing'[i].on /\ \A j \in Installs : j # i => writing'[j] = writing[j]
    BY <2>1, <2>2, <1>a
  <2>4. /\ call' \in [Installs -> VerifyCalls] /\ \A j \in Installs : j # i => call'[j] = call[j]
        /\ call'[i] = call[i] \/ call'[i].ok
    <3>1. CASE call[i].at = "sent"
      <4>1. call' = [call EXCEPT ![i].at = "answered", ![i].ok = TRUE]
        BY <1>7, <3>1 DEF redeemLicense, Answer
      <4> QED BY <4>1, <1>a DEF VerifyCalls
    <3>2. CASE call[i].at # "sent"
      BY <1>7, <1>a, <3>2 DEF redeemLicense
    <3> QED BY <3>1, <3>2
  <2>5. mint' \in Codes
    BY <2>1, <1>a
  <2>6. ~VendorOverlap => \A j \in Installs : writing'[j].on => ~mint'.revoked /\ ~writing'[j].row.revoked
    BY <2>1, <2>3 DEF LicenseInv
  <2>7. \A j \in Installs : call'[j].at = "answered" /\ ~call'[j].ok => refusal[j] # "none"
    BY <2>4 DEF LicenseInv
  <2> QED BY <2>1, <2>3, <2>4, <2>5, <2>6, <2>7 DEF LicenseInv
<1>8. ASSUME NEW i \in Installs, windowPasses(i) PROVE LicenseInv'
  BY <1>8 DEF windowPasses, LicenseInv
<1>9. ASSUME NEW i \in Installs, receive(i) PROVE LicenseInv'
  <2>1. NoCall \in VerifyCalls /\ NoCall.at # "answered"
    BY DEF NoCall, VerifyCalls
  <2>2. license' \in [Installs -> InstallLicenses]
    BY <1>9, <1>a DEF receive, InstallLicenses
  <2> QED BY <1>9, <2>1, <2>2, CallMoves DEF receive
<1>10. ASSUME NEW i \in Installs, unreachable(i) PROVE LicenseInv'
  <2>1. NoCall \in VerifyCalls /\ NoCall.at # "answered"
    BY DEF NoCall, VerifyCalls
  <2> QED BY <1>10, <1>a, <2>1, CallMoves DEF unreachable
<1>11. ASSUME NEW i \in Installs, activateLicense(i) \/ recheckLicense(i) \/ autoRecheckLicense(i) PROVE LicenseInv'
  <2>1. PICK k \in {"activate", "recheck"} : call' = [call EXCEPT ![i] = [at |-> "sent", kind |-> k, ok |-> FALSE]]
                                             /\ UNCHANGED <<mint, writing, license, vendorOps, refusal>>
    BY <1>11 DEF activateLicense, recheckLicense, autoRecheckLicense, Ask
  <2> DEFINE q == [at |-> "sent", kind |-> k, ok |-> FALSE]
  <2>2. q \in VerifyCalls /\ q.at # "answered"
    BY DEF VerifyCalls
  <2>3. call' = [call EXCEPT ![i] = q] /\ UNCHANGED <<mint, writing, license, vendorOps, refusal>>
    BY <2>1
  <2> HIDE DEF q
  <2> QED BY <2>2, <2>3, <1>a, CallMoves
<1>12. ASSUME NEW i \in Installs, dropLicense(i) PROVE LicenseInv'
  <2>1. NoLicense \in InstallLicenses
    BY DEF NoLicense, InstallLicenses
  <2>2. license' \in [Installs -> InstallLicenses] /\ vendorOps' = vendorOps + 1 /\ UNCHANGED <<mint, writing, call, refusal>>
    BY <1>12, <1>a, <2>1 DEF dropLicense
  <2> QED BY <2>2 DEF LicenseInv
<1>13. ASSUME NEW i \in Installs, checkAges(i) PROVE LicenseInv'
  <2>1. PICK a \in {"due", "stale"} : license' = [license EXCEPT ![i].age = a] /\ UNCHANGED <<mint, writing, call, vendorOps, refusal>>
    BY <1>13 DEF checkAges
  <2>2. license' \in [Installs -> InstallLicenses]
    BY <2>1, <1>a DEF InstallLicenses
  <2> QED BY <2>1, <2>2 DEF LicenseInv
<1>14. CASE UNCHANGED licenseVars
  BY <1>14 DEF licenseVars, LicenseInv
<1> QED BY <1>1, <1>2, <1>3, <1>4, <1>5, <1>6, <1>7, <1>8, <1>9, <1>10, <1>11, <1>12, <1>13, <1>14 DEF LicensingNext

\* No step locks a working panel without a reason.
LEMMA LockStep ==
  ASSUME LicenseInv, [LicensingNext]_licenseVars, NEW i \in Installs, license[i].active, ~license'[i].active
  PROVE ~license'[i].code \/ refusal[i] # "none"
<1>a. license \in [Installs -> InstallLicenses]
  BY DEF LicenseInv
<1>1. ASSUME NEW j \in Installs, receive(j) PROVE ~license'[i].code \/ refusal[i] # "none"
  <2>1. CASE i = j
    <3>1. ~call[i].ok /\ call[i].at = "answered"
      <4>1. SUFFICES ASSUME call[i].ok PROVE FALSE
        BY <1>1, <2>1 DEF receive
      <4>2. license' = [license EXCEPT ![i] = [code |-> TRUE, active |-> TRUE, age |-> "fresh"]]
        BY <1>1, <2>1, <4>1 DEF receive
      <4> QED BY <1>a, <4>2
    <3> QED BY <3>1 DEF LicenseInv
  <2>2. CASE i # j
    BY <1>1, <2>2, <1>a DEF receive
  <2> QED BY <2>1, <2>2
<1>2. ASSUME NEW j \in Installs, dropLicense(j) PROVE ~license'[i].code
  BY <1>2, <1>a DEF dropLicense, NoLicense
<1>3. ASSUME NEW j \in Installs, checkAges(j) PROVE FALSE
  <2>1. PICK a : license' = [license EXCEPT ![j].age = a]
    BY <1>3 DEF checkAges
  <2> QED BY <2>1, <1>a DEF InstallLicenses
<1>4. ASSUME license' = license PROVE FALSE
  BY <1>4
<1> QED BY <1>1, <1>2, <1>3, <1>4
     DEF LicensingNext, licenseVars, createLicenses, setLicenseRevoked, releaseLicense, deleteLicense, licenseExpires, VendorWrites,
         verify, redeemLicense, windowPasses, unreachable, activateLicense, recheckLicense, autoRecheckLicense, Ask

\* No step but the vendor's own takes a revocation back, if its requests do not overlap.
LEMMA RevocationStep ==
  ASSUME LicenseInv, [LicensingNext]_licenseVars, ~VendorOverlap, mint.revoked, ~mint'.revoked
  PROVE vendorOps' # vendorOps
<1>1. ASSUME NEW j \in Installs, redeemLicense(j) PROVE FALSE
  BY <1>1 DEF redeemLicense, LicenseInv
<1>2. mint' # mint
  OBVIOUS
<1>3. vendorOps \in Nat
  BY DEF LicenseInv
<1>4. ASSUME vendorOps' = vendorOps + 1 PROVE vendorOps' # vendorOps
  BY <1>3, <1>4
<1> QED BY <1>1, <1>2, <1>4
     DEF LicensingNext, licenseVars, createLicenses, setLicenseRevoked, releaseLicense, deleteLicense, licenseExpires, VendorWrites,
         verify, receive, checkAges, dropLicense, windowPasses, unreachable, activateLicense, recheckLicense, autoRecheckLicense, Ask

(***************************************************************************)
(* For every number of installs and whatever the vendor's panel answers,   *)
(* a working panel is locked only when its code was removed or refused.    *)
(***************************************************************************)
THEOREM LocksHaveReasons == LicensingSpec => []LicensingTypeOK /\ LockedForAReason
<1>1. LicensingInit => LicenseInv
  BY DEF LicensingInit, LicenseInv, Codes, InstallLicenses, VerifyCalls, NotWriting, NoLicense, NoCall
<1>2. LicenseInv => LicensingTypeOK
  BY DEF LicenseInv, LicensingTypeOK, Codes, InstallLicenses, VerifyCalls
<1>3. LicenseInv /\ [LicensingNext]_licenseVars
      => [\A i \in Installs : license[i].active /\ ~license'[i].active => ~license'[i].code \/ refusal[i] # "none"]_licenseVars
  BY LockStep
<1> QED BY <1>1, <1>2, <1>3, LicenseStep, PTL DEF LicensingSpec, LockedForAReason

(***************************************************************************)
(* While the vendor's panel serves one request at a time, an install that  *)
(* verifies a revoked code never brings it back.                           *)
(***************************************************************************)
THEOREM RevocationsStick == ~VendorOverlap => (LicensingSpec => RevocationSticks)
<1> SUFFICES ASSUME ~VendorOverlap PROVE LicensingSpec => RevocationSticks
  OBVIOUS
<1>1. LicensingInit => LicenseInv
  BY DEF LicensingInit, LicenseInv, Codes, InstallLicenses, VerifyCalls, NotWriting, NoLicense, NoCall
<1>2. LicenseInv /\ [LicensingNext]_licenseVars
      => [mint.exists /\ mint.revoked /\ ~mint'.revoked => vendorOps' # vendorOps]_licenseVars
  BY RevocationStep
<1> QED BY <1>1, <1>2, LicenseStep, PTL DEF LicensingSpec, RevocationSticks

(* ------------------------------ bot polling ----------------------------- *)

BotSettings == [PollBots -> [on : BOOLEAN, token : {1, 2}]]
Loops == [at : {"idle", "pass", "batch", "dead"}, todo : SUBSET PollBots, rows : Seq(BotSettings), batch : Seq(PollBots \union Nat)]

PollTypes ==
  /\ botRows \in BotSettings /\ cachedRows \in Seq(BotSettings)
  /\ loop \in Loops /\ (loop.at \in {"pass", "batch"} => loop.rows # <<>>)
  /\ ready \in [PollBots -> {0, 1, 2}] /\ offsets \in [PollBots -> Nat]
  /\ sent \in [PollTokens -> 0..MaxUpdates] /\ forgotten \in [PollTokens -> Nat]
  /\ handled \in [PollTokens -> SUBSET Nat]
  /\ answers \in [PollTokens -> [1..MaxUpdates -> Nat]] /\ onlines \in [PollTokens -> Nat]

\* A bot and the updates Telegram returned for it, in their order, not yet taken.
BatchOK(s) ==
  /\ s \in Seq(PollBots \union Nat) /\ Len(s) >= 2 /\ s[1] \in PollBots /\ s[2] \in Nat \ {0}
  /\ \A j \in 2..Len(s) : s[j] = s[2] + (j - 2)
  /\ s[2] + (Len(s) - 2) <= MaxUpdates

\* What is below the offset of a bot that is online has been handled; what is not
\* has been answered at most once in each earlier life of the loop.
OffsetOK(b) ==
  ready[b] # 0 =>
    /\ 1..(offsets[b] - 1) \subseteq handled[<<b, ready[b]>>]
    /\ \A u \in 1..MaxUpdates : u >= offsets[b] => answers[<<b, ready[b]>>][u] < onlines[<<b, ready[b]>>]

\* The next update of the batch is due, and everything before it was handled.
BatchDue(s) ==
  /\ ready[s[1]] = Head(loop.rows)[s[1]].token /\ offsets[s[1]] <= s[2]
  /\ 1..(s[2] - 1) \subseteq handled[<<s[1], ready[s[1]]>>]

PollInv ==
  /\ PollTypes /\ NoCommandSkipped /\ AnsweredOncePerLife
  /\ \A b \in PollBots : OffsetOK(b)
  /\ loop.at = "batch" => BatchOK(loop.batch) /\ BatchDue(loop.batch)

\* The settings of a pass say which token a bot has.
LEMMA TokenIs ==
  ASSUME PollTypes, loop.at \in {"pass", "batch"}, NEW b \in PollBots
  PROVE TokenOf(b) \in PollTokens /\ TokenOf(b) = <<b, Head(loop.rows)[b].token>> /\ Head(loop.rows)[b].token \in {1, 2}
  <1>1. loop.rows \in Seq(BotSettings) /\ loop.rows # <<>>
    BY DEF PollTypes, Loops
  <1>2. Head(loop.rows) \in BotSettings
    BY <1>1
  <1> QED BY <1>2 DEF BotSettings, TokenOf, PollTokens

\* A settings read, from the cache or from the row, is a settings row.
LEMMA RowsRead ==
  ASSUME PollTypes PROVE getSetting(botRows, cachedRows) \in BotSettings
  BY DEF PollTypes, getSetting

\* The loop after a bot's turn is between two bots or at its end.
LEMMA ServedLoop ==
  ASSUME PollTypes, loop.at \in {"pass", "batch"}, NEW b \in PollBots
  PROVE Served(b) \in Loops /\ Served(b).at \in {"idle", "pass"} /\ (Served(b).at = "pass" => Served(b).rows # <<>>)
  <1>1. loop \in Loops /\ loop.rows # <<>>
    BY DEF PollTypes
  <1>2. <<>> \in Seq(BotSettings) /\ <<>> \in Seq(PollBots \union Nat)
    OBVIOUS
  <1>3. CASE loop.todo = {b}
    BY <1>2, <1>3 DEF Served, IdleLoop, Loops
  <1>4. CASE loop.todo # {b}
    <2>1. Served(b) = [loop EXCEPT !.at = "pass", !.todo = loop.todo \ {b}, !.batch = <<>>]
      BY <1>4 DEF Served
    <2> QED BY <1>1, <1>2, <2>1 DEF Loops
  <1> QED BY <1>3, <1>4

\* What getUpdates returns: the updates after the last forgotten one.
LEMMA BatchStarts ==
  ASSUME NEW b \in PollBots, NEW g \in Nat, NEW n \in Nat \ {0}, g + n <= MaxUpdates
  PROVE LET s == <<b>> \o [i \in 1..n |-> g + i] IN BatchOK(s) /\ s[1] = b /\ s[2] = g + 1
  <1> DEFINE us == [i \in 1..n |-> g + i]
             s == <<b>> \o us
  <1>1. us \in Seq(Nat) /\ Len(us) = n
    OBVIOUS
  <1>2. us \in Seq(PollBots \union Nat) /\ <<b>> \in Seq(PollBots \union Nat) /\ Len(<<b>>) = 1
    BY <1>1
  <1>3. \A i \in 1..n : us[i] = g + i
    OBVIOUS
  <1> HIDE DEF us
  <1>4. s \in Seq(PollBots \union Nat) /\ Len(s) = 1 + n /\ s[1] = b
    BY <1>1, <1>2
  <1>5. \A j \in 2..(1 + n) : s[j] = us[j - 1]
    BY <1>1, <1>2
  <1>6. \A j \in 2..(1 + n) : s[j] = g + (j - 1)
    <2> TAKE j \in 2..(1 + n)
    <2>1. j - 1 \in 1..n
      OBVIOUS
    <2>2. s[j] = us[j - 1]
      BY <1>5
    <2> HIDE DEF s
    <2> QED BY <1>3, <2>1, <2>2
  <1> HIDE DEF s
  <1>7. s[2] = g + 1
    <2>1. 2 \in 2..(1 + n) /\ g + (2 - 1) = g + 1
      OBVIOUS
    <2> QED BY <1>6, <2>1
  <1>8. BatchOK(s)
    BY <1>4, <1>6, <1>7, BotPollingAssumption DEF BatchOK
  <1> QED BY <1>4, <1>7, <1>8 DEF s, us

\* The batch without the update that was taken.
LEMMA BatchGoesOn ==
  ASSUME NEW s, BatchOK(s), Tail(Tail(s)) # <<>>
  PROVE LET z == <<Head(s)>> \o Tail(Tail(s)) IN BatchOK(z) /\ z[1] = s[1] /\ z[2] = s[2] + 1
  <1> DEFINE r == Tail(Tail(s))
             z == <<Head(s)>> \o r
  <1>1. s \in Seq(PollBots \union Nat) /\ Len(s) >= 2 /\ Len(s) \in Nat /\ Head(s) = s[1] /\ s[1] \in PollBots
    BY DEF BatchOK
  <1>2. Tail(s) \in Seq(PollBots \union Nat) /\ Len(Tail(s)) = Len(s) - 1 /\ \A j \in 1..(Len(s) - 1) : Tail(s)[j] = s[j + 1]
    BY <1>1
  <1>3. r \in Seq(PollBots \union Nat) /\ Len(r) = Len(s) - 2 /\ \A j \in 1..(Len(s) - 2) : r[j] = Tail(s)[j + 1]
    BY <1>1, <1>2
  <1>4. \A j \in 1..(Len(s) - 2) : r[j] = s[j + 2]
    BY <1>1, <1>2, <1>3
  <1>5. Len(r) # 0
    BY <1>3, EmptySeq
  <1> HIDE DEF r
  <1>6. <<Head(s)>> \in Seq(PollBots \union Nat) /\ Len(<<Head(s)>>) = 1 /\ <<Head(s)>>[1] = s[1]
    BY <1>1
  <1>7. z \in Seq(PollBots \union Nat) /\ Len(z) = Len(s) - 1 /\ z[1] = s[1]
    BY <1>1, <1>3, <1>6
  <1>8. \A j \in 2..(Len(s) - 1) : z[j] = r[j - 1]
    BY <1>1, <1>3, <1>6
  <1> HIDE DEF z
  <1>9. \A j \in 2..(Len(s) - 1) : z[j] = s[j + 1]
    BY <1>1, <1>4, <1>8
  <1>10. \A j \in 2..(Len(s) - 1) : z[j] = s[2] + (j - 1)
    <2> TAKE j \in 2..(Len(s) - 1)
    <2>1. j + 1 \in 2..Len(s)
      BY <1>1
    <2>2. s[j + 1] = s[2] + ((j + 1) - 2)
      BY <2>1 DEF BatchOK
    <2> QED BY <1>9, <2>2, <1>1 DEF BatchOK
  <1>11. Len(s) - 1 >= 2
    BY <1>1, <1>3, <1>5
  <1>12. z[2] = s[2] + 1
    BY <1>1, <1>10, <1>11
  <1>13. BatchOK(z)
    <2>1. s[2] \in Nat \ {0} /\ s[2] + (Len(s) - 2) <= MaxUpdates
      BY DEF BatchOK
    <2>2. z[2] \in Nat \ {0} /\ z[2] + (Len(z) - 2) <= MaxUpdates
      BY <2>1, <1>1, <1>7, <1>12, BotPollingAssumption
    <2>3. \A j \in 2..Len(z) : z[j] = z[2] + (j - 2)
      <3> TAKE j \in 2..Len(z)
      <3>1. z[j] = s[2] + (j - 1)
        BY <1>7, <1>10
      <3>2. j \in Int
        BY <1>1, <1>7
      <3>3. \A m, n \in Int : (m + 1) + (n - 2) = m + (n - 1)
        OBVIOUS
      <3>4. (s[2] + 1) + (j - 2) = s[2] + (j - 1)
        BY <2>1, <3>2, <3>3
      <3> QED BY <1>12, <3>1, <3>4
    <2> QED BY <1>1, <1>7, <1>11, <2>2, <2>3 DEF BatchOK
  <1> QED BY <1>7, <1>12, <1>13 DEF z, r
\* A step that leaves Telegram, the offsets and the tokens alone, and takes no batch.
LEMMA QuietPoll ==
  ASSUME PollInv, PollTypes', UNCHANGED <<ready, offsets, forgotten, handled, answers, onlines>>,
         loop' = loop \/ loop'.at # "batch"
  PROVE PollInv'
  BY DEF PollInv, NoCommandSkipped, AnsweredOncePerLife, OffsetOK, BatchDue, BatchOK

\* PollInv is inductive.
LEMMA PollStep == PollInv /\ [BotPollingNext]_pollVars => PollInv'
<1> SUFFICES ASSUME PollInv, [BotPollingNext]_pollVars PROVE PollInv'
  OBVIOUS
<1>a. PollTypes
  BY DEF PollInv
<1>b. MaxUpdates \in Nat
  BY BotPollingAssumption
<1>1. ASSUME NEW t \in PollTokens, customerWrites(t) PROVE PollInv'
  <2>1. UNCHANGED <<botRows, cachedRows, loop, ready, offsets, forgotten, handled, answers, onlines>>
    BY <1>1 DEF customerWrites
  <2>2. sent' \in [PollTokens -> 0..MaxUpdates]
    BY <1>1, <1>a, <1>b DEF customerWrites, PollTypes
  <2> QED BY <1>a, <2>1, <2>2, QuietPoll DEF PollTypes
<1>2. ASSUME NEW b \in PollBots, NEW on \in BOOLEAN, NEW k \in {1, 2}, switchBot(b, [on |-> on, token |-> k]) PROVE PollInv'
  <2>1. UNCHANGED <<cachedRows, loop, ready, offsets, sent, forgotten, handled, answers, onlines>>
    BY <1>2 DEF switchBot, telegramVars
  <2>2. botRows' \in BotSettings
    BY <1>2, <1>a DEF switchBot, PollTypes, BotSettings
  <2> QED BY <1>a, <2>1, <2>2, QuietPoll DEF PollTypes
<1>3. CASE settingsExpire
  <2>1. UNCHANGED <<botRows, loop, ready, offsets, sent, forgotten, handled, answers, onlines>> /\ cachedRows' = <<>>
    BY <1>3 DEF settingsExpire, telegramVars
  <2> QED BY <1>a, <2>1, QuietPoll DEF PollTypes
<1>4. CASE pollerRestarts
  <2>1. /\ UNCHANGED <<botRows, sent, forgotten, handled, answers, onlines>> /\ cachedRows' = <<>> /\ loop' = IdleLoop
        /\ ready' = [b \in PollBots |-> 0] /\ offsets' = [b \in PollBots |-> 0]
    BY <1>4 DEF pollerRestarts, telegramVars
  <2>2. loop' \in Loops /\ loop'.at = "idle"
    BY <2>1 DEF IdleLoop, Loops
  <2>3. PollTypes'
    BY <1>a, <2>1, <2>2 DEF PollTypes
  <2> QED BY <2>1, <2>2, <2>3 DEF PollInv, NoCommandSkipped, AnsweredOncePerLife, OffsetOK
<1>5. CASE readSettings
  <2> DEFINE rows == getSetting(botRows, cachedRows)
             active == {b \in PollBots : rows[b].on /\ <<b, rows[b].token>> \notin bad}
  <2>1. UNCHANGED <<botRows, ready, offsets, sent, forgotten, handled, answers, onlines>> /\ cachedRows' = <<rows>>
        /\ loop' = [at |-> "pass", todo |-> active, rows |-> <<rows>>, batch |-> <<>>]
    BY <1>5 DEF readSettings, telegramVars, setSettingCache
  <2>2. rows \in BotSettings /\ active \in SUBSET PollBots
    BY <1>a, RowsRead
  <2> HIDE DEF rows, active
  <2>3. <<rows>> \in Seq(BotSettings) /\ <<rows>> # <<>>
    BY <2>2
  <2>4. loop' \in Loops /\ loop'.at = "pass" /\ loop'.rows # <<>>
    BY <2>1, <2>2, <2>3 DEF Loops
  <2>5. PollTypes'
    BY <1>a, <2>1, <2>3, <2>4 DEF PollTypes
  <2> QED BY <2>1, <2>4, <2>5, QuietPoll
<1>6. CASE settingsUnreadable
  <2>1. UNCHANGED <<botRows, cachedRows, ready, offsets, sent, forgotten, handled, answers, onlines>> /\ loop.at = "idle"
    BY <1>6 DEF settingsUnreadable, telegramVars
  <2>2. loop' \in Loops /\ loop'.at \in {"idle", "dead"}
    BY <1>6, <1>a DEF settingsUnreadable, PollTypes, Loops
  <2>3. PollTypes'
    BY <1>a, <2>1, <2>2 DEF PollTypes
  <2> QED BY <2>1, <2>2, <2>3, QuietPoll
<1>7. ASSUME NEW b \in PollBots, getMeFails(b) \/ getUpdatesFails(b) PROVE PollInv'
  <2>1. UNCHANGED <<botRows, cachedRows, ready, offsets, sent, forgotten, handled, answers, onlines>> /\ loop' = Served(b) /\ loop.at = "pass"
    BY <1>7 DEF getMeFails, getUpdatesFails, telegramVars, Serves
  <2>2. loop' \in Loops /\ loop'.at \in {"idle", "pass"} /\ (loop'.at = "pass" => loop'.rows # <<>>)
    BY <1>a, <2>1, ServedLoop
  <2>3. PollTypes'
    BY <1>a, <2>1, <2>2 DEF PollTypes
  <2> QED BY <2>1, <2>2, <2>3, QuietPoll
<1>8. ASSUME NEW b \in PollBots, goOnline(b) PROVE PollInv'
  <2>1. PICK k \in {1, 2} : TokenOf(b) = <<b, k>> /\ <<b, k>> \in PollTokens
    BY <1>8, <1>a, TokenIs DEF goOnline, Serves
  <2>2. /\ ready' = [ready EXCEPT ![b] = k] /\ offsets' = [offsets EXCEPT ![b] = 0] /\ ready[b] # k
        /\ onlines' = [onlines EXCEPT ![<<b, k>>] = onlines[<<b, k>>] + 1]
        /\ UNCHANGED <<botRows, cachedRows, loop, sent, forgotten, handled, answers>> /\ loop.at = "pass"
    BY <1>8, <2>1 DEF goOnline, Serves
  <2>3. PollTypes'
    BY <1>a, <2>1, <2>2 DEF PollTypes
  <2>4. onlines'[<<b, k>>] = onlines[<<b, k>>] + 1 /\ \A t \in PollTokens : t # <<b, k>> => onlines'[t] = onlines[t]
    BY <1>a, <2>1, <2>2 DEF PollTypes
  <2>5. \A t \in PollTokens : onlines[t] \in Nat /\ \A u \in 1..MaxUpdates : answers[t][u] \in Nat
    BY <1>a DEF PollTypes
  <2>6. NoCommandSkipped'
    BY <2>2 DEF PollInv, NoCommandSkipped
  <2>7. AnsweredOncePerLife'
    BY <2>1, <2>2, <2>4, <2>5 DEF PollInv, AnsweredOncePerLife
  <2>8. ASSUME NEW c \in PollBots PROVE OffsetOK(c)'
    <3>1. CASE c = b
      <4>1. ready'[c] = k /\ offsets'[c] = 0
        BY <1>a, <2>2, <3>1 DEF PollTypes
      <4>2. 1..(0 - 1) = {}
        OBVIOUS
      <4>3. \A u \in 1..MaxUpdates : answers[<<b, k>>][u] < onlines'[<<b, k>>]
        BY <2>1, <2>4, <2>5 DEF PollInv, AnsweredOncePerLife
      <4> QED BY <2>2, <3>1, <4>1, <4>2, <4>3 DEF OffsetOK
    <3>2. CASE c # b
      <4>1. ready'[c] = ready[c] /\ offsets'[c] = offsets[c] /\ ready[c] \in {0, 1, 2}
        BY <1>a, <2>2, <3>2 DEF PollTypes
      <4>2. ready[c] # 0 => <<c, ready[c]>> \in PollTokens /\ <<c, ready[c]>> # <<b, k>>
        BY <3>2, <4>1 DEF PollTokens
      <4>3. ready[c] # 0 => onlines'[<<c, ready[c]>>] = onlines[<<c, ready[c]>>]
        BY <2>4, <4>2
      <4> QED BY <2>2, <4>1, <4>3 DEF PollInv, OffsetOK
    <3> QED BY <3>1, <3>2
  <2> QED BY <2>2, <2>3, <2>6, <2>7, <2>8 DEF PollInv
<1>9. ASSUME NEW b \in PollBots, getUpdates(b) PROVE PollInv'
  <2>1. PICK k \in {1, 2} : TokenOf(b) = <<b, k>> /\ <<b, k>> \in PollTokens /\ Head(loop.rows)[b].token = k
    BY <1>9, <1>a, TokenIs DEF getUpdates, Serves
  <2> DEFINE t == <<b, k>>
             gone == IF offsets[b] > forgotten[t] + 1 THEN offsets[b] - 1 ELSE forgotten[t]
             updates == [i \in 1..(sent[t] - gone) |-> gone + i]
  <2>2. /\ loop.at = "pass" /\ ready[b] = k /\ forgotten' = [forgotten EXCEPT ![t] = gone]
        /\ loop' = IF updates = <<>> THEN Served(b) ELSE [loop EXCEPT !.at = "batch", !.batch = <<b>> \o updates]
        /\ UNCHANGED <<botRows, cachedRows, ready, offsets, sent, handled, answers, onlines>>
    BY <1>9, <2>1 DEF getUpdates, Serves
  <2>3. gone \in Nat /\ offsets[b] <= gone + 1
    BY <1>a, <2>1 DEF PollTypes
  <2>4. 1..gone \subseteq handled[t]
    <3>1. 1..(offsets[b] - 1) \subseteq handled[t] /\ 1..forgotten[t] \subseteq handled[t]
      BY <2>1, <2>2 DEF PollInv, OffsetOK, NoCommandSkipped
    <3>2. gone = offsets[b] - 1 \/ gone = forgotten[t]
      OBVIOUS
    <3> QED BY <3>1, <3>2
  <2> HIDE DEF gone
  <2>5. forgotten' \in [PollTokens -> Nat] /\ NoCommandSkipped'
    BY <1>a, <2>1, <2>2, <2>3, <2>4 DEF PollInv, PollTypes, NoCommandSkipped
  <2>6. AnsweredOncePerLife' /\ \A c \in PollBots : OffsetOK(c)'
    BY <2>2 DEF PollInv, AnsweredOncePerLife, OffsetOK
  <2>7. CASE updates = <<>>
    <3>1. loop' = Served(b)
      BY <2>2, <2>7
    <3>2. loop' \in Loops /\ loop'.at \in {"idle", "pass"} /\ (loop'.at = "pass" => loop'.rows # <<>>)
      BY <1>a, <2>2, <3>1, ServedLoop
    <3>3. PollTypes'
      BY <1>a, <2>2, <2>5, <3>2 DEF PollTypes
    <3> QED BY <2>5, <2>6, <3>2, <3>3 DEF PollInv
  <2>8. CASE updates # <<>>
    <3>0. sent[t] \in 0..MaxUpdates
      BY <1>a, <2>1 DEF PollTypes
    <3>1. sent[t] - gone \in Nat \ {0}
      <4>1. SUFFICES ASSUME ~(sent[t] - gone >= 1) PROVE FALSE
        BY <1>b, <2>3, <3>0
      <4>2. 1..(sent[t] - gone) = {}
        BY <1>b, <2>3, <3>0, <4>1
      <4>3. updates = <<>>
        BY <4>2
      <4> QED BY <2>8, <4>3
    <3> DEFINE n == sent[t] - gone
               s == <<b>> \o updates
    <3>2. gone + n <= MaxUpdates
      BY <1>b, <2>3, <3>0
    <3>3. BatchOK(s) /\ s[1] = b /\ s[2] = gone + 1
      BY <2>3, <3>1, <3>2, BatchStarts
    <3>4. loop' = [loop EXCEPT !.at = "batch", !.batch = s]
      BY <2>2, <2>8
    <3> HIDE DEF s, updates
    <3>5. loop' \in Loops /\ loop'.at = "batch" /\ loop'.batch = s /\ loop'.rows = loop.rows /\ loop.rows # <<>>
      BY <1>a, <2>2, <3>3, <3>4 DEF PollTypes, Loops, BatchOK
    <3>6. PollTypes'
      BY <1>a, <2>2, <2>5, <3>5 DEF PollTypes
    <3>7. (gone + 1) - 1 = gone
      BY <2>3
    <3>8. ready'[b] = Head(loop'.rows)[b].token /\ offsets'[b] <= s[2] /\ 1..(s[2] - 1) \subseteq handled'[<<b, ready'[b]>>]
      BY <2>1, <2>2, <2>3, <2>4, <3>3, <3>5, <3>7
    <3>9. BatchDue(loop.batch)' /\ BatchOK(loop.batch)'
      BY <3>3, <3>5, <3>8 DEF BatchDue, BatchOK
    <3> QED BY <2>5, <2>6, <3>6, <3>9 DEF PollInv
  <2> QED BY <2>7, <2>8
<1>10. ASSUME NEW o \in {"answered", "lost", "throws"}, takeUpdate(o) PROVE PollInv'
  <2> DEFINE s == loop.batch
             b == s[1]
             u == s[2]
             k == ready[b]
             t == <<b, k>>
  <2>1. loop.at = "batch" /\ BatchOK(s) /\ BatchDue(s)
    BY <1>10 DEF takeUpdate, PollInv
  <2>2. Head(s) = b /\ b \in PollBots /\ u \in Nat \ {0} /\ u <= MaxUpdates
    BY <2>1, <1>b DEF BatchOK
  <2>3. TokenOf(b) = t /\ t \in PollTokens /\ k \in {1, 2} /\ offsets[b] <= u /\ 1..(u - 1) \subseteq handled[t]
    BY <1>a, <2>1, <2>2, TokenIs DEF BatchDue
  <2>4. offsets[b] \in Nat
    BY <1>a, <2>2 DEF PollTypes
  <2>5. /\ offsets' = [offsets EXCEPT ![b] = u + 1] /\ handled' = [handled EXCEPT ![t] = handled[t] \union {u}]
        /\ UNCHANGED <<botRows, cachedRows, ready, sent, forgotten, onlines>>
        /\ answers' = answers \/ answers' = [answers EXCEPT ![t][u] = answers[t][u] + 1]
    <3>1. (IF u + 1 > offsets[b] THEN u + 1 ELSE offsets[b]) = u + 1
      BY <2>2, <2>3, <2>4
    <3>2. offsets' = [offsets EXCEPT ![b] = IF u + 1 > offsets[b] THEN u + 1 ELSE offsets[b]]
      BY <1>10, <2>2 DEF takeUpdate
    <3> QED BY <1>10, <2>2, <2>3, <3>1, <3>2 DEF takeUpdate
  <2>6. loop' = Served(b) \/ (Tail(Tail(s)) # <<>> /\ loop' = [loop EXCEPT !.batch = <<Head(s)>> \o Tail(Tail(s))])
    BY <1>10, <2>2 DEF takeUpdate
  <2> HIDE DEF t, k, u, b
  <2>7. offsets'[b] = u + 1 /\ offsets' \in [PollBots -> Nat] /\ \A c \in PollBots : c # b => offsets'[c] = offsets[c]
    BY <1>a, <2>2, <2>5 DEF PollTypes
  <2>8. handled'[t] = handled[t] \union {u} /\ handled' \in [PollTokens -> SUBSET Nat] /\ \A x \in PollTokens : handled[x] \subseteq handled'[x]
    BY <1>a, <2>2, <2>3, <2>5 DEF PollTypes
  <2>9. 1..u \subseteq handled'[t]
    BY <2>2, <2>3, <2>8
  <2>10. \A x \in PollTokens : onlines[x] \in Nat /\ \A v \in 1..MaxUpdates : answers[x][v] \in Nat
    BY <1>a DEF PollTypes
  <2>11. /\ answers' \in [PollTokens -> [1..MaxUpdates -> Nat]]
         /\ \A x \in PollTokens, v \in 1..MaxUpdates : x # t \/ v # u => answers'[x][v] = answers[x][v]
         /\ answers'[t][u] <= answers[t][u] + 1
    <3>1. u \in 1..MaxUpdates /\ answers \in [PollTokens -> [1..MaxUpdates -> Nat]] /\ answers[t][u] \in Nat
      BY <1>a, <1>b, <2>2, <2>3, <2>10 DEF PollTypes
    <3>2. CASE answers' = answers
      BY <3>1, <3>2
    <3>3. CASE answers' = [answers EXCEPT ![t][u] = answers[t][u] + 1]
      BY <3>1, <3>3, <2>3
    <3> QED BY <2>5, <3>2, <3>3
  <2>12. NoCommandSkipped'
    BY <2>5, <2>8 DEF PollInv, NoCommandSkipped
  <2>13. answers[t][u] < onlines[t]
    BY <1>b, <2>2, <2>3 DEF PollInv, OffsetOK, t, k
  <2>14. AnsweredOncePerLife'
    <3> SUFFICES ASSUME NEW x \in PollTokens, NEW v \in 1..MaxUpdates PROVE answers'[x][v] <= onlines[x]
      BY <2>5 DEF AnsweredOncePerLife
    <3>1. CASE x = t /\ v = u
      <4>1. answers'[t][u] \in Nat /\ answers[t][u] \in Nat /\ onlines[t] \in Nat
        BY <2>3, <2>10, <2>11, <3>1
      <4> QED BY <2>11, <2>13, <3>1, <4>1
    <3>2. CASE x # t \/ v # u
      BY <2>11, <3>2 DEF PollInv, AnsweredOncePerLife
    <3> QED BY <3>1, <3>2
  <2>15. ASSUME NEW c \in PollBots PROVE OffsetOK(c)'
    <3>1. CASE c = b
      <4>1. ready'[c] = k /\ offsets'[c] = u + 1 /\ (u + 1) - 1 = u /\ <<c, ready'[c]>> = t
        BY <2>2, <2>5, <2>7, <3>1 DEF k, t
      <4>2. \A v \in 1..MaxUpdates : v >= u + 1 => v # u /\ v >= offsets[b]
        BY <1>b, <2>2, <2>3, <2>4
      <4>3. \A v \in 1..MaxUpdates : v >= u + 1 => answers'[t][v] < onlines[t]
        BY <2>2, <2>3, <2>11, <4>2 DEF PollInv, OffsetOK, t, k
      <4> QED BY <2>5, <2>9, <4>1, <4>3 DEF OffsetOK
    <3>2. CASE c # b
      <4>1. ready'[c] = ready[c] /\ offsets'[c] = offsets[c] /\ ready[c] \in {0, 1, 2}
        BY <1>a, <2>5, <2>7, <3>2 DEF PollTypes
      <4>2. ready[c] # 0 => <<c, ready[c]>> \in PollTokens /\ <<c, ready[c]>> # t
        BY <3>2, <4>1 DEF PollTokens, t
      <4>3. ready[c] # 0 => handled[<<c, ready[c]>>] \subseteq handled'[<<c, ready[c]>>]
                            /\ \A v \in 1..MaxUpdates : answers'[<<c, ready[c]>>][v] = answers[<<c, ready[c]>>][v]
        BY <2>8, <2>11, <4>2
      <4> QED BY <2>5, <4>1, <4>3 DEF PollInv, OffsetOK
    <3> QED BY <3>1, <3>2
  <2>16. CASE loop' = Served(b)
    <3>1. loop' \in Loops /\ loop'.at \in {"idle", "pass"} /\ (loop'.at = "pass" => loop'.rows # <<>>)
      BY <1>a, <2>1, <2>2, <2>16, ServedLoop
    <3>2. PollTypes'
      BY <1>a, <2>5, <2>7, <2>8, <2>11, <3>1 DEF PollTypes
    <3> QED BY <2>12, <2>14, <2>15, <3>1, <3>2 DEF PollInv
  <2>17. CASE Tail(Tail(s)) # <<>> /\ loop' = [loop EXCEPT !.batch = <<Head(s)>> \o Tail(Tail(s))]
    <3> DEFINE z == <<Head(s)>> \o Tail(Tail(s))
    <3>1. BatchOK(z) /\ z[1] = b /\ z[2] = u + 1
      BY <2>1, <2>17, BatchGoesOn DEF b, u
    <3>2. loop' = [loop EXCEPT !.batch = z]
      BY <2>17
    <3> HIDE DEF z, s
    <3>3. loop' \in Loops /\ loop'.at = "batch" /\ loop'.batch = z /\ loop'.rows = loop.rows /\ loop.rows # <<>>
      BY <1>a, <2>1, <3>1, <3>2 DEF PollTypes, Loops, BatchOK
    <3>4. PollTypes'
      BY <1>a, <2>5, <2>7, <2>8, <2>11, <3>3 DEF PollTypes
    <3>5. ready[b] = Head(loop.rows)[b].token
      BY <2>1 DEF BatchDue, b
    <3>6. (u + 1) - 1 = u
      BY <2>2
    <3>7. <<b, ready'[b]>> = t
      BY <2>5 DEF t, k
    <3>8. u + 1 <= u + 1 /\ ready'[b] = Head(loop'.rows)[b].token
      BY <2>2, <2>5, <3>3, <3>5
    <3>9. offsets'[b] <= z[2] /\ 1..(z[2] - 1) \subseteq handled'[<<b, ready'[b]>>]
      BY <2>7, <2>9, <3>1, <3>6, <3>7, <3>8
    <3> HIDE DEF b
    <3>10. BatchDue(loop.batch)' /\ BatchOK(loop.batch)'
      BY <3>1, <3>3, <3>8, <3>9 DEF BatchDue, BatchOK
    <3> QED BY <2>12, <2>14, <2>15, <3>4, <3>10 DEF PollInv
  <2> QED BY <2>6, <2>16, <2>17
<1>11. CASE UNCHANGED pollVars
  BY <1>11, <1>a, QuietPoll DEF pollVars, PollTypes
<1> QED BY <1>1, <1>2, <1>3, <1>4, <1>5, <1>6, <1>7, <1>8, <1>9, <1>10, <1>11 DEF BotPollingNext, LoopStep

(***************************************************************************)
(* For any bots, failures, settings changes and restarts: Telegram forgets *)
(* a command only once its handler ran, and a command is answered at most  *)
(* once each time a loop comes online with its token.                      *)
(***************************************************************************)
THEOREM CommandsAreKept == BotPollingSpec => [](NoCommandSkipped /\ AnsweredOncePerLife)
<1>1. BotPollingInit => PollInv
  <2> SUFFICES ASSUME BotPollingInit PROVE PollInv
    OBVIOUS
  <2>1. loop \in Loops /\ loop.at = "idle"
    BY DEF BotPollingInit, IdleLoop, Loops
  <2>2. PollTypes
    BY <2>1, BotPollingAssumption DEF BotPollingInit, PollTypes, BotSettings
  <2>3. 1..0 = {}
    OBVIOUS
  <2>4. NoCommandSkipped
    BY <2>3 DEF BotPollingInit, NoCommandSkipped
  <2>5. AnsweredOncePerLife
    BY DEF BotPollingInit, AnsweredOncePerLife
  <2>6. \A b \in PollBots : OffsetOK(b)
    BY DEF BotPollingInit, OffsetOK
  <2> QED BY <2>1, <2>2, <2>4, <2>5, <2>6 DEF PollInv
<1>2. PollInv => NoCommandSkipped /\ AnsweredOncePerLife
  BY DEF PollInv
<1> QED BY <1>1, <1>2, PollStep, PTL DEF BotPollingSpec

(* -------------------------------- backups ------------------------------- *)

BackupRows == [id : BackupIds \ {0}, minute : Minutes, st : {"RUNNING", "OK", "FAILED"}, at : Nat]
Databases == [data : 0..Mixed, rows : SUBSET BackupRows]
AnyMinute == {0} \union Minutes
BackupWorks ==
  [at : {"idle", "row", "dump", "finish", "restore"}, running : BOOLEAN, restoring : BOOLEAN, id : 0..MaxBackups,
   minute : AnyMinute, target : BackupIds, path : AnyMinute, safety : AnyMinute]

\* A minute c has passed, or, while work w has still to write its dump, one before its own.
Used(m, w, c) == IF w.at \in {"row", "dump"} THEN m < w.minute ELSE m < c

(***************************************************************************)
(* Row r, in the database or in a dump, with work w under way, files f, n  *)
(* backups made and t the data they were made of.  A row names a backup    *)
(* that was made or a file that was imported, its minute was never given   *)
(* out again, and when it says OK its file is the dump of that data.       *)
(***************************************************************************)
RowGood(r, w, f, t, n, c) ==
  /\ r.id \in 1..n \/ (r.id > MaxBackups /\ r.minute = r.id - MaxBackups)
  /\ IF w.at = "dump" /\ r.id = w.id THEN r.minute = w.minute /\ r.st # "OK" ELSE Used(r.minute, w, c)
  /\ w.at = "finish" /\ r.id = w.id => r.minute = w.minute
  /\ r.st = "OK" /\ f[r.minute] # NoDump => f[r.minute].data = t[r.id]

\* The files: none for a minute that was not given out; each holds rows of no later
\* minute; and an imported one is what its import saw.
FileGood(m, w, f, t, n, c) ==
  /\ f[m] # NoDump => Used(m, w, c)
  /\ \A r \in f[m].rows : RowGood(r, w, f, t, n, c) /\ r.minute <= m
  /\ t[MaxBackups + m] # -1 => Used(m, w, c) /\ (f[m] # NoDump => f[m].data = t[MaxBackups + m])

\* The work under way, and the backup it is to restore.
WorkGood(w, f, t, n, c) ==
  /\ w.at \in {"row", "dump", "finish"} => w.minute \in Minutes /\ w.minute < c /\ (w.target # 0 => w.path < w.minute)
  /\ w.at = "row" => n < MaxBackups /\ w.target \notin (n + 1)..MaxBackups
  /\ w.at \in {"dump", "finish"} => w.id \in 1..n /\ w.id # w.target
  /\ w.at = "finish" => (f[w.minute] # NoDump => f[w.minute].data = t[w.id])
  /\ w.at = "restore" => w.target # 0 /\ w.safety \in Minutes /\ w.path < w.safety
  /\ w.at # "idle" /\ w.target # 0 =>
       /\ w.path \in Minutes /\ (w.target > MaxBackups => w.path = w.target - MaxBackups)
       /\ f[w.path] # NoDump => f[w.path].data = t[w.target]

\* A restore that is over gave the data of its backup.
RestoredGood(x, t) == x.id # 0 => x.id \in BackupIds /\ x.data = t[x.id] /\ x.data # -1

BackupTypes(w) ==
  /\ db \in Databases /\ file \in [Minutes -> {NoDump} \union Databases] /\ w \in BackupWorks
  /\ clock \in Nat \ {0} /\ made \in 0..MaxBackups /\ taken \in [BackupIds -> -1..Mixed]
  /\ restored \in [id : BackupIds, safety : -1..Mixed, data : -1..Mixed]

BackupInv(p) ==
  /\ BackupTypes(proc[p]) /\ proc = [q \in {p} |-> proc[p]]
  /\ \A r \in db.rows : RowGood(r, proc[p], file, taken, made, clock)
  /\ \A m \in Minutes : FileGood(m, proc[p], file, taken, made, clock)
  /\ WorkGood(proc[p], file, taken, made, clock)
  /\ proc[p].at # "idle" => restored = NoRestore
  /\ RestoredGood(restored, taken) /\ RestoreCanBeUndone

\* The constants, and the values the records start from.
LEMMA BackupNumbers ==
  /\ MaxBackups \in Nat /\ LastBackupMinute \in Nat /\ MaxData \in Nat /\ Mixed \in Nat /\ Minutes \subseteq Nat \ {0}
  /\ BackupIds = 0..(MaxBackups + LastBackupMinute) /\ Minutes = 1..LastBackupMinute
  BY BackupsAssumption DEF Mixed, Minutes, BackupIds

\* No dump, no restore, a process at rest.
LEMMA BackupRecords ==
  /\ NoDump.data = -1 /\ NoDump.rows = {}
  /\ NoRestore.id = 0 /\ NoRestore.safety = -1 /\ NoRestore \in [id : BackupIds, safety : -1..Mixed, data : -1..Mixed]
  /\ IdleProc \in BackupWorks /\ IdleProc.at = "idle"
  BY BackupNumbers DEF NoDump, NoRestore, IdleProc, BackupWorks, AnyMinute

\* What a file holds: nothing, or a database.
LEMMA FileTypes ==
  ASSUME NEW f \in [Minutes -> {NoDump} \union Databases], NEW m \in Minutes
  PROVE /\ f[m].rows \subseteq BackupRows /\ f[m].data \in -1..Mixed
        /\ f[m] # NoDump => f[m] \in Databases /\ f[m].data \in 0..Mixed
        /\ f[m].data # -1 => f[m] # NoDump
  <1>1. \A x \in Databases : x.data \in 0..Mixed /\ x.rows \subseteq BackupRows /\ x.data # -1
    BY BackupNumbers DEF Databases
  <1>2. f[m] = NoDump \/ f[m] \in Databases
    OBVIOUS
  <1> HIDE DEF Databases
  <1> QED BY <1>1, <1>2, BackupRecords, BackupNumbers

\* The columns of a row.
LEMMA RowTypes ==
  ASSUME NEW r \in BackupRows
  PROVE r.id \in BackupIds /\ r.id \in Nat \ {0} /\ r.minute \in Minutes /\ r.minute \in Nat /\ r.st \in {"RUNNING", "OK", "FAILED"}
  BY BackupNumbers DEF BackupRows

\* The fields of the work of a process.
LEMMA WorkTypes ==
  ASSUME NEW w \in BackupWorks
  PROVE /\ w.at \in {"idle", "row", "dump", "finish", "restore"} /\ w.id \in 0..MaxBackups /\ w.id \in Nat
        /\ w.minute \in AnyMinute /\ w.target \in BackupIds /\ w.path \in AnyMinute /\ w.safety \in AnyMinute
        /\ w.minute \in Nat /\ w.path \in Nat /\ w.safety \in Nat /\ w.target \in Nat
  BY BackupNumbers DEF BackupWorks, AnyMinute

\* Files that were deleted, and data recorded for files that were imported.
Shrunk(f, g) == \A m \in Minutes : g[m] = f[m] \/ g[m] = NoDump
Imports(t, u, f) == \A i \in BackupIds :
  u[i] = t[i] \/ (i - MaxBackups \in Minutes /\ f[i - MaxBackups] # NoDump /\ u[i] = f[i - MaxBackups].data)

\* A row that says the same, or no longer OK, is as good.
LEMMA SameRow ==
  ASSUME NEW r, NEW q, NEW w, NEW f, NEW t, NEW n, NEW c, RowGood(r, w, f, t, n, c),
         q.id = r.id, q.minute = r.minute, q.st = r.st \/ q.st # "OK"
  PROVE  RowGood(q, w, f, t, n, c)
  BY DEF RowGood

\* The states between which most steps move: work goes on or ends, files are
\* deleted or imported, time passes.
Moves(w, v, f, g, t, u, n, c, d) ==
  /\ w \in BackupWorks /\ v \in BackupWorks /\ (v = w \/ v.at \in {"idle", "restore"})
  /\ f \in [Minutes -> {NoDump} \union Databases] /\ g \in [Minutes -> {NoDump} \union Databases] /\ Shrunk(f, g)
  /\ t \in [BackupIds -> -1..Mixed] /\ u \in [BackupIds -> -1..Mixed] /\ Imports(t, u, f)
  /\ n \in 0..MaxBackups /\ c \in Nat /\ d \in Nat /\ c <= d /\ WorkGood(w, f, t, n, c)

\* A minute that was used stays used.
LEMMA UsedKept ==
  ASSUME NEW w, NEW v, NEW f, NEW g, NEW t, NEW u, NEW n, NEW c, NEW d, Moves(w, v, f, g, t, u, n, c, d),
         NEW m \in Nat, Used(m, w, c)
  PROVE  Used(m, v, d)
  <1>1. w \in BackupWorks /\ v \in BackupWorks /\ (v = w \/ v.at \in {"idle", "restore"}) /\ c \in Nat /\ d \in Nat /\ c <= d
    BY DEF Moves
  <1>2. w.minute \in Nat /\ (w.at \in {"row", "dump"} => w.minute < c)
    BY <1>1, WorkTypes DEF Moves, WorkGood
  <1>3. CASE v = w
    BY <1>1, <1>3 DEF Used
  <1>4. CASE v.at \in {"idle", "restore"}
    BY <1>1, <1>2, <1>4 DEF Used
  <1> QED BY <1>1, <1>3, <1>4

\* A good row stays good.
LEMMA RowKept ==
  ASSUME NEW w, NEW v, NEW f, NEW g, NEW t, NEW u, NEW n, NEW c, NEW d, Moves(w, v, f, g, t, u, n, c, d),
         NEW r \in BackupRows, RowGood(r, w, f, t, n, c)
  PROVE  RowGood(r, v, g, u, n, d)
  <1>1. /\ w \in BackupWorks /\ v \in BackupWorks /\ (v = w \/ v.at \in {"idle", "restore"})
        /\ n \in 0..MaxBackups /\ c \in Nat /\ d \in Nat /\ c <= d
    BY DEF Moves
  <1>2. r.id \in BackupIds /\ r.minute \in Minutes /\ r.minute \in Nat /\ r.id \in Nat
    BY RowTypes
  <1>3. r.id \in 1..n \/ (r.id > MaxBackups /\ r.minute = r.id - MaxBackups)
    BY DEF RowGood
  <1>4. IF v.at = "dump" /\ r.id = v.id THEN r.minute = v.minute /\ r.st # "OK" ELSE Used(r.minute, v, d)
    <2>1. CASE v = w
      <3>1. CASE w.at = "dump" /\ r.id = w.id
        BY <2>1, <3>1 DEF RowGood
      <3>2. CASE ~(w.at = "dump" /\ r.id = w.id)
        BY <2>1, <3>2, <1>2, UsedKept DEF RowGood
      <3> QED BY <3>1, <3>2
    <2>2. CASE v.at \in {"idle", "restore"}
      <3>1. CASE w.at = "dump" /\ r.id = w.id
        <4>1. r.minute = w.minute /\ w.minute < c
          BY <3>1 DEF RowGood, Moves, WorkGood
        <4> QED BY <2>2, <4>1, <1>1, <1>2 DEF Used
      <3>2. CASE ~(w.at = "dump" /\ r.id = w.id)
        BY <2>2, <3>2, <1>2, UsedKept DEF RowGood
      <3> QED BY <3>1, <3>2
    <2> QED BY <1>1, <2>1, <2>2
  <1>5. v.at = "finish" /\ r.id = v.id => r.minute = v.minute
    BY <1>1 DEF RowGood
  <1>6. ASSUME r.st = "OK", g[r.minute] # NoDump PROVE g[r.minute].data = u[r.id]
    <2>1. g[r.minute] = f[r.minute] /\ f[r.minute].data = t[r.id]
      BY <1>2, <1>6 DEF RowGood, Moves, Shrunk
    <2>2. u[r.id] = t[r.id] \/ (r.id - MaxBackups \in Minutes /\ u[r.id] = f[r.id - MaxBackups].data)
      BY <1>2 DEF Moves, Imports
    <2>3. r.id - MaxBackups \in Minutes => r.minute = r.id - MaxBackups
      BY <1>1, <1>2, <1>3, BackupNumbers
    <2> QED BY <2>1, <2>2, <2>3
  <1> QED BY <1>3, <1>4, <1>5, <1>6 DEF RowGood

\* A good file stays good.
LEMMA FileKept ==
  ASSUME NEW w, NEW v, NEW f, NEW g, NEW t, NEW u, NEW n, NEW c, NEW d, Moves(w, v, f, g, t, u, n, c, d),
         NEW m \in Minutes, FileGood(m, w, f, t, n, c)
  PROVE  FileGood(m, v, g, u, n, d)
  <1>0. m \in Nat /\ MaxBackups + m \in BackupIds /\ (MaxBackups + m) - MaxBackups = m
    BY BackupNumbers
  <1>1. g[m] = f[m] \/ g[m] = NoDump
    BY DEF Moves, Shrunk
  <1>2. g[m] # NoDump => Used(m, v, d)
    BY <1>0, <1>1, UsedKept DEF FileGood
  <1>3. ASSUME NEW r \in g[m].rows PROVE RowGood(r, v, g, u, n, d) /\ r.minute <= m
    <2>1. r \in f[m].rows
      BY <1>1, <1>3, BackupRecords
    <2>2. r \in BackupRows
      BY <2>1, FileTypes DEF Moves
    <2> QED BY <2>1, <2>2, RowKept DEF FileGood
  <1>4. ASSUME u[MaxBackups + m] # -1 PROVE Used(m, v, d) /\ (g[m] # NoDump => g[m].data = u[MaxBackups + m])
    <2>1. u[MaxBackups + m] = t[MaxBackups + m] \/ (f[m] # NoDump /\ u[MaxBackups + m] = f[m].data)
      BY <1>0 DEF Moves, Imports
    <2>2. Used(m, w, c)
      BY <1>4, <2>1 DEF FileGood
    <2>3. g[m] # NoDump => g[m].data = u[MaxBackups + m]
      BY <1>1, <1>4, <2>1 DEF FileGood
    <2> QED BY <1>0, <2>2, <2>3, UsedKept
  <1> QED BY <1>2, <1>3, <1>4 DEF FileGood

\* Work that goes on stays in order.
LEMMA WorkKept ==
  ASSUME NEW w, NEW f, NEW g, NEW t, NEW u, NEW n, NEW c, NEW d, Moves(w, w, f, g, t, u, n, c, d)
  PROVE  WorkGood(w, g, u, n, d)
  <1>1. w \in BackupWorks /\ n \in 0..MaxBackups /\ c \in Nat /\ d \in Nat /\ c <= d /\ WorkGood(w, f, t, n, c)
    BY DEF Moves
  <1>2. /\ w.minute \in Nat /\ w.target \in BackupIds /\ w.id \in 0..MaxBackups /\ w.target \in Nat /\ w.id \in BackupIds
        /\ w.at \in {"idle", "row", "dump", "finish", "restore"}
    BY <1>1, WorkTypes, BackupNumbers
  <1>3. ASSUME w.at = "finish", g[w.minute] # NoDump PROVE g[w.minute].data = u[w.id]
    <2>1. w.minute \in Minutes /\ g[w.minute] = f[w.minute] /\ f[w.minute].data = t[w.id]
      BY <1>1, <1>3 DEF Moves, Shrunk, WorkGood
    <2>2. u[w.id] = t[w.id]
      BY <1>2, BackupNumbers DEF Moves, Imports
    <2> QED BY <2>1, <2>2
  <1>4. ASSUME w.at # "idle", w.target # 0, g[w.path] # NoDump PROVE g[w.path].data = u[w.target]
    <2>1. w.path \in Minutes /\ (w.target > MaxBackups => w.path = w.target - MaxBackups) /\ (f[w.path] # NoDump => f[w.path].data = t[w.target])
      BY <1>1, <1>4 DEF WorkGood
    <2>2. g[w.path] = f[w.path]
      BY <2>1, <1>4 DEF Moves, Shrunk
    <2>3. u[w.target] = t[w.target] \/ (w.target - MaxBackups \in Minutes /\ u[w.target] = f[w.target - MaxBackups].data)
      BY <1>2 DEF Moves, Imports
    <2>4. w.target - MaxBackups \in Minutes => w.path = w.target - MaxBackups
      BY <1>2, <2>1, BackupNumbers
    <2> QED BY <1>4, <2>1, <2>2, <2>3, <2>4
  <1> QED BY <1>1, <1>2, <1>3, <1>4 DEF WorkGood

\* What a finished restore gave back is still what its backup was made of.
LEMMA RestoredKept ==
  ASSUME NEW w, NEW v, NEW f, NEW g, NEW t, NEW u, NEW n, NEW c, NEW d, Moves(w, v, f, g, t, u, n, c, d),
         \A m \in Minutes : FileGood(m, w, f, t, n, c), NEW x, RestoredGood(x, t)
  PROVE  RestoredGood(x, u)
  <1> SUFFICES ASSUME x.id # 0 PROVE x.id \in BackupIds /\ x.data = u[x.id] /\ x.data # -1
    BY DEF RestoredGood
  <1>1. x.id \in BackupIds /\ x.data = t[x.id] /\ x.data # -1
    BY DEF RestoredGood
  <1>2. CASE u[x.id] = t[x.id]
    BY <1>1, <1>2
  <1>3. CASE x.id - MaxBackups \in Minutes /\ f[x.id - MaxBackups] # NoDump /\ u[x.id] = f[x.id - MaxBackups].data
    <2>1. MaxBackups + (x.id - MaxBackups) = x.id
      BY <1>1, BackupNumbers
    <2>2. FileGood(x.id - MaxBackups, w, f, t, n, c)
      BY <1>3
    <2> QED BY <1>1, <1>3, <2>1, <2>2 DEF FileGood
  <1> QED BY <1>1, <1>2, <1>3 DEF Moves, Imports

\* The invariant of the next state, from its parts.
LEMMA BackupStates ==
  ASSUME NEW p, NEW v \in BackupWorks, proc' = [q \in {p} |-> v],
         db' \in Databases, file' \in [Minutes -> {NoDump} \union Databases], clock' \in Nat \ {0}, made' \in 0..MaxBackups,
         taken' \in [BackupIds -> -1..Mixed], restored' \in [id : BackupIds, safety : -1..Mixed, data : -1..Mixed],
         \A r \in db'.rows : RowGood(r, v, file', taken', made', clock'),
         \A m \in Minutes : FileGood(m, v, file', taken', made', clock'),
         WorkGood(v, file', taken', made', clock'), v.at # "idle" => restored' = NoRestore,
         RestoredGood(restored', taken'), RestoreCanBeUndone'
  PROVE  BackupInv(p)'
  <1>1. proc'[p] = v
    OBVIOUS
  <1>2. BackupTypes(proc[p])'
    BY <1>1 DEF BackupTypes
  <1> QED BY <1>1, <1>2 DEF BackupInv

\* Nothing was restored lately, so that there is nothing to give back.
LEMMA NothingRestored ==
  ASSUME NEW t PROVE RestoredGood(NoRestore, t) /\ (restored' = NoRestore => RestoreCanBeUndone')
  BY BackupRecords DEF RestoredGood, RestoreCanBeUndone

(***************************************************************************)
(* A step in which the work goes on, ends or turns to restoring, and files *)
(* are deleted or imported, keeps the invariant when the rows it leaves    *)
(* are good.                                                               *)
(***************************************************************************)
LEMMA BackupMoves ==
  ASSUME NEW p, BackupInv(p), NEW v, proc' = [q \in {p} |-> v],
         Moves(proc[p], v, file, file', taken, taken', made, clock, clock'), made' = made, db' \in Databases,
         \A r \in db'.rows : RowGood(r, proc[p], file, taken, made, clock) \/ RowGood(r, v, file', taken', made, clock'),
         v = proc[p] \/ WorkGood(v, file', taken', made, clock'), v.at # "idle" => restored' = NoRestore,
         restored' \in [id : BackupIds, safety : -1..Mixed, data : -1..Mixed], RestoredGood(restored', taken), RestoreCanBeUndone'
  PROVE  BackupInv(p)'
  <1>1. /\ v \in BackupWorks /\ file' \in [Minutes -> {NoDump} \union Databases] /\ taken' \in [BackupIds -> -1..Mixed]
        /\ made \in 0..MaxBackups /\ clock' \in Nat /\ clock \in Nat /\ clock <= clock' /\ db'.rows \subseteq BackupRows
    BY DEF Moves, Databases
  <1>2. clock' \in Nat \ {0}
    BY <1>1 DEF BackupInv, BackupTypes
  <1>3. \A r \in db'.rows : RowGood(r, v, file', taken', made, clock')
    BY <1>1, RowKept
  <1>4. \A m \in Minutes : FileGood(m, v, file', taken', made, clock')
    BY FileKept DEF BackupInv
  <1>5. WorkGood(v, file', taken', made, clock')
    BY WorkKept
  <1>6. RestoredGood(restored', taken')
    BY RestoredKept DEF BackupInv
  <1> HIDE DEF Databases
  <1> QED BY <1>1, <1>2, <1>3, <1>4, <1>5, <1>6, BackupStates

\* What the invariant says of the state and the process.
LEMMA BackupState ==
  ASSUME NEW p, BackupInv(p)
  PROVE  /\ db \in Databases /\ db.rows \subseteq BackupRows /\ db.data \in 0..Mixed
         /\ file \in [Minutes -> {NoDump} \union Databases] /\ proc[p] \in BackupWorks /\ proc = [q \in {p} |-> proc[p]]
         /\ clock \in Nat \ {0} /\ made \in 0..MaxBackups /\ taken \in [BackupIds -> -1..Mixed]
         /\ restored \in [id : BackupIds, safety : -1..Mixed, data : -1..Mixed]
         /\ \A r \in db.rows : RowGood(r, proc[p], file, taken, made, clock)
         /\ \A m \in Minutes : FileGood(m, proc[p], file, taken, made, clock)
         /\ WorkGood(proc[p], file, taken, made, clock) /\ (proc[p].at # "idle" => restored = NoRestore)
         /\ RestoredGood(restored, taken) /\ RestoreCanBeUndone
  BY DEF BackupInv, BackupTypes, Databases

\* Moves when neither backups are imported nor time passes.
LEMMA QuietMoves ==
  ASSUME NEW p, BackupInv(p), NEW v \in BackupWorks, v = proc[p] \/ v.at \in {"idle", "restore"},
         file' \in [Minutes -> {NoDump} \union Databases], Shrunk(file, file'), taken' = taken, clock' = clock
  PROVE  Moves(proc[p], v, file, file', taken, taken', made, clock, clock')
  <1>1. Imports(taken, taken', file)
    BY DEF Imports
  <1>2. clock \in Nat /\ clock' \in Nat /\ clock <= clock'
    BY DEF BackupInv, BackupTypes
  <1> HIDE DEF Databases
  <1> QED BY <1>1, <1>2, BackupState DEF Moves

\* Files as they are, or without one of them.
LEMMA OneFileLess ==
  ASSUME NEW f \in [Minutes -> {NoDump} \union Databases], NEW m
  PROVE  /\ Shrunk(f, f) /\ Shrunk(f, [f EXCEPT ![m] = NoDump])
         /\ [f EXCEPT ![m] = NoDump] \in [Minutes -> {NoDump} \union Databases]
  <1> HIDE DEF Databases
  <1> QED BY DEF Shrunk

\* Work that is over.
LEMMA WorkOver ==
  ASSUME NEW v, v.at = "idle", NEW f, NEW t, NEW n, NEW c PROVE WorkGood(v, f, t, n, c)
  BY DEF WorkGood

\* A database whose rows change.
LEMMA NewRows ==
  ASSUME NEW d \in Databases, NEW R \in SUBSET BackupRows PROVE [d EXCEPT !.rows = R] \in Databases /\ [d EXCEPT !.rows = R].rows = R
  BY DEF Databases

\* A row whose status changes.
LEMMA NewStatus ==
  ASSUME NEW r \in BackupRows, NEW st \in {"RUNNING", "OK", "FAILED"}
  PROVE  LET q == [r EXCEPT !.st = st] IN q \in BackupRows /\ q.id = r.id /\ q.minute = r.minute /\ q.st = st
  BY DEF BackupRows

\* runBackup's row cannot be created: the process gives up.
LEMMA CreateFails ==
  ASSUME NEW p, BackupInv(p), proc[p].at = "row", proc' = [proc EXCEPT ![p].at = "idle", ![p].id = 0, ![p].minute = 0],
         UNCHANGED <<db, made, file, clock, taken, restored>>
  PROVE  BackupInv(p)'
  <1> DEFINE v == [proc[p] EXCEPT !.at = "idle", !.id = 0, !.minute = 0]
  <1>1. v \in BackupWorks /\ v.at = "idle"
    <2>1. proc[p] \in BackupWorks /\ 0 \in 0..MaxBackups /\ 0 \in AnyMinute
      BY BackupNumbers DEF AnyMinute, BackupInv, BackupTypes
    <2> HIDE DEF AnyMinute
    <2> QED BY <2>1 DEF BackupWorks
  <1>2. proc' = [q \in {p} |-> v]
    BY BackupState
  <1> HIDE DEF v
  <1>3. Moves(proc[p], v, file, file', taken, taken', made, clock, clock')
    BY <1>1, BackupState, OneFileLess, QuietMoves
  <1>4. RestoreCanBeUndone'
    BY BackupState DEF RestoreCanBeUndone, OkRows
  <1>5. WorkGood(v, file', taken', made, clock')
    BY <1>1, WorkOver
  <1> QED BY <1>1, <1>2, <1>3, <1>4, <1>5, BackupState, BackupMoves

\* The catch block of runBackup.
LEMMA BackupFailsStep ==
  ASSUME NEW p, BackupInv(p), proc[p].at \in {"dump", "finish"}, backupFails(p)
  PROVE  BackupInv(p)'
  <1>1. proc' = [q \in {p} |-> IdleProc] /\ IdleProc \in BackupWorks /\ IdleProc.at = "idle"
    BY BackupState, BackupRecords DEF backupFails
  <1>2. Moves(proc[p], IdleProc, file, file', taken, taken', made, clock, clock')
    BY <1>1, BackupState, OneFileLess, QuietMoves DEF backupFails
  <1> DEFINE R == SetStatus(db.rows, proc[p].id, "FAILED")
  <1>3. ASSUME NEW r \in R PROVE r \in BackupRows /\ RowGood(r, proc[p], file, taken, made, clock)
    <2>1. PICK q \in db.rows : r = IF q.id = proc[p].id THEN [q EXCEPT !.st = "FAILED"] ELSE q
      BY <1>3 DEF SetStatus
    <2>2. q \in BackupRows /\ RowGood(q, proc[p], file, taken, made, clock)
      BY BackupState
    <2>3. CASE q.id = proc[p].id
      <3>1. r = [q EXCEPT !.st = "FAILED"]
        BY <2>1, <2>3
      <3>2. r \in BackupRows /\ r.id = q.id /\ r.minute = q.minute /\ r.st = "FAILED"
        BY <2>2, <3>1, NewStatus
      <3> QED BY <2>2, <3>2, SameRow
    <2> QED BY <2>1, <2>2, <2>3
  <1>4. db' \in Databases /\ db'.rows = R
    <2>1. R \in SUBSET BackupRows /\ db' = [db EXCEPT !.rows = R]
      BY <1>3 DEF backupFails
    <2> HIDE DEF R
    <2> QED BY <2>1, BackupState, NewRows
  <1> HIDE DEF R
  <1>5. restored' = NoRestore /\ made' = made
    BY BackupState DEF backupFails
  <1> QED BY <1>1, <1>2, <1>3, <1>4, <1>5, NothingRestored, BackupRecords, WorkOver, BackupMoves

\* A file that no row named gets a row that is good.
LEMMA ImportedRow ==
  ASSUME NEW w, NEW v, NEW f, NEW t, NEW u, NEW n, NEW c, Moves(w, v, f, f, t, u, n, c, c),
         NEW m \in Minutes, FileGood(m, w, f, t, n, c), f[m] # NoDump, u[MaxBackups + m] = f[m].data
  PROVE  LET r == [id |-> MaxBackups + m, minute |-> m, st |-> "OK", at |-> m] IN r \in BackupRows /\ RowGood(r, v, f, u, n, c)
  <1> DEFINE r == [id |-> MaxBackups + m, minute |-> m, st |-> "OK", at |-> m]
  <1>1. r \in BackupRows /\ r.id = MaxBackups + m /\ r.minute = m
    BY BackupNumbers DEF BackupRows
  <1> HIDE DEF r
  <1>2. m \in Nat /\ m > 0 /\ MaxBackups \in Nat /\ r.id > MaxBackups /\ r.minute = r.id - MaxBackups
    BY <1>1, BackupNumbers
  <1>3. v \in BackupWorks /\ v.id \in 0..MaxBackups /\ r.id # v.id
    BY <1>1, <1>2, WorkTypes DEF Moves
  <1>4. Used(m, v, c)
    BY <1>2, UsedKept DEF FileGood
  <1>5. RowGood(r, v, f, u, n, c)
    BY <1>1, <1>2, <1>3, <1>4 DEF RowGood
  <1> QED BY <1>1, <1>5 DEF r

\* The rows after reindexBackups, and what the imported backups are made of.
LEMMA Reindexed ==
  ASSUME NEW p, BackupInv(p), NEW v \in BackupWorks, v = proc[p] \/ v.at = "idle", NEW R \in SUBSET BackupRows, UNCHANGED <<file, clock, made>>,
         taken' = [i \in BackupIds |-> IF i - MaxBackups \in Unlisted(R) THEN file[i - MaxBackups].data ELSE taken[i]]
  PROVE  /\ Moves(proc[p], v, file, file', taken, taken', made, clock, clock')
         /\ reindexBackups(R) \in SUBSET BackupRows
         /\ \A r \in reindexBackups(R) : r \in R \/ RowGood(r, v, file', taken', made, clock')
  <1>0. /\ file \in [Minutes -> {NoDump} \union Databases] /\ proc[p] \in BackupWorks /\ clock \in Nat /\ made \in 0..MaxBackups
        /\ taken \in [BackupIds -> -1..Mixed] /\ WorkGood(proc[p], file, taken, made, clock)
        /\ \A m \in Minutes : FileGood(m, proc[p], file, taken, made, clock)
    BY DEF BackupInv, BackupTypes
  <1>1. \A m \in Minutes : file[m].data \in -1..Mixed
    BY <1>0, FileTypes
  <1>2. Unlisted(R) \subseteq Minutes /\ \A m \in Unlisted(R) : file[m] # NoDump
    BY DEF Unlisted
  <1>3. taken' \in [BackupIds -> -1..Mixed]
    BY <1>0, <1>1, <1>2
  <1>4. Imports(taken, taken', file) /\ Shrunk(file, file) /\ clock <= clock
    BY <1>0, <1>2 DEF Imports, Shrunk
  <1> HIDE DEF Databases
  <1>5. Moves(proc[p], v, file, file, taken, taken', made, clock, clock)
    BY <1>0, <1>3, <1>4 DEF Moves
  <1>6. ASSUME NEW m \in Unlisted(R)
        PROVE  LET r == [id |-> MaxBackups + m, minute |-> m, st |-> "OK", at |-> m] IN r \in BackupRows /\ RowGood(r, v, file, taken', made, clock)
    <2>1. m \in Minutes /\ file[m] # NoDump /\ FileGood(m, proc[p], file, taken, made, clock)
      BY <1>0, <1>2
    <2>2. MaxBackups + m \in BackupIds /\ (MaxBackups + m) - MaxBackups = m
      BY <2>1, BackupNumbers
    <2>3. taken'[MaxBackups + m] = file[m].data
      BY <2>2
    <2> QED BY <1>5, <2>1, <2>3, ImportedRow
  <1>7. reindexBackups(R) \in SUBSET BackupRows
    BY <1>6 DEF reindexBackups
  <1>8. \A r \in reindexBackups(R) : r \in R \/ RowGood(r, v, file, taken', made, clock)
    BY <1>6 DEF reindexBackups
  <1> QED BY <1>5, <1>7, <1>8

\* reindexBackups, on the worker's schedule.
LEMMA ReindexStep ==
  ASSUME NEW p, BackupInv(p), reindex PROVE BackupInv(p)'
  <1>1. db.rows \in SUBSET BackupRows /\ db \in Databases /\ proc[p] \in BackupWorks /\ proc = [q \in {p} |-> proc[p]]
    BY BackupState
  <1>2. /\ UNCHANGED <<file, clock, made, proc, restored>>
        /\ taken' = [i \in BackupIds |-> IF i - MaxBackups \in Unlisted(db.rows) THEN file[i - MaxBackups].data ELSE taken[i]]
        /\ db' = [db EXCEPT !.rows = reindexBackups(db.rows)]
    BY DEF reindex
  <1>3. /\ Moves(proc[p], proc[p], file, file', taken, taken', made, clock, clock') /\ reindexBackups(db.rows) \in SUBSET BackupRows
        /\ \A r \in reindexBackups(db.rows) : r \in db.rows \/ RowGood(r, proc[p], file', taken', made, clock')
    BY <1>1, <1>2, Reindexed
  <1>4. db' \in Databases /\ db'.rows = reindexBackups(db.rows)
    BY <1>1, <1>2, <1>3, NewRows
  <1>5. db.rows \subseteq db'.rows
    BY <1>4 DEF reindexBackups
  <1>6. RestoreCanBeUndone'
    BY <1>2, <1>5, BackupState DEF RestoreCanBeUndone, OkRows
  <1>7. \A r \in db'.rows : RowGood(r, proc[p], file, taken, made, clock) \/ RowGood(r, proc[p], file', taken', made, clock')
    BY <1>3, <1>4, BackupState
  <1>8. /\ restored' \in [id : BackupIds, safety : -1..Mixed, data : -1..Mixed] /\ RestoredGood(restored', taken)
        /\ (proc[p].at # "idle" => restored' = NoRestore) /\ proc' = [q \in {p} |-> proc[p]] /\ made' = made
    BY <1>1, <1>2, BackupState
  <1> QED BY <1>3, <1>4, <1>6, <1>7, <1>8, BackupMoves

\* A backup deleted on the page.
LEMMA DeleteStep ==
  ASSUME NEW p, BackupInv(p), NEW i, deleteBackup(i) PROVE BackupInv(p)'
  <1>1. db.rows \in SUBSET BackupRows /\ db \in Databases /\ proc[p] \in BackupWorks /\ proc = [q \in {p} |-> proc[p]]
    BY BackupState
  <1>2. {r \in db.rows : r.id # i} \in SUBSET BackupRows /\ db' = [db EXCEPT !.rows = {r \in db.rows : r.id # i}]
    BY <1>1 DEF deleteBackup
  <1>3. db' \in Databases /\ db'.rows \subseteq db.rows
    BY <1>1, <1>2, NewRows
  <1>4. Moves(proc[p], proc[p], file, file', taken, taken', made, clock, clock')
    BY <1>1, BackupState, OneFileLess, QuietMoves DEF deleteBackup
  <1>5. restored' = NoRestore /\ made' = made /\ proc' = [q \in {p} |-> proc[p]]
    BY <1>1 DEF deleteBackup
  <1>6. \A r \in db'.rows : RowGood(r, proc[p], file, taken, made, clock)
    BY <1>3, BackupState
  <1> QED BY <1>3, <1>4, <1>5, <1>6, NothingRestored, BackupRecords, BackupMoves

\* The worker's housekeeping.
LEMMA CleanupStep ==
  ASSUME NEW p, BackupInv(p), cleanupBackups PROVE BackupInv(p)'
  <1> DEFINE Z == {IF Stale(r) THEN [r EXCEPT !.st = "FAILED"] ELSE r : r \in db.rows}
             R == {r \in Z : r.st = "OK" => file[r.minute] # NoDump}
  <1>1. db.rows \in SUBSET BackupRows /\ db \in Databases /\ proc[p] \in BackupWorks /\ proc = [q \in {p} |-> proc[p]]
    BY BackupState
  <1>2. ASSUME NEW r \in R PROVE r \in BackupRows /\ RowGood(r, proc[p], file, taken, made, clock)
    <2>1. PICK q \in db.rows : r = IF Stale(q) THEN [q EXCEPT !.st = "FAILED"] ELSE q
      OBVIOUS
    <2>2. q \in BackupRows /\ RowGood(q, proc[p], file, taken, made, clock)
      BY BackupState
    <2>3. CASE Stale(q)
      <3>1. r = [q EXCEPT !.st = "FAILED"]
        BY <2>1, <2>3
      <3>2. r \in BackupRows /\ r.id = q.id /\ r.minute = q.minute /\ r.st = "FAILED"
        BY <2>2, <3>1, NewStatus
      <3> QED BY <2>2, <3>2, SameRow
    <2> QED BY <2>1, <2>2, <2>3
  <1>3. \A r \in OkRows : file[r.minute] # NoDump => r \in R
    BY DEF OkRows, Stale
  <1>4. /\ R \in SUBSET BackupRows /\ db' = [db EXCEPT !.rows = R] /\ UNCHANGED <<file, proc, clock, made, taken, restored>>
    BY <1>2 DEF cleanupBackups
  <1> HIDE DEF Z, R
  <1>5. db' \in Databases /\ db'.rows = R
    BY <1>1, <1>4, NewRows
  <1>6. Moves(proc[p], proc[p], file, file', taken, taken', made, clock, clock')
    BY <1>1, <1>4, BackupState, OneFileLess, QuietMoves
  <1>7. RestoreCanBeUndone'
    <2> SUFFICES ASSUME restored.safety # -1
                 PROVE  \E m \in Minutes : file[m].data = restored.safety /\ (restored.id # 0 => \E r \in R : r.st = "OK" /\ r.minute = m)
      BY <1>4, <1>5 DEF RestoreCanBeUndone, OkRows
    <2>1. PICK m \in Minutes : file[m].data = restored.safety /\ (restored.id # 0 => \E r \in OkRows : r.minute = m)
      BY BackupState DEF RestoreCanBeUndone
    <2>2. file[m] # NoDump
      BY <2>1, BackupRecords
    <2> QED BY <1>3, <2>1, <2>2 DEF OkRows
  <1>8. /\ restored' \in [id : BackupIds, safety : -1..Mixed, data : -1..Mixed] /\ RestoredGood(restored', taken)
        /\ (proc[p].at # "idle" => restored' = NoRestore) /\ proc' = [q \in {p} |-> proc[p]] /\ made' = made
    BY <1>1, <1>4, BackupState
  <1> QED BY <1>2, <1>5, <1>6, <1>7, <1>8, BackupMoves

\* The data changes, or time passes.
LEMMA WorldSteps ==
  ASSUME NEW p, BackupInv(p), dataChanges \/ backupMinutePasses PROVE BackupInv(p)'
  <1>1. /\ db.rows \in SUBSET BackupRows /\ db \in Databases /\ proc[p] \in BackupWorks /\ proc = [q \in {p} |-> proc[p]]
        /\ file \in [Minutes -> {NoDump} \union Databases] /\ clock \in Nat
    BY BackupState
  <1>2. CASE dataChanges
    <2>1. db' \in Databases /\ db'.rows = db.rows
      BY <1>1, <1>2, BackupNumbers DEF dataChanges, Databases, Mixed
    <2>2. Moves(proc[p], proc[p], file, file', taken, taken', made, clock, clock')
      BY <1>1, <1>2, OneFileLess, QuietMoves DEF dataChanges
    <2>3. restored' = NoRestore /\ made' = made /\ proc' = [q \in {p} |-> proc[p]]
      BY <1>1, <1>2 DEF dataChanges
    <2>4. \A r \in db'.rows : RowGood(r, proc[p], file, taken, made, clock)
      BY <2>1, BackupState
    <2> QED BY <2>1, <2>2, <2>3, <2>4, NothingRestored, BackupRecords, BackupMoves
  <1>3. CASE backupMinutePasses
    <2>1. UNCHANGED <<db, file, proc, made, taken, restored>> /\ clock' \in Nat /\ clock <= clock'
      BY <1>1, <1>3 DEF backupMinutePasses
    <2>2. Imports(taken, taken', file) /\ Shrunk(file, file')
      BY <1>1, <2>1 DEF Imports, Shrunk
    <2> HIDE DEF Databases
    <2>3. Moves(proc[p], proc[p], file, file', taken, taken', made, clock, clock')
      BY <1>1, <2>1, <2>2, BackupState DEF Moves
    <2>4. RestoreCanBeUndone'
      BY <2>1, BackupState DEF RestoreCanBeUndone, OkRows
    <2>5. /\ restored' \in [id : BackupIds, safety : -1..Mixed, data : -1..Mixed] /\ RestoredGood(restored', taken)
          /\ (proc[p].at # "idle" => restored' = NoRestore) /\ proc' = [q \in {p} |-> proc[p]] /\ made' = made /\ db' \in Databases
      BY <1>1, <2>1, BackupState
    <2>6. \A r \in db'.rows : RowGood(r, proc[p], file, taken, made, clock)
      BY <2>1, BackupState
    <2> QED BY <2>3, <2>4, <2>5, <2>6, BackupMoves
  <1> QED BY <1>2, <1>3

\* psql puts a dump back, or breaks off half way.
LEMMA RestoreStep ==
  ASSUME NEW p, BackupInv(p), psqlRestore(p) PROVE BackupInv(p)'
  <1> DEFINE w == proc[p]
             dump == file[w.path]
  <1>0. /\ db \in Databases /\ w \in BackupWorks /\ proc = [q \in {p} |-> w] /\ file \in [Minutes -> {NoDump} \union Databases]
        /\ clock \in Nat /\ taken \in [BackupIds -> -1..Mixed] /\ \A m \in Minutes : FileGood(m, w, file, taken, made, clock)
        /\ WorkGood(w, file, taken, made, clock)
    BY BackupState
  <1>1. /\ w.at = "restore" /\ proc' = [q \in {p} |-> IdleProc] /\ file' = file /\ clock' = clock /\ made' = made
        /\ IdleProc \in BackupWorks /\ IdleProc.at = "idle"
    BY <1>0, BackupRecords DEF psqlRestore
  <1>2. /\ w.target # 0 /\ w.target \in BackupIds /\ w.safety \in Minutes /\ w.path \in Minutes /\ w.path < w.safety
        /\ w.path \in Nat /\ w.safety \in Nat /\ (dump # NoDump => dump.data = taken[w.target])
    BY <1>0, <1>1, WorkTypes DEF WorkGood
  <1>3. /\ dump.rows \in SUBSET BackupRows /\ (dump # NoDump => dump.data \in 0..Mixed) /\ dump.data \in -1..Mixed
        /\ file[w.safety].data \in -1..Mixed /\ (file[w.safety].data # -1 => file[w.safety] # NoDump)
    BY <1>0, <1>2, FileTypes
  <1>4. \A r \in dump.rows : RowGood(r, w, file, taken, made, clock) /\ r.minute <= w.path
    BY <1>0, <1>2 DEF FileGood
  <1> HIDE DEF w, dump
  <1>5. WorkGood(IdleProc, file', taken', made, clock')
    BY <1>1, WorkOver
  <1>6. CASE dump # NoDump /\ restored'.id # 0
    <2>1. /\ db' = [data |-> dump.data, rows |-> reindexBackups(dump.rows)]
          /\ taken' = [i \in BackupIds |-> IF i - MaxBackups \in Unlisted(dump.rows) THEN file[i - MaxBackups].data ELSE taken[i]]
          /\ restored' = [id |-> w.target, safety |-> file[w.safety].data, data |-> dump.data]
      BY <1>0, <1>1, <1>6, BackupState, BackupRecords DEF psqlRestore, w, dump
    <2>2. /\ Moves(w, IdleProc, file, file', taken, taken', made, clock, clock') /\ reindexBackups(dump.rows) \in SUBSET BackupRows
          /\ \A r \in reindexBackups(dump.rows) : r \in dump.rows \/ RowGood(r, IdleProc, file', taken', made, clock')
      BY <1>1, <1>3, <2>1, Reindexed DEF w
    <2>3. db' \in Databases /\ db'.rows = reindexBackups(dump.rows)
      BY <1>3, <1>6, <2>1, <2>2 DEF Databases
    <2>4. \A r \in db'.rows : RowGood(r, w, file, taken, made, clock) \/ RowGood(r, IdleProc, file', taken', made, clock')
      BY <1>4, <2>2, <2>3
    <2>5. /\ restored' \in [id : BackupIds, safety : -1..Mixed, data : -1..Mixed] /\ restored'.safety = file[w.safety].data
          /\ restored'.id = w.target /\ restored'.data = dump.data
      BY <1>2, <1>3, <2>1
    <2>6. RestoredGood(restored', taken)
      BY <1>2, <1>3, <1>6, <2>5, BackupNumbers DEF RestoredGood
    <2>7. RestoreCanBeUndone'
      <3> SUFFICES ASSUME file[w.safety].data # -1
                   PROVE  \E r \in db'.rows : r.st = "OK" /\ r.minute = w.safety
        BY <1>1, <1>2, <2>5 DEF RestoreCanBeUndone, OkRows
      <3>1. w.safety \in Unlisted(dump.rows)
        <4>1. ASSUME NEW r \in dump.rows PROVE r.minute # w.safety
          <5>1. r.minute \in Nat /\ r.minute <= w.path
            BY <1>3, <1>4, <4>1, RowTypes
          <5> QED BY <1>2, <5>1
        <4> QED BY <1>2, <1>3, <4>1 DEF Unlisted
      <3>2. [id |-> MaxBackups + w.safety, minute |-> w.safety, st |-> "OK", at |-> w.safety] \in db'.rows
        BY <2>3, <3>1 DEF reindexBackups
      <3> QED BY <3>2
    <2> QED BY <1>0, <1>1, <1>5, <2>2, <2>3, <2>4, <2>5, <2>6, <2>7, BackupMoves DEF w
  <1>7. CASE ~(dump # NoDump /\ restored'.id # 0)
    <2>1. /\ taken' = taken
          /\ \/ db' = [data |-> Mixed, rows |-> {}] /\ restored' = [NoRestore EXCEPT !.safety = file[w.safety].data]
             \/ db' = db /\ restored' = NoRestore
      BY <1>0, <1>1, <1>2, <1>7, BackupState DEF psqlRestore, w, dump
    <2>2. Moves(w, IdleProc, file, file', taken, taken', made, clock, clock')
      BY <1>0, <1>1, <2>1, OneFileLess, QuietMoves DEF w
    <2>3. db' \in Databases /\ \A r \in db'.rows : RowGood(r, w, file, taken, made, clock)
      <3>1. [data |-> Mixed, rows |-> {}] \in Databases /\ [data |-> Mixed, rows |-> {}].rows = {}
        BY BackupNumbers DEF Databases
      <3>2. db \in Databases /\ \A r \in db.rows : RowGood(r, w, file, taken, made, clock)
        BY BackupState DEF w
      <3> QED BY <2>1, <3>1, <3>2
    <2>4. CASE restored' = NoRestore
      BY <1>0, <1>1, <1>5, <2>2, <2>3, <2>4, NothingRestored, BackupRecords, BackupMoves DEF w
    <2>5. CASE restored' = [NoRestore EXCEPT !.safety = file[w.safety].data]
      <3>1. /\ restored' \in [id : BackupIds, safety : -1..Mixed, data : -1..Mixed] /\ restored'.id = 0
            /\ restored'.safety = file[w.safety].data
        BY <1>3, <2>5, BackupNumbers DEF NoRestore
      <3>2. RestoredGood(restored', taken) /\ RestoreCanBeUndone'
        BY <1>1, <1>2, <3>1 DEF RestoredGood, RestoreCanBeUndone
      <3> QED BY <1>0, <1>1, <1>5, <2>2, <2>3, <3>1, <3>2, BackupMoves DEF w
    <2> QED BY <2>1, <2>4, <2>5
  <1> QED BY <1>6, <1>7

\* The dump is written: the row says OK, retention deletes old backups, and a
\* safety backup is followed by its restore.
LEMMA FinishStep ==
  ASSUME NEW p, BackupInv(p), finishBackup(p) PROVE BackupInv(p)'
  <1> DEFINE w == proc[p]
             R == SetStatus(db.rows, w.id, "OK")
             E == Expired(R, {w.id, w.target})
             v == IF w.target = 0 THEN IdleProc
                  ELSE [IdleProc EXCEPT !.at = "restore", !.restoring = TRUE, !.target = w.target, !.path = w.path, !.safety = w.minute]
  <1>0. /\ db \in Databases /\ w \in BackupWorks /\ proc = [q \in {p} |-> w] /\ file \in [Minutes -> {NoDump} \union Databases]
        /\ clock \in Nat /\ taken \in [BackupIds -> -1..Mixed] /\ WorkGood(w, file, taken, made, clock)
    BY BackupState
  <1>1. w.at = "finish" /\ restored = NoRestore
    BY BackupState DEF finishBackup
  <1>2. /\ w.minute \in Minutes /\ w.target \in BackupIds /\ w.path \in AnyMinute
        /\ (w.target # 0 => w.path < w.minute /\ w.path \in Minutes /\ (w.target > MaxBackups => w.path = w.target - MaxBackups)
                            /\ (file[w.path] # NoDump => file[w.path].data = taken[w.target]))
        /\ (file[w.minute] # NoDump => file[w.minute].data = taken[w.id])
    BY <1>0, <1>1, WorkTypes DEF WorkGood
  <1>3. CASE backupFails(p)
    BY <1>1, <1>3, BackupFailsStep
  <1>4. CASE ~Known(w.id) /\ file' = [file EXCEPT ![w.minute] = NoDump] /\ proc' = [proc EXCEPT ![p] = IdleProc]
             /\ UNCHANGED <<db, clock, made, faults, taken, restored>>
    <2>1. proc' = [q \in {p} |-> IdleProc] /\ IdleProc \in BackupWorks /\ IdleProc.at = "idle"
      BY <1>0, <1>4, BackupRecords
    <2>2. Moves(w, IdleProc, file, file', taken, taken', made, clock, clock')
      BY <1>0, <1>4, <2>1, OneFileLess, QuietMoves
    <2>3. db' \in Databases /\ made' = made /\ restored' = NoRestore /\ \A r \in db'.rows : RowGood(r, w, file, taken, made, clock)
      BY <1>1, <1>4, BackupState
    <2> QED BY <2>1, <2>2, <2>3, NothingRestored, BackupRecords, WorkOver, BackupMoves
  <1>5. CASE /\ db' = [db EXCEPT !.rows = R \ E]
             /\ file' = [m \in Minutes |-> IF m \in {r.minute : r \in E} THEN NoDump ELSE file[m]]
             /\ proc' = [proc EXCEPT ![p] = v] /\ UNCHANGED <<clock, made, faults, taken, restored>>
    <2>1. ASSUME NEW r \in R PROVE r \in BackupRows /\ RowGood(r, w, file, taken, made, clock)
      <3>1. PICK q \in db.rows : r = IF q.id = w.id THEN [q EXCEPT !.st = "OK"] ELSE q
        BY DEF SetStatus
      <3>2. q \in BackupRows /\ RowGood(q, w, file, taken, made, clock)
        BY BackupState
      <3>3. CASE q.id = w.id
        <4>1. r = [q EXCEPT !.st = "OK"]
          BY <3>1, <3>3
        <4>2. r \in BackupRows /\ r.id = w.id /\ r.minute = q.minute
          BY <3>2, <3>3, <4>1, NewStatus
        <4> QED BY <1>1, <1>2, <3>2, <3>3, <4>2 DEF RowGood
      <3> QED BY <3>1, <3>2, <3>3
    <2>2. /\ v \in BackupWorks /\ v.at \in {"idle", "restore"} /\ (w.target = 0 => v.at = "idle")
          /\ (w.target # 0 => v.at = "restore" /\ v.target = w.target /\ v.path = w.path /\ v.safety = w.minute)
      <3>1. CASE w.target = 0
        BY <3>1, BackupRecords
      <3>2. CASE w.target # 0
        <4>1. w.minute \in AnyMinute /\ w.path \in AnyMinute /\ 0 \in AnyMinute /\ 0 \in 0..MaxBackups
          BY <1>2, BackupNumbers DEF AnyMinute
        <4> HIDE DEF AnyMinute, w
        <4> QED BY <1>2, <3>2, <4>1, BackupNumbers DEF BackupWorks, IdleProc
      <3> QED BY <3>1, <3>2
    <2>3. proc' = [q \in {p} |-> v] /\ restored' = NoRestore /\ made' = made /\ clock' = clock /\ taken' = taken
      BY <1>0, <1>1, <1>5
    <2> HIDE DEF v, R, E
    <2>4. file' \in [Minutes -> {NoDump} \union Databases] /\ Shrunk(file, file')
      <3> HIDE DEF Databases
      <3> QED BY <1>0, <1>5 DEF Shrunk
    <2>5. Moves(w, v, file, file', taken, taken', made, clock, clock')
      BY <1>0, <2>2, <2>3, <2>4, QuietMoves
    <2>6. db' \in Databases /\ db'.rows \subseteq R
      <3>1. R \ E \in SUBSET BackupRows
        BY <2>1
      <3> QED BY <1>0, <1>5, <3>1, NewRows
    <2>7. WorkGood(v, file', taken', made, clock')
      <3>1. CASE w.target = 0
        BY <2>2, <3>1, WorkOver
      <3>2. CASE w.target # 0
        <4>1. file'[w.path] # NoDump => file'[w.path].data = taken'[w.target]
          BY <1>2, <2>3, <2>4, <3>2 DEF Shrunk
        <4> QED BY <1>2, <2>2, <3>2, <4>1 DEF WorkGood
      <3> QED BY <3>1, <3>2
    <2> QED BY <2>1, <2>3, <2>5, <2>6, <2>7, NothingRestored, BackupRecords, BackupMoves
  <1> QED BY <1>3, <1>4, <1>5 DEF finishBackup, applyRetention

\* A backup starts: its minute is used up before its file is written.
LEMMA StartStep ==
  ASSUME NEW p, BackupInv(p), ~SameMinute, proc[p].at = "idle", NEW i \in BackupIds, NEW path \in AnyMinute, runBackup(p, i, path),
         i # 0 => \E r \in db.rows : r.id = i /\ r.minute = path /\ r.st = "OK"
  PROVE  BackupInv(p)'
  <1> DEFINE w == proc[p]
             v == [IdleProc EXCEPT !.at = "row", !.running = TRUE, !.minute = clock, !.target = i, !.path = path]
  <1>0. /\ db \in Databases /\ db.rows \subseteq BackupRows /\ proc = [q \in {p} |-> w] /\ file \in [Minutes -> {NoDump} \union Databases]
        /\ clock \in Nat \ {0} /\ made \in 0..MaxBackups /\ taken \in [BackupIds -> -1..Mixed]
        /\ \A r \in db.rows : RowGood(r, w, file, taken, made, clock)
        /\ \A m \in Minutes : FileGood(m, w, file, taken, made, clock)
    BY BackupState
  <1>1. /\ made < MaxBackups /\ clock < LastBackupMinute /\ clock' = clock + 1 /\ UNCHANGED <<db, file, made, taken>>
        /\ proc' = [q \in {p} |-> v] /\ restored' = NoRestore
    BY <1>0 DEF runBackup
  <1>2. clock \in Minutes /\ clock \in Nat /\ clock' \in Nat \ {0} /\ clock < clock' /\ i \in Nat /\ MaxBackups \in Nat
    BY <1>0, <1>1, BackupNumbers
  <1>3. v \in BackupWorks /\ v.at = "row" /\ v.minute = clock /\ v.target = i /\ v.path = path
    <2>1. clock \in AnyMinute /\ path \in AnyMinute /\ 0 \in AnyMinute /\ 0 \in 0..MaxBackups
      BY <1>2 DEF AnyMinute
    <2> HIDE DEF AnyMinute
    <2> QED BY <2>1 DEF BackupWorks, IdleProc
  <1>4. w.at = "idle" /\ w.at # "finish" /\ w.at # "dump"
    OBVIOUS
  <1> HIDE DEF w, v
  <1>5. \A m : Used(m, w, clock) => Used(m, v, clock')
    BY <1>3, <1>4 DEF Used
  <1>6. \A r : RowGood(r, w, file, taken, made, clock) => RowGood(r, v, file, taken, made, clock')
    BY <1>3, <1>4, <1>5 DEF RowGood
  <1>7. \A m \in Minutes : FileGood(m, v, file, taken, made, clock')
    BY <1>0, <1>5, <1>6 DEF FileGood
  <1>8. WorkGood(v, file, taken, made, clock')
    <2>1. CASE i = 0
      BY <1>0, <1>1, <1>2, <1>3, <2>1 DEF WorkGood
    <2>2. CASE i # 0
      <3>1. PICK r \in db.rows : r.id = i /\ r.minute = path /\ r.st = "OK"
        BY <2>2
      <3>2. RowGood(r, w, file, taken, made, clock) /\ path \in Minutes /\ path \in Nat
        BY <1>0, <3>1, RowTypes
      <3>3. /\ i \in 1..made \/ (i > MaxBackups /\ path = i - MaxBackups)
            /\ path < clock /\ (file[path] # NoDump => file[path].data = taken[i])
        BY <1>4, <3>1, <3>2 DEF RowGood, Used
      <3>4. i \notin (made + 1)..MaxBackups /\ (i > MaxBackups => path = i - MaxBackups)
        BY <1>0, <1>2, <3>3
      <3> QED BY <1>1, <1>2, <1>3, <3>2, <3>3, <3>4 DEF WorkGood
    <2> QED BY <2>1, <2>2
  <1> QED BY <1>0, <1>1, <1>2, <1>3, <1>6, <1>7, <1>8, NothingRestored, BackupRecords, BackupStates

\* Its row is created, with an id no row or dump has.
LEMMA CreateStep ==
  ASSUME NEW p, BackupInv(p), proc[p].at = "row", made' = made + 1, proc' = [proc EXCEPT ![p].at = "dump", ![p].id = made + 1],
         db' = [db EXCEPT !.rows = @ \union {[id |-> made + 1, minute |-> proc[p].minute, st |-> "RUNNING", at |-> clock]}],
         UNCHANGED <<file, clock, taken, restored>>
  PROVE  BackupInv(p)'
  <1> DEFINE w == proc[p]
             v == [w EXCEPT !.at = "dump", !.id = made + 1]
             new == [id |-> made + 1, minute |-> w.minute, st |-> "RUNNING", at |-> clock]
  <1>0. /\ db \in Databases /\ db.rows \subseteq BackupRows /\ w \in BackupWorks /\ proc = [q \in {p} |-> w]
        /\ file \in [Minutes -> {NoDump} \union Databases]
        /\ clock \in Nat \ {0} /\ made \in 0..MaxBackups /\ taken \in [BackupIds -> -1..Mixed]
        /\ \A r \in db.rows : RowGood(r, w, file, taken, made, clock)
        /\ \A m \in Minutes : FileGood(m, w, file, taken, made, clock)
        /\ WorkGood(w, file, taken, made, clock) /\ restored = NoRestore
    BY BackupState
  <1>1. /\ w.minute \in Minutes /\ w.minute < clock /\ (w.target # 0 => w.path < w.minute) /\ made < MaxBackups
        /\ w.target \notin (made + 1)..MaxBackups /\ w.at = "row"
        /\ w.target # 0 => /\ w.path \in Minutes /\ (w.target > MaxBackups => w.path = w.target - MaxBackups)
                           /\ file[w.path] # NoDump => file[w.path].data = taken[w.target]
    BY <1>0 DEF WorkGood
  <1>2. made + 1 \in 1..MaxBackups /\ made + 1 \in BackupIds \ {0} /\ made + 1 \in 0..MaxBackups /\ w.target # made + 1 /\ w.target \in Nat
    BY <1>0, <1>1, BackupNumbers, WorkTypes
  <1>3. /\ v \in BackupWorks /\ v.at = "dump" /\ v.id = made + 1 /\ v.minute = w.minute /\ v.target = w.target /\ v.path = w.path
        /\ proc' = [q \in {p} |-> v]
    <2>1. v \in BackupWorks /\ v.at = "dump" /\ v.id = made + 1 /\ v.minute = w.minute /\ v.target = w.target /\ v.path = w.path
      BY <1>0, <1>2 DEF BackupWorks
    <2> QED BY <1>0, <2>1
  <1>4. new \in BackupRows /\ new.id = made + 1 /\ new.minute = w.minute /\ new.st = "RUNNING"
    BY <1>0, <1>1, <1>2 DEF BackupRows
  <1>5. db' = [db EXCEPT !.rows = db.rows \union {new}]
    OBVIOUS
  <1> HIDE DEF w, v, new
  <1>6. db' \in Databases /\ db'.rows = db.rows \union {new}
    <2> DEFINE S == db.rows \union {new}
    <2>1. db \in Databases /\ S \in SUBSET BackupRows /\ db' = [db EXCEPT !.rows = S]
      BY <1>0, <1>4, <1>5
    <2> HIDE DEF S
    <2>2. db' \in Databases /\ db'.rows = S
      BY ONLY <2>1, NewRows
    <2> QED BY <2>2 DEF S
  <1>7. \A m : Used(m, w, clock) <=> Used(m, v, clock)
    BY <1>1, <1>3 DEF Used
  <1>8. ASSUME NEW r, RowGood(r, w, file, taken, made, clock) PROVE RowGood(r, v, file, taken, made + 1, clock)
    <2>1. r.id \in 1..made \/ (r.id > MaxBackups /\ r.minute = r.id - MaxBackups)
      BY <1>8 DEF RowGood
    <2>2. r.id # made + 1 /\ (r.id \in 1..(made + 1) \/ (r.id > MaxBackups /\ r.minute = r.id - MaxBackups))
      BY <1>0, <1>1, <2>1, BackupNumbers
    <2> QED BY <1>1, <1>3, <1>7, <1>8, <2>2 DEF RowGood
  <1>9. RowGood(new, v, file, taken, made + 1, clock)
    BY <1>0, <1>2, <1>3, <1>4 DEF RowGood
  <1>10. \A m \in Minutes : FileGood(m, v, file, taken, made + 1, clock)
    BY <1>0, <1>7, <1>8 DEF FileGood
  <1>11. WorkGood(v, file, taken, made + 1, clock)
    BY <1>0, <1>1, <1>2, <1>3 DEF WorkGood
  <1> QED BY <1>0, <1>2, <1>3, <1>6, <1>8, <1>9, <1>10, <1>11, NothingRestored, BackupRecords, BackupStates

\* pg_dump writes the database, its own row included, under the minute of the backup.
LEMMA DumpStep ==
  ASSUME NEW p, BackupInv(p), proc[p].at = "dump", file' = [file EXCEPT ![proc[p].minute] = db],
         taken' = [taken EXCEPT ![proc[p].id] = db.data], proc' = [proc EXCEPT ![p].at = "finish"], UNCHANGED <<db, clock, made, restored>>
  PROVE  BackupInv(p)'
  <1> DEFINE w == proc[p]
             v == [w EXCEPT !.at = "finish"]
  <1>0. /\ db \in Databases /\ db.rows \subseteq BackupRows /\ db.data \in 0..Mixed /\ w \in BackupWorks /\ proc = [q \in {p} |-> w]
        /\ file \in [Minutes -> {NoDump} \union Databases]
        /\ clock \in Nat \ {0} /\ made \in 0..MaxBackups /\ taken \in [BackupIds -> -1..Mixed]
        /\ \A r \in db.rows : RowGood(r, w, file, taken, made, clock)
        /\ \A m \in Minutes : FileGood(m, w, file, taken, made, clock)
        /\ WorkGood(w, file, taken, made, clock) /\ restored = NoRestore
    BY BackupState
  <1>1. /\ w.minute \in Minutes /\ w.minute < clock /\ (w.target # 0 => w.path < w.minute) /\ w.id \in 1..made /\ w.id # w.target
        /\ w.at = "dump"
        /\ w.target # 0 => /\ w.path \in Minutes /\ (w.target > MaxBackups => w.path = w.target - MaxBackups)
                           /\ file[w.path] # NoDump => file[w.path].data = taken[w.target]
    BY <1>0 DEF WorkGood
  <1>2. w.minute \in Nat /\ w.path \in Nat /\ clock \in Nat /\ w.id \in BackupIds /\ w.id \in 1..MaxBackups /\ MaxBackups \in Nat /\ w.target \in BackupIds
    BY <1>0, <1>1, BackupNumbers, WorkTypes
  <1>3. /\ v \in BackupWorks /\ v.at = "finish" /\ v.id = w.id /\ v.minute = w.minute /\ v.target = w.target /\ v.path = w.path
        /\ proc' = [q \in {p} |-> v]
    <2>1. v \in BackupWorks /\ v.at = "finish" /\ v.id = w.id /\ v.minute = w.minute /\ v.target = w.target /\ v.path = w.path
      BY <1>0 DEF BackupWorks
    <2> QED BY <1>0, <2>1
  <1> HIDE DEF w, v
  <1>4. /\ file' \in [Minutes -> {NoDump} \union Databases] /\ file'[w.minute] = db
        /\ \A m \in Minutes : m # w.minute => file'[m] = file[m]
    <2> HIDE DEF Databases
    <2> QED BY <1>0, <1>1 DEF w
  <1>5. taken' \in [BackupIds -> -1..Mixed] /\ taken'[w.id] = db.data /\ \A i \in BackupIds : i # w.id => taken'[i] = taken[i]
    <2>1. db.data \in -1..Mixed
      BY <1>0, BackupNumbers
    <2> QED BY <1>0, <1>2, <2>1 DEF w
  <1>6. \A m : Used(m, w, clock) <=> m < w.minute
    BY <1>1 DEF Used
  <1>7. \A m : Used(m, v, clock) <=> m < clock
    BY <1>3 DEF Used
  <1>8. ASSUME NEW r \in BackupRows, RowGood(r, w, file, taken, made, clock)
        PROVE  RowGood(r, v, file', taken', made, clock) /\ r.minute <= w.minute
    <2>0. r.minute \in Minutes /\ r.minute \in Nat /\ r.id \in BackupIds
      BY RowTypes
    <2>1. CASE r.id = w.id
      <3>1. r.minute = w.minute /\ r.st # "OK" /\ r.minute < clock
        BY <1>1, <1>8, <2>1 DEF RowGood
      <3> QED BY <1>2, <1>3, <1>7, <1>8, <2>1, <3>1 DEF RowGood
    <2>2. CASE r.id # w.id
      <3>1. r.minute < w.minute
        BY <1>6, <1>8, <2>2 DEF RowGood
      <3>2. r.minute < clock /\ file'[r.minute] = file[r.minute] /\ taken'[r.id] = taken[r.id]
        BY <1>1, <1>2, <1>4, <1>5, <2>0, <2>2, <3>1
      <3> QED BY <1>2, <1>3, <1>7, <1>8, <2>0, <2>2, <3>1, <3>2 DEF RowGood
    <2> QED BY <2>1, <2>2
  <1>9. ASSUME NEW m \in Minutes PROVE FileGood(m, v, file', taken', made, clock)
    <2>0. m \in Nat /\ MaxBackups + m \in BackupIds /\ MaxBackups + m # w.id
      BY <1>2, BackupNumbers
    <2>1. FileGood(m, w, file, taken, made, clock) /\ taken'[MaxBackups + m] = taken[MaxBackups + m]
      BY <1>0, <1>5, <2>0
    <2>2. taken[MaxBackups + m] # -1 => m < w.minute /\ (file[m] # NoDump => file[m].data = taken[MaxBackups + m])
      BY <1>6, <2>1 DEF FileGood
    <2>3. m < w.minute => file'[m] = file[m] /\ m < clock
      BY <1>1, <1>2, <1>4, <2>0
    <2>4. file'[m] # NoDump => m < clock
      BY <1>1, <1>2, <1>4, <1>6, <2>0, <2>1, <2>3 DEF FileGood
    <2>5. ASSUME NEW r \in file'[m].rows PROVE RowGood(r, v, file', taken', made, clock) /\ r.minute <= m
      <3>1. CASE m = w.minute
        BY <1>0, <1>4, <1>8, <2>5, <3>1
      <3>2. CASE m # w.minute
        <4>1. r \in file[m].rows /\ r \in BackupRows
          BY <1>0, <1>4, <2>5, <3>2, FileTypes
        <4>2. RowGood(r, w, file, taken, made, clock) /\ r.minute <= m
          BY <2>1, <4>1 DEF FileGood
        <4> QED BY <1>8, <4>1, <4>2
      <3> QED BY <3>1, <3>2
    <2> QED BY <1>7, <2>1, <2>2, <2>3, <2>4, <2>5 DEF FileGood
  <1>10. WorkGood(v, file', taken', made, clock)
    <2>1. w.target # 0 => file'[w.path] = file[w.path] /\ taken'[w.target] = taken[w.target]
      BY <1>1, <1>2, <1>4, <1>5
    <2> QED BY <1>0, <1>1, <1>3, <1>4, <1>5, <2>1 DEF WorkGood
  <1> QED BY <1>0, <1>3, <1>4, <1>5, <1>8, <1>9, <1>10, NothingRestored, BackupRecords, BackupStates

\* What was not begun is good.
LEMMA BackupsBegin ==
  ASSUME NEW p, BackupProcs = {p}, BackupsInit PROVE BackupInv(p)
  <1>1. /\ db \in Databases /\ db.rows = {} /\ proc[p] = IdleProc /\ proc = [q \in {p} |-> proc[p]]
        /\ clock \in Nat \ {0} /\ made \in 0..MaxBackups /\ restored = NoRestore
    BY BackupNumbers DEF BackupsInit, Databases
  <1>2. file \in [Minutes -> {NoDump} \union Databases] /\ \A m \in Minutes : file[m] = NoDump
    BY DEF BackupsInit
  <1>3. taken \in [BackupIds -> -1..Mixed] /\ \A i \in BackupIds : taken[i] = -1
    BY BackupNumbers DEF BackupsInit
  <1>4. \A m \in Minutes : FileGood(m, IdleProc, file, taken, made, clock)
    <2> SUFFICES ASSUME NEW m \in Minutes PROVE FileGood(m, IdleProc, file, taken, made, clock)
      OBVIOUS
    <2>1. MaxBackups + m \in BackupIds
      BY BackupNumbers
    <2> QED BY <1>2, <1>3, <2>1, BackupRecords DEF FileGood
  <1>5. BackupTypes(proc[p])
    BY <1>1, <1>2, <1>3, BackupRecords DEF BackupTypes
  <1>6. RestoredGood(restored, taken) /\ RestoreCanBeUndone
    BY <1>1, BackupRecords DEF RestoredGood, RestoreCanBeUndone
  <1> HIDE DEF Databases
  <1> QED BY <1>1, <1>4, <1>5, <1>6, BackupRecords, WorkOver DEF BackupInv

\* Every step keeps the invariant.
LEMMA BackupsStep ==
  ASSUME NEW p, BackupProcs = {p}, ~SameMinute, BackupInv(p), [BackupsNext]_backupVars PROVE BackupInv(p)'
  <1>0. AnyMinute = {0} \union Minutes /\ 0 \in BackupIds /\ 0 \in AnyMinute
    BY BackupNumbers DEF AnyMinute
  <1>1. CASE startBackup(p)
    BY <1>0, <1>1, StartStep DEF startBackup
  <1>2. CASE createRow(p)
    BY <1>2, CreateStep, CreateFails DEF createRow
  <1>3. CASE pgDumpToGzip(p)
    BY <1>3, DumpStep, BackupFailsStep DEF pgDumpToGzip
  <1>4. ASSUME NEW i \in BackupIds, restoreBackup(p, i) PROVE BackupInv(p)'
    <2>1. /\ Row(i) \in db.rows /\ Row(i).id = i /\ Row(i).st = "OK" /\ proc[p].at = "idle" /\ runBackup(p, i, Row(i).minute)
      BY <1>4 DEF restoreBackup, Known, Row
    <2>2. Row(i).minute \in AnyMinute
      BY <1>0, <2>1, BackupState, RowTypes
    <2> QED BY <2>1, <2>2, StartStep
  <1>5. CASE UNCHANGED backupVars
    <2>1. UNCHANGED <<db, file, proc, clock, made, taken, restored>>
      BY <1>5 DEF backupVars
    <2> QED BY <2>1 DEF BackupInv, BackupTypes, RestoreCanBeUndone, OkRows
  <1> QED BY <1>1, <1>2, <1>3, <1>4, <1>5, FinishStep, RestoreStep, DeleteStep, CleanupStep, ReindexStep, WorldSteps DEF BackupsNext

(***************************************************************************)
(* When one process makes the backups and no two fall into one minute: a   *)
(* restore gives the data its backup was made of, what it replaced can be  *)
(* had again from a listed backup, and no backup of the list is written    *)
(* over, through retention, deletions, housekeeping, imports, failing      *)
(* dumps and restores that break off.                                      *)
(***************************************************************************)
THEOREM BackupsAreSound == \A p : BackupProcs = {p} /\ ~SameMinute => (BackupsSpec => []BackupsSound)
<1> SUFFICES ASSUME NEW p, BackupProcs = {p}, ~SameMinute PROVE BackupsSpec => []BackupsSound
  OBVIOUS
<1>1. BackupsInit => BackupInv(p)
  BY BackupsBegin
<1>2. BackupInv(p) /\ [BackupsNext]_backupVars => BackupInv(p)'
  BY BackupsStep
<1>3. BackupInv(p) => BackupsSound
  <2> SUFFICES ASSUME BackupInv(p) PROVE BackupsSound
    OBVIOUS
  <2>1. BackupsTypeOK
    <3>1. \A r \in db.rows : r.id \in BackupIds /\ r.minute \in Minutes /\ r.st \in {"RUNNING", "OK", "FAILED"}
      BY BackupState, RowTypes
    <3>2. proc[p].at \in {"idle", "row", "dump", "finish", "restore"}
      BY BackupState, WorkTypes
    <3>3. \A m \in Minutes : file[m].data \in -1..Mixed
      BY BackupState, FileTypes
    <3> QED BY <3>1, <3>2, <3>3 DEF BackupsTypeOK
  <2>2. RestoreGivesChosenData /\ RestoreCanBeUndone
    BY BackupState DEF RestoreGivesChosenData, RestoredGood
  <2>3. ListedBackupIsGood
    BY BackupState DEF ListedBackupIsGood, OkRows, RowGood
  <2> QED BY <2>1, <2>2, <2>3 DEF BackupsSound
<1> QED BY <1>1, <1>2, <1>3, PTL DEF BackupsSpec
=============================================================================
